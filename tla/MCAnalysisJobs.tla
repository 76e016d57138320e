--------------------------- MODULE MCAnalysisJobs ---------------------------
(* Instances of AnalysisJobs: two analyses of one user and one of another. *)
EXTENDS AnalysisJobs, TLC

MCOwner == [a \in Analyses |-> IF a = "a3" THEN "bob" ELSE "ann"]
\* a1 and a2 share the fingerprint f1, f2 occurs in a1 only.
MCContent == [a \in Analyses |-> IF a = "a1" THEN Fingerprints ELSE {"f1"}]
\* a1 has two groups, the other files no error lines.
MCQuiet == [a \in Analyses |-> IF a = "a1" THEN Fingerprints ELSE {}]
MCOne == [a \in Analyses |-> {"f1"}]
MCCount == [a \in Analyses |-> [f \in Fingerprints |-> IF f = "f1" THEN 2 ELSE 1]]
MCTies == [a \in Analyses |-> [f \in Fingerprints |-> 1]]
WorkerSymmetry == Permutations(Workers)
=============================================================================
