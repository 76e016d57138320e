-------------------------- MODULE SimilarIncidents ---------------------------
(***************************************************************************)
(* The search for similar incidents of the past: each of the analysis' top *)
(* groups is looked up in the vector store, and the matches are merged.    *)
(* Scores are small numbers; equal ones come in any order.                 *)
(***************************************************************************)
EXTENDS Integers, Sequences, FiniteSets

CONSTANTS
    EXTRA,                  \* hits fetched beyond the limit
    SIMILARITY_THRESHOLD,
    Searches                \* what the store holds, and what is asked of it

\* A store holds finitely many points, each with a score for each top group.
ASSUME SearchAssumption ==
    /\ EXTRA \in Nat /\ SIMILARITY_THRESHOLD \in Int
    /\ \A s \in Searches : /\ IsFiniteSet(s.points) /\ s.limit \in Nat
                          /\ s.score \in Seq([s.points -> Int])

VARIABLES
    search,     \* the store's points, their scores for each top group, limit
    asking,     \* the top group that is looked up next
    items,      \* matches so far
    shown,      \* the answer
    searching

similarVars == <<search, asking, items, shown, searching>>

\* The best n of a set: none that is left out is better.
Best(S, n, score) ==
    {T \in SUBSET S :
        /\ Cardinality(T) = (IF Cardinality(S) < n THEN Cardinality(S) ELSE n)
        /\ \A x \in T, y \in S \ T : score[x] >= score[y]}

SimilarInit ==
    /\ search \in Searches
    /\ asking = 1
    /\ items = {} /\ shown = {}
    /\ searching = TRUE
-----------------------------------------------------------------------------
Score == search.score[asking]

MutFetched == \* Mutant: no hits to make up for the analysis' own.
    Best({p \in search.points : p.user = search.user}, search.limit, Score)

\* VectorStore.search, which filters by user.
Fetched == Best({p \in search.points : p.user = search.user},
               search.limit + EXTRA, Score)

\* find_similar for one of the top groups; a group that an earlier one matched
\* keeps its score.  The score is rounded for display, after the hits have been
\* chosen by it; what rounding makes equal, the stable sort of the merged list
\* leaves in the order of the top groups, and of their hits.
Match ==
    /\ searching /\ asking <= Len(search.score)
    /\ \E hits \in Fetched :
       \E results \in Best({p \in hits : p.analysis # search.analysis
                                         /\ Score[p] >= SIMILARITY_THRESHOLD},
                           search.limit, Score) :
          items' = items \union
              {[point |-> p, score |-> Score[p]] :
                  p \in {p \in results : \A i \in items : i.point # p}}
    /\ asking' = asking + 1
    /\ UNCHANGED <<search, shown, searching>>

ShowBest ==
    /\ searching /\ asking > Len(search.score)
    /\ shown' \in Best(items, search.limit, [i \in items |-> i.score])
    /\ searching' = FALSE
    /\ UNCHANGED <<search, asking, items>>

SimilarNext == Match \/ ShowBest

SimilarSpec == SimilarInit /\ [][SimilarNext]_similarVars
-----------------------------------------------------------------------------
(* Properties. *)

\* Types of all variables.
SimilarTypeOK ==
    /\ asking \in 1 .. Len(search.score) + 1
    /\ shown \subseteq items /\ searching \in BOOLEAN
    /\ \A i \in items : i.point \in search.points

\* Only the user's own past is shown, each of it once.  If the analysis' own
\* groups among the hits are not too many, what resembles one of its top groups
\* is shown, or the answer is full: for the first, which is looked up before a
\* lower score can be kept, with as many that are at least as similar.
PastIsFound ==
    ~searching =>
        /\ \A i \in shown : i.point.user = search.user
                            /\ i.point.analysis # search.analysis
        /\ \A i, j \in shown : i.point = j.point => i = j
        /\ Cardinality({p \in search.points : p.analysis = search.analysis})
              <= EXTRA =>
           \A t \in 1 .. Len(search.score), p \in search.points :
              LET s == search.score[t][p]
                  kept == {i \in shown : t = 1 => i.score >= s} IN
              p.user = search.user /\ p.analysis # search.analysis
                 /\ s >= SIMILARITY_THRESHOLD
              => \/ \E i \in shown : i.point = p
                 \/ Cardinality(kept) >= search.limit
=============================================================================
