------------------------------ MODULE MCSystem -------------------------------
(* A page with a report request over the workers of one analysis.          *)
EXTENDS MCAnalysisJobs, System

MCPlans == {[visits |-> 1, clicks |-> Clicks,
             runs |-> [a \in Analyses |-> 0]]}
=============================================================================
