---------------------------- MODULE AnalysisBoard ---------------------------
(***************************************************************************)
(* What the analysis service promises the readers of its tables, with no   *)
(* workers, sessions or messages: statuses, groups and insights as a GET   *)
(* of an analysis returns them.  Everything a run of an analysis found     *)
(* appears in one step, the one that says "completed".  An analysis may be *)
(* started, published or failed more than once.                            *)
(***************************************************************************)
CONSTANTS Analyses, Owner, Content

VARIABLES
    status,   \* status of each analysis
    board,    \* groups on display
    advice    \* insights on display

boardVars == <<status, board, advice>>

RunGroups(a, r) == {[analysis |-> a, run |-> r, fp |-> f] : f \in Content[a]}

BoardInit ==
    /\ status = [a \in Analyses |-> "absent"]
    /\ board = {}
    /\ advice = {}

Submit(a) ==
    /\ status[a] = "absent"
    /\ status' = [status EXCEPT ![a] = "pending"]
    /\ UNCHANGED <<board, advice>>

Start(a) ==
    /\ status[a] # "absent"
    /\ status' = [status EXCEPT ![a] = "running"]
    /\ UNCHANGED <<board, advice>>

Fail(a) ==
    /\ status[a] # "absent"
    /\ status' = [status EXCEPT ![a] = "failed"]
    /\ UNCHANGED <<board, advice>>

\* i is the copy of an insight in S that the LLM wrote for the same user and
\* fingerprint, or that insight itself.
Grounded(i, S) ==
    \E o \in S : /\ ~o.cached
                 /\ o.group = i.payload /\ o.payload = i.payload
                 /\ o.user = i.user /\ o.fp = i.fp

\* The rows of one fresh run of a, and no other, go on display.
ShowRun(a) ==
    \/ Content[a] = {} /\ board' = board
    \/ \E r \in {g.run : g \in board'} :
          /\ RunGroups(a, r) \cap board = {}
          /\ board' = board \cup RunGroups(a, r)

\* New insights are for groups of a that had none.
ShowAdvice(a) ==
    /\ advice \subseteq advice'
    /\ \A i \in advice' \ advice :
          /\ i.group \in board' /\ i.group.analysis = a
          /\ i.fp = i.group.fp /\ i.user = Owner[a]
          /\ Grounded(i, advice')
          /\ \A j \in advice' : j.group = i.group => j = i

Publish(a) ==
    /\ status[a] # "absent"
    /\ status' = [status EXCEPT ![a] = "completed"]
    /\ ShowRun(a)
    /\ ShowAdvice(a)

BoardNext == \E a \in Analyses : Submit(a) \/ Start(a) \/ Fail(a) \/ Publish(a)

BoardSpec == BoardInit /\ [][BoardNext]_boardVars
=============================================================================
