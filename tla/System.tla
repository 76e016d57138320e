------------------------------- MODULE System --------------------------------
(***************************************************************************)
(* The whole path of a result: workers as in AnalysisJobs, and over their  *)
(* tables the pages and report requests of AnalysisPage.  The two share    *)
(* nothing but the committed rows, which pages only read.                  *)
(***************************************************************************)
EXTENDS AnalysisJobs

CONSTANTS Clicks, Plans, PageLimit, Absent  \* see AnalysisPage

VARIABLES plan, visit, poll, aside, view, reports, click

\* What a statement of an endpoint reads are the committed rows.
Page == INSTANCE AnalysisPage_proofs
            WITH status <- [a \in Analyses |-> row[a].status],
                 board <- groups, advice <- insights

\* Everything a page does; what its module says of the workers is left out.
Browse ==
    \/ \E a \in Analyses : Page!Visit(a)
    \/ \E v \in Page!Visits : Page!PollStep(v) \/ Page!PollFails(v)
    \/ \E k \in Clicks : Page!ClickReport(k) \/ Page!ReportStep(k)

readers == <<plan, visit, poll, aside, view, reports, click>>
SystemVars == <<vars, readers>>

SystemInit == Init /\ Page!PageInit

SystemNext ==
    \/ Next /\ UNCHANGED readers
    \/ UNCHANGED vars /\ Browse

SystemSpec == SystemInit /\ [][SystemNext]_SystemVars

\* What the pages promise (AnalysisPage), with nothing assumed of the workers.
PagesKeepPromises ==
    /\ Page!SettledShowsItself /\ Page!ListsWholeRuns
    /\ Page!PollsAreFresh /\ Page!ReportsAreFresh
=============================================================================
