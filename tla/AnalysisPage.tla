---------------------------- MODULE AnalysisPage ----------------------------
(***************************************************************************)
(* The page of one analysis and the endpoints it reads from, over a board  *)
(* that workers change meanwhile.  The page polls until the analysis is    *)
(* settled and then loads groups, timeline and similar incidents; buttons  *)
(* ask for a report.  Following a link to another analysis keeps the       *)
(* component and starts a new effect: visit v is the v-th one.  Every      *)
(* endpoint reads its tables in several statements at READ COMMITTED, and  *)
(* each statement is a step.                                               *)
(***************************************************************************)
EXTENDS AnalysisBoard, Naturals, FiniteSets

CONSTANTS
    Clicks,     \* report requests
    Plans,      \* what may happen: see Plan
    Count,      \* ErrorGroup.count: the lines of each fingerprint of a file
    PageLimit,  \* how many groups the page asks for
    Absent      \* null

\* How many effects there are (the first page and the links followed), which
\* report requests, and how often each analysis is executed, at most.
Plan == [visits : Nat, clicks : SUBSET Clicks, runs : [Analyses -> Nat]]

\* A file parses into finitely many groups, and a page has room for one.
ASSUME PageAssumption ==
    /\ Plans \subseteq Plan
    /\ Absent \notin Analyses
    /\ \A a \in Analyses : /\ IsFiniteSet(Content[a])
                           /\ \A f \in Content[a] : Count[a][f] \in Nat
    /\ PageLimit \in Nat \ {0}

VARIABLES
    plan,       \* the plan that is played
    visit,      \* the current effect, 0 before the page is opened
    poll,       \* the polling chain of each visit
    aside,      \* visits whose timeline and similar incidents are outstanding
    view,       \* what the component's state holds
    reports,    \* committed incident_reports
    click       \* report requests and what they have read

readVars == <<plan, visit, poll, aside, view, reports, click>>
pageVars == <<status, board, advice, plan, visit, poll, aside, view, reports,
              click>>

Visits == UNION {1 .. p.visits : p \in Plans}
Runs == UNION {1 .. p.runs[a] : p \in Plans, a \in Analyses}
Groups == [analysis : Analyses, run : Runs,
           fp : UNION {Content[a] : a \in Analyses}]
Of(a, S) == {g \in S : g.analysis = a}
AdviceOn(S) == {i \in advice : i.group \in S}

\* The most frequent groups of S, as many as the page asks for; which of those
\* that are equally frequent come first is left open.
Lines(g) == Count[g.analysis][g.fp]
MostFrequent(S) ==
    {T \in SUBSET S :
        /\ Cardinality(T) = (IF Cardinality(S) < PageLimit THEN Cardinality(S)
                             ELSE PageLimit)
        /\ \A g \in T, h \in S \ T : Lines(g) >= Lines(h)}

\* What a request has read so far, and (a history) what it could not miss: the
\* groups on display when it was sent, their insights when it read them.
Nothing == [total |-> 0, groups |-> {}, advice |-> {}]
Display(a) == [Nothing EXCEPT !.groups = Of(a, board)]
Chain(a, stage) ==
    [id |-> a, stage |-> stage, read |-> Nothing, had |-> Nothing]
Blank == [of |-> Absent, status |-> Absent, listed |-> Absent,
          page |-> Nothing, aside |-> Absent, error |-> FALSE,
          report |-> Absent]

Clicking(k) == click[k].stage \notin {"idle", "ok", "failed"}

PageInit ==
    /\ BoardInit
    /\ plan \in Plans
    /\ visit = 0
    /\ poll = [v \in Visits |-> Chain(Absent, "idle")]
    /\ aside = {}
    /\ view = Blank
    /\ reports = [a \in Analyses |-> Absent]
    /\ click = [k \in Clicks |-> Chain(Absent, "idle")]
-----------------------------------------------------------------------------
(* The workers, as AnalysisBoard allows them to move. *)

Advise(g) == [group |-> g, fp |-> g.fp, user |-> Owner[g.analysis],
              payload |-> g, cached |-> FALSE]

\* Run r of a goes on display, with insights for groups of a that had none.
PublishRun(a, r) ==
    LET new == RunGroups(a, r)
        bare == Of(a, board \union new) \ {i.group : i \in advice} IN
    /\ status[a] = "running"
    /\ new \cap board = {} /\ Cardinality({g.run : g \in Of(a, board)}) = r - 1
    /\ \E S \in {{}, bare} :
          /\ status' = [status EXCEPT ![a] = "completed"]
          /\ board' = board \union new
          /\ advice' = advice \union {Advise(g) : g \in S}

MoveBoard ==
    /\ \E a \in Analyses :
          \/ plan.runs[a] > 0 /\ Submit(a)
          \/ /\ status[a] \in {"pending", "completed"}
             /\ Cardinality({g.run : g \in Of(a, board)}) < plan.runs[a]
             /\ Start(a)
          \/ status[a] = "running" /\ Fail(a)
          \/ \E r \in Runs : PublishRun(a, r)
    /\ UNCHANGED readVars
-----------------------------------------------------------------------------
(* The polling effect. *)

Moves(v, stage) == poll' = [poll EXCEPT ![v].stage = stage]

\* After a status answer: load the groups, stop, or set the timer.
After(s) == CASE s = "completed" -> "total" [] s = "failed" -> "over"
              [] OTHER -> "wait"

\* Opening the page of a, or following a link to it: the old effect is
\* cancelled and its timer cleared; no state is reset.
Visit(a) ==
    /\ visit < plan.visits
    /\ visit > 0 => poll[visit].id # a
    /\ status[a] # "absent"
    /\ visit' = visit + 1
    /\ poll' = [v \in Visits |->
          IF v = visit + 1 THEN Chain(a, "status")
          ELSE IF poll[v].stage = "wait" THEN Chain(poll[v].id, "over")
          ELSE poll[v]]
    /\ UNCHANGED <<boardVars, plan, aside, view, reports, click>>

Polled(v, stage) ==
    poll' = [poll EXCEPT ![v].stage = stage, ![v].had = Display(poll[v].id)]

MutPollStatus(v) ==  \* Mutant: the answer is not checked for cancellation.
    LET a == poll[v].id IN
    /\ poll[v].stage = "status"
    /\ view' = [view EXCEPT !.of = a, !.status = status[a]]
    /\ Polled(v, After(status[a]))
    /\ UNCHANGED <<boardVars, plan, visit, aside, reports, click>>

MutPollRunning(v) ==  \* Mutant: polling goes on only while pending.
    LET a == poll[v].id IN
    /\ poll[v].stage = "status"
    /\ IF v # visit
       THEN UNCHANGED view /\ Moves(v, "over")
       ELSE /\ view' = [view EXCEPT !.of = a, !.status = status[a]]
            /\ Polled(v, IF status[a] = "running" THEN "over"
                         ELSE After(status[a]))
    /\ UNCHANGED <<boardVars, plan, visit, aside, reports, click>>

MutPollEarly(v) ==  \* Mutant: groups are loaded while the analysis runs.
    LET a == poll[v].id IN
    /\ poll[v].stage = "status"
    /\ IF v # visit
       THEN UNCHANGED view /\ Moves(v, "over")
       ELSE /\ view' = [view EXCEPT !.of = a, !.status = status[a]]
            /\ Polled(v, IF status[a] = "running" THEN "total"
                         ELSE After(status[a]))
    /\ UNCHANGED <<boardVars, plan, visit, aside, reports, click>>

\* The status answer; one that arrives after a newer visit is dropped.
PollStatus(v) ==
    LET a == poll[v].id IN
    /\ poll[v].stage = "status"
    /\ IF v # visit
       THEN UNCHANGED view /\ Moves(v, "over")
       ELSE /\ view' = [view EXCEPT !.of = a, !.status = status[a]]
            /\ Polled(v, After(status[a]))
    /\ UNCHANGED <<boardVars, plan, visit, aside, reports, click>>

PollAgain(v) ==
    /\ poll[v].stage = "wait"
    /\ Moves(v, "status")
    /\ UNCHANGED <<boardVars, plan, visit, aside, view, reports, click>>

MutReads(c, rows) ==  \* Mutant: the insights are read first.
    CASE c.stage = "total" ->
            [c EXCEPT !.read.total = Cardinality(Of(c.id, board)),
                      !.stage = "groups"]
      [] c.stage = "groups" ->
            [c EXCEPT !.read.advice = AdviceOn(rows), !.stage = "advice"]
      [] c.stage = "advice" ->
            [c EXCEPT !.read.groups = rows, !.stage = "answer",
                      !.had.advice = AdviceOn(rows)]

\* The next statement of an endpoint that answers with groups of c.id: the
\* total, the groups, which are the rows, then the insights of these groups.
Reads(c, rows) ==
    CASE c.stage = "total" ->
            [c EXCEPT !.read.total = Cardinality(Of(c.id, board)),
                      !.stage = "groups"]
      [] c.stage = "groups" ->
            [c EXCEPT !.read.groups = rows, !.stage = "advice",
                      !.had.advice = AdviceOn(rows)]
      [] c.stage = "advice" ->
            [c EXCEPT !.read.advice = AdviceOn(c.read.groups),
                      !.stage = "answer"]

\* list_groups, which orders by count and cuts at the limit of the page.
PollReads(v) ==
    /\ poll[v].stage \in {"total", "groups", "advice"}
    /\ \E rows \in MostFrequent(Of(poll[v].id, board)) :
          poll' = [poll EXCEPT ![v] = Reads(@, rows)]
    /\ UNCHANGED <<boardVars, plan, visit, aside, view, reports, click>>

\* The groups are set, and timeline and similar incidents are asked for.
PollGroups(v) ==
    /\ poll[v].stage = "answer"
    /\ Moves(v, "over")
    /\ IF v # visit
       THEN UNCHANGED <<view, aside>>
       ELSE /\ view' = [view EXCEPT !.listed = poll[v].id,
                                    !.page = poll[v].read]
            /\ aside' = aside \union {v}
    /\ UNCHANGED <<boardVars, plan, visit, reports, click>>

Aside(v) ==
    /\ v \in aside
    /\ aside' = aside \ {v}
    /\ \/ UNCHANGED view                        \* failed, and ignored
       \/ /\ v = visit
          /\ view' = [view EXCEPT !.aside = poll[v].id]
    /\ UNCHANGED <<boardVars, plan, visit, poll, reports, click>>

\* One request of the chain fails: the page shows an error, and no more polls.
PollFails(v) ==
    /\ poll[v].stage \in {"status", "total", "groups", "advice"}
    /\ Moves(v, "over")
    /\ view' = IF v = visit THEN [view EXCEPT !.error = TRUE] ELSE view
    /\ UNCHANGED <<boardVars, plan, visit, aside, reports, click>>
-----------------------------------------------------------------------------
(* The report button and generate_report. *)

Clicked(k, c) == click' = [click EXCEPT ![k] = c]

\* The button is there when the page shows a completed analysis; reportBusy
\* only changes its label.
ClickReport(k) ==
    /\ k \in plan.clicks /\ click[k].stage = "idle"
    /\ visit > 0 /\ view.status = "completed" /\ ~view.error
    /\ Clicked(k, [Chain(poll[visit].id, "status") EXCEPT
                     !.had = Display(poll[visit].id)])
    /\ UNCHANGED <<boardVars, plan, visit, poll, aside, view, reports>>

\* 400 unless the analysis is completed.
ReportStatus(k) ==
    /\ click[k].stage = "status"
    /\ Clicked(k, [click[k] EXCEPT !.stage =
                     IF status[click[k].id] = "completed" THEN "groups"
                     ELSE "failed"])
    /\ UNCHANGED <<boardVars, plan, visit, poll, aside, view, reports>>

\* A report is written from all groups.
ReportReads(k) ==
    /\ click[k].stage \in {"groups", "advice"}
    /\ Clicked(k, Reads(click[k], Of(click[k].id, board)))
    /\ UNCHANGED <<boardVars, plan, visit, poll, aside, view, reports>>

\* The lookup of an existing report.
ReportLookup(k) ==
    /\ click[k].stage = "answer"
    /\ Clicked(k, [click[k] EXCEPT !.stage =
                     IF reports[click[k].id] = Absent THEN "insert" ELSE "update"])
    /\ UNCHANGED <<boardVars, plan, visit, poll, aside, view, reports>>

MutReportSave(k) ==  \* Mutant: a report that is there is answered as it is.
    LET c == click[k] IN
    /\ c.stage \in {"insert", "update"}
    /\ IF reports[c.id] # Absent
       THEN /\ UNCHANGED reports
            /\ Clicked(k, [c EXCEPT !.read = reports[c.id], !.stage = "saved"])
       ELSE /\ reports' = [reports EXCEPT ![c.id] = c.read]
            /\ Clicked(k, [c EXCEPT !.stage = "saved"])
    /\ UNCHANGED <<boardVars, plan, visit, poll, aside, view>>

\* Flush and commit.  An insert that waited for another request's insert of
\* the same key fails when that commits; nothing handles the IntegrityError.
ReportSave(k) ==
    LET c == click[k] IN
    /\ c.stage \in {"insert", "update"}
    /\ IF c.stage = "insert" /\ reports[c.id] # Absent
       THEN UNCHANGED reports /\ Clicked(k, [c EXCEPT !.stage = "failed"])
       ELSE /\ reports' = [reports EXCEPT ![c.id] = c.read]
            /\ Clicked(k, [c EXCEPT !.stage = "saved"])
    /\ UNCHANGED <<boardVars, plan, visit, poll, aside, view>>

\* setReport, whichever analysis the page shows by now.
ReportAnswered(k) ==
    /\ click[k].stage = "saved"
    /\ Clicked(k, [click[k] EXCEPT !.stage = "ok"])
    /\ view' = [view EXCEPT !.report = click[k].id]
    /\ UNCHANGED <<boardVars, plan, visit, poll, aside, reports>>

PollStep(v) == \/ PollStatus(v) \/ PollAgain(v) \/ PollReads(v)
               \/ PollGroups(v) \/ Aside(v)
ReportStep(k) == \/ ReportStatus(k) \/ ReportReads(k) \/ ReportLookup(k)
                 \/ ReportSave(k) \/ ReportAnswered(k)

\* Nothing is outstanding, and nobody clicks or uploads.
PageRest == /\ \A v \in Visits : poll[v].stage \in {"idle", "over"}
            /\ \A k \in Clicks : ~Clicking(k)
            /\ \A a \in Analyses : status[a] \notin {"pending", "running"}
            /\ UNCHANGED pageVars

PageNext ==
    \/ MoveBoard
    \/ \E a \in Analyses : Visit(a)
    \/ \E v \in Visits : PollStep(v) \/ PollFails(v)
    \/ \E k \in Clicks : ClickReport(k) \/ ReportStep(k)
    \/ PageRest

\* Requests are answered or fail, and the browser's timer fires.
PageFairness == \A v \in Visits : WF_pageVars(PollStep(v))
PageSpec == PageInit /\ [][PageNext]_pageVars
PageFairSpec == PageSpec /\ PageFairness
-----------------------------------------------------------------------------
(* Properties. *)

\* Types of the page's variables; the board's are AnalysisBoard's.
Reading == [total : Nat, groups : SUBSET Groups, advice : SUBSET advice]
Stages == {"idle", "status", "wait", "total", "groups", "advice", "answer",
           "insert", "update", "saved", "ok", "failed", "over"}
Chained == [id : Analyses \union {Absent}, stage : Stages,
            read : Reading, had : Reading]
PageTypeOK ==
    /\ plan \in Plans /\ visit \in 0 .. plan.visits /\ aside \subseteq Visits
    /\ \A v \in Visits : poll[v] \in Chained
    /\ \A k \in Clicks : click[k] \in Chained
    /\ \A a \in Analyses : reports[a] = Absent \/ reports[a] \in Reading
    /\ view.page \in Reading /\ view.error \in BOOLEAN
    /\ {view.of, view.listed, view.aside, view.report}
          \subseteq Analyses \union {Absent}

\* A page that has stopped polling shows one analysis, its own: however the
\* answers of the pages before it straggle in, status and groups are not
\* another analysis's (the checks of "cancelled", Analysis.tsx:31-35).
SettledShowsItself ==
    visit > 0 /\ poll[visit].stage = "over" /\ ~view.error =>
        /\ view.of = poll[visit].id
        /\ view.status = "completed" => view.listed = poll[visit].id
        /\ view.status \in {"completed", "failed"}

\* A report is written from whole runs of its completed analysis, and at least
\* one: the status is read first and says completed only once the rows are
\* there, and a run that commits between two statements shows entirely or not
\* at all.  So is the page's list, up to the limit: of a run that it lists, it
\* leaves out a group only if it is full of groups that are as frequent.
WholeRuns(a, r) == /\ r.groups # {} \/ Content[a] = {}
                   /\ \A g \in r.groups : RunGroups(a, g.run) \subseteq r.groups
Crowded(h, r) == /\ Cardinality(r.groups) = PageLimit
                 /\ \A g \in r.groups : Lines(g) >= Lines(h)
ListsAll(S, r) == \A h \in S : h \in r.groups \/ Crowded(h, r)
ListsRuns(a, r) == /\ r.groups # {} \/ Content[a] = {}
                   /\ \A g \in r.groups : ListsAll(RunGroups(a, g.run), r)
ListsWholeRuns ==
    /\ view.listed # Absent => ListsRuns(view.listed, view.page)
    /\ \A a \in Analyses : reports[a] # Absent => WholeRuns(a, reports[a])

\* An answer of list_groups shows every group that was on display when its
\* request was sent, but for those that its limit cuts off; every insight the
\* listed groups had when they were read; and no fewer groups than the total it
\* announces, or as many as fit, though each is read by a statement of its own.
PollsAreFresh ==
    \A v \in Visits : poll[v].stage = "answer" =>
        LET r == poll[v].read IN
        /\ ListsAll(poll[v].had.groups, r)
        /\ poll[v].had.advice \subseteq r.advice
        /\ \/ r.total <= Cardinality(r.groups)
           \/ Cardinality(r.groups) = PageLimit

\* A report misses nothing that was on display when it was asked for: it is
\* rebuilt, and a request is never answered with what an earlier one had found.
NoOlderThan(r, had) == /\ had.groups \subseteq r.groups
                       /\ had.advice \subseteq r.advice
ReportsAreFresh ==
    \A k \in Clicks : click[k].stage \in {"saved", "ok"} =>
        NoOlderThan(click[k].read, click[k].had)

\* The page that is open last stops polling with a final status, or with an
\* error, once the analyses are settled for good: no poll misses a status.
PageSettles ==
    <>[](\A a \in Analyses : status[a] \in {"absent", "completed", "failed"}) =>
        (visit > 0 ~> \E v \in Visits :
            /\ v = visit
            /\ \/ view.error
               \/ /\ poll[v].stage = "over" /\ view.of = poll[v].id
                  /\ view.status \in {"completed", "failed"})
=============================================================================
