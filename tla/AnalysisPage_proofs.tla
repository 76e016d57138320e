------------------------- MODULE AnalysisPage_proofs -------------------------
(***************************************************************************)
(* What a page and the reports show of an analysis is right whatever the   *)
(* workers do within the bounds of AnalysisBoard, for any number of pages, *)
(* report requests and runs.                                               *)
(***************************************************************************)
EXTENDS AnalysisPage, FiniteSetTheorems, TLAPS

\* Some run of a is on display, unless its file has no groups.
Published(a, B) == Of(a, B) # {} \/ Content[a] = {}

Statuses == {"absent", "pending", "running", "completed", "failed"}

\* The board shows whole runs, and one at least of a completed analysis.
BoardInv ==
    /\ status \in [Analyses -> Statuses]
    /\ IsFiniteSet(board)
    /\ \A g \in board : RunGroups(g.analysis, g.run) \subseteq board
    /\ \A a \in Analyses : status[a] = "completed" => Published(a, board)

\* What has been read of a board that shows groups B and insights A.
Facts(B, A) == [total : Nat, groups : SUBSET B, advice : SUBSET A]
Chains(B, A) == [id : Analyses \union {Absent}, stage : Stages,
                 read : Facts(B, A), had : Facts(B, A)]

Before == {"status", "wait", "total", "groups"}
Done == {"answer", "insert", "update", "saved", "ok"}

\* What r shows of S: everything, but for what a limit cuts off.
Covers(S, r, cut) == \A h \in S : h \in r.groups \/ (cut /\ Crowded(h, r))

\* How far a request has come, and what it has read by then; cut says whether
\* its answer is limited.
ChainOK(c, B, A, cut) ==
    /\ c.stage # "idle" => c.id \in Analyses
    /\ c.stage \in Before => c.had.groups \subseteq Of(c.id, B)
    /\ c.stage \in {"status", "wait"} => c.read.total = 0
    /\ c.stage \in {"total", "groups"} => Published(c.id, B)
    /\ c.stage = "groups" => c.read.total <= Cardinality(Of(c.id, B))
    /\ c.stage \in {"advice"} \union Done =>
          /\ c.read.groups # {} \/ Content[c.id] = {}
          /\ \A g \in c.read.groups :
                Covers(RunGroups(c.id, g.run), c.read, cut)
          /\ Covers(c.had.groups, c.read, cut)
          /\ \/ c.read.total <= Cardinality(c.read.groups)
             \/ cut /\ Cardinality(c.read.groups) = PageLimit
    /\ c.stage = "advice" =>
          c.had.advice \subseteq {i \in A : i.group \in c.read.groups}
    /\ c.stage \in Done => c.had.advice \subseteq c.read.advice

Views(B, A) ==
    [of : Analyses \union {Absent}, status : Statuses \union {Absent},
     listed : Analyses \union {Absent}, page : Facts(B, A),
     aside : Analyses \union {Absent}, error : BOOLEAN,
     report : Analyses \union {Absent}]

\* While the current page loads, it shows the status that made it load.
LoadsItself ==
    visit > 0 /\ poll[visit].stage \in {"total", "groups", "advice", "answer"}
    => view.of = poll[visit].id /\ view.status = "completed"

ReadersInv ==
    /\ plan \in Plans /\ visit \in 0 .. plan.visits
    /\ poll \in [Visits -> Chains(board, advice)]
    /\ click \in [Clicks -> Chains(board, advice)]
    /\ view \in Views(board, advice)
    /\ reports \in [Analyses -> Facts(board, advice) \union {Absent}]
    /\ aside \subseteq Visits
    /\ visit > 0 => poll[visit].stage # "idle"

PageInv ==
    /\ BoardInv /\ ReadersInv
    /\ \A v \in Visits : ChainOK(poll[v], board, advice, TRUE)
    /\ \A k \in Clicks : ChainOK(click[k], board, advice, FALSE)
    /\ ListsWholeRuns /\ LoadsItself /\ SettledShowsItself
-----------------------------------------------------------------------------
(* The board. *)

LEMMA OfGrows ==
    ASSUME NEW B, NEW B2, B \subseteq B2, NEW a
    PROVE  /\ Of(a, B) \subseteq Of(a, B2) /\ Of(a, B) \subseteq B
           /\ Published(a, B) => Published(a, B2)
BY DEF Of, Published

\* A run has as many groups as its file, so the board stays finite and whole.
LEMMA RunIsFinite ==
    ASSUME NEW a \in Analyses, NEW r
    PROVE  IsFiniteSet(RunGroups(a, r))
<1>1. IsFiniteSet(Content[a])
    BY PageAssumption
<1> DEFINE row == [f \in Content[a] |-> [analysis |-> a, run |-> r, fp |-> f]]
<1>2. row \in Surjection(Content[a], RunGroups(a, r))
    BY DEF Surjection, RunGroups
<1> QED
    BY <1>1, <1>2, FS_Surjection

LEMMA RunIsItself ==
    ASSUME NEW a, NEW r, NEW g \in RunGroups(a, r)
    PROVE  g.analysis = a /\ g.run = r
BY DEF RunGroups

BoardGrows == board \subseteq board' /\ advice \subseteq advice'

LEMMA PublishKeeps ==
    ASSUME BoardInv, NEW a \in Analyses, Publish(a)
    PROVE  BoardInv' /\ BoardGrows
<1>1. PICK r : \/ Content[a] = {} /\ board' = board
               \/ board' = board \union RunGroups(a, r)
    BY DEF Publish, ShowRun
<1>2. BoardGrows
    BY <1>1 DEF Publish, ShowAdvice, BoardGrows
<1>3. IsFiniteSet(board')
    BY <1>1, RunIsFinite, FS_Union DEF BoardInv
<1>4. ASSUME NEW g \in board'
      PROVE  RunGroups(g.analysis, g.run) \subseteq board'
    BY <1>1, <1>4, RunIsItself DEF BoardInv
<1>5. Published(a, board')
    <2>1. CASE Content[a] = {}
        BY <2>1 DEF Published
    <2>2. CASE Content[a] # {}
        <3>1. PICK f \in Content[a] : TRUE
            BY <2>2
        <3>2. [analysis |-> a, run |-> r, fp |-> f] \in board'
            BY <1>1, <2>2, <3>1 DEF RunGroups
        <3> QED
            BY <3>2 DEF Published, Of
    <2> QED
        BY <2>1, <2>2
<1>6. status' = [status EXCEPT ![a] = "completed"]
    BY DEF Publish
<1>7. ASSUME NEW b \in Analyses, status'[b] = "completed"
      PROVE  Published(b, board')
    <2>1. CASE b = a
        BY <1>5, <2>1
    <2>2. CASE b # a
        BY <1>2, <1>6, <1>7, <2>2, OfGrows DEF BoardInv, BoardGrows
    <2> QED
        BY <2>1, <2>2
<1>8. status' \in [Analyses -> Statuses]
    BY <1>6 DEF BoardInv, Statuses
<1> QED
    BY <1>2, <1>3, <1>4, <1>7, <1>8 DEF BoardInv

LEMMA BoardKeeps ==
    ASSUME BoardInv, [BoardNext]_boardVars
    PROVE  BoardInv' /\ BoardGrows
<1>1. ASSUME NEW a \in Analyses, Submit(a) \/ Start(a) \/ Fail(a)
      PROVE  BoardInv' /\ BoardGrows
    <2>1. UNCHANGED <<board, advice>>
        BY <1>1 DEF Submit, Start, Fail
    <2>2. PICK s \in Statuses \ {"completed"} :
            status' = [status EXCEPT ![a] = s]
        BY <1>1 DEF Submit, Start, Fail, Statuses
    <2> QED
        BY <2>1, <2>2 DEF BoardInv, BoardGrows
<1>2. CASE UNCHANGED boardVars
    BY <1>2 DEF BoardInv, BoardGrows, boardVars
<1> QED
    BY <1>1, <1>2, PublishKeeps DEF BoardNext

\* What a request has read stays right when the board grows.
LEMMA ChainGrows ==
    ASSUME NEW B, NEW A, NEW B2, NEW A2, B \subseteq B2, A \subseteq A2,
           IsFiniteSet(B2), NEW c \in Chains(B, A), NEW cut \in BOOLEAN, ChainOK(c, B, A, cut)
    PROVE  c \in Chains(B2, A2) /\ ChainOK(c, B2, A2, cut)
<1>1. Facts(B, A) \subseteq Facts(B2, A2)
    BY DEF Facts
<1>2. c \in Chains(B2, A2)
    BY <1>1 DEF Chains
<1>3. Of(c.id, B) \subseteq Of(c.id, B2) /\ Of(c.id, B2) \subseteq B2
    BY OfGrows
<1>4. /\ Cardinality(Of(c.id, B)) \in Nat /\ Cardinality(Of(c.id, B2)) \in Nat
      /\ Cardinality(Of(c.id, B)) <= Cardinality(Of(c.id, B2))
    BY <1>3, FS_Subset, FS_CardinalityType
<1>5. c.read.total \in Nat
    BY DEF Chains, Facts
<1>6. ChainOK(c, B2, A2, cut)
    BY <1>3, <1>4, <1>5, OfGrows DEF ChainOK
<1> QED
    BY <1>2, <1>6
-----------------------------------------------------------------------------
(* Reading the groups, statement by statement. *)

\* What a statement may answer of the groups S.
Answers(rows, S, cut) ==
    /\ rows \subseteq S
    /\ S # {} => rows # {}
    /\ \A h \in S : h \in rows \/ (cut /\ Crowded(h, [groups |-> rows]))
    /\ \/ Cardinality(S) <= Cardinality(rows)
       \/ cut /\ Cardinality(rows) = PageLimit

\* The most frequent groups are all there are, or as many as the page asks for.
LEMMA LimitAnswers ==
    ASSUME NEW S, IsFiniteSet(S), NEW rows \in MostFrequent(S)
    PROVE  Answers(rows, S, TRUE)
<1>1. /\ PageLimit \in Nat /\ PageLimit # 0
      /\ Cardinality(S) \in Nat /\ rows \subseteq S
      /\ Cardinality(rows) = (IF Cardinality(S) < PageLimit THEN Cardinality(S)
                             ELSE PageLimit)
      /\ \A g \in rows, h \in S \ rows : Lines(g) >= Lines(h)
    BY PageAssumption, FS_CardinalityType DEF MostFrequent
<1>2. CASE Cardinality(rows) = Cardinality(S)
    <2>1. rows = S
        BY <1>1, <1>2, FS_Subset
    <2>2. Cardinality(S) <= Cardinality(rows)
        BY <1>1, <1>2
    <2> QED
        BY <2>1, <2>2 DEF Answers
<1>3. CASE Cardinality(rows) = PageLimit
    <2>1. rows # {}
        BY <1>1, <1>3, FS_EmptySet
    <2>2. \A h \in S : h \in rows \/ Crowded(h, [groups |-> rows])
        BY <1>1, <1>3 DEF Crowded
    <2> QED
        BY <1>1, <1>3, <2>1, <2>2 DEF Answers
<1> QED
    BY <1>1, <1>2, <1>3

LEMMA AllAnswers ==
    ASSUME NEW S, IsFiniteSet(S)
    PROVE  Answers(S, S, FALSE)
<1>1. Cardinality(S) <= Cardinality(S)
    BY FS_CardinalityType
<1> QED
    BY <1>1 DEF Answers

LEMMA ReadsKeeps ==
    ASSUME BoardInv, NEW c \in Chains(board, advice), NEW cut \in BOOLEAN,
           ChainOK(c, board, advice, cut), c.stage \in {"total", "groups", "advice"},
           NEW rows, Answers(rows, Of(c.id, board), cut)
    PROVE  /\ Reads(c, rows) \in Chains(board, advice)
           /\ ChainOK(Reads(c, rows), board, advice, cut)
           /\ Reads(c, rows).stage \in {"groups", "advice", "answer"}
           /\ Reads(c, rows).id = c.id
<1> DEFINE mine == Of(c.id, board)
<1>1. /\ mine \subseteq board /\ IsFiniteSet(mine)
      /\ Cardinality(mine) \in Nat
    BY OfGrows, FS_Subset, FS_CardinalityType DEF BoardInv
<1>2. /\ c.id \in Analyses /\ c.read \in Facts(board, advice)
      /\ c.had \in Facts(board, advice)
    BY DEF Chains, ChainOK
<1>3. CASE c.stage = "total"
    <2>1. Reads(c, rows) = [c EXCEPT !.read.total = Cardinality(mine),
                               !.stage = "groups"]
        BY <1>3 DEF Reads
    <2> DEFINE d == Reads(c, rows)
    <2>0. DOMAIN c = {"id", "stage", "read", "had"} /\ c \in Chains(board, advice)
        BY DEF Chains
    <2>2. /\ d.stage = "groups" /\ d.id = c.id /\ d.had = c.had
          /\ d.read = [c.read EXCEPT !.total = Cardinality(mine)]
          /\ d \in Chains(board, advice)
        <3>1. [c.read EXCEPT !.total = Cardinality(mine)] \in Facts(board, advice)
            BY <1>1, <1>2 DEF Facts
        <3>2. d = [c EXCEPT !.read = [c.read EXCEPT !.total = Cardinality(mine)],
                            !.stage = "groups"]
            BY <2>1
        <3> HIDE DEF d
        <3> QED
            BY <2>0, <3>1, <3>2 DEF Chains, Stages
    <2>3. d.read.total = Cardinality(mine)
        BY <1>2, <2>2 DEF Facts
    <2> HIDE DEF d
    <2>4. ChainOK(d, board, advice, cut)
        BY <1>1, <1>2, <1>3, <2>2, <2>3 DEF ChainOK, Before, Done
    <2> QED
        BY <2>2, <2>4 DEF d
<1>4. CASE c.stage = "groups"
    <2> DEFINE known == AdviceOn(rows)
    <2>2. known \in SUBSET advice
        BY DEF AdviceOn
    <2>1. Reads(c, rows) = [c EXCEPT !.read.groups = rows, !.stage = "advice",
                                     !.had.advice = known]
        BY <1>4 DEF Reads
    <2> DEFINE d == Reads(c, rows)
    <2> HIDE DEF known
    <2> DEFINE read == [c.read EXCEPT !.groups = rows]
               had == [c.had EXCEPT !.advice = known]
    <2>8. rows \subseteq mine /\ rows \subseteq board
        BY <1>1 DEF Answers
    <2>7. read \in Facts(board, advice) /\ had \in Facts(board, advice)
        BY <2>8, <1>2, <2>2 DEF Facts
    <2>3. /\ d.stage = "advice" /\ d.id = c.id /\ d.read = read /\ d.had = had
          /\ d \in Chains(board, advice)
        <3>1. d = [c EXCEPT !.read = read, !.stage = "advice", !.had = had]
            BY <2>1
        <3> HIDE DEF d, read, had
        <3> QED
            BY <2>7, <3>1 DEF Chains, Stages
    <2>4. /\ d.read.groups = rows /\ d.read.total = c.read.total
          /\ d.had.groups = c.had.groups /\ d.had.advice = known
        BY <1>2, <2>3 DEF Facts
    <2>9. ASSUME NEW S \in SUBSET mine
          PROVE  Covers(S, d.read, cut)
        BY <2>4 DEF Answers, Covers, Crowded
    <2>5. /\ rows # {} \/ Content[c.id] = {}
          /\ \A g \in rows : Covers(RunGroups(c.id, g.run), d.read, cut)
        <3>1. \A g \in mine : RunGroups(g.analysis, g.run) \subseteq board
                              /\ g.analysis = c.id
            BY DEF BoardInv, Of
        <3>2. \A g \in mine : RunGroups(c.id, g.run) \subseteq mine
            BY <3>1, RunIsItself DEF Of
        <3>3. rows # {} \/ Content[c.id] = {}
            BY <1>4 DEF ChainOK, Published, Answers
        <3> QED
            BY <2>8, <2>9, <3>2, <3>3
    <2>10. Covers(d.had.groups, d.read, cut)
        BY <1>4, <2>4, <2>9 DEF ChainOK, Before
    <2>11. \/ c.read.total <= Cardinality(rows)
           \/ cut /\ Cardinality(rows) = PageLimit
        <3>1. c.read.total <= Cardinality(mine) /\ c.read.total \in Nat
            BY <1>2, <1>4 DEF ChainOK, Facts
        <3>2. Cardinality(rows) \in Nat
            BY <1>1, <2>8, FS_Subset, FS_CardinalityType
        <3> QED
            BY <1>1, <3>1, <3>2 DEF Answers
    <2> HIDE DEF d
    <2>6. ChainOK(d, board, advice, cut)
        BY <1>2, <1>4, <2>3, <2>4, <2>5, <2>10, <2>11
           DEF ChainOK, Before, Done, AdviceOn, known
    <2> QED
        BY <2>3, <2>6 DEF d
<1>5. CASE c.stage = "advice"
    <2> DEFINE known == AdviceOn(c.read.groups)
    <2>1. Reads(c, rows) = [c EXCEPT !.read.advice = known, !.stage = "answer"]
        BY <1>5 DEF Reads
    <2> DEFINE d == Reads(c, rows)
    <2>2. known \in SUBSET advice
        BY DEF AdviceOn
    <2> HIDE DEF known
    <2> DEFINE read == [c.read EXCEPT !.advice = known]
    <2>6. read \in Facts(board, advice)
        BY <1>2, <2>2 DEF Facts
    <2>3. /\ d.stage = "answer" /\ d.id = c.id /\ d.had = c.had
          /\ d.read = read /\ d \in Chains(board, advice)
        <3>1. d = [c EXCEPT !.read = read, !.stage = "answer"]
            BY <2>1
        <3> HIDE DEF d, read
        <3> QED
            BY <2>6, <3>1 DEF Chains, Stages
    <2>4. /\ d.read.groups = c.read.groups /\ d.read.total = c.read.total
          /\ d.read.advice = known
        BY <1>2, <2>3 DEF Facts
    <2> HIDE DEF d
    <2>5. ChainOK(d, board, advice, cut)
        BY <1>2, <1>5, <2>3, <2>4
           DEF ChainOK, Before, Done, AdviceOn, Covers, Crowded, known
    <2> QED
        BY <2>3, <2>5 DEF d
<1> QED
    BY <1>3, <1>4, <1>5
-----------------------------------------------------------------------------
LEMMA VisitType == ReadersInv /\ visit > 0 => visit \in Visits
<1> SUFFICES ASSUME ReadersInv, visit > 0
             PROVE  visit \in Visits
    OBVIOUS
<1>1. plan \in Plans /\ plan.visits \in Nat
    BY PageAssumption DEF ReadersInv, Plan
<1>2. visit \in 1 .. plan.visits
    BY <1>1 DEF ReadersInv
<1> QED
    BY <1>1, <1>2 DEF Visits

\* Nothing is displayed, read or asked for yet.
LEMMA PageInvInit == PageInit => PageInv
<1> SUFFICES ASSUME PageInit
             PROVE  PageInv
    OBVIOUS
<1>1. BoardInv
    BY FS_EmptySet DEF PageInit, BoardInit, BoardInv, Statuses
<1>2. plan \in Plans /\ plan.visits \in Nat
    BY PageAssumption DEF PageInit, Plan
<1>3. /\ Nothing \in Facts(board, advice)
      /\ Chain(Absent, "idle") \in Chains(board, advice)
      /\ \A cut \in BOOLEAN :
            ChainOK(Chain(Absent, "idle"), board, advice, cut)
    BY DEF PageInit, Nothing, Chain, Chains, Facts, Stages, ChainOK, Before, Done
<1>4. view \in Views(board, advice)
    BY <1>3 DEF PageInit, Blank, Views
<1>5. ReadersInv
    BY <1>2, <1>3, <1>4 DEF PageInit, ReadersInv
<1>6. ListsWholeRuns /\ LoadsItself /\ SettledShowsItself
    BY DEF PageInit, ListsWholeRuns, LoadsItself, SettledShowsItself, Blank
<1> QED
    BY <1>1, <1>3, <1>5, <1>6 DEF PageInv, PageInit

\* A step of the workers, whatever the board allows.
LEMMA BoardStepKeeps ==
    ASSUME PageInv, [BoardNext]_boardVars, UNCHANGED readVars
    PROVE  PageInv'
<1>1. BoardInv' /\ BoardGrows
    BY BoardKeeps DEF PageInv
<1>2. Facts(board, advice) \subseteq Facts(board', advice')
    BY <1>1 DEF Facts, BoardGrows
<1>3. ASSUME NEW c \in Chains(board, advice), NEW cut \in BOOLEAN,
             ChainOK(c, board, advice, cut)
      PROVE  c \in Chains(board', advice') /\ ChainOK(c, board', advice', cut)
    BY <1>1, <1>3, ChainGrows DEF BoardInv, BoardGrows
<1>4. Views(board, advice) \subseteq Views(board', advice')
    BY <1>2 DEF Views
<1>5. ReadersInv /\ UNCHANGED <<plan, visit, poll, aside, view, reports, click>>
    BY DEF PageInv, readVars
<1>6. ReadersInv'
    BY <1>2, <1>3, <1>4, <1>5 DEF ReadersInv, PageInv
<1>7. /\ \A v \in Visits : ChainOK(poll'[v], board', advice', TRUE)
      /\ \A k \in Clicks : ChainOK(click'[k], board', advice', FALSE)
    BY <1>3, <1>5 DEF ReadersInv, PageInv
<1>8. ListsWholeRuns' /\ LoadsItself' /\ SettledShowsItself'
    BY <1>5 DEF PageInv, ListsWholeRuns, LoadsItself, SettledShowsItself,
                WholeRuns, ListsRuns, ListsAll, Crowded, Lines
<1> QED
    BY <1>1, <1>6, <1>7, <1>8 DEF PageInv
-----------------------------------------------------------------------------
(* The polling effect. *)

Loads(c, shown) ==
    c.stage \in {"total", "groups", "advice", "answer"}
        => shown.of = c.id /\ shown.status = "completed"
Displays(c, shown) ==
    c.stage = "over" /\ ~shown.error =>
        /\ shown.of = c.id
        /\ shown.status = "completed" => shown.listed = c.id
        /\ shown.status \in {"completed", "failed"}

\* One chain moves; only the current one changes what is shown.
LEMMA PollKeeps ==
    ASSUME PageInv, UNCHANGED <<boardVars, plan, visit, reports, click>>,
           NEW v \in Visits, NEW d \in Chains(board, advice),
           ChainOK(d, board, advice, TRUE), d.stage # "idle",
           poll' = [poll EXCEPT ![v] = d],
           view' \in Views(board, advice), aside' \subseteq Visits,
           view'.listed # Absent => ListsRuns(view'.listed, view'.page),
           v = visit => Loads(d, view') /\ Displays(d, view'),
           v # visit => UNCHANGED view
    PROVE  PageInv'
<1>1. UNCHANGED <<status, board, advice, plan, visit, reports, click>>
    BY DEF boardVars
<1>2. /\ poll' \in [Visits -> Chains(board, advice)] /\ poll'[v] = d
      /\ \A w \in Visits : w # v => poll'[w] = poll[w]
    BY DEF PageInv, ReadersInv
<1>3. ReadersInv'
    BY <1>1, <1>2, VisitType DEF PageInv, ReadersInv
<1>4. /\ \A w \in Visits : ChainOK(poll'[w], board, advice, TRUE)
      /\ \A k \in Clicks : ChainOK(click[k], board, advice, FALSE)
    BY <1>2 DEF PageInv
<1>5. BoardInv' /\ ListsWholeRuns'
    BY <1>1 DEF PageInv, BoardInv, ListsWholeRuns
<1>6. LoadsItself' /\ SettledShowsItself'
    <2>1. CASE v = visit
        BY <1>1, <1>2, <2>1 DEF LoadsItself, SettledShowsItself, Loads, Displays
    <2>2. CASE v # visit
        BY <1>1, <1>2, <2>2, VisitType
           DEF PageInv, LoadsItself, SettledShowsItself
    <2> QED
        BY <2>1, <2>2
<1> QED
    BY <1>1, <1>3, <1>4, <1>5, <1>6 DEF PageInv

LEMMA PollStatusKeeps ==
    ASSUME PageInv, NEW v \in Visits, PollStatus(v)
    PROVE  PageInv'
<1> DEFINE c == poll[v]
           shown == Display(c.id)
<1>1. /\ c \in Chains(board, advice) /\ ChainOK(c, board, advice, TRUE)
      /\ c.stage = "status" /\ c.id \in Analyses
    BY DEF PageInv, ReadersInv, PollStatus, ChainOK
<1>2. view \in Views(board, advice) /\ aside \subseteq Visits
      /\ (view.listed # Absent => ListsRuns(view.listed, view.page))
    BY DEF PageInv, ReadersInv, ListsWholeRuns
<1>3. CASE v # visit
    <2> DEFINE d == [c EXCEPT !.stage = "over"]
    <2>1. /\ poll' = [poll EXCEPT ![v] = d] /\ UNCHANGED <<view, aside>>
          /\ UNCHANGED <<boardVars, plan, visit, reports, click>>
        BY <1>3 DEF PollStatus, Moves
    <2>2. d \in Chains(board, advice) /\ ChainOK(d, board, advice, TRUE)
          /\ d.stage # "idle"
        BY <1>1 DEF Chains, ChainOK, Stages, Before, Done
    <2> HIDE DEF d
    <2> QED
        BY <1>2, <1>3, <2>1, <2>2, PollKeeps
<1>4. CASE v = visit
    <2>1. shown \in Facts(board, advice) /\ shown.groups = Of(c.id, board)
        BY OfGrows DEF Display, Nothing, Facts
    <2> HIDE DEF shown
    <2> DEFINE d == [c EXCEPT !.stage = After(status[c.id]), !.had = shown]
    <2>2. status[c.id] \in Statuses
          /\ (status[c.id] = "completed" => Published(c.id, board))
        BY <1>1 DEF PageInv, BoardInv
    <2>3. \/ status[c.id] = "completed" /\ After(status[c.id]) = "total"
          \/ status[c.id] = "failed" /\ After(status[c.id]) = "over"
          \/ After(status[c.id]) = "wait"
        BY DEF After
    <2>4. /\ poll' = [poll EXCEPT ![v] = d] /\ UNCHANGED aside
          /\ view' = [view EXCEPT !.of = c.id, !.status = status[c.id]]
          /\ UNCHANGED <<boardVars, plan, visit, reports, click>>
        BY <1>4 DEF PollStatus, Polled, shown
    <2>5. /\ d \in Chains(board, advice) /\ d.stage = After(status[c.id])
          /\ d.had = shown /\ d.id = c.id /\ d.read = c.read
        BY <1>1, <2>1, <2>3 DEF Chains, Stages
    <2> HIDE DEF d
    <2>6. ChainOK(d, board, advice, TRUE) /\ d.stage # "idle"
        BY <1>1, <2>1, <2>2, <2>3, <2>5 DEF ChainOK, Before, Done
    <2>7. /\ view' \in Views(board, advice)
          /\ view'.of = c.id /\ view'.status = status[c.id]
          /\ view'.listed = view.listed /\ view'.page = view.page
        BY <1>1, <1>2, <2>2, <2>4 DEF Views
    <2>8. Loads(d, view') /\ Displays(d, view')
        BY <2>3, <2>5, <2>7 DEF Loads, Displays
    <2> QED
        BY <1>2, <1>4, <2>4, <2>5, <2>6, <2>7, <2>8, PollKeeps
<1> QED
    BY <1>3, <1>4

LEMMA PollAgainKeeps ==
    ASSUME PageInv, NEW v \in Visits, PollAgain(v)
    PROVE  PageInv'
<1> DEFINE c == poll[v]
           d == [c EXCEPT !.stage = "status"]
<1>1. /\ c \in Chains(board, advice) /\ ChainOK(c, board, advice, TRUE)
      /\ c.stage = "wait"
    BY DEF PageInv, ReadersInv, PollAgain
<1>2. /\ view \in Views(board, advice) /\ aside \subseteq Visits
      /\ view.listed # Absent => ListsRuns(view.listed, view.page)
    BY DEF PageInv, ReadersInv, ListsWholeRuns
<1>3. /\ poll' = [poll EXCEPT ![v] = d] /\ UNCHANGED <<view, aside>>
      /\ UNCHANGED <<boardVars, plan, visit, reports, click>>
    BY DEF PollAgain, Moves
<1>4. /\ d \in Chains(board, advice) /\ ChainOK(d, board, advice, TRUE)
      /\ d.stage = "status"
    BY <1>1 DEF Chains, ChainOK, Stages, Before, Done
<1>5. Loads(d, view) /\ Displays(d, view)
    BY <1>4 DEF Loads, Displays
<1> HIDE DEF d
<1> QED
    BY <1>2, <1>3, <1>4, <1>5, PollKeeps

LEMMA PollReadsKeeps ==
    ASSUME PageInv, NEW v \in Visits, PollReads(v)
    PROVE  PageInv'
<1> DEFINE c == poll[v]
<1>0. PICK rows \in MostFrequent(Of(c.id, board)) :
         poll' = [poll EXCEPT ![v] = Reads(c, rows)]
    BY DEF PollReads
<1> DEFINE d == Reads(c, rows)
<1>1. /\ c \in Chains(board, advice) /\ ChainOK(c, board, advice, TRUE)
      /\ c.stage \in {"total", "groups", "advice"}
    BY DEF PageInv, ReadersInv, PollReads
<1>2. /\ view \in Views(board, advice) /\ aside \subseteq Visits
      /\ view.listed # Absent => ListsRuns(view.listed, view.page)
    BY DEF PageInv, ReadersInv, ListsWholeRuns
<1>3. /\ poll' = [poll EXCEPT ![v] = d] /\ UNCHANGED <<view, aside>>
      /\ UNCHANGED <<boardVars, plan, visit, reports, click>>
    BY <1>0 DEF PollReads
<1>7. BoardInv /\ IsFiniteSet(Of(c.id, board))
    BY OfGrows, FS_Subset DEF PageInv, BoardInv
<1>8. Answers(rows, Of(c.id, board), TRUE)
    BY <1>0, <1>7, LimitAnswers
<1>4. /\ d \in Chains(board, advice) /\ ChainOK(d, board, advice, TRUE)
      /\ d.stage \in {"groups", "advice", "answer"} /\ d.id = c.id
    BY <1>1, <1>7, <1>8, ReadsKeeps
<1>5. v = visit => Loads(c, view)
    <2>1. v = visit => visit > 0
        BY PageAssumption DEF Visits, Plan
    <2> QED
        BY <1>1, <2>1 DEF PageInv, LoadsItself, Loads
<1> HIDE DEF d
<1>6. v = visit => Loads(d, view) /\ Displays(d, view)
    BY <1>1, <1>4, <1>5 DEF Loads, Displays
<1> QED
    BY <1>2, <1>3, <1>4, <1>6, PollKeeps

LEMMA PollGroupsKeeps ==
    ASSUME PageInv, NEW v \in Visits, PollGroups(v)
    PROVE  PageInv'
<1> DEFINE c == poll[v]
           d == [c EXCEPT !.stage = "over"]
<1>1. /\ c \in Chains(board, advice) /\ ChainOK(c, board, advice, TRUE)
      /\ c.stage = "answer"
    BY DEF PageInv, ReadersInv, PollGroups
<1>2. /\ view \in Views(board, advice) /\ aside \subseteq Visits
      /\ view.listed # Absent => ListsRuns(view.listed, view.page)
    BY DEF PageInv, ReadersInv, ListsWholeRuns
<1>3. /\ poll' = [poll EXCEPT ![v] = d] /\ aside' \subseteq Visits
      /\ UNCHANGED <<boardVars, plan, visit, reports, click>>
    BY <1>2 DEF PollGroups, Moves
<1>4. /\ d \in Chains(board, advice) /\ ChainOK(d, board, advice, TRUE)
      /\ d.stage = "over" /\ d.id = c.id
    BY <1>1 DEF Chains, ChainOK, Stages, Before, Done
<1>5. /\ c.id \in Analyses /\ c.read \in Facts(board, advice)
      /\ ListsRuns(c.id, c.read)
    BY <1>1 DEF Chains, ChainOK, Before, Done, Covers, ListsRuns, ListsAll
<1> HIDE DEF d
<1>6. CASE v = visit
    <2>1. visit > 0
        BY <1>6, PageAssumption DEF Visits, Plan
    <2>2. view.of = c.id /\ view.status = "completed"
        BY <1>1, <1>6, <2>1 DEF PageInv, LoadsItself
    <2>3. view' = [view EXCEPT !.listed = c.id, !.page = c.read]
        BY <1>6 DEF PollGroups
    <2>4. /\ view' \in Views(board, advice) /\ view'.of = view.of
          /\ view'.status = view.status /\ view'.listed = c.id
          /\ view'.page = c.read
        BY <1>2, <1>5, <2>3 DEF Views
    <2>5. Loads(d, view') /\ Displays(d, view')
        BY <1>4, <2>2, <2>4 DEF Loads, Displays
    <2> QED
        BY <1>3, <1>4, <1>5, <1>6, <2>4, <2>5, PollKeeps
<1>7. CASE v # visit
    <2>1. UNCHANGED view
        BY <1>7 DEF PollGroups
    <2> QED
        BY <1>2, <1>3, <1>4, <1>7, <2>1, PollKeeps
<1> QED
    BY <1>6, <1>7

LEMMA PollFailsKeeps ==
    ASSUME PageInv, NEW v \in Visits, PollFails(v)
    PROVE  PageInv'
<1> DEFINE c == poll[v]
           d == [c EXCEPT !.stage = "over"]
<1>1. /\ c \in Chains(board, advice) /\ ChainOK(c, board, advice, TRUE)
      /\ c.stage # "idle"
    BY DEF PageInv, ReadersInv, PollFails
<1>2. /\ view \in Views(board, advice) /\ aside \subseteq Visits
      /\ view.listed # Absent => ListsRuns(view.listed, view.page)
    BY DEF PageInv, ReadersInv, ListsWholeRuns
<1>3. /\ poll' = [poll EXCEPT ![v] = d] /\ UNCHANGED aside
      /\ UNCHANGED <<boardVars, plan, visit, reports, click>>
    BY DEF PollFails, Moves
<1>4. /\ d \in Chains(board, advice) /\ ChainOK(d, board, advice, TRUE)
      /\ d.stage = "over"
    BY <1>1 DEF Chains, ChainOK, Stages, Before, Done
<1> HIDE DEF d
<1>5. /\ view' \in Views(board, advice) /\ view'.listed = view.listed
      /\ view'.page = view.page
      /\ v = visit => view'.error
      /\ v # visit => UNCHANGED view
    BY <1>2 DEF PollFails, Views
<1>6. v = visit => Loads(d, view') /\ Displays(d, view')
    BY <1>4, <1>5 DEF Loads, Displays
<1> QED
    BY <1>2, <1>3, <1>4, <1>5, <1>6, PollKeeps

\* Timeline and similar incidents arrive.
LEMMA AsideKeeps ==
    ASSUME PageInv, NEW v \in Visits, Aside(v)
    PROVE  PageInv'
<1>1. ReadersInv /\ ListsWholeRuns /\ poll[v] \in Chains(board, advice)
      /\ ChainOK(poll[v], board, advice, TRUE)
    BY DEF PageInv, ReadersInv
<1>2. /\ UNCHANGED <<boardVars, plan, visit, poll, reports, click>>
      /\ aside' \subseteq Visits
    BY <1>1 DEF Aside, ReadersInv
<1>3. /\ view' \in Views(board, advice) /\ view'.listed = view.listed
      /\ view'.page = view.page /\ view'.of = view.of
      /\ view'.status = view.status /\ view'.error = view.error
    BY <1>1 DEF Aside, Views, ReadersInv, Chains
<1>4. BoardInv' /\ ReadersInv'
    BY <1>1, <1>2, <1>3 DEF PageInv, BoardInv, ReadersInv, boardVars
<1>5. ListsWholeRuns' /\ LoadsItself' /\ SettledShowsItself'
    BY <1>2, <1>3 DEF PageInv, ListsWholeRuns, LoadsItself, SettledShowsItself
<1> QED
    BY <1>2, <1>4, <1>5 DEF PageInv, boardVars

\* The new effect starts with nothing read; timers of the others are cleared.
LEMMA VisitKeeps ==
    ASSUME PageInv, NEW a \in Analyses, Visit(a)
    PROVE  PageInv'
<1>1. /\ visit' = visit + 1 /\ visit < plan.visits
      /\ poll' = [v \in Visits |->
            IF v = visit + 1 THEN Chain(a, "status")
            ELSE IF poll[v].stage = "wait" THEN Chain(poll[v].id, "over")
            ELSE poll[v]]
      /\ UNCHANGED <<boardVars, plan, aside, view, reports, click>>
    BY DEF Visit
<1>2. plan \in Plans /\ plan.visits \in Nat /\ visit \in 0 .. plan.visits
    BY PageAssumption DEF PageInv, ReadersInv, Plan
<1>3. visit' \in 1 .. plan.visits /\ visit' \in Visits
    BY <1>1, <1>2 DEF Visits
<1>4. ASSUME NEW b \in Analyses, NEW s \in {"status", "over"}
      PROVE  /\ Chain(b, s) \in Chains(board, advice)
             /\ ChainOK(Chain(b, s), board, advice, TRUE)
             /\ Chain(b, s).stage = s
    BY DEF Chain, Nothing, Chains, Facts, Stages, ChainOK, Before, Done
<1>5. ASSUME NEW v \in Visits
      PROVE  /\ poll'[v] \in Chains(board, advice)
             /\ ChainOK(poll'[v], board, advice, TRUE)
    <2>1. poll[v] \in Chains(board, advice) /\ ChainOK(poll[v], board, advice, TRUE)
        BY DEF PageInv, ReadersInv
    <2>2. poll[v].stage = "wait" => poll[v].id \in Analyses
        BY <2>1 DEF ChainOK
    <2> QED
        BY <1>1, <1>4, <2>1, <2>2
<1>6. poll'[visit'].stage = "status"
    BY <1>1, <1>3, <1>4
<1>7. poll' \in [Visits -> Chains(board, advice)]
    BY <1>1, <1>5
<1>8. UNCHANGED <<status, board, advice>>
    BY <1>1 DEF boardVars
<1>9. BoardInv' /\ ReadersInv'
    BY <1>1, <1>2, <1>3, <1>6, <1>7, <1>8 DEF PageInv, BoardInv, ReadersInv
<1>10. ListsWholeRuns' /\ LoadsItself' /\ SettledShowsItself'
    BY <1>1, <1>6 DEF PageInv, ListsWholeRuns, LoadsItself, SettledShowsItself
<1> QED
    BY <1>1, <1>5, <1>8, <1>9, <1>10 DEF PageInv
-----------------------------------------------------------------------------
(* Reports. *)

\* One report request moves, and may store what it has read.
LEMMA ClickKeeps ==
    ASSUME PageInv, UNCHANGED <<boardVars, plan, visit, poll, aside>>,
           NEW k \in Clicks, NEW d \in Chains(board, advice),
           ChainOK(d, board, advice, FALSE), Clicked(k, d),
           UNCHANGED view \/ view' = [view EXCEPT !.report = d.id],
           \/ UNCHANGED reports
           \/ /\ reports' = [reports EXCEPT ![d.id] = d.read]
              /\ WholeRuns(d.id, d.read) /\ d.id \in Analyses
    PROVE  PageInv'
<1>1. UNCHANGED <<status, board, advice, plan, visit, poll, aside>>
    BY DEF boardVars
<1>2. ReadersInv /\ ListsWholeRuns
    BY DEF PageInv
<1>3. /\ click' \in [Clicks -> Chains(board, advice)] /\ click'[k] = d
      /\ \A j \in Clicks : j # k => click'[j] = click[j]
    BY <1>2 DEF Clicked, ReadersInv
<1>4. /\ view' \in Views(board, advice) /\ view'.listed = view.listed
      /\ view'.page = view.page /\ view'.of = view.of
      /\ view'.status = view.status /\ view'.error = view.error
    BY <1>2 DEF Views, ReadersInv, Chains
<1>5. d.read \in Facts(board, advice)
    BY DEF Chains
<1>6. reports' \in [Analyses -> Facts(board, advice) \union {Absent}]
    BY <1>2, <1>5 DEF ReadersInv
<1>7. BoardInv' /\ ReadersInv'
    BY <1>1, <1>2, <1>3, <1>4, <1>6 DEF PageInv, BoardInv, ReadersInv
<1>8. ListsWholeRuns'
    <2>1. view'.listed # Absent => ListsRuns(view'.listed, view'.page)
        BY <1>2, <1>4 DEF ListsWholeRuns
    <2>2. ASSUME NEW a \in Analyses, reports'[a] # Absent
          PROVE  WholeRuns(a, reports'[a])
        BY <1>2, <2>2 DEF ListsWholeRuns, ReadersInv
    <2> QED
        BY <2>1, <2>2 DEF ListsWholeRuns
<1>9. LoadsItself' /\ SettledShowsItself'
    BY <1>1, <1>4 DEF PageInv, LoadsItself, SettledShowsItself
<1>10. /\ \A v \in Visits : ChainOK(poll'[v], board', advice', TRUE)
       /\ \A j \in Clicks : ChainOK(click'[j], board', advice', FALSE)
    BY <1>1, <1>3 DEF PageInv
<1> QED
    BY <1>7, <1>8, <1>9, <1>10 DEF PageInv

LEMMA ClickReportKeeps ==
    ASSUME PageInv, NEW k \in Clicks, ClickReport(k)
    PROVE  PageInv'
<1> DEFINE a == poll[visit].id
           d == [Chain(a, "status") EXCEPT !.had = Display(a)]
<1>1. visit \in Visits /\ visit > 0
    BY VisitType DEF PageInv, ClickReport
<1>2. a \in Analyses
    BY <1>1 DEF PageInv, ReadersInv, ChainOK
<1>3. Display(a) \in Facts(board, advice) /\ Display(a).groups = Of(a, board)
    BY OfGrows DEF Display, Nothing, Facts
<1>4. d = [id |-> a, stage |-> "status", read |-> Nothing, had |-> Display(a)]
    BY DEF Chain
<1>7. d \in Chains(board, advice)
    BY <1>2, <1>3, <1>4 DEF Nothing, Chains, Facts, Stages
<1>8. /\ d.id = a /\ d.stage = "status" /\ d.read.total = 0
      /\ d.had.groups = Of(a, board)
    BY <1>3, <1>4 DEF Nothing
<1>5. d \in Chains(board, advice) /\ ChainOK(d, board, advice, FALSE)
    BY <1>2, <1>7, <1>8 DEF ChainOK, Before, Done
<1>6. Clicked(k, d) /\ UNCHANGED <<boardVars, plan, visit, poll, aside, view, reports>>
    BY DEF ClickReport
<1> HIDE DEF d
<1> QED
    BY <1>5, <1>6, ClickKeeps

LEMMA ReportStepKeeps ==
    ASSUME PageInv, NEW k \in Clicks, ReportStep(k)
    PROVE  PageInv'
<1> DEFINE c == click[k]
<1>1. c \in Chains(board, advice) /\ ChainOK(c, board, advice, FALSE)
    BY DEF PageInv, ReadersInv
<1>2. CASE ReportStatus(k)
    <2> DEFINE s == IF status[c.id] = "completed" THEN "groups" ELSE "failed"
               d == [c EXCEPT !.stage = s]
    <2>1. Clicked(k, d) /\ c.stage = "status"
          /\ UNCHANGED <<boardVars, plan, visit, poll, aside, view, reports>>
        BY <1>2 DEF ReportStatus
    <2>2. s = "groups" => Published(c.id, board)
        BY <1>1, <2>1 DEF PageInv, BoardInv, ChainOK
    <2>3. s \in {"groups", "failed"}
        OBVIOUS
    <2> HIDE DEF s
    <2>4. d \in Chains(board, advice) /\ d.stage = s /\ d.id = c.id
          /\ d.had = c.had /\ d.read = c.read
        BY <1>1, <2>3 DEF Chains, Stages
    <2> HIDE DEF d
    <2>5. c.read.total = 0 /\ 0 <= Cardinality(Of(c.id, board))
        BY <1>1, <2>1, OfGrows, FS_Subset, FS_CardinalityType
           DEF ChainOK, PageInv, BoardInv
    <2>6. ChainOK(d, board, advice, FALSE)
        BY <1>1, <2>1, <2>2, <2>3, <2>4, <2>5 DEF ChainOK, Before, Done
    <2> QED
        BY <2>1, <2>4, <2>6, ClickKeeps
<1>3. CASE ReportReads(k)
    <2> DEFINE d == Reads(c, Of(c.id, board))
    <2>1. Clicked(k, d) /\ c.stage \in {"groups", "advice"}
          /\ UNCHANGED <<boardVars, plan, visit, poll, aside, view, reports>>
        BY <1>3 DEF ReportReads
    <2>2. d \in Chains(board, advice) /\ ChainOK(d, board, advice, FALSE)
        <3>1. BoardInv /\ IsFiniteSet(Of(c.id, board))
            BY OfGrows, FS_Subset DEF PageInv, BoardInv
        <3> QED
            BY <1>1, <2>1, <3>1, AllAnswers, ReadsKeeps
    <2> HIDE DEF d
    <2> QED
        BY <2>1, <2>2, ClickKeeps
<1>4. CASE ReportLookup(k)
    <2> DEFINE s == IF reports[c.id] = Absent THEN "insert" ELSE "update"
               d == [c EXCEPT !.stage = s]
    <2>1. Clicked(k, d) /\ c.stage = "answer"
          /\ UNCHANGED <<boardVars, plan, visit, poll, aside, view, reports>>
        BY <1>4 DEF ReportLookup
    <2>2. s \in {"insert", "update"}
        OBVIOUS
    <2> HIDE DEF s
    <2>3. d \in Chains(board, advice) /\ ChainOK(d, board, advice, FALSE)
        BY <1>1, <2>1, <2>2 DEF Chains, Stages, ChainOK, Before, Done
    <2> HIDE DEF d
    <2> QED
        BY <2>1, <2>3, ClickKeeps
<1>5. CASE ReportSave(k)
    <2>1. /\ c.stage \in {"insert", "update"}
          /\ UNCHANGED <<boardVars, plan, visit, poll, aside, view>>
        BY <1>5 DEF ReportSave
    <2>2. PICK s \in {"failed", "saved"} :
            /\ Clicked(k, [c EXCEPT !.stage = s])
            /\ \/ UNCHANGED reports
               \/ reports' = [reports EXCEPT ![c.id] = c.read]
        BY <1>5 DEF ReportSave
    <2> DEFINE d == [c EXCEPT !.stage = s]
    <2>3. /\ d \in Chains(board, advice) /\ ChainOK(d, board, advice, FALSE)
          /\ d.id = c.id /\ d.read = c.read
        BY <1>1, <2>1 DEF Chains, Stages, ChainOK, Before, Done, WholeRuns
    <2>4. c.id \in Analyses /\ WholeRuns(c.id, c.read)
        BY <1>1, <2>1 DEF ChainOK, Before, Done, Covers, WholeRuns
    <2>5. Clicked(k, d)
        BY <2>2
    <2> HIDE DEF d
    <2> QED
        BY <2>1, <2>2, <2>3, <2>4, <2>5, ClickKeeps
<1>6. CASE ReportAnswered(k)
    <2> DEFINE d == [c EXCEPT !.stage = "ok"]
    <2>1. /\ Clicked(k, d) /\ c.stage = "saved"
          /\ view' = [view EXCEPT !.report = c.id]
          /\ UNCHANGED <<boardVars, plan, visit, poll, aside, reports>>
        BY <1>6 DEF ReportAnswered
    <2>2. /\ d \in Chains(board, advice) /\ ChainOK(d, board, advice, FALSE)
          /\ d.id = c.id
        BY <1>1, <2>1 DEF Chains, Stages, ChainOK, Before, Done, WholeRuns
    <2> HIDE DEF d
    <2> QED
        BY <2>1, <2>2, ClickKeeps
<1> QED
    BY <1>2, <1>3, <1>4, <1>5, <1>6 DEF ReportStep
-----------------------------------------------------------------------------
(* The workers of AnalysisPage move as AnalysisBoard allows. *)

\* The insights of a new run are for groups that had none.
LEMMA AdviseFollows ==
    ASSUME NEW a \in Analyses, NEW new,
           NEW S \in SUBSET (Of(a, board \union new)
                             \ {i.group : i \in advice}),
           board' = board \union new,
           advice' = advice \union {Advise(g) : g \in S}
    PROVE  ShowAdvice(a)
<1>1. ASSUME NEW i \in advice' \ advice
      PROVE  /\ i.group \in board' /\ i.group.analysis = a
             /\ i.fp = i.group.fp /\ i.user = Owner[a]
             /\ Grounded(i, advice')
             /\ \A j \in advice' : j.group = i.group => j = i
    <2>1. PICK g \in S : i = Advise(g)
        OBVIOUS
    <2>2. /\ i.group = g /\ i.fp = g.fp /\ i.user = Owner[g.analysis]
          /\ i.payload = g /\ ~i.cached
        BY <2>1 DEF Advise
    <2>3. /\ g \in board' /\ g.analysis = a
          /\ \A j \in advice : j.group # g
        BY DEF Of
    <2>4. \A j \in advice' : j.group = i.group => j = i
        <3> SUFFICES ASSUME NEW j \in advice', j.group = i.group
                     PROVE  j = i
            OBVIOUS
        <3>1. PICK h \in S : j = Advise(h)
            BY <2>2, <2>3
        <3>2. h = g
            BY <2>2, <3>1 DEF Advise
        <3> QED
            BY <2>1, <3>1, <3>2
    <2>5. Grounded(i, advice')
        BY <2>2 DEF Grounded
    <2> QED
        BY <2>2, <2>3, <2>4, <2>5
<1> QED
    BY <1>1 DEF ShowAdvice

LEMMA WorkersFollowBoard == MoveBoard => [BoardNext]_boardVars
<1> SUFFICES ASSUME MoveBoard
             PROVE  [BoardNext]_boardVars
    OBVIOUS
<1>1. ASSUME NEW a \in Analyses, NEW r, PublishRun(a, r)
      PROVE  Publish(a)
    <2> DEFINE new == RunGroups(a, r)
               bare == Of(a, board \union new) \ {i.group : i \in advice}
    <2>1. PICK S \in {{}, bare} :
            /\ status' = [status EXCEPT ![a] = "completed"]
            /\ board' = board \union new
            /\ advice' = advice \union {Advise(g) : g \in S}
        BY <1>1 DEF PublishRun
    <2>2. status[a] = "running" /\ new \cap board = {}
        BY <1>1 DEF PublishRun
    <2>3. S \in SUBSET bare
        OBVIOUS
    <2>4. ShowAdvice(a)
        BY <2>1, <2>3, AdviseFollows
    <2>5. ShowRun(a)
        <3>1. CASE Content[a] = {}
            <4>1. new = {}
                BY <3>1 DEF RunGroups
            <4> QED
                BY <2>1, <3>1, <4>1 DEF ShowRun
        <3>2. CASE Content[a] # {}
            <4>1. PICK f \in Content[a] : TRUE
                BY <3>2
            <4>2. PICK g \in new : TRUE
                BY <4>1 DEF RunGroups
            <4>3. g \in board' /\ g.run = r
                BY <2>1, RunIsItself
            <4> QED
                BY <2>1, <2>2, <4>3 DEF ShowRun
        <3> QED
            BY <3>1, <3>2
    <2> QED
        BY <2>1, <2>2, <2>4, <2>5 DEF Publish
<1>2. \E a \in Analyses : Submit(a) \/ Start(a) \/ Fail(a) \/ Publish(a)
    BY <1>1 DEF MoveBoard
<1> QED
    BY <1>2 DEF BoardNext

\* The other steps of a page leave the board alone.
LEMMA PageFollowsBoard == [PageNext]_pageVars => [BoardNext]_boardVars
<1>1. \A a \in Analyses : Visit(a) => UNCHANGED boardVars
    BY DEF Visit
<1>2. \A v \in Visits : PollStep(v) \/ PollFails(v) => UNCHANGED boardVars
    BY DEF PollStep, PollStatus, PollAgain, PollReads, PollGroups, Aside,
           PollFails
<1>3. \A k \in Clicks : ClickReport(k) \/ ReportStep(k) => UNCHANGED boardVars
    BY DEF ClickReport, ReportStep, ReportStatus, ReportReads, ReportLookup,
           ReportSave, ReportAnswered
<1>4. PageRest \/ UNCHANGED pageVars => UNCHANGED boardVars
    BY DEF PageRest, pageVars, boardVars
<1> QED
    BY <1>1, <1>2, <1>3, <1>4, WorkersFollowBoard DEF PageNext

\* The board a page looks at is one that AnalysisBoard promises its readers,
\* and AnalysisJobs implements.
THEOREM PagesReadTheBoard == PageSpec => BoardSpec
<1>1. PageInit => BoardInit
    BY DEF PageInit
<1> QED
    BY <1>1, PageFollowsBoard, PTL DEF PageSpec, BoardSpec
-----------------------------------------------------------------------------
(* Pages over a board of which nothing else is known. *)

\* The workers move as AnalysisBoard allows, and no further: AnalysisJobs is
\* one such board (AnalysisJobs!ImplementsBoard).
OpenNext == PageNext \/ (BoardNext /\ UNCHANGED readVars)
OpenSpec == PageInit /\ [][OpenNext]_pageVars

LEMMA PageInvStep == PageInv /\ [OpenNext]_pageVars => PageInv'
<1> SUFFICES ASSUME PageInv, [OpenNext]_pageVars
             PROVE  PageInv'
    OBVIOUS
<1>1. CASE BoardNext /\ UNCHANGED readVars
    BY <1>1, BoardStepKeeps
<1>2. CASE MoveBoard
    BY <1>2, WorkersFollowBoard, BoardStepKeeps DEF MoveBoard
<1>3. CASE \E a \in Analyses : Visit(a)
    BY <1>3, VisitKeeps
<1>4. ASSUME NEW v \in Visits, PollStep(v) \/ PollFails(v)
      PROVE  PageInv'
    BY <1>4, PollStatusKeeps, PollAgainKeeps, PollReadsKeeps, PollGroupsKeeps,
       AsideKeeps, PollFailsKeeps DEF PollStep
<1>5. ASSUME NEW k \in Clicks, ClickReport(k) \/ ReportStep(k)
      PROVE  PageInv'
    BY <1>5, ClickReportKeeps, ReportStepKeeps
<1>6. CASE PageRest \/ UNCHANGED pageVars
    <2>1. UNCHANGED boardVars /\ UNCHANGED readVars
        BY <1>6 DEF PageRest, pageVars, boardVars, readVars
    <2> QED
        BY <2>1, BoardStepKeeps
<1> QED
    BY <1>1, <1>2, <1>3, <1>4, <1>5, <1>6 DEF OpenNext, PageNext

LEMMA OpenInvariant == OpenSpec => []PageInv
BY PageInvInit, PageInvStep, PTL DEF OpenSpec

LEMMA PageIsOpen == PageSpec => OpenSpec
<1>1. [PageNext]_pageVars => [OpenNext]_pageVars
    BY DEF OpenNext
<1> QED
    BY <1>1, PTL DEF PageSpec, OpenSpec

\* What has been read is no older than the request.
LEMMA PageInvFresh == PageInv => PollsAreFresh /\ ReportsAreFresh
<1>1. ASSUME PageInv, NEW v \in Visits, poll[v].stage = "answer"
      PROVE  /\ ListsAll(poll[v].had.groups, poll[v].read)
             /\ poll[v].had.advice \subseteq poll[v].read.advice
             /\ \/ poll[v].read.total <= Cardinality(poll[v].read.groups)
                \/ Cardinality(poll[v].read.groups) = PageLimit
    BY <1>1 DEF PageInv, ChainOK, Done, Covers, ListsAll
<1>2. ASSUME PageInv, NEW k \in Clicks, click[k].stage \in {"saved", "ok"}
      PROVE  NoOlderThan(click[k].read, click[k].had)
    BY <1>2 DEF PageInv, ChainOK, Done, Covers, NoOlderThan
<1> QED
    BY <1>1, <1>2 DEF PollsAreFresh, ReportsAreFresh
-----------------------------------------------------------------------------
\* A page that has stopped polling shows the status and the groups of its own
\* analysis, however answers of earlier pages straggle in (Analysis.tsx:31-35).
THEOREM SettledPagesShowThemselves ==
    /\ OpenSpec => []SettledShowsItself
    /\ PageSpec => []SettledShowsItself
<1>1. PageInv => SettledShowsItself
    BY DEF PageInv
<1> QED
    BY <1>1, OpenInvariant, PageIsOpen, PTL

\* Reports hold whole runs, whenever their statements are executed, and lists
\* do up to their limit (api/v1/analyses.py, services/report.py).
THEOREM PagesListWholeRuns ==
    /\ OpenSpec => []ListsWholeRuns
    /\ PageSpec => []ListsWholeRuns
<1>1. PageInv => ListsWholeRuns
    BY DEF PageInv
<1> QED
    BY <1>1, OpenInvariant, PageIsOpen, PTL

\* An answer of list_groups misses nothing that was on display when it was
\* asked for, and its total is not more than its groups, unless its limit cuts
\* it off below the most frequent ones.
THEOREM PollsStayFresh ==
    /\ OpenSpec => []PollsAreFresh
    /\ PageSpec => []PollsAreFresh
BY PageInvFresh, OpenInvariant, PageIsOpen, PTL

\* Nor does a report, which is rebuilt for every request.
THEOREM ReportsStayFresh ==
    /\ OpenSpec => []ReportsAreFresh
    /\ PageSpec => []ReportsAreFresh
BY PageInvFresh, OpenInvariant, PageIsOpen, PTL
-----------------------------------------------------------------------------
(* Types. *)

\* The board only ever shows groups of runs that the plan allows.
LEMMA OnlyPlannedGroups == PageSpec => [](board \subseteq Groups)
<1>1. PageInit => board \subseteq Groups
    BY DEF PageInit, BoardInit
<1>2. ASSUME board \subseteq Groups, [PageNext]_pageVars
      PROVE  (board \subseteq Groups)'
    <2>1. ASSUME NEW a \in Analyses, NEW r \in Runs, PublishRun(a, r)
          PROVE  board' \subseteq Groups
        BY <1>2, <2>1 DEF PublishRun, RunGroups, Groups
    <2>2. CASE MoveBoard
        BY <1>2, <2>1, <2>2 DEF MoveBoard, Submit, Start, Fail, Groups
    <2>3. CASE UNCHANGED boardVars
        BY <1>2, <2>3 DEF boardVars, Groups
    <2> QED
        BY <1>2, <2>2, <2>3
        DEF PageNext, Visit, PollStep, PollStatus, PollAgain, PollReads,
            PollGroups, Aside, PollFails, ClickReport, ReportStep, ReportStatus,
            ReportReads, ReportLookup, ReportSave, ReportAnswered, PageRest,
            Clicked, pageVars, boardVars
<1> QED
    BY <1>1, <1>2, PTL DEF PageSpec

\* Pages and requests hold what they are declared to hold: identifiers of
\* analyses, stages, and readings of groups that can be on display.
THEOREM PageTypeCorrect == PageSpec => []PageTypeOK
<1>1. ASSUME PageInv, board \subseteq Groups
      PROVE  PageTypeOK
    <2>1. Facts(board, advice) \subseteq Reading
        BY <1>1 DEF Facts, Reading
    <2>2. Chains(board, advice) \subseteq Chained
        BY <2>1 DEF Chains, Chained
    <2>3. ReadersInv
        BY <1>1 DEF PageInv
    <2>4. /\ plan \in Plans /\ visit \in 0 .. plan.visits /\ aside \subseteq Visits
          /\ \A v \in Visits : poll[v] \in Chained
          /\ \A k \in Clicks : click[k] \in Chained
          /\ \A a \in Analyses : reports[a] = Absent \/ reports[a] \in Reading
        BY <2>1, <2>2, <2>3 DEF ReadersInv
    <2>5. /\ view.page \in Reading /\ view.error \in BOOLEAN
          /\ {view.of, view.listed, view.aside, view.report}
                \subseteq Analyses \union {Absent}
        BY <2>1, <2>3 DEF ReadersInv, Views
    <2> QED
        BY <2>4, <2>5 DEF PageTypeOK
<1> QED
    BY <1>1, OpenInvariant, PageIsOpen, OnlyPlannedGroups, PTL
=============================================================================
