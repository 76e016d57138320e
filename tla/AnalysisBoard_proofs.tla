------------------------ MODULE AnalysisBoard_proofs ------------------------
\* That the workers of AnalysisJobs implement AnalysisBoard, for every value of
\* the constants: whatever they do is one step of the board, or none.
EXTENDS AnalysisJobs_proofs, System

\* An analysis nobody submitted has no row.
UnsubmittedIsAbsent ==
    \A a \in Analyses : req[a] = "none" => row[a].status = "absent"

\* What readers see changes in four actions only.
LEMMA ReadersSee ==
    ASSUME TypeOK, RunInv, [Next]_vars
    PROVE  \/ UNCHANGED <<row, groups, insights>>
           \/ \E a \in Analyses : Register(a)
           \/ \E w \in Workers : Begin(w) \/ FailRead(w) \/ Finish(w)
<1>1. ASSUME NEW w \in Workers,
             \/ CacheHit(w) \/ CacheMiss(w) \/ Answer(w) \/ CallFails(w)
             \/ InsertInsight(w) \/ InsertDeadlock(w) \/ EnrichDone(w)
      PROVE  UNCHANGED <<row, groups, insights>>
  BY <1>1 DEF CacheHit, CacheMiss, Answer, CallFails, InsertInsight, InsertDeadlock,
              EnrichDone, store
<1>2. ASSUME NEW w \in Workers,
             \/ Load(w) \/ LoadFile(w) \/ PersistGroups(w) \/ SelectTop(w)
             \/ SelectAll(w) \/ Index(w) \/ Ack(w)
      PROVE  UNCHANGED <<row, groups, insights>>
  BY <1>2 DEF Load, LoadFile, PersistGroups, SelectTop, SelectAll, Index, Ack, store
<1>3. ASSUME NEW w \in Workers, WorkerFault(w)
      PROVE  UNCHANGED <<row, groups, insights>>
  BY <1>3 DEF WorkerFault, SetupFails, ConnectFails, DbError, Crash, ChildLost, store
<1>4. ASSUME NEW w \in Workers, NEW m, Deliver(w, m)
      PROVE  UNCHANGED <<row, groups, insights>>
  BY <1>4 DEF Deliver, store
<1>5. ASSUME NEW m, Restore(m) \/ RestoreWhileHeld(m)
      PROVE  UNCHANGED <<row, groups, insights>>
  BY <1>5 DEF Restore, RestoreWhileHeld, store
<1>6. ASSUME NEW a \in Analyses, Enqueue(a) \/ EnqueueFails(a)
      PROVE  UNCHANGED <<row, groups, insights>>
  BY <1>6 DEF Enqueue, EnqueueFails, store
<1>7. CASE UNCHANGED vars
  BY <1>7 DEF vars
<1> QED
  BY <1>1, <1>2, <1>3, <1>4, <1>5, <1>6, <1>7 DEF Next, Api, Work, Rest

\* What Register, Begin and FailRead do to the rows.
LEMMA StatusSteps ==
    ASSUME TypeOK, RunInv
    PROVE  /\ \A a \in Analyses : Register(a) =>
                 /\ row' = [row EXCEPT ![a].status = "pending"]
                 /\ req[a] = "none" /\ req'[a] = "committed"
                 /\ UNCHANGED <<groups, insights>>
           /\ \A w \in Workers : Begin(w) \/ FailRead(w) =>
                 /\ A(w) \in Analyses /\ row[A(w)].status # "absent"
                 /\ row'[A(w)].status # "completed" \/ row' = row
                 /\ \A a \in Analyses : a # A(w) => row'[a] = row[a]
                 /\ UNCHANGED <<req, groups, insights>>
<1>1. ASSUME NEW a \in Analyses, Register(a)
      PROVE  /\ row' = [row EXCEPT ![a].status = "pending"]
             /\ req[a] = "none" /\ req'[a] = "committed"
             /\ UNCHANGED <<groups, insights>>
  BY <1>1 DEF Register, TypeOK
<1>2. ASSUME NEW w \in Workers, Begin(w) \/ FailRead(w)
      PROVE  /\ A(w) \in Analyses /\ row[A(w)].status # "absent"
             /\ row'[A(w)].status # "completed" \/ row' = row
             /\ \A a \in Analyses : a # A(w) => row'[a] = row[a]
             /\ UNCHANGED <<req, groups, insights>>
  <2>1. A(w) \in Analyses /\ row[A(w)].status # "absent"
    BY <1>2, HoldsMessage DEF Begin, FailRead, RunInv, RowsExist
  <2>2. CASE Begin(w)
    BY <2>1, <2>2 DEF Begin, TypeOK, Row
  <2>3. CASE FailRead(w)
    BY <2>1, <2>3 DEF FailRead, TypeOK, Row
  <2> QED BY <1>2, <2>1, <2>2, <2>3
<1> QED BY <1>1, <1>2

\* The commit of w publishes all the groups of a fresh run, and its analysis.
LEMMA FinishPublishes ==
    ASSUME TypeOK, RunInv, NEW w \in Workers, Finish(w)
    PROVE  /\ A(w) \in Analyses
           /\ row[A(w)].status # "absent"
           /\ row' = [row EXCEPT ![A(w)] = row'[A(w)]]
           /\ row'[A(w)].status = "completed"
           /\ job[w].run \in 1..runs[A(w)]
           /\ Committed(A(w), job[w].run) = {}
           /\ job[w].groups = RunGroups(A(w), job[w].run)
           /\ groups' = groups \cup RunGroups(A(w), job[w].run)
           /\ insights' = insights \cup job[w].insights
           /\ req' = req
<1>1. job[w].phase = "finish" /\ A(w) \in Analyses
  BY HoldsMessage DEF Finish
<1>2. /\ job[w].groups = RunGroups(A(w), job[w].run)
      /\ job[w].run \in 1..runs[A(w)]
      /\ Committed(A(w), job[w].run) = {}
      /\ row[A(w)].status # "absent"
  BY <1>1 DEF RunInv, LocalRows, RunsAreFresh, RowsExist, Writing, Committed
<1>3. /\ row' = [row EXCEPT ![A(w)] = row'[A(w)]]
      /\ row'[A(w)].status = "completed"
  BY <1>1 DEF Finish, TypeOK
<1> QED BY <1>1, <1>2, <1>3 DEF Finish

\* A step that completes an analysis shows a whole fresh run of it, and groups
\* are only shown by such a step.
THEOREM RunsArePublishedAtOnce == Spec => PublishedAtOnce
<1> DEFINE Once ==
       \A a \in Analyses :
          /\ row[a].status # "completed" /\ row'[a].status = "completed"
             => \E r \in 1..runs[a] : /\ Committed(a, r) = {}
                                      /\ RunGroups(a, r) \subseteq groups'
          /\ (\E g \in groups' \ groups : g.analysis = a)
             => row'[a].status = "completed"
<1>1. TypeOK /\ RunInv /\ [Next]_vars => [Once]_vars
  <2> SUFFICES ASSUME TypeOK, RunInv, [Next]_vars PROVE Once
    OBVIOUS
  <2>1. CASE UNCHANGED <<row, groups, insights>>
    BY <2>1
  <2>2. ASSUME NEW a \in Analyses, Register(a) PROVE Once
    BY <2>2, StatusSteps DEF TypeOK, Row
  <2>3. ASSUME NEW w \in Workers, Begin(w) \/ FailRead(w) PROVE Once
    BY <2>3, StatusSteps
  <2>4. ASSUME NEW w \in Workers, Finish(w) PROVE Once
    <3>1. \A g \in RunGroups(A(w), job[w].run) : g.analysis = A(w)
      BY DEF RunGroups
    <3> QED BY <2>4, <3>1, FinishPublishes DEF TypeOK
  <2> QED BY <2>1, <2>2, <2>3, <2>4, ReadersSee
<1> QED BY <1>1, TypeCorrect, RunInvariant, PTL DEF Spec, PublishedAtOnce

\* Rows appear only when they are registered.
LEMMA UnsubmittedInvariant == Spec => []UnsubmittedIsAbsent
<1>1. Init => UnsubmittedIsAbsent
  BY DEF Init, UnsubmittedIsAbsent
<1>2. TypeOK /\ RunInv /\ UnsubmittedIsAbsent /\ [Next]_vars => UnsubmittedIsAbsent'
  <2> SUFFICES ASSUME TypeOK, RunInv, UnsubmittedIsAbsent, [Next]_vars
               PROVE  UnsubmittedIsAbsent'
    OBVIOUS
  <2>1. \A a \in Analyses : req'[a] = "none" => req[a] = "none"
    BY DEF Next, Api, Work, WorkerFault, Rest, Register, Enqueue, EnqueueFails,
           Load, LoadFile, Begin, FailRead, PersistGroups, SelectTop, CacheHit,
           CacheMiss, Answer, CallFails, InsertInsight, InsertDeadlock, EnrichDone,
           SelectAll, Index, Finish, Ack, SetupFails, ConnectFails, DbError, Crash,
           ChildLost, Deliver, Restore, RestoreWhileHeld, TypeOK, vars
  <2>2. CASE UNCHANGED <<row, groups, insights>>
    BY <2>1, <2>2 DEF UnsubmittedIsAbsent
  <2>3. ASSUME NEW a \in Analyses, Register(a) PROVE UnsubmittedIsAbsent'
    BY <2>1, <2>3, StatusSteps DEF UnsubmittedIsAbsent, TypeOK
  <2>4. ASSUME NEW w \in Workers, Begin(w) \/ FailRead(w) PROVE UnsubmittedIsAbsent'
    BY <2>4, StatusSteps DEF UnsubmittedIsAbsent
  <2>5. ASSUME NEW w \in Workers, Finish(w) PROVE UnsubmittedIsAbsent'
    BY <2>5, FinishPublishes DEF UnsubmittedIsAbsent, TypeOK
  <2> QED BY <2>2, <2>3, <2>4, <2>5, ReadersSee
<1>3. QED BY <1>1, <1>2, TypeCorrect, RunInvariant, PTL DEF Spec

\* The commit of w is the step of the board that publishes its analysis.
LEMMA FinishIsPublish ==
    ASSUME TypeOK, RunInv, InsightInv, InsightInv', NEW w \in Workers, Finish(w),
           NEW a \in Analyses, a = A(w)
    PROVE  Board!Publish(a)
<1> DEFINE r == job[w].run
<1>1. /\ a \in Analyses /\ row[a].status # "absent"
      /\ row' = [row EXCEPT ![a] = row'[a]] /\ row'[a].status = "completed"
      /\ Committed(a, r) = {}
      /\ groups' = groups \cup RunGroups(a, r)
      /\ insights' = insights \cup job[w].insights
  BY FinishPublishes
<1>2. [b \in Analyses |-> row[b].status]'
        = [[b \in Analyses |-> row[b].status] EXCEPT ![a] = "completed"]
  BY <1>1 DEF TypeOK
<1>3. Board!ShowRun(a)
  <2>1. RunGroups(a, r) \cap groups = {}
    BY <1>1 DEF RunGroups, Committed
  <2>2. CASE Content[a] = {}
    <3>1. RunGroups(a, r) = {}
      BY <2>2 DEF RunGroups
    <3> QED BY <1>1, <2>2, <3>1 DEF Board!ShowRun
  <2>3. CASE Content[a] # {}
    <3>1. PICK f : f \in Content[a]
      BY <2>3
    <3>2. /\ [analysis |-> a, run |-> r, fp |-> f] \in groups'
          /\ [analysis |-> a, run |-> r, fp |-> f].run = r
      BY <1>1, <3>1 DEF RunGroups
    <3>3. r \in {g.run : g \in groups'}
      BY <3>2
    <3> HIDE DEF r
    <3> QED
      BY <1>1, <2>1, <3>3 DEF Board!ShowRun, Board!RunGroups, RunGroups
  <2> QED BY <2>2, <2>3
<1>4. Board!ShowAdvice(a)
  <2> SUFFICES ASSUME NEW i \in insights' \ insights
               PROVE  /\ i.group \in groups' /\ i.group.analysis = a
                      /\ i.fp = i.group.fp /\ i.user = Owner[a]
                      /\ Board!Grounded(i, insights')
                      /\ \A j \in insights' : j.group = i.group => j = i
    BY <1>1 DEF Board!ShowAdvice
  <2>1. i \in job[w].insights /\ i \in insights'
    BY <1>1
  <2>2. i.group.analysis = a
    BY <2>1, VisibleIsOwn DEF InsightInv, LocalInsights
  <2>3. i.group \in groups' /\ i.fp = i.group.fp /\ i.user = Owner[i.group.analysis]
    BY <2>1 DEF InsightInv, InsightsAreOwned
  <2>4. Board!Grounded(i, insights')
    BY <2>1 DEF InsightInv, CacheIsGrounded, Board!Grounded
  <2>5. \A j \in insights' : j.group = i.group => j = i
    BY <2>1 DEF InsightInv, OneInsightPerGroup
  <2> QED BY <2>2, <2>3, <2>4, <2>5
<1>5. [b \in Analyses |-> row[b].status][a] # "absent"
  BY <1>1
<1> QED BY <1>2, <1>3, <1>4, <1>5 DEF Board!Publish

\* What holds between the tables and the sessions when workers move.
BoardIInv == TypeOK /\ RunInv /\ InsightInv /\ UnsubmittedIsAbsent

\* A step of the workers is one of the board, or changes nothing on it.
LEMMA StepOfBoard ==
    ASSUME BoardIInv, BoardIInv', [Next]_vars
    PROVE  [Board!BoardNext]_(Board!boardVars)
<1> DEFINE shown == [b \in Analyses |-> row[b].status]
<1> USE DEF BoardIInv
<1>1. CASE UNCHANGED <<row, groups, insights>>
  BY <1>1 DEF Board!boardVars
<1>2. ASSUME NEW a \in Analyses, Register(a)
      PROVE  Board!Submit(a)
  <2>1. /\ row' = [row EXCEPT ![a].status = "pending"]
        /\ req[a] = "none" /\ UNCHANGED <<groups, insights>>
    BY <1>2, StatusSteps
  <2>2. shown[a] = "absent"
    BY <2>1 DEF UnsubmittedIsAbsent
  <2>3. shown' = [shown EXCEPT ![a] = "pending"]
    BY <2>1 DEF TypeOK, Row
  <2> QED BY <2>1, <2>2, <2>3 DEF Board!Submit
<1>3. ASSUME NEW w \in Workers, NEW a \in Analyses, a = A(w), Begin(w)
      PROVE  Board!Start(a) \/ UNCHANGED <<row, groups, insights>>
  <2>1. /\ row[a].status # "absent"
        /\ UNCHANGED <<groups, insights>>
    BY <1>3, StatusSteps
  <2>2. row' = row \/ row' = [row EXCEPT ![a].status = "running"]
    BY <1>3 DEF Begin
  <2>3. CASE row' = [row EXCEPT ![a].status = "running"]
    <3>1. shown' = [shown EXCEPT ![a] = "running"]
      BY <2>1, <2>3 DEF TypeOK, Row
    <3> QED BY <2>1, <3>1 DEF Board!Start
  <2> QED BY <2>1, <2>2, <2>3
<1>4. ASSUME NEW w \in Workers, NEW a \in Analyses, a = A(w), FailRead(w)
      PROVE  Board!Fail(a)
  <2>1. /\ row[a].status # "absent"
        /\ UNCHANGED <<groups, insights>>
    BY <1>4, StatusSteps
  <2>2. shown' = [shown EXCEPT ![a] = "failed"]
    BY <1>4, <2>1 DEF FailRead, TypeOK, Row
  <2> QED BY <2>1, <2>2 DEF Board!Fail
<1>5. ASSUME NEW w \in Workers, NEW a \in Analyses, a = A(w), Finish(w)
      PROVE  Board!Publish(a)
  BY <1>5, FinishIsPublish
<1>6. ASSUME NEW a \in Analyses,
             Board!Submit(a) \/ Board!Start(a) \/ Board!Fail(a) \/ Board!Publish(a)
      PROVE  Board!BoardNext
  BY <1>6 DEF Board!BoardNext
<1>7. ASSUME NEW a \in Analyses, Register(a) PROVE Board!BoardNext
  BY <1>2, <1>6, <1>7
<1>8. ASSUME NEW w \in Workers, Begin(w) \/ FailRead(w) \/ Finish(w)
      PROVE  UNCHANGED <<row, groups, insights>> \/ Board!BoardNext
  <2>1. PICK a \in Analyses : a = A(w)
    BY <1>8, StatusSteps, FinishPublishes
  <2> QED BY <1>3, <1>4, <1>5, <1>6, <1>8, <2>1
<1>9. CASE Board!BoardNext
  BY <1>9
<1> QED BY <1>1, <1>7, <1>8, <1>9, ReadersSee

\* With all their overlaps, redeliveries, retries and failures, the workers
\* show the readers nothing but steps of the board.
THEOREM WorkersImplementBoard == Spec => ImplementsBoard
<1>1. Init => Board!BoardInit
  BY DEF Init, Board!BoardInit
<1>2. Spec => []BoardIInv
  BY TypeCorrect, RunInvariant, InsightInvariant, UnsubmittedInvariant, PTL DEF BoardIInv
<1> QED
  BY <1>1, <1>2, StepOfBoard, PTL DEF Spec, ImplementsBoard, Board!BoardSpec
-----------------------------------------------------------------------------
(* Workers and pages together. *)

\* The pages leave the workers alone.
LEMMA SystemHasWorkers == SystemSpec => Spec
<1>1. SystemInit => Init
  BY DEF SystemInit
<1>2. [SystemNext]_SystemVars => [Next]_vars
  BY DEF SystemNext, SystemVars
<1> QED BY <1>1, <1>2, PTL DEF SystemSpec, Spec

\* A step of the board, as the pages see it.
LEMMA PagesSeeBoard ==
    [Board!BoardNext]_(Board!boardVars) => [Page!BoardNext]_(Page!boardVars)
BY DEF Board!BoardNext, Page!BoardNext, Board!boardVars, Page!boardVars,
       Board!Submit, Page!Submit, Board!Start, Page!Start, Board!Fail, Page!Fail,
       Board!Publish, Page!Publish, Board!ShowRun, Page!ShowRun,
       Board!ShowAdvice, Page!ShowAdvice, Board!Grounded, Page!Grounded,
       Board!RunGroups, Page!RunGroups

\* Whatever happens is a step of a page over a board that moves as it may.
LEMMA SystemStep ==
    ASSUME BoardIInv, BoardIInv', [SystemNext]_SystemVars
    PROVE  [Page!OpenNext]_(Page!pageVars)
<1>1. CASE [Next]_vars /\ UNCHANGED readers
  <2>1. [Page!BoardNext]_(Page!boardVars)
    BY <1>1, StepOfBoard, PagesSeeBoard
  <2>2. UNCHANGED Page!readVars
    BY <1>1 DEF readers, Page!readVars
  <2>3. UNCHANGED Page!boardVars => UNCHANGED Page!pageVars
    BY <2>2 DEF Page!boardVars, Page!readVars, Page!pageVars
  <2> QED BY <2>1, <2>2, <2>3 DEF Page!OpenNext
<1>2. CASE Browse
  BY <1>2 DEF Browse, Page!OpenNext, Page!PageNext
<1> QED BY <1>1, <1>2 DEF SystemNext, SystemVars

\* A page over the real workers, with their overlaps, redeliveries, retries and
\* failures: it settles on the status and the groups of its own analysis, lists
\* and reports are whole runs, and no answer is older than its question.
THEOREM ResultsReachPages ==
    ASSUME Page!PageAssumption
    PROVE  SystemSpec => []PagesKeepPromises
<1>1. SystemInit => Page!PageInv
  BY Page!PageInvInit DEF SystemInit
<1>2. Page!PageInv /\ [Page!OpenNext]_(Page!pageVars) => Page!PageInv'
  BY Page!PageInvStep
<1>3. Page!PageInv => PagesKeepPromises
  BY Page!PageInvFresh DEF PagesKeepPromises, Page!PageInv
<1>4. Spec => []BoardIInv
  BY TypeCorrect, RunInvariant, InsightInvariant, UnsubmittedInvariant, PTL DEF BoardIInv
<1> QED
  BY <1>1, <1>2, <1>3, <1>4, SystemStep, SystemHasWorkers, PTL DEF SystemSpec
=============================================================================
