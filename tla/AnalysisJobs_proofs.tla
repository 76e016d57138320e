------------------------ MODULE AnalysisJobs_proofs -------------------------
\* Proofs about AnalysisJobs, for every value of its constants: that every
\* action keeps the types, the inductive invariant RunInv on the rows of an open
\* or committed run with the properties of a run's results, InsightInv on the
\* insights, and, for the faults that they allow, DeliveryInv on the messages
\* and IndexInv on the vector store.
EXTENDS AnalysisJobs, FiniteSetTheorems, TLAPS

USE ConstantsAssumption

\* The groups a run writes are group rows.
LEMMA RunGroupsType ==
    ASSUME NEW a \in Analyses, NEW r \in Nat
    PROVE  RunGroups(a, r) \subseteq Group
BY DEF RunGroups, Group

\* The number of groups of a file is a natural number: Content is finite.
LEMMA ContentCount ==
    ASSUME NEW a \in Analyses
    PROVE  Cardinality(Content[a]) \in Nat
BY FS_Subset, FS_CardinalityType

\* A worker that takes a well-typed job leaves the jobs well typed.
LEMMA JobUpdate ==
    ASSUME JobsOK, NEW w \in Workers, NEW j \in Job,
           j.phase # "idle" => j.msg \in Message,
           j.phase = "calling" => j.asking \in Group,
           Becomes(w, j)
    PROVE  JobsOK'
BY DEF JobsOK, Becomes

\* The worker that has nothing to do has a well-typed job.
LEMMA IdleIsJob == Idle \in Job
BY DEF Idle, Job, NotSeen, Statuses, Phases

\* A well-typed job stays one when its session breaks.
LEMMA BrokenIsJob == ASSUME NEW j \in Job PROVE Broken(j) \in Job
BY DEF Broken, Job, Phases

\* The step of a worker that only touches its own job.
LEMMA JobStepType ==
    ASSUME TypeOK, NEW w \in Workers, NEW j \in Job,
           j.phase # "idle" => j.msg \in Message,
           j.phase = "calling" => j.asking \in Group,
           Becomes(w, j),
           UNCHANGED <<req, store, queue, runs>>, faults' \in Nat,
           unacked' \subseteq unacked
    PROVE  TypeOK'
<1>1. JobsOK'
  BY JobUpdate DEF TypeOK
<1>2. UNCHANGED <<req, row, groups, insights, points, queue, runs>>
  BY DEF store, broker
<1>3. QED
  BY <1>1, <1>2 DEF TypeOK

\* Counting a fault keeps the counter a natural number.
LEMMA FaultType == ASSUME TypeOK, NEW k, Fault(k) PROVE faults' \in Nat
BY DEF TypeOK, Fault

\* A busy worker holds a message, and so an analysis and a retry count.
LEMMA HoldsMessage ==
    ASSUME TypeOK, NEW w \in Workers
    PROVE  /\ job[w] \in Job
           /\ job[w].phase # "idle" =>
                 /\ job[w].msg \in Message
                 /\ A(w) \in Analyses
                 /\ job[w].msg.retries \in Nat
           /\ job[w].run \in Nat
<1>1. job[w] \in Job /\ (job[w].phase # "idle" => job[w].msg \in Message)
  BY DEF TypeOK, JobsOK
<1>2. QED
  BY <1>1 DEF Job, Message, A

\* The transaction of w is lost.
LEMMA BrokenType ==
    ASSUME TypeOK, NEW w \in Workers, job[w].phase # "idle",
           Becomes(w, Broken(job[w])),
           UNCHANGED <<req, store, broker, runs>>, faults' \in Nat
    PROVE  TypeOK'
<1> DEFINE j == Broken(job[w])
<1>1. job[w] \in Job /\ job[w].msg \in Message
  BY HoldsMessage
<1>2. j \in Job
  BY <1>1, BrokenIsJob
<1>3. j.msg \in Message /\ j.phase = "broken"
  BY <1>1 DEF Broken, Job
<1>4. UNCHANGED <<req, store, queue, runs>> /\ unacked' = unacked
  BY DEF broker
<1>5. QED
  <2> HIDE DEF j
  <2> QED BY <1>2, <1>3, <1>4, JobStepType DEF j

\* The delivery of w is over.
LEMMA EndDeliveryType ==
    ASSUME TypeOK, NEW w \in Workers, EndDelivery(w),
           UNCHANGED <<req, store, queue, runs>>, faults' \in Nat
    PROVE  TypeOK'
<1>1. Becomes(w, Idle) /\ unacked' \subseteq unacked
  BY DEF EndDelivery
<1>2. QED
  BY <1>1, IdleIsJob, JobStepType DEF Idle

\* What a busy worker adds to its session is an insight.
LEMMA NewInsightType ==
    ASSUME TypeOK, NEW w \in Workers, job[w].phase # "idle",
           NEW g \in Group, NEW p \in Group, NEW c \in BOOLEAN
    PROVE  NewInsight(w, g, p, c) \in Insight
<1>1. A(w) \in Analyses
  BY HoldsMessage
<1> QED
  BY <1>1 DEF NewInsight, Insight, Group

\* A job is well typed after the row it adds, and after the insert of it.
LEMMA AddingIsJob ==
    ASSUME NEW k \in Job, NEW new \in Insight
    PROVE  /\ [k EXCEPT !.phase = "insert", !.adding = {new}] \in Job
           /\ [k EXCEPT !.phase = "insert", !.asking = NoGroup,
                        !.adding = {new}] \in Job
           /\ Inserted(k, new) \in Job
           /\ Inserted(k, new).phase = "enrich"
           /\ Inserted(k, new).msg = k.msg
           /\ Inserted(k, new).run = k.run
           /\ Inserted(k, new).groups = k.groups
           /\ Inserted(k, new).insights = k.insights \cup {new}
           /\ Inserted(k, new).todo = k.todo \ {new.group}
           /\ Inserted(k, new).adding = {}
BY DEF Inserted, Job, Phases

\* Every variable keeps its type, for any users, analyses, workers and bounds:
\* retries never exceed max_retries, sessions hold only well-formed rows.
THEOREM TypeCorrect == Spec => []TypeOK
<1>1. Init => TypeOK
  BY IdleIsJob DEF Init, TypeOK, Row, Statuses, JobsOK, Idle
<1>2. TypeOK /\ [Next]_vars => TypeOK'
  <2> SUFFICES ASSUME TypeOK, [Next]_vars PROVE TypeOK'
    OBVIOUS
  <2>j. JobsOK /\ job \in [Workers -> Job] /\ faults \in Nat
    BY DEF TypeOK, JobsOK
  <2>1. ASSUME NEW a \in Analyses, Register(a) PROVE TypeOK'
    BY <2>1, <2>j DEF TypeOK, JobsOK, Register, Row, Statuses, broker
  <2>2. ASSUME NEW a \in Analyses, Enqueue(a) PROVE TypeOK'
    BY <2>2 DEF TypeOK, JobsOK, Enqueue, Message, store
  <2>3. ASSUME NEW a \in Analyses, EnqueueFails(a) PROVE TypeOK'
    BY <2>3 DEF TypeOK, JobsOK, EnqueueFails, Fault, store, broker
  <2>4. ASSUME NEW w \in Workers, NEW m \in queue, Deliver(w, m) PROVE TypeOK'
    <3> DEFINE j == [Idle EXCEPT !.phase = "load", !.msg = m,
                                 !.run = runs[m.analysis] + 1]
    <3>1. m \in Message /\ m.analysis \in Analyses
      BY DEF TypeOK, Message
    <3>2. j \in Job /\ j.msg \in Message /\ j.phase = "load"
      <4>1. runs[m.analysis] + 1 \in Nat
        BY <3>1 DEF TypeOK
      <4> QED
        BY <3>1, <4>1, IdleIsJob DEF Job, Idle, Phases
    <3>3. JobsOK'
      <4> Becomes(w, j)
        BY <2>4 DEF Deliver
      <4> QED BY <2>j, <3>2, JobUpdate
    <3>4. /\ UNCHANGED <<req, row, groups, insights, points, faults>>
          /\ queue' = queue \ {m} /\ unacked' = unacked \cup {m}
          /\ runs' = [runs EXCEPT ![m.analysis] = @ + 1]
      BY <2>4 DEF Deliver, store
    <3>5. runs' \in [Analyses -> Nat]
      BY <3>1, <3>4 DEF TypeOK
    <3>6. queue' \subseteq Message /\ unacked' \subseteq Message
      BY <3>1, <3>4 DEF TypeOK
    <3> QED
      BY <3>3, <3>4, <3>5, <3>6 DEF TypeOK
  <2>5. ASSUME NEW m \in unacked, Restore(m) PROVE TypeOK'
    BY <2>5 DEF TypeOK, JobsOK, Restore, BackToQueue, store
  <2>6. ASSUME NEW m \in unacked, RestoreWhileHeld(m) PROVE TypeOK'
    BY <2>6 DEF TypeOK, JobsOK, RestoreWhileHeld, BackToQueue, Fault, store
  <2>7. ASSUME NEW w \in Workers, Work(w) PROVE TypeOK'
    <3>h. /\ job[w] \in Job /\ job[w].run \in Nat
          /\ job[w].phase # "idle" => job[w].msg \in Message /\ A(w) \in Analyses
      BY HoldsMessage
    <3>1. CASE Load(w)
      <4> DEFINE j == IF row[A(w)].status = "absent"
                      THEN [job[w] EXCEPT !.phase = "ack"]
                      ELSE [job[w] EXCEPT !.phase = "file",
                                          !.seen.status = row[A(w)].status]
      <4>1. job[w].msg \in Message /\ A(w) \in Analyses
        BY <3>1, <3>h DEF Load
      <4>2. j \in Job /\ j.msg \in Message /\ j.phase # "calling"
        BY <3>h, <4>1 DEF TypeOK, Job, Row, Phases
      <4>3. Becomes(w, j)
        BY <3>1 DEF Load
      <4>4. UNCHANGED <<req, store, queue, runs, faults>> /\ unacked' = unacked
        BY <3>1 DEF Load, broker
      <4> QED BY <2>j, <4>2, <4>3, <4>4, JobStepType
    <3>15. CASE LoadFile(w)
      <4> DEFINE j == [job[w] EXCEPT !.phase = "begin", !.seen.format = row[A(w)].format]
      <4>1. job[w].msg \in Message /\ A(w) \in Analyses
        BY <3>15, <3>h DEF LoadFile
      <4>2. j \in Job /\ j.msg \in Message /\ j.phase # "calling"
        BY <3>h, <4>1 DEF TypeOK, Job, Row, Phases
      <4>3. Becomes(w, j)
        BY <3>15 DEF LoadFile
      <4>4. UNCHANGED <<req, store, queue, runs, faults>> /\ unacked' = unacked
        BY <3>15 DEF LoadFile, broker
      <4> QED BY <2>j, <4>2, <4>3, <4>4, JobStepType
    <3>2. CASE Begin(w)
      <4> DEFINE j == [job[w] EXCEPT !.phase = "read"]
      <4>1. job[w].msg \in Message /\ A(w) \in Analyses
        BY <3>2, <3>h DEF Begin
      <4>2. j \in Job /\ j.msg \in Message /\ j.phase # "calling"
        BY <3>h, <4>1 DEF Job, Phases
      <4>3. JobsOK'
        <5> Becomes(w, j)
          BY <3>2 DEF Begin
        <5> QED BY <2>j, <4>2, JobUpdate
      <4>4. row' \in [Analyses -> Row]
        BY <3>2, <4>1 DEF TypeOK, Begin, Row, Statuses
      <4>5. UNCHANGED <<req, groups, insights, points, queue, unacked, runs, faults>>
        BY <3>2 DEF Begin, broker
      <4> QED BY <4>3, <4>4, <4>5 DEF TypeOK
    <3>3. CASE FailRead(w)
      <4> DEFINE j == [job[w] EXCEPT !.phase = "ack"]
      <4>1. job[w].msg \in Message /\ A(w) \in Analyses
        BY <3>3, <3>h DEF FailRead
      <4>2. j \in Job /\ j.msg \in Message /\ j.phase # "calling"
        BY <3>h, <4>1 DEF Job, Phases
      <4>3. JobsOK'
        <5> Becomes(w, j)
          BY <3>3 DEF FailRead
        <5> QED BY <2>j, <4>2, JobUpdate
      <4>4. row' \in [Analyses -> Row]
        BY <3>3, <4>1 DEF TypeOK, FailRead, Row, Statuses
      <4>5. UNCHANGED <<req, groups, insights, points, queue, unacked, runs, faults>>
        BY <3>3 DEF FailRead, broker
      <4> QED BY <4>3, <4>4, <4>5 DEF TypeOK
    <3>4. CASE PersistGroups(w)
      <4> DEFINE j == [job[w] EXCEPT !.phase = AfterFlush(A(w)),
                      !.groups = RunGroups(A(w), job[w].run)]
      <4>1. job[w].msg \in Message /\ A(w) \in Analyses
        BY <3>4, <3>h DEF PersistGroups
      <4>2. j \in Job /\ j.msg \in Message /\ j.phase # "calling"
        BY <3>h, <4>1, RunGroupsType DEF Job, Phases, AfterFlush, AfterAI
      <4>3. Becomes(w, j)
        BY <3>4 DEF PersistGroups
      <4>4. UNCHANGED <<req, store, queue, runs, faults>> /\ unacked' = unacked
        BY <3>4 DEF PersistGroups, broker
      <4> QED BY <2>j, <4>2, <4>3, <4>4, JobStepType
    <3>5. CASE SelectTop(w)
      <4>1. PICK T \in SUBSET Visible(w) :
               Becomes(w, [job[w] EXCEPT !.phase = "enrich", !.todo = T])
        BY <3>5 DEF SelectTop
      <4> DEFINE j == [job[w] EXCEPT !.phase = "enrich", !.todo = T]
      <4>2. job[w].msg \in Message
        BY <3>5, <3>h DEF SelectTop
      <4>3. T \subseteq Group
        BY <3>h, <4>1 DEF Visible, TypeOK, Job
      <4>4. j \in Job /\ j.msg \in Message /\ j.phase # "calling"
        BY <3>h, <4>2, <4>3 DEF Job, Phases
      <4>5. UNCHANGED <<req, store, queue, runs, faults>> /\ unacked' = unacked
        BY <3>5 DEF SelectTop, broker
      <4> QED BY <2>j, <4>1, <4>4, <4>5, JobStepType
    <3>6. CASE CacheHit(w)
      <4>0. PICK g \in job[w].todo : \E prior \in Cache(w, g) :
               /\ IsNext(w, g)
               /\ Becomes(w, [job[w] EXCEPT !.phase = "insert",
                              !.adding = {NewInsight(w, g, prior.payload, TRUE)}])
        BY <3>6 DEF CacheHit
      <4>1. PICK prior \in Cache(w, g) :
               /\ IsNext(w, g)
               /\ Becomes(w, [job[w] EXCEPT !.phase = "insert",
                              !.adding = {NewInsight(w, g, prior.payload, TRUE)}])
        BY <4>0
      <4> DEFINE new == NewInsight(w, g, prior.payload, TRUE)
                 j == [job[w] EXCEPT !.phase = "insert", !.adding = {new}]
      <4>2. prior \in Insight /\ prior.payload \in Group
        BY <3>h, <4>1 DEF Cache, TypeOK, Job, Insight
      <4>3. g \in Group /\ job[w].phase # "idle" /\ job[w].msg \in Message
        BY <3>h, <4>1 DEF IsNext, Job
      <4>4. new \in Insight
        BY <4>2, <4>3, NewInsightType
      <4> HIDE DEF new
      <4>5. j \in Job /\ j.msg \in Message /\ j.phase # "calling"
        BY <3>h, <4>3, <4>4, AddingIsJob DEF Job
      <4>6. UNCHANGED <<req, store, queue, runs, faults>> /\ unacked' = unacked
        BY <3>6 DEF CacheHit, broker
      <4>7. Becomes(w, j)
        BY <4>1 DEF new
      <4> QED BY <2>j, <4>5, <4>6, <4>7, JobStepType
    <3>7. CASE CacheMiss(w)
      <4>1. PICK g \in job[w].todo :
               /\ job[w].phase = "enrich"
               /\ Becomes(w, [job[w] EXCEPT !.phase = "calling", !.asking = g])
               /\ UNCHANGED <<req, store, broker, runs, faults>>
        BY <3>7 DEF CacheMiss, IsNext
      <4> DEFINE j == [job[w] EXCEPT !.phase = "calling", !.asking = g]
      <4>2. job[w].msg \in Message /\ g \in Group
        BY <3>h, <4>1 DEF Job
      <4>3. j \in Job /\ j.msg \in Message /\ j.asking \in Group
        BY <3>h, <4>2 DEF Job, Phases
      <4>4. UNCHANGED <<req, store, queue, runs, faults>> /\ unacked' = unacked
        BY <4>1 DEF broker
      <4> QED BY <2>j, <4>1, <4>3, <4>4, JobStepType
    <3>8. CASE Answer(w)
      <4> DEFINE new == NewInsight(w, job[w].asking, job[w].asking, FALSE)
                 j == [job[w] EXCEPT !.phase = "insert", !.asking = NoGroup,
                                     !.adding = {new}]
      <4>1. /\ job[w].asking \in Group /\ job[w].phase # "idle"
            /\ job[w].msg \in Message
        BY <3>8, <3>h DEF Answer, TypeOK, JobsOK
      <4>2. new \in Insight
        BY <4>1, NewInsightType
      <4>3. Becomes(w, j)
        BY <3>8 DEF Answer
      <4> HIDE DEF new
      <4>4. j \in Job /\ j.msg \in Message /\ j.phase # "calling"
        BY <3>h, <4>1, <4>2, AddingIsJob DEF Job
      <4>5. UNCHANGED <<req, store, queue, runs, faults>> /\ unacked' = unacked
        BY <3>8 DEF Answer, broker
      <4> QED BY <2>j, <4>3, <4>4, <4>5, JobStepType
    <3>16. CASE InsertInsight(w)
      <4>1. PICK new \in job[w].adding :
               Becomes(w, Broken(job[w])) \/ Becomes(w, Inserted(job[w], new))
        BY <3>16 DEF InsertInsight
      <4>2. /\ job[w].phase # "idle" /\ job[w].msg \in Message /\ faults' \in Nat
            /\ UNCHANGED <<req, store, broker, runs>>
            /\ UNCHANGED queue /\ unacked' = unacked
        BY <3>16, <3>h, <2>j DEF InsertInsight, broker
      <4>3. /\ Inserted(job[w], new) \in Job
            /\ Inserted(job[w], new).msg \in Message
            /\ Inserted(job[w], new).phase # "calling"
        <5>1. new \in Insight
          BY <3>h, <4>1 DEF Job
        <5> QED BY <3>h, <4>2, <5>1, AddingIsJob
      <4>4. CASE Becomes(w, Broken(job[w]))
        BY <4>2, <4>4, BrokenType
      <4>5. CASE Becomes(w, Inserted(job[w], new))
        BY <4>2, <4>3, <4>5, JobStepType
      <4> QED BY <4>1, <4>4, <4>5
    <3>9. CASE CallFails(w)
      <4> DEFINE j == [job[w] EXCEPT !.phase = "enrich", !.asking = NoGroup,
                                     !.todo = @ \ {job[w].asking}]
      <4>1. job[w].msg \in Message /\ A(w) \in Analyses
        BY <3>9, <3>h DEF CallFails
      <4>2. j \in Job /\ j.msg \in Message /\ j.phase # "calling"
        BY <3>h, <4>1 DEF Job, Phases
      <4>3. Becomes(w, j)
        BY <3>9 DEF CallFails
      <4>4. UNCHANGED <<req, store, queue, runs, faults>> /\ unacked' = unacked
        BY <3>9 DEF CallFails, broker
      <4> QED BY <2>j, <4>2, <4>3, <4>4, JobStepType
    <3>10. CASE InsertDeadlock(w)
      <4>2. /\ Becomes(w, Broken(job[w]))
            /\ UNCHANGED <<req, store, broker, runs, faults>>
        BY <3>10 DEF InsertDeadlock
      <4>3. job[w].phase # "idle"
        BY <3>10 DEF InsertDeadlock
      <4>4. faults' \in Nat
        BY <4>2, <2>j
      <4> QED BY <4>2, <4>3, <4>4, BrokenType
    <3>11. CASE EnrichDone(w)
      <4> DEFINE j == [job[w] EXCEPT !.phase = AfterAI]
      <4>1. job[w].msg \in Message /\ A(w) \in Analyses
        BY <3>11, <3>h DEF EnrichDone
      <4>2. j \in Job /\ j.msg \in Message /\ j.phase # "calling"
        BY <3>h, <4>1 DEF Job, Phases, AfterAI
      <4>3. Becomes(w, j)
        BY <3>11 DEF EnrichDone
      <4>4. UNCHANGED <<req, store, queue, runs, faults>> /\ unacked' = unacked
        BY <3>11 DEF EnrichDone, broker
      <4> QED BY <2>j, <4>2, <4>3, <4>4, JobStepType
    <3>17. CASE SelectAll(w)
      <4> DEFINE j == [job[w] EXCEPT !.phase = "upsert", !.todo = Visible(w)]
      <4>1. job[w].msg \in Message
        BY <3>17, <3>h DEF SelectAll
      <4>2. Visible(w) \subseteq Group
        BY <3>h DEF Visible, TypeOK, Job
      <4>3. j \in Job /\ j.msg \in Message /\ j.phase # "calling"
        BY <3>h, <4>1, <4>2 DEF Job, Phases
      <4>4. Becomes(w, j)
        BY <3>17 DEF SelectAll
      <4>5. UNCHANGED <<req, store, queue, runs, faults>> /\ unacked' = unacked
        BY <3>17 DEF SelectAll, broker
      <4> QED BY <2>j, <4>3, <4>4, <4>5, JobStepType
    <3>12. CASE Index(w)
      <4> DEFINE j == [job[w] EXCEPT !.phase = "finish", !.todo = {}]
      <4>1. job[w].msg \in Message /\ A(w) \in Analyses
        BY <3>12, <3>h DEF Index
      <4>2. j \in Job /\ j.msg \in Message /\ j.phase # "calling"
        BY <3>h, <4>1 DEF Job, Phases
      <4>3. JobsOK'
        <5> Becomes(w, j)
          BY <3>12 DEF Index
        <5> QED BY <2>j, <4>2, JobUpdate
      <4>4. points' \subseteq Group
        BY <3>12, <3>h DEF TypeOK, Index, Job
      <4>5. UNCHANGED <<req, row, groups, insights, queue, unacked, runs, faults>>
        BY <3>12 DEF Index, broker
      <4> QED BY <4>3, <4>4, <4>5 DEF TypeOK
    <3>13. CASE Finish(w)
      <4> DEFINE j == [job[w] EXCEPT !.phase = "ack", !.groups = {}, !.insights = {}]
      <4>1. job[w].msg \in Message /\ A(w) \in Analyses
        BY <3>13, <3>h DEF Finish
      <4>2. j \in Job /\ j.msg \in Message /\ j.phase # "calling"
        BY <3>h, <4>1 DEF Job, Phases
      <4>3. JobsOK'
        <5> Becomes(w, j)
          BY <3>13 DEF Finish
        <5> QED BY <2>j, <4>2, JobUpdate
      <4>4. row' \in [Analyses -> Row]
        BY <3>13, <4>1, ContentCount DEF TypeOK, Finish, Row, Statuses
      <4>5. groups' \subseteq Group /\ insights' \subseteq Insight
        BY <3>13, <3>h DEF TypeOK, Finish, Job
      <4>6. UNCHANGED <<req, points, queue, unacked, runs, faults>>
        BY <3>13 DEF Finish, broker
      <4> QED BY <4>3, <4>4, <4>5, <4>6 DEF TypeOK
    <3>14. CASE Ack(w)
      BY <3>14, <2>j, EndDeliveryType DEF Ack
    <3> QED
      BY <2>7, <3>1, <3>2, <3>3, <3>4, <3>5, <3>6, <3>7, <3>8, <3>9, <3>10,
         <3>11, <3>12, <3>13, <3>14, <3>15, <3>16, <3>17 DEF Work
  <2>8. ASSUME NEW w \in Workers, WorkerFault(w) PROVE TypeOK'
    <3>1. CASE SetupFails(w)
      BY <3>1, FaultType, EndDeliveryType DEF SetupFails
    <3>2. CASE ConnectFails(w)
      <4>1. /\ EndDelivery(w) /\ faults' \in Nat /\ UNCHANGED <<req, store, runs>>
            /\ job[w].phase # "idle"
        BY <3>2, FaultType DEF ConnectFails
      <4>2. queue' \subseteq Message
        BY <3>2, HoldsMessage DEF ConnectFails, TypeOK, Message
      <4>3. JobsOK'
        BY <4>1, <2>j, IdleIsJob, JobUpdate DEF EndDelivery, Idle
      <4> QED BY <4>1, <4>2, <4>3 DEF TypeOK, EndDelivery, store
    <3>3. CASE DbError(w)
      <4>1. /\ Becomes(w, Broken(job[w]))
            /\ UNCHANGED <<req, store, broker, runs>> /\ faults' \in Nat
            /\ job[w].phase # "idle"
        BY <3>3, FaultType DEF DbError, Writing
      <4> QED BY <4>1, BrokenType
    <3>4. CASE Crash(w)
      <4>1. /\ Becomes(w, Idle) /\ faults' \in Nat
            /\ UNCHANGED <<req, store, queue, runs>> /\ unacked' = unacked
        BY <3>4, FaultType DEF Crash, broker
      <4> QED BY <4>1, IdleIsJob, JobStepType DEF Idle
    <3>5. CASE ChildLost(w)
      BY <3>5, FaultType, EndDeliveryType DEF ChildLost
    <3> QED BY <2>8, <3>1, <3>2, <3>3, <3>4, <3>5 DEF WorkerFault
  <2>9. CASE UNCHANGED vars
    BY <2>9 DEF TypeOK, JobsOK, vars
  <2> QED
    BY <2>1, <2>2, <2>3, <2>4, <2>5, <2>6, <2>7, <2>8, <2>9 DEF Next, Api, Rest
<1>3. QED BY <1>1, <1>2, PTL DEF Spec

-----------------------------------------------------------------------------
(* Runs are fresh, sessions hold whole runs, readers see whole runs.       *)

\* A step of the API or of the broker: nothing but req and the messages change.
LEMMA FrameStep ==
    ASSUME RunInv, RowsExist', UNCHANGED <<row, groups, job, runs>>
    PROVE  RunInv'
<1>1. /\ \A a, r : Committed(a, r)' = Committed(a, r)
      /\ \A w : A(w)' = A(w)
      /\ UNCHANGED <<row, groups, job, runs>>
  BY DEF Committed, A
<1>2. RunsAreFresh'
  BY <1>1 DEF RunInv, RunsAreFresh
<1>3. LocalRows'
  BY <1>1 DEF RunInv, LocalRows, RunGroups
<1>4. RunsAreAtomic'
  BY <1>1 DEF RunInv, RunsAreAtomic, RunGroups
<1>5. CompletedHasResults'
  BY <1>1 DEF RunInv, CompletedHasResults, RunGroups
<1> QED BY <1>2, <1>3, <1>4, <1>5 DEF RunInv

\* w stays with its message and run; whatever is committed stays as it is,
\* but for statuses that are not "completed".
LEMMA QuietStep ==
    ASSUME TypeOK, RunInv, NEW w \in Workers, NEW j \in Job, Becomes(w, j),
           job[w].phase # "idle", j.phase # "idle",
           j.msg = job[w].msg, j.run = job[w].run,
           job[w].phase = "ack" => j.phase = "ack",
           j.phase \in Writing => j.groups = RunGroups(A(w), j.run),
           j.phase \notin Writing => j.groups = {} /\ j.insights = {},
           \A a \in Analyses : /\ row[a].status # "absent" => row'[a].status # "absent"
                               /\ row'[a].status = "completed" => row'[a] = row[a],
           UNCHANGED <<req, groups, queue, unacked, runs>>
    PROVE  RunInv'
<1>1. /\ job'[w] = j
      /\ \A v \in Workers : v # w => job'[v] = job[v]
  BY DEF TypeOK, JobsOK, Becomes
<1>2. /\ \A v \in Workers : A(v)' = A(v) /\ job'[v].run = job[v].run
      /\ \A v \in Workers : (job'[v].phase = "idle") <=> (job[v].phase = "idle")
      /\ \A v \in Workers : job[v].phase = "ack" => job'[v].phase = "ack"
  BY <1>1 DEF A
<1>3. \A a, r : Committed(a, r)' = Committed(a, r)
  BY DEF Committed
<1>4. RunsAreFresh'
  BY <1>2, <1>3 DEF RunInv, RunsAreFresh
<1>5. LocalRows'
  <2> SUFFICES ASSUME NEW v \in Workers
               PROVE  /\ job'[v].phase \in Writing
                            => job'[v].groups = RunGroups(A(v), job[v].run)
                      /\ job'[v].phase \notin Writing
                            => job'[v].groups = {} /\ job'[v].insights = {}
    BY <1>2 DEF LocalRows, RunGroups
  <2> QED BY <1>1 DEF RunInv, LocalRows
<1>6. RowsExist'
  <2>1. \A m \in queue \cup unacked : m.analysis \in Analyses
    BY DEF TypeOK, Message
  <2>2. \A v \in Workers : job[v].phase # "idle" => A(v) \in Analyses
    BY HoldsMessage
  <2> QED BY <1>2, <2>1, <2>2 DEF RunInv, RowsExist
<1>7. RunsAreAtomic'
  BY <1>3 DEF RunInv, RunsAreAtomic, RunGroups
<1>8. CompletedHasResults'
  BY <1>3 DEF RunInv, CompletedHasResults, RunGroups
<1> QED BY <1>4, <1>5, <1>6, <1>7, <1>8 DEF RunInv

\* w lets go of its message, and may leave a retry of it in the queue.
LEMMA ReleaseStep ==
    ASSUME TypeOK, RunInv, NEW w \in Workers, Becomes(w, Idle),
           job[w].phase # "idle",
           \A m \in queue' \ queue : m.analysis = A(w),
           unacked' \subseteq unacked,
           UNCHANGED <<req, row, groups, runs>>
    PROVE  RunInv'
<1>1. /\ job'[w] = Idle
      /\ \A v \in Workers : v # w => job'[v] = job[v] /\ A(v)' = A(v)
  BY DEF TypeOK, JobsOK, Becomes, A
<1>2. Idle.phase = "idle" /\ Idle.groups = {} /\ Idle.insights = {}
  BY DEF Idle
<1>3. \A a, r : Committed(a, r)' = Committed(a, r)
  BY DEF Committed
<1>4. RunsAreFresh'
  <2>1. \A v \in Workers : job'[v].phase # "idle" => v # w
    BY <1>1, <1>2
  <2> QED BY <1>1, <2>1 DEF RunInv, RunsAreFresh
<1>5. LocalRows'
  <2> SUFFICES ASSUME NEW v \in Workers
               PROVE  /\ job'[v].phase \in Writing
                            => job'[v].groups = RunGroups(A(v)', job'[v].run)
                      /\ job'[v].phase \notin Writing
                            => job'[v].groups = {} /\ job'[v].insights = {}
    BY DEF LocalRows, RunGroups
  <2> QED BY <1>1, <1>2 DEF RunInv, LocalRows, Writing
<1>6. RowsExist'
  BY <1>1, <1>2 DEF RunInv, RowsExist
<1>7. RunsAreAtomic'
  BY <1>3 DEF RunInv, RunsAreAtomic, RunGroups
<1>8. CompletedHasResults'
  BY <1>3 DEF RunInv, CompletedHasResults, RunGroups
<1> QED BY <1>4, <1>5, <1>6, <1>7, <1>8 DEF RunInv

\* A fresh number for a fresh run.
LEMMA DeliverRunInv ==
    ASSUME TypeOK, RunInv, NEW w \in Workers, NEW m \in queue, Deliver(w, m)
    PROVE  RunInv'
<1> DEFINE j == [Idle EXCEPT !.phase = "load", !.msg = m,
                             !.run = runs[m.analysis] + 1]
<1>1. m \in Message /\ m.analysis \in Analyses
  BY DEF TypeOK, Message
<1>2. /\ j.phase = "load" /\ j.msg = m /\ j.run = runs[m.analysis] + 1
      /\ j.groups = {} /\ j.insights = {}
  BY DEF Idle
<1>3. /\ job'[w] = j /\ A(w)' = m.analysis
      /\ \A v \in Workers : v # w => job'[v] = job[v] /\ A(v)' = A(v)
      /\ job[w].phase = "idle"
  <2>1. Becomes(w, j)
    BY DEF Deliver
  <2> HIDE DEF j
  <2> QED BY <1>2, <2>1 DEF Deliver, TypeOK, JobsOK, Becomes, A
<1> HIDE DEF j
<1>4. /\ UNCHANGED <<req, row, groups>>
      /\ queue' \cup unacked' = queue \cup unacked
      /\ runs' = [runs EXCEPT ![m.analysis] = @ + 1]
  BY DEF Deliver, store
<1>5. /\ runs'[m.analysis] = runs[m.analysis] + 1 /\ runs[m.analysis] \in Nat
      /\ \A a \in Analyses : runs[a] \in Nat /\ runs'[a] \in Nat /\ runs[a] <= runs'[a]
  BY <1>1, <1>4 DEF TypeOK
<1>6. \A a, r : Committed(a, r)' = Committed(a, r)
  BY <1>4 DEF Committed
<1>7. \A v \in Workers : job[v].phase # "idle" =>
         A(v) \in Analyses /\ job[v].run \in 1..runs[A(v)]
  BY HoldsMessage DEF RunInv, RunsAreFresh
<1>8. \A g \in groups : g.analysis \in Analyses /\ g.run \in 1..runs[g.analysis]
  BY DEF TypeOK, Group, RunInv, RunsAreFresh
<1>9. RunsAreFresh'
  <2>1. \A g \in groups' : g.run \in 1..runs'[g.analysis]
    BY <1>4, <1>5, <1>8
  <2>2. \A v \in Workers : job'[v].phase # "idle" => job'[v].run \in 1..runs'[A(v)']
    BY <1>2, <1>3, <1>5, <1>7
  <2>3. \A v, u \in Workers :
          v # u /\ job'[v].phase # "idle" /\ job'[u].phase # "idle" /\ A(v)' = A(u)'
             => job'[v].run # job'[u].run
    <3>1. \A v \in Workers : v # w /\ job[v].phase # "idle" /\ A(v) = m.analysis
             => job[v].run # runs[m.analysis] + 1
      BY <1>5, <1>7
    <3> QED BY <1>2, <1>3, <3>1 DEF RunInv, RunsAreFresh
  <2>4. \A v \in Workers : job'[v].phase \notin {"idle", "ack"}
          => \A g \in groups' : g.analysis = A(v)' => g.run # job'[v].run
    <3>1. \A g \in groups : g.analysis = m.analysis => g.run # runs[m.analysis] + 1
      BY <1>5, <1>8
    <3> QED BY <1>2, <1>3, <1>4, <3>1 DEF RunInv, RunsAreFresh
  <2> QED BY <2>1, <2>2, <2>3, <2>4 DEF RunsAreFresh
<1>10. LocalRows'
  BY <1>2, <1>3 DEF RunInv, LocalRows, Writing, RunGroups
<1>11. RowsExist'
  BY <1>1, <1>2, <1>3, <1>4 DEF RunInv, RowsExist
<1>12. \A a \in Analyses : \A r \in 1..runs'[a] :
          r \in 1..runs[a] \/ Committed(a, r) = {}
  BY <1>5, <1>8, <1>4, <1>1 DEF Committed, TypeOK
<1>13. RunsAreAtomic'
  BY <1>6, <1>12 DEF RunInv, RunsAreAtomic, RunGroups
<1>14. CompletedHasResults'
  <2> SUFFICES ASSUME NEW a \in Analyses, row[a].status = "completed"
               PROVE  /\ row[a].count = Cardinality(Content[a])
                      /\ \E r \in 1..runs'[a] : Committed(a, r) = RunGroups(a, r)
    BY <1>4, <1>6 DEF CompletedHasResults, RunGroups
  <2> QED BY <1>5 DEF RunInv, CompletedHasResults
<1> QED BY <1>9, <1>10, <1>11, <1>13, <1>14 DEF RunInv

\* The commit: the rows of w's run, all of them, become visible.
LEMMA FinishRunInv ==
    ASSUME TypeOK, RunInv, NEW w \in Workers, Finish(w)
    PROVE  RunInv'
<1> DEFINE j == [job[w] EXCEPT !.phase = "ack", !.groups = {}, !.insights = {}]
           a == A(w)
           r == job[w].run
<1>1. job[w] \in Job /\ job[w].phase = "finish" /\ a \in Analyses /\ r \in Nat
  BY HoldsMessage DEF Finish
<1>2. /\ j.phase = "ack" /\ j.groups = {} /\ j.insights = {}
      /\ j.msg = job[w].msg /\ j.run = r
  BY <1>1 DEF Job
<1>3. /\ job'[w] = j
      /\ \A v \in Workers : v # w => job'[v] = job[v]
      /\ \A v \in Workers : A(v)' = A(v) /\ job'[v].run = job[v].run
  <2>1. Becomes(w, j)
    BY DEF Finish
  <2> HIDE DEF j
  <2> QED BY <1>2, <2>1 DEF TypeOK, JobsOK, Becomes, A
<1> HIDE DEF j
<1>4. /\ job[w].groups = RunGroups(a, r) /\ r \in 1..runs[a]
      /\ \A g \in groups : g.analysis = a => g.run # r
  BY <1>1 DEF RunInv, LocalRows, Writing, RunsAreFresh
<1>5. /\ groups' = groups \cup RunGroups(a, r)
      /\ UNCHANGED <<req, queue, unacked, runs>>
  BY <1>4 DEF Finish, broker
<1>6. /\ row'[a].status = "completed" /\ row'[a].count = Cardinality(Content[a])
      /\ \A b \in Analyses : b # a => row'[b] = row[b]
  BY <1>1 DEF Finish, TypeOK
<1>7. \A g \in RunGroups(a, r) : g.analysis = a /\ g.run = r
  BY DEF RunGroups
<1>8. \A b, s : Committed(b, s)' = IF b = a /\ s = r THEN RunGroups(a, r)
                                 ELSE Committed(b, s)
  BY <1>4, <1>5, <1>7 DEF Committed
<1>9. RunsAreFresh'
  <2>1. \A g \in groups' : g.run \in 1..runs'[g.analysis]
    BY <1>4, <1>5, <1>7 DEF RunInv, RunsAreFresh
  <2>2. \A v \in Workers : job'[v].phase # "idle" => job[v].phase # "idle"
    BY <1>1, <1>3
  <2>3. \A v \in Workers : job'[v].phase \notin {"idle", "ack"}
          => \A g \in groups' : g.analysis = A(v) => g.run # job[v].run
    <3> SUFFICES ASSUME NEW v \in Workers, job'[v].phase \notin {"idle", "ack"},
                        NEW g \in groups', g.analysis = A(v)
                 PROVE  g.run # job[v].run
      OBVIOUS
    <3>1. v # w /\ job'[v] = job[v]
      BY <1>2, <1>3
    <3>2. A(v) # a \/ job[v].run # r
      BY <1>1, <3>1 DEF RunInv, RunsAreFresh
    <3>3. \A h \in groups : h.analysis = A(v) => h.run # job[v].run
      BY <3>1 DEF RunInv, RunsAreFresh
    <3> QED BY <1>5, <1>7, <3>2, <3>3
  <2> QED BY <1>3, <1>5, <2>1, <2>2, <2>3 DEF RunInv, RunsAreFresh
<1>10. LocalRows'
  <2> SUFFICES ASSUME NEW v \in Workers
               PROVE  /\ job'[v].phase \in Writing
                            => job'[v].groups = RunGroups(A(v), job'[v].run)
                      /\ job'[v].phase \notin Writing
                            => job'[v].groups = {} /\ job'[v].insights = {}
    BY <1>3 DEF LocalRows, RunGroups
  <2> QED BY <1>2, <1>3 DEF RunInv, LocalRows, Writing
<1>11. RowsExist'
  <2>1. \A b \in Analyses : row[b].status # "absent" => row'[b].status # "absent"
    BY <1>6
  <2>2. \A m \in queue \cup unacked : m.analysis \in Analyses
    BY DEF TypeOK, Message
  <2>3. \A v \in Workers : job'[v].phase # "idle" =>
           job[v].phase # "idle" /\ A(v) \in Analyses
    BY <1>1, <1>3, HoldsMessage
  <2> QED BY <1>3, <1>5, <2>1, <2>2, <2>3 DEF RunInv, RowsExist
<1>12. RunsAreAtomic'
  BY <1>5, <1>8 DEF RunInv, RunsAreAtomic, RunGroups
<1>13. CompletedHasResults'
  <2> SUFFICES ASSUME NEW b \in Analyses, row'[b].status = "completed"
               PROVE  /\ row'[b].count = Cardinality(Content[b])
                      /\ \E s \in 1..runs[b] : Committed(b, s)' = RunGroups(b, s)
    BY <1>5 DEF CompletedHasResults, RunGroups
  <2>1. CASE b = a
    BY <1>4, <1>6, <1>8, <2>1
  <2>2. CASE b # a
    BY <1>6, <1>8, <2>2 DEF RunInv, CompletedHasResults
  <2> QED BY <2>1, <2>2
<1> QED BY <1>9, <1>10, <1>11, <1>12, <1>13 DEF RunInv

\* w's session breaks.
LEMMA BrokenRunInv ==
    ASSUME TypeOK, RunInv, NEW w \in Workers, Becomes(w, Broken(job[w])),
           job[w].phase \notin {"idle", "ack"},
           UNCHANGED <<req, store, broker, runs>>
    PROVE  RunInv'
<1> DEFINE j == Broken(job[w])
<1>1. job[w] \in Job
  BY HoldsMessage
<1>2. /\ j \in Job /\ j.msg = job[w].msg /\ j.run = job[w].run
      /\ j.phase = "broken" /\ j.groups = {} /\ j.insights = {}
  BY <1>1, BrokenIsJob DEF Broken, Job
<1>3. UNCHANGED <<req, row, groups, queue, unacked, runs>>
  BY DEF store, broker
<1>4. j.phase \notin Writing
  BY <1>2 DEF Writing
<1> HIDE DEF j
<1> QED BY <1>2, <1>3, <1>4, QuietStep DEF j

\* w goes on with its session, whose rows are those of its run.
LEMMA SessionRunInv ==
    ASSUME TypeOK, RunInv, NEW w \in Workers, NEW j \in Job, Becomes(w, j),
           job[w].phase \in Writing, j.phase \in Writing,
           j.msg = job[w].msg, j.run = job[w].run, j.groups = job[w].groups,
           UNCHANGED <<req, row, groups, queue, unacked, runs>>
    PROVE  RunInv'
<1>1. j.groups = RunGroups(A(w), j.run)
  BY DEF RunInv, LocalRows
<1> QED
  BY <1>1, QuietStep DEF Writing

\* RunInv is an invariant: one step per action, most of them by QuietStep.
LEMMA RunInvariant == Spec => []RunInv
<1>1. Init => RunInv
  BY DEF Init, RunInv, RunsAreFresh, LocalRows, RowsExist, RunsAreAtomic,
         CompletedHasResults, Idle, Committed, Writing
<1>2. TypeOK /\ RunInv /\ [Next]_vars => RunInv'
  <2> SUFFICES ASSUME TypeOK, RunInv, [Next]_vars PROVE RunInv'
    OBVIOUS
  <2>1. ASSUME NEW a \in Analyses, Register(a) PROVE RunInv'
    <3>1. /\ UNCHANGED <<groups, queue, unacked, job, runs>>
          /\ row'[a].status = "pending" /\ \A b \in Analyses : b # a => row'[b] = row[b]
          /\ \A b \in Analyses : b # a => req'[b] = req[b]
      BY <2>1 DEF Register, TypeOK, broker, Row
    <3>2. \A a_1 \in Analyses : row[a_1].status # "absent" => row'[a_1].status # "absent"
      BY <3>1
    <3>3. \A m \in queue \cup unacked : m.analysis \in Analyses
      BY DEF TypeOK, Message
    <3>4. \A v \in Workers : job[v].phase # "idle" => A(v) \in Analyses
      BY HoldsMessage
    <3>5. RowsExist'
      BY <3>1, <3>2, <3>3, <3>4 DEF RunInv, RowsExist, A
    <3>6. CompletedHasResults'
      BY <3>1 DEF RunInv, CompletedHasResults, Committed, RunGroups
    <3> QED
      BY <3>1, <3>5, <3>6
      DEF RunInv, RunsAreFresh, LocalRows, RunsAreAtomic, RunGroups, A, Committed
  <2>2. ASSUME NEW a \in Analyses, Enqueue(a) PROVE RunInv'
    <3>1. /\ UNCHANGED <<row, groups, unacked, job, runs>> /\ row[a].status # "absent"
          /\ \A b \in Analyses : req'[b] = "committed" => req[b] = "committed"
          /\ \A m \in queue' \ queue : m.analysis = a
      BY <2>2 DEF Enqueue, TypeOK, store, RunInv, RowsExist
    <3>2. RowsExist'
      BY <3>1 DEF RunInv, RowsExist, A
    <3> QED
      BY <3>1, <3>2, FrameStep
  <2>3. ASSUME NEW a \in Analyses, EnqueueFails(a) PROVE RunInv'
    <3>1. /\ UNCHANGED <<row, groups, queue, unacked, job, runs>>
          /\ \A b \in Analyses : req'[b] = "committed" => req[b] = "committed"
      BY <2>3 DEF EnqueueFails, TypeOK, store, broker
    <3>2. RowsExist'
      BY <3>1 DEF RunInv, RowsExist, A
    <3> QED
      BY <3>1, <3>2, FrameStep
  <2>4. ASSUME NEW w \in Workers, NEW m \in queue, Deliver(w, m) PROVE RunInv'
    BY <2>4, DeliverRunInv
  <2>5. ASSUME NEW m \in unacked, Restore(m) \/ RestoreWhileHeld(m) PROVE RunInv'
    <3>1. /\ UNCHANGED <<req, row, groups, job, runs>>
          /\ queue' \cup unacked' = queue \cup unacked
      BY <2>5 DEF Restore, RestoreWhileHeld, BackToQueue, store
    <3>2. RowsExist'
      BY <3>1 DEF RunInv, RowsExist, A
    <3> QED
      BY <3>1, <3>2, FrameStep
  <2>6. ASSUME NEW w \in Workers, Load(w) PROVE RunInv'
    <3> DEFINE j == [job[w] EXCEPT !.phase = "file",
                                   !.seen.status = row[A(w)].status]
    <3>1. /\ job[w] \in Job /\ A(w) \in Analyses /\ job[w].phase = "load"
      BY <2>6, HoldsMessage DEF Load
    <3>2. Becomes(w, j)
      BY <2>6, <3>1 DEF Load, RunInv, RowsExist
    <3>3. /\ j \in Job /\ j.msg = job[w].msg /\ j.run = job[w].run
          /\ j.phase \notin Writing \cup {"idle"}
          /\ j.groups = job[w].groups /\ j.insights = job[w].insights
      BY <3>1 DEF Job, Phases, Writing, Row, TypeOK
    <3>4. j.groups = {} /\ j.insights = {}
      BY <3>1, <3>3 DEF RunInv, LocalRows, Writing
    <3>5. UNCHANGED <<req, row, groups, queue, unacked, runs>>
      BY <2>6 DEF Load, store, broker
    <3> QED
      <4> HIDE DEF j
      <4> QED BY <3>1, <3>2, <3>3, <3>4, <3>5, QuietStep
  <2>22. ASSUME NEW w \in Workers, LoadFile(w) PROVE RunInv'
    <3> DEFINE j == [job[w] EXCEPT !.phase = "begin", !.seen.format = row[A(w)].format]
    <3>1. /\ job[w] \in Job /\ A(w) \in Analyses /\ job[w].phase = "file"
      BY <2>22, HoldsMessage DEF LoadFile
    <3>2. Becomes(w, j)
      BY <2>22 DEF LoadFile
    <3>3. /\ j \in Job /\ j.msg = job[w].msg /\ j.run = job[w].run
          /\ j.phase \notin Writing \cup {"idle"}
          /\ j.groups = job[w].groups /\ j.insights = job[w].insights
      BY <3>1 DEF Job, Phases, Writing, Row, TypeOK
    <3>4. j.groups = {} /\ j.insights = {}
      BY <3>1, <3>3 DEF RunInv, LocalRows, Writing
    <3>5. UNCHANGED <<req, row, groups, queue, unacked, runs>>
      BY <2>22 DEF LoadFile, store, broker
    <3> QED
      <4> HIDE DEF j
      <4> QED BY <3>1, <3>2, <3>3, <3>4, <3>5, QuietStep
  <2>7. ASSUME NEW w \in Workers, Begin(w) PROVE RunInv'
    <3> DEFINE j == [job[w] EXCEPT !.phase = "read"]
    <3>1. /\ job[w] \in Job /\ A(w) \in Analyses
          /\ job[w].phase \notin {"idle", "ack"} /\ Becomes(w, j)
      BY <2>7, HoldsMessage DEF Begin
    <3>2. /\ j \in Job /\ j.msg = job[w].msg /\ j.run = job[w].run
          /\ j.phase \notin Writing \cup {"idle"}
          /\ j.groups = job[w].groups /\ j.insights = job[w].insights
      BY <3>1 DEF Job, Phases, Writing
    <3>3. j.groups = {} /\ j.insights = {}
      BY <2>7, <3>2 DEF Begin, RunInv, LocalRows, Writing
    <3>4. UNCHANGED <<req, groups, queue, unacked, runs>>
      BY <2>7 DEF Begin, broker
    <3>5. \A b \in Analyses : row'[b] = row[b] \/ row'[b].status = "running"
      BY <2>7, <3>1 DEF Begin, TypeOK, Row
    <3> QED
      <4> HIDE DEF j
      <4> QED BY <3>1, <3>2, <3>3, <3>4, <3>5, QuietStep
  <2>8. ASSUME NEW w \in Workers, FailRead(w) PROVE RunInv'
    <3> DEFINE j == [job[w] EXCEPT !.phase = "ack"]
    <3>1. /\ job[w] \in Job /\ A(w) \in Analyses
          /\ job[w].phase \notin {"idle", "ack"} /\ Becomes(w, j)
      BY <2>8, HoldsMessage DEF FailRead
    <3>2. /\ j \in Job /\ j.msg = job[w].msg /\ j.run = job[w].run
          /\ j.phase \notin Writing \cup {"idle"}
          /\ j.groups = job[w].groups /\ j.insights = job[w].insights
      BY <3>1 DEF Job, Phases, Writing
    <3>3. j.groups = {} /\ j.insights = {}
      BY <2>8, <3>2 DEF FailRead, RunInv, LocalRows, Writing
    <3>4. UNCHANGED <<req, groups, queue, unacked, runs>>
      BY <2>8 DEF FailRead, broker
    <3>5. \A b \in Analyses : row'[b] = row[b] \/ row'[b].status = "failed"
      BY <2>8, <3>1 DEF FailRead, TypeOK, Row
    <3> QED
      <4> HIDE DEF j
      <4> QED BY <3>1, <3>2, <3>3, <3>4, <3>5, QuietStep
  <2>9. ASSUME NEW w \in Workers, PersistGroups(w) PROVE RunInv'
    <3> DEFINE j == [job[w] EXCEPT !.phase = AfterFlush(A(w)),
                                !.groups = RunGroups(A(w), job[w].run)]
    <3>1. /\ job[w] \in Job /\ A(w) \in Analyses /\ job[w].run \in Nat
          /\ job[w].phase \notin {"idle", "ack"} /\ Becomes(w, j)
      BY <2>9, HoldsMessage DEF PersistGroups
    <3>2. j \in Job /\ j.msg = job[w].msg /\ j.run = job[w].run /\ j.phase # "idle"
      BY <3>1, RunGroupsType DEF Job, Phases, AfterFlush, AfterAI
    <3>3. /\ j.phase \in Writing => j.groups = RunGroups(A(w), j.run)
          /\ j.phase \notin Writing => j.groups = {} /\ j.insights = {}
      BY <2>9, <3>1 DEF PersistGroups, Job, RunInv, LocalRows, Writing, AfterFlush, AfterAI
    <3>4. UNCHANGED <<req, row, groups, queue, unacked, runs>>
      BY <2>9 DEF PersistGroups, store, broker
    <3> QED
      <4> HIDE DEF j
      <4> QED BY <3>1, <3>2, <3>3, <3>4, QuietStep
  <2>10. ASSUME NEW w \in Workers, SelectTop(w) PROVE RunInv'
    <3>1. PICK T \in SUBSET Visible(w) :
             Becomes(w, [job[w] EXCEPT !.phase = "enrich", !.todo = T])
      BY <2>10 DEF SelectTop
    <3> DEFINE j == [job[w] EXCEPT !.phase = "enrich", !.todo = T]
    <3>2. job[w] \in Job /\ A(w) \in Analyses /\ job[w].phase = "select"
      BY <2>10, HoldsMessage DEF SelectTop
    <3>3. T \subseteq Group
      BY <3>1, <3>2 DEF Visible, TypeOK, Job
    <3>4. /\ j \in Job /\ j.msg = job[w].msg /\ j.run = job[w].run
          /\ j.phase = "enrich" /\ j.groups = job[w].groups
      BY <3>2, <3>3 DEF Job, Phases
    <3>5. j.groups = RunGroups(A(w), j.run)
      BY <3>2, <3>4 DEF RunInv, LocalRows, Writing
    <3>6. UNCHANGED <<req, row, groups, queue, unacked, runs>>
      BY <2>10 DEF SelectTop, store, broker
    <3> QED
      <4> HIDE DEF j
      <4> QED BY <3>1, <3>2, <3>4, <3>5, <3>6, QuietStep DEF Writing, j
  <2>11. ASSUME NEW w \in Workers, CacheHit(w) PROVE RunInv'
    <3>0. PICK g \in job[w].todo : \E prior \in Cache(w, g) :
             /\ IsNext(w, g)
             /\ Becomes(w, [job[w] EXCEPT !.phase = "insert",
                            !.adding = {NewInsight(w, g, prior.payload, TRUE)}])
      BY <2>11 DEF CacheHit
    <3>1. PICK prior \in Cache(w, g) :
             /\ IsNext(w, g)
             /\ Becomes(w, [job[w] EXCEPT !.phase = "insert",
                            !.adding = {NewInsight(w, g, prior.payload, TRUE)}])
      BY <3>0
    <3> DEFINE new == NewInsight(w, g, prior.payload, TRUE)
               j == [job[w] EXCEPT !.phase = "insert", !.adding = {new}]
    <3>2. job[w] \in Job /\ job[w].phase = "enrich" /\ g \in Group
      BY <3>1, HoldsMessage DEF IsNext, Job
    <3>3. prior.payload \in Group
      BY <3>1, HoldsMessage DEF Cache, TypeOK, Job, Insight
    <3>4. new \in Insight
      BY <3>2, <3>3, NewInsightType
    <3>5. Becomes(w, j) /\ UNCHANGED <<req, row, groups, queue, unacked, runs>>
      BY <2>11, <3>1 DEF CacheHit, store, broker
    <3> HIDE DEF new
    <3>6. /\ j \in Job /\ j.msg = job[w].msg /\ j.run = job[w].run
          /\ j.phase = "insert" /\ j.groups = job[w].groups
      BY <3>2, <3>4, AddingIsJob DEF Job
    <3> HIDE DEF j
    <3> QED BY <3>2, <3>5, <3>6, SessionRunInv DEF Writing
  <2>12. ASSUME NEW w \in Workers, CacheMiss(w) PROVE RunInv'
    <3>1. PICK g \in job[w].todo :
             /\ job[w].phase = "enrich"
             /\ Becomes(w, [job[w] EXCEPT !.phase = "calling", !.asking = g])
             /\ UNCHANGED <<req, store, broker, runs>>
      BY <2>12 DEF CacheMiss, IsNext
    <3> DEFINE j == [job[w] EXCEPT !.phase = "calling", !.asking = g]
    <3>2. job[w] \in Job /\ g \in Group
      BY <3>1, HoldsMessage DEF Job
    <3>3. /\ j \in Job /\ j.msg = job[w].msg /\ j.run = job[w].run
          /\ j.phase = "calling" /\ j.groups = job[w].groups
      BY <3>2 DEF Job, Phases
    <3>4. j.groups = RunGroups(A(w), j.run)
      BY <3>1, <3>3 DEF RunInv, LocalRows, Writing
    <3>5. UNCHANGED <<req, row, groups, queue, unacked, runs>>
      BY <3>1 DEF store, broker
    <3> QED
      <4> HIDE DEF j
      <4> QED BY <3>1, <3>3, <3>4, <3>5, QuietStep DEF Writing, j
  <2>13. ASSUME NEW w \in Workers, Answer(w) PROVE RunInv'
    <3> DEFINE new == NewInsight(w, job[w].asking, job[w].asking, FALSE)
               j == [job[w] EXCEPT !.phase = "insert", !.asking = NoGroup,
                                   !.adding = {new}]
    <3>1. job[w].asking \in Group /\ job[w].phase = "calling" /\ job[w] \in Job
      BY <2>13, HoldsMessage DEF Answer, TypeOK, JobsOK
    <3>2. new \in Insight
      BY <3>1, NewInsightType
    <3>3. Becomes(w, j) /\ UNCHANGED <<req, row, groups, queue, unacked, runs>>
      BY <2>13 DEF Answer, store, broker
    <3> HIDE DEF new
    <3>4. /\ j \in Job /\ j.msg = job[w].msg /\ j.run = job[w].run
          /\ j.phase = "insert" /\ j.groups = job[w].groups
      BY <3>1, <3>2, AddingIsJob DEF Job
    <3> HIDE DEF j
    <3> QED BY <3>1, <3>3, <3>4, SessionRunInv DEF Writing
  <2>23. ASSUME NEW w \in Workers, InsertInsight(w) PROVE RunInv'
    <3>1. PICK new \in job[w].adding :
             Becomes(w, Broken(job[w])) \/ Becomes(w, Inserted(job[w], new))
      BY <2>23 DEF InsertInsight
    <3>2. /\ job[w].phase = "insert" /\ job[w] \in Job /\ new \in Insight
          /\ UNCHANGED <<req, store, broker, runs>>
          /\ UNCHANGED <<req, row, groups, queue, unacked, runs>>
      BY <2>23, <3>1, HoldsMessage DEF InsertInsight, Job, store, broker
    <3>3. CASE Becomes(w, Broken(job[w]))
      BY <3>2, <3>3, BrokenRunInv
    <3>4. CASE Becomes(w, Inserted(job[w], new))
      BY <3>2, <3>4, AddingIsJob, SessionRunInv DEF Writing
    <3> QED BY <3>1, <3>3, <3>4
  <2>14. ASSUME NEW w \in Workers, CallFails(w) PROVE RunInv'
    <3> DEFINE j == [job[w] EXCEPT !.phase = "enrich", !.asking = NoGroup,
                                !.todo = @ \ {job[w].asking}]
    <3>1. /\ job[w] \in Job /\ A(w) \in Analyses /\ job[w].run \in Nat
          /\ job[w].phase \notin {"idle", "ack"} /\ Becomes(w, j)
      BY <2>14, HoldsMessage DEF CallFails
    <3>2. j \in Job /\ j.msg = job[w].msg /\ j.run = job[w].run /\ j.phase # "idle"
      BY <3>1 DEF Job, Phases
    <3>3. /\ j.phase \in Writing => j.groups = RunGroups(A(w), j.run)
          /\ j.phase \notin Writing => j.groups = {} /\ j.insights = {}
      BY <2>14, <3>1 DEF CallFails, Job, RunInv, LocalRows, Writing
    <3>4. UNCHANGED <<req, row, groups, queue, unacked, runs>>
      BY <2>14 DEF CallFails, store, broker
    <3> QED
      <4> HIDE DEF j
      <4> QED BY <3>1, <3>2, <3>3, <3>4, QuietStep
  <2>15. ASSUME NEW w \in Workers, EnrichDone(w) PROVE RunInv'
    <3> DEFINE j == [job[w] EXCEPT !.phase = AfterAI]
    <3>1. /\ job[w] \in Job /\ A(w) \in Analyses /\ job[w].run \in Nat
          /\ job[w].phase \notin {"idle", "ack"} /\ Becomes(w, j)
      BY <2>15, HoldsMessage DEF EnrichDone
    <3>2. j \in Job /\ j.msg = job[w].msg /\ j.run = job[w].run /\ j.phase # "idle"
      BY <3>1 DEF Job, Phases, AfterAI
    <3>3. /\ j.phase \in Writing => j.groups = RunGroups(A(w), j.run)
          /\ j.phase \notin Writing => j.groups = {} /\ j.insights = {}
      BY <2>15, <3>1 DEF EnrichDone, Job, RunInv, LocalRows, Writing, AfterAI
    <3>4. UNCHANGED <<req, row, groups, queue, unacked, runs>>
      BY <2>15 DEF EnrichDone, store, broker
    <3> QED
      <4> HIDE DEF j
      <4> QED BY <3>1, <3>2, <3>3, <3>4, QuietStep
  <2>24. ASSUME NEW w \in Workers, SelectAll(w) PROVE RunInv'
    <3> DEFINE j == [job[w] EXCEPT !.phase = "upsert", !.todo = Visible(w)]
    <3>1. /\ job[w] \in Job /\ job[w].phase = "index" /\ Becomes(w, j)
          /\ UNCHANGED <<req, row, groups, queue, unacked, runs>>
      BY <2>24, HoldsMessage DEF SelectAll, store, broker
    <3>2. Visible(w) \subseteq Group
      BY <3>1 DEF Visible, TypeOK, Job
    <3>3. /\ j \in Job /\ j.msg = job[w].msg /\ j.run = job[w].run
          /\ j.phase = "upsert" /\ j.groups = job[w].groups
      BY <3>1, <3>2 DEF Job, Phases
    <3> HIDE DEF j
    <3> QED BY <3>1, <3>3, SessionRunInv DEF Writing
  <2>16. ASSUME NEW w \in Workers, Index(w) PROVE RunInv'
    <3> DEFINE j == [job[w] EXCEPT !.phase = "finish", !.todo = {}]
    <3>1. /\ job[w] \in Job /\ job[w].phase = "upsert" /\ Becomes(w, j)
          /\ UNCHANGED <<req, row, groups, queue, unacked, runs>>
      BY <2>16, HoldsMessage DEF Index, store, broker
    <3>2. /\ j \in Job /\ j.msg = job[w].msg /\ j.run = job[w].run
          /\ j.phase = "finish" /\ j.groups = job[w].groups
      BY <3>1 DEF Job, Phases
    <3> HIDE DEF j
    <3> QED BY <3>1, <3>2, SessionRunInv DEF Writing
  <2>17. ASSUME NEW w \in Workers, InsertDeadlock(w) PROVE RunInv'
    <3>1. /\ job[w].phase = "insert" /\ Becomes(w, Broken(job[w]))
          /\ UNCHANGED <<req, store, broker, runs>>
      BY <2>17 DEF InsertDeadlock
    <3> QED BY <3>1, BrokenRunInv
  <2>18. ASSUME NEW w \in Workers, Finish(w) PROVE RunInv'
    BY <2>18, FinishRunInv
  <2>19. ASSUME NEW w \in Workers,
                Ack(w) \/ SetupFails(w) \/ ConnectFails(w) \/ ChildLost(w) \/ Crash(w)
         PROVE  RunInv'
    <3>1. /\ job[w].phase # "idle" /\ Becomes(w, Idle)
          /\ UNCHANGED <<req, row, groups, runs>>
          /\ unacked' \subseteq unacked
          /\ \A m \in queue' \ queue : m.analysis = A(w)
      BY <2>19 DEF Ack, SetupFails, ConnectFails, ChildLost, Crash, EndDelivery,
                   store, broker
    <3> QED BY <3>1, ReleaseStep
  <2>20. ASSUME NEW w \in Workers, DbError(w) PROVE RunInv'
    <3>1. /\ Becomes(w, Broken(job[w])) /\ job[w].phase \notin {"idle", "ack"}
          /\ UNCHANGED <<req, store, broker, runs>>
      BY <2>20 DEF DbError, Writing
    <3> QED BY <3>1, BrokenRunInv
  <2>21. CASE UNCHANGED vars
    <3>1. UNCHANGED <<req, row, groups, queue, unacked, job, runs>>
      BY <2>21 DEF vars
    <3>2. RowsExist'
      BY <3>1 DEF RunInv, RowsExist, A
    <3> QED BY <3>1, <3>2, FrameStep
  <2> QED
    BY <2>1, <2>2, <2>3, <2>4, <2>5, <2>6, <2>7, <2>8, <2>9, <2>10, <2>11, <2>12,
       <2>13, <2>14, <2>15, <2>16, <2>17, <2>18, <2>19, <2>20, <2>21, <2>22, <2>23,
       <2>24
    DEF Next, Api, Work, WorkerFault, Rest
<1>3. QED BY <1>1, <1>2, TypeCorrect, PTL DEF Spec

\* No reader and no other session ever sees part of what a run of the task
\* found in a file, whatever the number of workers, redeliveries and crashes.
THEOREM RunsStayAtomic == Spec => []RunsAreAtomic
<1>1. RunInv => RunsAreAtomic
  BY DEF RunInv
<1> QED BY <1>1, RunInvariant, PTL

\* An analysis that says "completed" shows all the groups of one of its runs
\* and their number.
THEOREM CompletedMeansResults == Spec => []CompletedHasResults
<1>1. RunInv => CompletedHasResults
  BY DEF RunInv
<1> QED BY <1>1, RunInvariant, PTL

\* No worker is given, or looks up, the id of a row that is not there: the
\* commit comes before the message.
THEOREM WorkersFindTheirRow == Spec => []WorkerFindsRow
<1>1. RunInv => WorkerFindsRow
  BY DEF RunInv, RowsExist, WorkerFindsRow
<1> QED BY <1>1, RunInvariant, PTL
-----------------------------------------------------------------------------
\* The insights.  InsightInv is inductive relative to TypeOK and RunInv, and
\* gives that the cache is grounded, never crosses users, and that a group has
\* one insight.

\* What a session that does job j sees of the groups in G.
SeenBy(j, G) == {g \in G : g.analysis = j.msg.analysis} \cup j.groups

\* After the step in which w takes job j, everybody else has the old job.
LEMMA JobsAfter ==
    ASSUME TypeOK, NEW w \in Workers, NEW j, Becomes(w, j)
    PROVE  /\ job'[w] = j
           /\ A(w)' = j.msg.analysis
           /\ Visible(w)' = SeenBy(j, groups')
           /\ \A v \in Workers : v # w =>
                 /\ job'[v] = job[v]
                 /\ A(v)' = A(v)
                 /\ Visible(v)' = SeenBy(job[v], groups')
           /\ \A v \in Workers : Visible(v) = SeenBy(job[v], groups)
BY DEF TypeOK, JobsOK, Becomes, A, Visible, SeenBy

\* A session sees groups of its own analysis only.
LEMMA VisibleIsOwn ==
    ASSUME RunInv, NEW w \in Workers, NEW g \in Visible(w)
    PROVE  g.analysis = A(w)
BY DEF RunInv, LocalRows, Visible, RunGroups

\* w's step keeps its insights, or drops them all, and adds and commits nothing.
LEMMA KeepInsights ==
    ASSUME TypeOK, InsightInv, NEW w \in Workers, NEW j, Becomes(w, j),
           UNCHANGED <<groups, insights>>,
           j.adding = {},
           \/ j.insights = {}
           \/ /\ j.insights = job[w].insights
              /\ j.msg = job[w].msg
              /\ job[w].groups \subseteq j.groups,
           j.phase \in {"enrich", "calling", "insert"} => j.todo \subseteq SeenBy(j, groups),
           j.phase = "calling" => j.asking \in SeenBy(j, groups)
    PROVE  InsightInv'
<1>1. /\ job'[w] = j /\ A(w)' = j.msg.analysis /\ Visible(w)' = SeenBy(j, groups)
      /\ \A v \in Workers : v # w =>
            job'[v] = job[v] /\ A(v)' = A(v) /\ Visible(v)' = Visible(v)
      /\ Visible(w) = SeenBy(job[w], groups)
  BY JobsAfter
<1>2. TodoIsVisible'
  BY <1>1 DEF InsightInv, TodoIsVisible
<1>3. LocalInsights'
  <2> SUFFICES ASSUME NEW v \in Workers, NEW i \in job'[v].insights \cup job'[v].adding
               PROVE  /\ i.group \in Visible(v)'
                      /\ i.fp = i.group.fp
                      /\ i.user = Owner[A(v)']
                      /\ i.user = Owner[i.payload.analysis]
                      /\ \E o \in insights \cup job'[v].insights \cup {i} :
                            /\ ~o.cached
                            /\ o.group = i.payload /\ o.payload = i.payload
                            /\ o.user = i.user /\ o.fp = i.fp
    BY DEF LocalInsights
  <2>1. CASE v = w
    <3>1. /\ job'[w].insights = job[w].insights /\ i \in job[w].insights
          /\ A(w)' = A(w) /\ Visible(w) \subseteq Visible(w)'
      BY <1>1, <2>1 DEF SeenBy, A
    <3> QED BY <2>1, <3>1 DEF InsightInv, LocalInsights
  <2>2. CASE v # w
    BY <1>1, <2>2 DEF InsightInv, LocalInsights
  <2> QED BY <2>1, <2>2
<1>5. AddedIsInserted'
  BY <1>1 DEF InsightInv, AddedIsInserted
<1>4. InsightsAreUnique'
  <2>1. \A v \in Workers : job'[v].insights \subseteq job[v].insights
    BY <1>1
  <2> QED BY <2>1 DEF InsightInv, InsightsAreUnique
<1> QED
  BY <1>2, <1>3, <1>4, <1>5
  DEF InsightInv, CacheIsGrounded, InsightsAreOwned, OneInsightPerGroup

\* w's session is lost, or its delivery is over.
LEMMA DropInsights ==
    ASSUME TypeOK, InsightInv, NEW w \in Workers,
           \/ Becomes(w, Idle)
           \/ Becomes(w, Broken(job[w])),
           UNCHANGED <<groups, insights>>
    PROVE  InsightInv'
<1>1. Idle.insights = {} /\ Idle.phase = "idle" /\ Idle.adding = {}
  BY DEF Idle
<1>2. /\ Broken(job[w]).insights = {} /\ Broken(job[w]).phase = "broken"
      /\ Broken(job[w]).adding = {}
  <2>1. job[w] \in Job
    BY HoldsMessage
  <2> QED BY <2>1 DEF Broken, Job
<1>3. CASE Becomes(w, Idle)
  BY <1>1, <1>3, KeepInsights
<1>4. CASE Becomes(w, Broken(job[w]))
  BY <1>2, <1>4, KeepInsights
<1> QED BY <1>3, <1>4

\* w's session sees the same groups as before.
LEMMA SameRows ==
    ASSUME TypeOK, NEW w \in Workers, NEW j, Becomes(w, j), UNCHANGED groups,
           j.msg = job[w].msg, j.groups = job[w].groups
    PROVE  /\ job'[w] = j /\ A(w)' = A(w) /\ Visible(w)' = Visible(w)
           /\ \A v \in Workers : v # w =>
                 job'[v] = job[v] /\ A(v)' = A(v) /\ Visible(v)' = Visible(v)
<1>1. /\ job'[w] = j /\ A(w)' = j.msg.analysis /\ Visible(w)' = SeenBy(j, groups)
      /\ \A v \in Workers : v # w =>
            job'[v] = job[v] /\ A(v)' = A(v) /\ Visible(v)' = Visible(v)
      /\ Visible(w) = SeenBy(job[w], groups)
  BY JobsAfter
<1>2. SeenBy(j, groups) = SeenBy(job[w], groups)
  BY DEF SeenBy
<1>3. A(w) = job[w].msg.analysis
  BY DEF A
<1> QED BY <1>1, <1>2, <1>3

\* w adds an insight to its session that an LLM answer for the same user and
\* fingerprint backs, and will insert it at its next await.
LEMMA AddKeeps ==
    ASSUME TypeOK, InsightInv, NEW w \in Workers, NEW j, Becomes(w, j),
           UNCHANGED <<groups, insights>>,
           NEW g \in Visible(w), NEW p, NEW c \in BOOLEAN,
           Owner[p.analysis] = Owner[A(w)],
           \/ ~c /\ p = g
           \/ \E o \in insights \cup job[w].insights :
                 /\ ~o.cached
                 /\ o.group = p /\ o.payload = p
                 /\ o.user = Owner[A(w)] /\ o.fp = g.fp,
           job[w].phase \in {"enrich", "calling"}, j.phase = "insert",
           j.msg = job[w].msg, j.groups = job[w].groups, j.todo = job[w].todo,
           j.insights = job[w].insights, j.adding = {NewInsight(w, g, p, c)}
    PROVE  InsightInv'
<1> DEFINE new == NewInsight(w, g, p, c)
<1>1. /\ new.group = g /\ new.user = Owner[A(w)] /\ new.fp = g.fp
      /\ new.payload = p /\ new.cached = c
  BY DEF NewInsight
<1> HIDE DEF new
<1>2. /\ job'[w] = j /\ A(w)' = A(w) /\ Visible(w)' = Visible(w)
      /\ \A v \in Workers : v # w =>
            job'[v] = job[v] /\ A(v)' = A(v) /\ Visible(v)' = Visible(v)
  BY SameRows
<1>3. TodoIsVisible'
  BY <1>2 DEF InsightInv, TodoIsVisible
<1>4. LocalInsights'
  <2> SUFFICES ASSUME NEW v \in Workers, NEW i \in job'[v].insights \cup job'[v].adding
               PROVE  /\ i.group \in Visible(v)
                      /\ i.fp = i.group.fp
                      /\ i.user = Owner[A(v)]
                      /\ i.user = Owner[i.payload.analysis]
                      /\ \E o \in insights \cup job[v].insights \cup {i} :
                            /\ ~o.cached
                            /\ o.group = i.payload /\ o.payload = i.payload
                            /\ o.user = i.user /\ o.fp = i.fp
    BY <1>2 DEF LocalInsights
  <2>1. CASE v = w /\ i = new
    BY <1>1, <2>1
  <2>2. CASE i \in job[v].insights \cup job[v].adding
    BY <2>2 DEF InsightInv, LocalInsights
  <2> QED BY <1>2, <2>1, <2>2 DEF new
<1>5. AddedIsInserted'
  BY <1>2 DEF InsightInv, AddedIsInserted
<1>6. InsightsAreUnique'
  <2>1. \A v \in Workers : job'[v].insights = job[v].insights
    BY <1>2
  <2> QED BY <2>1 DEF InsightInv, InsightsAreUnique
<1> QED
  BY <1>3, <1>4, <1>5, <1>6
  DEF InsightInv, CacheIsGrounded, InsightsAreOwned, OneInsightPerGroup

\* w inserts what it added: its session has a new insight, for a group that no
\* session has one for, or it breaks.
LEMMA InsertionKeeps ==
    ASSUME TypeOK, RunInv, InsightInv, NEW w \in Workers, InsertInsight(w)
    PROVE  InsightInv'
<1>1. PICK new \in job[w].adding :
         /\ ~Blocked(w, new.group)
         /\ \/ Becomes(w, Broken(job[w]))
            \/ ~HasInsight(w, new.group) /\ Becomes(w, Inserted(job[w], new))
  BY DEF InsertInsight
<1>2. UNCHANGED <<groups, insights>> /\ job[w].phase = "insert" /\ job[w] \in Job
  BY HoldsMessage DEF InsertInsight, store
<1>3. CASE Becomes(w, Broken(job[w]))
  BY <1>2, <1>3, DropInsights
<1>4. CASE /\ Becomes(w, Inserted(job[w], new))
           /\ \A i \in insights \cup job[w].insights : i.group # new.group
           /\ \A v \in Workers \ {w} : \A i \in job[v].insights : i.group # new.group
  <2> DEFINE j == Inserted(job[w], new)
  <2>0. job[w] \in Job /\ new \in Insight
    BY <1>1, <1>2 DEF Job
  <2>1. /\ j.phase = "enrich" /\ j.insights = job[w].insights \cup {new}
        /\ j.todo = job[w].todo \ {new.group} /\ j.adding = {}
        /\ j.msg = job[w].msg /\ j.groups = job[w].groups
    BY <2>0, AddingIsJob
  <2> HIDE DEF j
  <2>2. /\ job'[w] = j /\ A(w)' = A(w) /\ Visible(w)' = Visible(w)
        /\ \A v \in Workers : v # w =>
              job'[v] = job[v] /\ A(v)' = A(v) /\ Visible(v)' = Visible(v)
    <3>1. Becomes(w, j)
      BY <1>4 DEF j
    <3> QED BY <1>2, <2>1, <3>1, SameRows
  <2>3. TodoIsVisible'
    BY <1>2, <2>1, <2>2 DEF InsightInv, TodoIsVisible
  <2>4. LocalInsights'
    <3> SUFFICES ASSUME NEW v \in Workers,
                        NEW i \in job'[v].insights \cup job'[v].adding
                 PROVE  /\ i.group \in Visible(v)
                        /\ i.fp = i.group.fp
                        /\ i.user = Owner[A(v)]
                        /\ i.user = Owner[i.payload.analysis]
                        /\ \E o \in insights \cup job'[v].insights \cup {i} :
                              /\ ~o.cached
                              /\ o.group = i.payload /\ o.payload = i.payload
                              /\ o.user = i.user /\ o.fp = i.fp
      BY <1>2, <2>2 DEF LocalInsights
    <3>1. i \in job[v].insights \cup job[v].adding
      BY <2>1, <2>2
    <3>2. job[v].insights \subseteq job'[v].insights
      BY <2>1, <2>2
    <3> QED BY <3>1, <3>2 DEF InsightInv, LocalInsights
  <2>5. AddedIsInserted'
    BY <2>1, <2>2 DEF InsightInv, AddedIsInserted
  <2>6. InsightsAreUnique'
    <3> SUFFICES ASSUME NEW v \in Workers, NEW u \in Workers,
                        NEW i \in insights \cup job'[v].insights,
                        NEW k \in insights \cup job'[u].insights,
                        i.group = k.group
                 PROVE  i = k
      BY <1>2 DEF InsightsAreUnique
    <3>1. \A x \in Workers : job'[x].insights \subseteq job[x].insights \cup {new}
      BY <2>1, <2>2
    <3>2. \A x \in Workers : \A h \in insights \cup job[x].insights :
             h.group # new.group
      BY <1>4
    <3>3. CASE i = new \/ k = new
      BY <3>1, <3>2, <3>3
    <3>4. CASE i # new /\ k # new
      BY <3>1, <3>4 DEF InsightInv, InsightsAreUnique
    <3> QED BY <3>3, <3>4
  <2> QED
    BY <1>2, <2>3, <2>4, <2>5, <2>6
    DEF InsightInv, CacheIsGrounded, InsightsAreOwned, OneInsightPerGroup
<1> QED BY <1>1, <1>3, <1>4 DEF Blocked, HasInsight

\* The commit: w's insights become visible with the groups they sit on.
LEMMA FinishKeeps ==
    ASSUME TypeOK, RunInv, InsightInv, NEW w \in Workers, Finish(w)
    PROVE  InsightInv'
<1> DEFINE j == [job[w] EXCEPT !.phase = "ack", !.groups = {}, !.insights = {}]
<1>1. j.phase = "ack" /\ j.insights = {} /\ j.adding = {}
  BY HoldsMessage DEF Job, Finish, InsightInv, AddedIsInserted
<1>2. /\ Becomes(w, j)
      /\ groups' = groups \cup job[w].groups
      /\ insights' = insights \cup job[w].insights
  BY DEF Finish
<1> HIDE DEF j
<1>3. /\ job'[w].phase = "ack" /\ job'[w].insights = {} /\ job'[w].adding = {}
      /\ \A v \in Workers : v # w => job'[v] = job[v] /\ A(v)' = A(v)
                                     /\ Visible(v) \subseteq Visible(v)'
      /\ Visible(w) \subseteq groups'
  BY <1>1, <1>2, JobsAfter DEF SeenBy
<1>4. \A i \in job[w].insights : i.group \in Visible(w) /\ i.group.analysis = A(w)
  BY VisibleIsOwn DEF InsightInv, LocalInsights
<1>5. TodoIsVisible'
  BY <1>3 DEF InsightInv, TodoIsVisible
<1>6. LocalInsights'
  <2> SUFFICES ASSUME NEW v \in Workers, v # w,
                      NEW i \in job[v].insights \cup job[v].adding
               PROVE  /\ i.group \in Visible(v)'
                      /\ i.fp = i.group.fp
                      /\ i.user = Owner[A(v)]
                      /\ i.user = Owner[i.payload.analysis]
                      /\ \E o \in insights' \cup job[v].insights \cup {i} :
                            /\ ~o.cached
                            /\ o.group = i.payload /\ o.payload = i.payload
                            /\ o.user = i.user /\ o.fp = i.fp
    BY <1>3 DEF LocalInsights
  <2> QED BY <1>2, <1>3 DEF InsightInv, LocalInsights
<1>7. InsightsAreUnique'
  <2> SUFFICES ASSUME NEW v \in Workers, NEW u \in Workers,
                      NEW i \in insights' \cup job'[v].insights,
                      NEW k \in insights' \cup job'[u].insights,
                      i.group = k.group
               PROVE  i = k
    BY DEF InsightsAreUnique
  <2>1. /\ \E x \in Workers : i \in insights \cup job[x].insights
        /\ \E x \in Workers : k \in insights \cup job[x].insights
    BY <1>2, <1>3
  <2> QED BY <2>1 DEF InsightInv, InsightsAreUnique
<1>8. CacheIsGrounded'
  BY <1>2 DEF InsightInv, LocalInsights, CacheIsGrounded
<1>9. InsightsAreOwned'
  <2> SUFFICES ASSUME NEW i \in insights'
               PROVE  /\ i.group \in groups'
                      /\ i.fp = i.group.fp
                      /\ i.user = Owner[i.group.analysis]
                      /\ i.user = Owner[i.payload.analysis]
    BY DEF InsightsAreOwned
  <2>1. CASE i \in insights
    BY <1>2, <2>1 DEF InsightInv, InsightsAreOwned
  <2>2. CASE i \in job[w].insights
    BY <1>3, <1>4, <2>2 DEF InsightInv, LocalInsights
  <2> QED BY <1>2, <2>1, <2>2
<1>10. OneInsightPerGroup'
  BY <1>2 DEF InsightInv, InsightsAreUnique, OneInsightPerGroup
<1>11. AddedIsInserted'
  BY <1>3 DEF InsightInv, AddedIsInserted
<1> QED BY <1>5, <1>6, <1>7, <1>8, <1>9, <1>10, <1>11 DEF InsightInv

\* InsightInv is an invariant: inserts and commits by the lemmas above, every
\* other action keeps or drops the insights of a session.
LEMMA InsightInvariant == Spec => []InsightInv
<1>1. Init => InsightInv
  BY DEF Init, InsightInv, TodoIsVisible, LocalInsights, AddedIsInserted,
         InsightsAreUnique, CacheIsGrounded, InsightsAreOwned, OneInsightPerGroup, Idle
<1>2. TypeOK /\ RunInv /\ InsightInv /\ [Next]_vars => InsightInv'
  <2> SUFFICES ASSUME TypeOK, RunInv, InsightInv, [Next]_vars PROVE InsightInv'
    OBVIOUS
  <2>1. ASSUME UNCHANGED <<groups, insights, job>> PROVE InsightInv'
    BY <2>1 DEF InsightInv, TodoIsVisible, LocalInsights, AddedIsInserted,
                InsightsAreUnique, CacheIsGrounded, InsightsAreOwned,
                OneInsightPerGroup, Visible, A
  <2>2. ASSUME NEW a \in Analyses, Api(a) PROVE InsightInv'
    BY <2>1, <2>2 DEF Api, Register, Enqueue, EnqueueFails, store
  <2>3. ASSUME NEW w \in Workers, NEW m \in queue, Deliver(w, m) PROVE InsightInv'
    <3> DEFINE j == [Idle EXCEPT !.phase = "load", !.msg = m,
                                 !.run = runs[m.analysis] + 1]
    <3>1. Becomes(w, j) /\ UNCHANGED <<groups, insights>>
      BY <2>3 DEF Deliver, store
    <3>2. j.insights = {} /\ j.phase = "load" /\ j.adding = {}
      BY DEF Idle
    <3> HIDE DEF j
    <3> QED BY <3>1, <3>2, KeepInsights
  <2>4. ASSUME NEW m \in unacked, Restore(m) \/ RestoreWhileHeld(m) PROVE InsightInv'
    BY <2>1, <2>4 DEF Restore, RestoreWhileHeld, store
  \* Steps that end or break the session.
  <2>5. ASSUME NEW w \in Workers,
               Ack(w) \/ WorkerFault(w) \/ InsertDeadlock(w)
        PROVE  InsightInv'
    <3>1. /\ Becomes(w, Idle) \/ Becomes(w, Broken(job[w]))
          /\ UNCHANGED <<groups, insights>>
      BY <2>5 DEF Ack, WorkerFault, InsertDeadlock, SetupFails, ConnectFails,
                  DbError, Crash, ChildLost, EndDelivery, store
    <3> QED BY <3>1, DropInsights
  \* Steps that only move the session on, outside the enrichment.
  <2>6. ASSUME NEW w \in Workers,
               \/ Load(w) \/ LoadFile(w) \/ Begin(w) \/ FailRead(w) \/ EnrichDone(w)
               \/ SelectAll(w) \/ Index(w)
        PROVE  InsightInv'
    <3>1. PICK j : /\ Becomes(w, j) /\ UNCHANGED <<groups, insights>>
                   /\ j.insights = job[w].insights /\ j.msg = job[w].msg
                   /\ j.groups = job[w].groups /\ j.adding = job[w].adding
                   /\ j.phase \notin {"enrich", "calling", "insert"}
                   /\ job[w].phase # "insert"
      <4> DEFINE to(ph) == [job[w] EXCEPT !.phase = ph]
                 loaded(x) == [job[w] EXCEPT !.phase = "file", !.seen.status = x]
                 found(x) == [job[w] EXCEPT !.phase = "begin", !.seen.format = x]
                 chosen(x) == [job[w] EXCEPT !.phase = "upsert", !.todo = x]
                 indexed == [job[w] EXCEPT !.phase = "finish", !.todo = {}]
      <4>1. /\ \/ \E x : Becomes(w, loaded(x)) \/ Becomes(w, found(x))
                        \/ Becomes(w, chosen(x))
               \/ Becomes(w, indexed)
               \/ \E ph \in {"ack", "read", AfterAI} : Becomes(w, to(ph))
            /\ UNCHANGED <<groups, insights>> /\ job[w].phase # "insert"
        BY <2>6 DEF Load, LoadFile, Begin, FailRead, EnrichDone, SelectAll, Index, store
      <4>2. job[w] \in Job
        BY HoldsMessage
      <4> DEFINE Quiet(j) ==
             /\ j.insights = job[w].insights /\ j.msg = job[w].msg
             /\ j.groups = job[w].groups /\ j.adding = job[w].adding
             /\ j.phase \notin {"enrich", "calling", "insert"}
      <4>3. /\ \A ph \in {"ack", "read", AfterAI} : Quiet(to(ph))
            /\ \A x : Quiet(loaded(x)) /\ Quiet(found(x)) /\ Quiet(chosen(x))
            /\ Quiet(indexed)
        BY <4>2 DEF Job, AfterAI
      <4>4. \A j : Becomes(w, j) /\ Quiet(j) => \E k : Becomes(w, k) /\ Quiet(k)
        OBVIOUS
      <4> HIDE DEF to, loaded, found, chosen, indexed, Quiet
      <4>5. \E k : Becomes(w, k) /\ Quiet(k)
        BY <4>1, <4>3, <4>4
      <4> QED BY <4>1, <4>5 DEF Quiet
    <3>2. j.adding = {}
      BY <3>1 DEF InsightInv, AddedIsInserted
    <3> QED BY <3>1, <3>2, KeepInsights
  <2>7. ASSUME NEW w \in Workers, PersistGroups(w) PROVE InsightInv'
    <3> DEFINE j == [job[w] EXCEPT !.phase = AfterFlush(A(w)),
                                   !.groups = RunGroups(A(w), job[w].run)]
    <3>1. Becomes(w, j) /\ UNCHANGED <<groups, insights>> /\ job[w].phase = "read"
      BY <2>7 DEF PersistGroups, store
    <3>2. job[w] \in Job /\ job[w].insights = {}
      BY <3>1, HoldsMessage DEF RunInv, LocalRows, Writing
    <3>3. /\ j.insights = {} /\ j.phase \notin {"enrich", "calling", "insert"}
          /\ j.adding = {}
      BY <3>1, <3>2 DEF Job, AfterFlush, AfterAI, InsightInv, AddedIsInserted
    <3> HIDE DEF j
    <3> QED BY <3>1, <3>3, KeepInsights
  <2>8. ASSUME NEW w \in Workers, SelectTop(w) PROVE InsightInv'
    <3>1. PICK T \in SUBSET Visible(w) :
             Becomes(w, [job[w] EXCEPT !.phase = "enrich", !.todo = T])
      BY <2>8 DEF SelectTop
    <3> DEFINE j == [job[w] EXCEPT !.phase = "enrich", !.todo = T]
    <3>2. /\ j.phase = "enrich" /\ j.todo = T /\ j.insights = job[w].insights
          /\ j.msg = job[w].msg /\ j.groups = job[w].groups /\ j.adding = {}
      BY <2>8, HoldsMessage DEF Job, SelectTop, InsightInv, AddedIsInserted
    <3>3. UNCHANGED <<groups, insights>> /\ Becomes(w, j)
      BY <2>8, <3>1 DEF SelectTop, store
    <3> HIDE DEF j
    <3>4. T \subseteq SeenBy(j, groups)
      BY <3>2 DEF Visible, SeenBy, A
    <3> QED BY <3>2, <3>3, <3>4, KeepInsights
  <2>9. ASSUME NEW w \in Workers, CacheHit(w) PROVE InsightInv'
    <3>1. PICK g \in job[w].todo : \E prior \in Cache(w, g) :
             /\ IsNext(w, g)
             /\ Becomes(w, [job[w] EXCEPT !.phase = "insert",
                            !.adding = {NewInsight(w, g, prior.payload, TRUE)}])
      BY <2>9 DEF CacheHit
    <3>2. PICK prior \in Cache(w, g) :
             /\ IsNext(w, g)
             /\ Becomes(w, [job[w] EXCEPT !.phase = "insert",
                            !.adding = {NewInsight(w, g, prior.payload, TRUE)}])
      BY <3>1
    <3> DEFINE new == NewInsight(w, g, prior.payload, TRUE)
               j == [job[w] EXCEPT !.phase = "insert", !.adding = {new}]
    <3>3. /\ job[w].phase = "enrich" /\ g \in Visible(w)
          /\ UNCHANGED <<groups, insights>>
      BY <2>9, <3>2 DEF CacheHit, IsNext, InsightInv, TodoIsVisible, store
    <3>4. /\ prior \in insights \cup job[w].insights
          /\ prior.user = Owner[A(w)] /\ prior.fp = g.fp
      BY <3>2 DEF Cache
    <3>5. prior.user = Owner[prior.payload.analysis]
      BY <3>4 DEF InsightInv, LocalInsights, InsightsAreOwned
    <3>6. \E o \in insights \cup job[w].insights :
             /\ ~o.cached
             /\ o.group = prior.payload /\ o.payload = prior.payload
             /\ o.user = prior.user /\ o.fp = prior.fp
      BY <3>4 DEF InsightInv, LocalInsights, CacheIsGrounded
    <3>7. Becomes(w, j)
      BY <3>2
    <3>8. /\ j.phase = "insert" /\ j.msg = job[w].msg /\ j.groups = job[w].groups
          /\ j.todo = job[w].todo /\ j.insights = job[w].insights
          /\ j.adding = {NewInsight(w, g, prior.payload, TRUE)}
      BY HoldsMessage DEF Job
    <3> HIDE DEF new, j
    <3> QED BY <3>3, <3>4, <3>5, <3>6, <3>7, <3>8, AddKeeps
  <2>10. ASSUME NEW w \in Workers, CacheMiss(w) PROVE InsightInv'
    <3>1. PICK g \in job[w].todo :
             /\ job[w].phase = "enrich"
             /\ Becomes(w, [job[w] EXCEPT !.phase = "calling", !.asking = g])
             /\ UNCHANGED <<groups, insights>>
      BY <2>10 DEF CacheMiss, IsNext, store
    <3> DEFINE j == [job[w] EXCEPT !.phase = "calling", !.asking = g]
    <3>2. /\ j.phase = "calling" /\ j.asking = g /\ j.todo = job[w].todo
          /\ j.insights = job[w].insights /\ j.adding = {}
          /\ j.msg = job[w].msg /\ j.groups = job[w].groups
      BY <3>1, HoldsMessage DEF Job, InsightInv, AddedIsInserted
    <3> HIDE DEF j
    <3>3. job[w].todo \subseteq SeenBy(j, groups)
      BY <3>1, <3>2 DEF InsightInv, TodoIsVisible, Visible, SeenBy, A
    <3> QED BY <3>1, <3>2, <3>3, KeepInsights DEF j
  <2>11. ASSUME NEW w \in Workers, Answer(w) PROVE InsightInv'
    <3> DEFINE g == job[w].asking
               j == [job[w] EXCEPT !.phase = "insert", !.asking = NoGroup,
                                   !.adding = {NewInsight(w, g, g, FALSE)}]
    <3>1. /\ job[w].phase = "calling" /\ Becomes(w, j)
          /\ UNCHANGED <<groups, insights>>
      BY <2>11 DEF Answer, store
    <3>2. g \in Visible(w)
      BY <3>1 DEF InsightInv, TodoIsVisible
    <3>3. g.analysis = A(w)
      BY <3>2, VisibleIsOwn
    <3>4. /\ j.phase = "insert" /\ j.msg = job[w].msg /\ j.groups = job[w].groups
          /\ j.todo = job[w].todo /\ j.insights = job[w].insights
          /\ j.adding = {NewInsight(w, g, g, FALSE)}
      BY HoldsMessage DEF Job
    <3> HIDE DEF g, j
    <3> QED BY <3>1, <3>2, <3>3, <3>4, AddKeeps
  <2>12. ASSUME NEW w \in Workers, CallFails(w) PROVE InsightInv'
    <3> DEFINE j == [job[w] EXCEPT !.phase = "enrich", !.asking = NoGroup,
                                   !.todo = @ \ {job[w].asking}]
    <3>1. /\ Becomes(w, j) /\ UNCHANGED <<groups, insights>>
          /\ job[w].phase = "calling"
      BY <2>12 DEF CallFails, store
    <3>2. /\ j.phase = "enrich" /\ j.todo \subseteq job[w].todo
          /\ j.insights = job[w].insights /\ j.adding = {}
          /\ j.msg = job[w].msg /\ j.groups = job[w].groups
      BY <3>1, HoldsMessage DEF Job, InsightInv, AddedIsInserted
    <3> HIDE DEF j
    <3>3. j.todo \subseteq SeenBy(j, groups)
      BY <3>1, <3>2 DEF InsightInv, TodoIsVisible, Visible, SeenBy, A
    <3> QED BY <3>1, <3>2, <3>3, KeepInsights
  <2>13. ASSUME NEW w \in Workers, Finish(w) PROVE InsightInv'
    BY <2>13, FinishKeeps
  <2>14. CASE UNCHANGED vars
    BY <2>1, <2>14 DEF vars
  <2>15. ASSUME NEW w \in Workers, InsertInsight(w) PROVE InsightInv'
    BY <2>15, InsertionKeeps
  <2> QED
    BY <2>2, <2>3, <2>4, <2>5, <2>6, <2>7, <2>8, <2>9, <2>10, <2>11, <2>12, <2>13,
       <2>14, <2>15 DEF Next, Work, Rest
<1>3. QED BY <1>1, <1>2, TypeCorrect, RunInvariant, PTL DEF Spec

\* Whatever the cache serves was produced by an LLM call whose own insight is
\* committed, for the same user and fingerprint.
THEOREM CacheStaysGrounded == Spec => []CacheIsGrounded
<1>1. InsightInv => CacheIsGrounded
  BY DEF InsightInv
<1> QED BY <1>1, InsightInvariant, PTL

\* No insight ever carries what the LLM said about another user's file.
THEOREM InsightsStayOwned == Spec => []InsightsAreOwned
<1>1. InsightInv => InsightsAreOwned
  BY DEF InsightInv
<1> QED BY <1>1, InsightInvariant, PTL

\* However many runs of an analysis overlap, a group has one insight.
THEOREM InsightsStayUnique == Spec => []OneInsightPerGroup
<1>1. InsightInv => OneInsightPerGroup
  BY DEF InsightInv
<1> QED BY <1>1, InsightInvariant, PTL
-----------------------------------------------------------------------------
\* The delivery.  DeliveryInv is inductive relative to the other invariants if
\* only faults occur that the delivery survives.

\* None that acknowledges the message of an unfinished task or gives it to a
\* second worker meanwhile, and no crash if a second execution meets insights of
\* the first.  Connections may be refused as often as it takes.
Survivable ==
    /\ Faults \cap {"setup", "db", "child", "stall"} = {}
    /\ AIEnabled => "crash" \notin Faults

\* Not often enough to exhaust the retries of a message.
FewRefusals == "connect" \in Faults => MaxFaults <= MaxRetries

Mail == queue \cup unacked

\* An analysis has one message at most, in one place, and only once accepted.
OneMessage ==
    /\ \A m, n \in Mail : m.analysis = n.analysis => m = n
    /\ queue \cap unacked = {}
    /\ \A m \in Mail : req[m.analysis] = "accepted" /\ m.retries <= faults

\* A busy worker holds a message that nobody else holds.
OneHolder ==
    /\ \A w \in Workers : job[w].phase # "idle" => job[w].msg \in unacked
    /\ \A v, w \in Workers :
          v # w /\ job[v].phase # "idle" /\ job[w].phase # "idle"
             => job[v].msg # job[w].msg

\* The session of j has not failed, is through only if the status of its row is
\* final, and inserts no second insight for a group.
Holds(j, status) ==
    /\ j.phase # "broken"
    /\ j.phase = "ack" => status \in Terminal
    /\ j.phase \in {"select", "enrich", "calling", "insert"} => AIEnabled
    /\ j.phase = "select" => j.insights = {}
    /\ j.phase \in {"enrich", "calling", "insert"} =>
          \A i \in j.insights : i.group \notin j.todo
    /\ j.phase = "calling" => j.asking \in j.todo
    /\ j.phase = "insert" => \A i \in j.adding : i.group \in j.todo

SessionsHold == \A w \in Workers : Holds(job[w], row[A(w)].status)

\* With the LLM stage on, an analysis whose groups are committed is through,
\* but for the acknowledgement.
FirstRun ==
    /\ \A g \in groups : req[g.analysis] = "accepted"
    /\ AIEnabled => \A g \in groups, m \in Mail : g.analysis = m.analysis =>
          \E w \in Workers : job[w].phase = "ack" /\ job[w].msg = m

DeliveryInv == OneMessage /\ OneHolder /\ SessionsHold /\ FirstRun

\* a is accepted and not settled, and has no message.
Lost(a) ==
    /\ req[a] = "accepted" /\ row[a].status \notin Terminal
    /\ \A m \in Mail : m.analysis # a

\* No job is lost by the step.
NoneIsLost == \A a \in Analyses : Lost(a)' => Lost(a)

\* w's connection is refused, and its message has had all its retries.
LastRefusal(w) == ConnectFails(w) /\ job[w].msg.retries = MaxRetries

\* What each step does: it loses the job that was refused for the last time.
RefusalsLose ==
    \A a \in Analyses :
        Lost(a)' => Lost(a) \/ \E w \in Workers : LastRefusal(w) /\ A(w) = a

\* The workers that are busy work for different analyses.
LEMMA OneWorker ==
    ASSUME DeliveryInv, NEW v \in Workers, NEW w \in Workers, v # w,
           job[v].phase # "idle", job[w].phase # "idle"
    PROVE  A(v) # A(w)
BY DEF DeliveryInv, OneMessage, OneHolder, Mail, A

\* w goes on with its message.
LEMMA SessionKeeps ==
    ASSUME TypeOK, DeliveryInv, NEW w \in Workers, NEW j, Becomes(w, j),
           job[w].phase \notin {"idle", "ack"}, j.phase # "idle",
           j.msg = job[w].msg,
           UNCHANGED <<req, queue, unacked, faults>>,
           \A a \in Analyses : a # A(w) => row'[a] = row[a],
           \A g \in groups' : g \in groups \/ (j.phase = "ack" /\ g.analysis = A(w)),
           Holds(j, row'[A(w)].status)
    PROVE  DeliveryInv' /\ NoneIsLost
<1>1. /\ job'[w] = j /\ A(w)' = A(w)
      /\ \A v \in Workers : v # w => job'[v] = job[v] /\ A(v)' = A(v)
  BY JobsAfter DEF A
<1>2. job[w].msg \in unacked /\ A(w) \in Analyses
  BY HoldsMessage DEF DeliveryInv, OneHolder
<1>3. OneMessage' /\ Mail' = Mail
  BY DEF DeliveryInv, OneMessage, Mail
<1>4. OneHolder'
  BY <1>1 DEF DeliveryInv, OneHolder
<1>5. SessionsHold'
  <2> SUFFICES ASSUME NEW v \in Workers
               PROVE  Holds(job'[v], row'[A(v)'].status)
    BY DEF SessionsHold, Holds
  <2>1. CASE v = w
    BY <1>1, <2>1
  <2>2. CASE v # w
    <3>1. Holds(job[v], row[A(v)].status)
      BY DEF DeliveryInv, SessionsHold
    <3>2. CASE job[v].phase = "idle"
      BY <1>1, <2>2, <3>2 DEF Holds
    <3>3. CASE job[v].phase # "idle"
      <4>1. row'[A(v)] = row[A(v)]
        BY <2>2, <3>3, OneWorker, HoldsMessage
      <4> QED
        BY <1>1, <2>2, <3>1, <4>1
    <3> QED
      BY <3>2, <3>3
  <2> QED
    BY <2>1, <2>2
<1>6. FirstRun'
  <2>1. \A g \in groups' : req[g.analysis] = "accepted"
    BY <1>2 DEF DeliveryInv, OneMessage, FirstRun, Mail, A
  <2>2. ASSUME AIEnabled, NEW g \in groups', NEW m \in Mail, g.analysis = m.analysis
        PROVE  \E v \in Workers : job'[v].phase = "ack" /\ job'[v].msg = m
    <3>1. CASE g \in groups
      <4>1. PICK v \in Workers : job[v].phase = "ack" /\ job[v].msg = m
        BY <2>2, <3>1 DEF DeliveryInv, FirstRun
      <4> QED
        BY <1>1, <4>1
    <3>2. CASE g \notin groups
      <4>1. j.phase = "ack" /\ m.analysis = job[w].msg.analysis
        BY <2>2, <3>2 DEF A
      <4>2. m = job[w].msg
        BY <1>2, <2>2, <4>1 DEF DeliveryInv, OneMessage, Mail
      <4> QED
        BY <1>1, <4>1, <4>2
    <3> QED
      BY <3>1, <3>2
  <2> QED
    BY <1>3, <2>1, <2>2 DEF FirstRun
<1>7. NoneIsLost
  <2> SUFFICES ASSUME NEW a \in Analyses, Lost(a)' PROVE Lost(a)
    BY DEF NoneIsLost
  <2>1. a # A(w)
    BY <1>2, <1>3 DEF Lost, Mail, A
  <2> QED
    BY <1>3, <2>1 DEF Lost
<1> QED
  BY <1>3, <1>4, <1>5, <1>6, <1>7 DEF DeliveryInv

\* The message is acknowledged, and nothing is published for a retry.
GivenUp(w) == /\ job[w].phase = "load"
              /\ queue' = queue /\ unacked' = unacked \ {job[w].msg}

\* The delivery of w is over: its row is final, or the message is published
\* once more, or not, or it stays where it is.
LEMMA ReleaseKeeps ==
    ASSUME TypeOK, DeliveryInv, NEW w \in Workers, Becomes(w, Idle),
           job[w].phase # "idle",
           UNCHANGED <<req, row, groups>>, faults' \in Nat, faults' >= faults,
           \/ /\ job[w].phase = "ack"
              /\ queue' = queue /\ unacked' = unacked \ {job[w].msg}
           \/ /\ job[w].phase = "load"
              /\ unacked' = unacked \ {job[w].msg}
              /\ \E n \in Message : /\ queue' = queue \cup {n}
                                    /\ n.analysis = A(w) /\ n.retries <= faults'
           \/ GivenUp(w)
           \/ ~AIEnabled /\ UNCHANGED <<queue, unacked>>
    PROVE  /\ DeliveryInv'
           /\ \A a \in Analyses : Lost(a)' => Lost(a) \/ (a = A(w) /\ GivenUp(w))
<1> DEFINE k == job[w].msg
<1>1. /\ job'[w] = Idle
      /\ \A v \in Workers : v # w => job'[v] = job[v] /\ A(v)' = A(v)
  BY JobsAfter
<1>2. /\ k \in unacked /\ k \in Message /\ A(w) \in Analyses /\ k.analysis = A(w)
      /\ \A m \in Mail : m.analysis = A(w) => m = k
      /\ \A v \in Workers : v # w /\ job[v].phase # "idle" => job[v].msg # k
  BY HoldsMessage DEF DeliveryInv, OneHolder, OneMessage, Mail, A
<1>3. /\ Idle.phase = "idle"
      /\ \A v \in Workers : job'[v].phase # "idle" =>
            v # w /\ job'[v] = job[v] /\ A(v)' = A(v)
  BY <1>1 DEF Idle
\* The mail of other analyses stays; w's analysis has its one message, another
\* one, or none because its row is final or w gives up.
<1>4. /\ \A m \in Mail' : m.analysis # A(w) => m \in Mail
      /\ \A m, n \in Mail' : m.analysis = A(w) /\ n.analysis = A(w) => m = n
      /\ \A m \in Mail' : m.analysis = A(w) => m.retries <= faults'
      /\ \A m \in Mail : m.analysis # A(w) =>
            (m \in queue' <=> m \in queue) /\ (m \in unacked' <=> m \in unacked)
      /\ queue' \cap unacked' = {}
      /\ \/ job[w].phase = "ack" \/ GivenUp(w)
         \/ \E m \in Mail' : m.analysis = A(w)
  <2>0. /\ queue \cap unacked = {} /\ k.retries <= faults /\ k \in Mail
        /\ k.retries \in Nat /\ faults \in Nat
    BY <1>2 DEF DeliveryInv, OneMessage, Mail, TypeOK, Message
  <2>1. CASE job[w].phase = "ack" /\ queue' = queue /\ unacked' = unacked \ {k}
    BY <1>2, <2>0, <2>1 DEF Mail
  <2>2. ASSUME unacked' = unacked \ {k}, NEW back \in Message, queue' = queue \cup {back},
               back.analysis = A(w), back.retries <= faults'
        PROVE  /\ \A m \in Mail' : m.analysis # A(w) => m \in Mail
               /\ \A m, n \in Mail' : m.analysis = A(w) /\ n.analysis = A(w) => m = n
               /\ \A m \in Mail' : m.analysis = A(w) => m.retries <= faults'
               /\ \A m \in Mail : m.analysis # A(w) =>
                     (m \in queue' <=> m \in queue) /\ (m \in unacked' <=> m \in unacked)
               /\ queue' \cap unacked' = {}
               /\ \E m \in Mail' : m.analysis = A(w)
    BY <1>2, <2>0, <2>2 DEF Mail
  <2>3. CASE UNCHANGED <<queue, unacked>>
    BY <1>2, <2>0, <2>3 DEF Mail
  <2>4. CASE GivenUp(w)
    BY <1>2, <2>0, <2>4 DEF GivenUp, Mail
  <2> QED
    BY <2>1, <2>2, <2>3, <2>4
<1>5. OneMessage'
  <2>1. \A m \in Mail : m.analysis # A(w) =>
           req[m.analysis] = "accepted" /\ m.retries <= faults'
    BY DEF DeliveryInv, OneMessage, Mail, TypeOK, Message
  <2>2. req[A(w)] = "accepted"
    BY <1>2 DEF DeliveryInv, OneMessage, Mail
  <2>3. \A m, n \in Mail' : m.analysis = n.analysis => m = n
    BY <1>4 DEF DeliveryInv, OneMessage
  <2> QED
    BY <1>4, <2>1, <2>2, <2>3 DEF OneMessage
<1>6. OneHolder'
  <2>1. ASSUME NEW v \in Workers, job'[v].phase # "idle"
        PROVE  job[v].msg \in unacked'
    <3>1. v # w /\ job[v].phase # "idle"
      BY <1>3, <2>1
    <3>2. job[v].msg \in unacked /\ job[v].msg \in Mail /\ job[v].msg.analysis # A(w)
      BY <3>1, <1>2 DEF DeliveryInv, OneHolder, Mail
    <3> QED
      BY <1>4, <3>2
  <2> QED
    BY <1>3, <2>1 DEF DeliveryInv, OneHolder
<1>7. SessionsHold'
  <2> SUFFICES ASSUME NEW v \in Workers
               PROVE  Holds(job'[v], row'[A(v)'].status)
    BY DEF SessionsHold, Holds
  <2>1. CASE job'[v].phase = "idle"
    BY <2>1 DEF Holds
  <2>2. CASE job'[v].phase # "idle"
    BY <1>3, <2>2 DEF DeliveryInv, SessionsHold
  <2> QED
    BY <2>1, <2>2
<1>8. FirstRun'
  <2>1. ASSUME AIEnabled, NEW g \in groups, NEW m \in Mail', g.analysis = m.analysis
        PROVE  \E v \in Workers : job'[v].phase = "ack" /\ job'[v].msg = m
    <3>1. CASE m.analysis # A(w)
      <4>1. PICK v \in Workers : job[v].phase = "ack" /\ job[v].msg = m
        BY <1>4, <2>1, <3>1 DEF DeliveryInv, FirstRun
      <4>2. v # w
        BY <3>1, <4>1 DEF A
      <4> QED
        BY <1>1, <4>1, <4>2
    <3>2. CASE m.analysis = A(w)
      <4>0. k \in Mail /\ g.analysis = k.analysis
        BY <1>2, <2>1, <3>2 DEF Mail
      <4>1. PICK v \in Workers : job[v].phase = "ack" /\ job[v].msg = k
        BY <2>1, <4>0 DEF DeliveryInv, FirstRun
      <4>2. v = w
        BY <1>2, <4>1
      <4>3. unacked' = unacked \ {k} /\ queue' = queue
        BY <2>1, <4>1, <4>2 DEF GivenUp
      <4>4. m \in Mail /\ m # k
        BY <4>3, <1>2 DEF DeliveryInv, OneMessage, Mail
      <4> QED
        BY <1>2, <3>2, <4>4
    <3> QED
      BY <3>1, <3>2
  <2> QED
    BY <2>1 DEF DeliveryInv, FirstRun
<1>9. ASSUME NEW a \in Analyses, Lost(a)'
      PROVE  Lost(a) \/ (a = A(w) /\ GivenUp(w))
  <2>1. CASE a = A(w)
    <3>1. job[w].phase # "ack"
      BY <1>9, <2>1 DEF Lost, DeliveryInv, SessionsHold, Holds
    <3> QED
      BY <1>4, <1>9, <2>1, <3>1 DEF Lost
  <2>2. CASE a # A(w)
    BY <1>4, <1>9, <2>2 DEF Lost, Mail
  <2> QED
    BY <2>1, <2>2
<1> QED
  BY <1>5, <1>6, <1>7, <1>8, <1>9 DEF DeliveryInv

\* The API and the broker: a message comes, or changes its place unheld.
LEMMA MailKeeps ==
    ASSUME TypeOK, DeliveryInv, UNCHANGED <<groups, job>>,
           \A a \in Analyses : \/ UNCHANGED <<req[a], row[a]>>
                               \/ req[a] \in {"none", "committed"} /\ req'[a] # "accepted"
                               \/ /\ req[a] = "committed" /\ req'[a] = "accepted"
                                  /\ row'[a] = row[a]
                                  /\ \E m \in queue' : m.analysis = a,
           \A m \in unacked : m \in unacked' \/ (m \in queue' /\ ~Held(m)),
           unacked' \subseteq unacked,
           \A m \in queue : m \in queue',
           \A m \in queue' : \/ m \in queue
                             \/ m \in unacked /\ m \notin unacked'
                             \/ /\ m \in Message
                                /\ req[m.analysis] = "committed"
                                /\ req'[m.analysis] = "accepted"
                                /\ m.retries = 0 /\ m.by = 0,
           faults' = faults \/ faults' = faults + 1
    PROVE  DeliveryInv' /\ NoneIsLost
<1>1. /\ \A m \in Mail : m \in Message /\ m.analysis \in Analyses
      /\ \A m \in Mail : req[m.analysis] = "accepted"
      /\ \A w \in Workers : job[w].phase # "idle" =>
            /\ A(w) \in Analyses /\ job[w].msg \in Mail
            /\ req[A(w)] = "accepted"
      /\ faults \in Nat
  BY HoldsMessage DEF DeliveryInv, OneMessage, OneHolder, TypeOK, Message, Mail, A
<1>2. \A a \in Analyses : req[a] = "accepted" => UNCHANGED <<req[a], row[a]>>
  OBVIOUS
<1>3. \A m \in Mail' : m \in Mail \/ (/\ m \in Message
                                      /\ req[m.analysis] = "committed"
                                      /\ req'[m.analysis] = "accepted"
                                      /\ m.retries = 0 /\ m.by = 0)
  BY DEF Mail
<1>4. \A m \in Mail : m \in Mail'
  BY DEF Mail
<1>5. OneMessage'
  <2>1. \A m, n \in Mail' : m.analysis = n.analysis => m = n
    <3> SUFFICES ASSUME NEW m \in Mail', NEW n \in Mail', m.analysis = n.analysis
                 PROVE  m = n
      OBVIOUS
    <3>1. CASE m \in Mail /\ n \in Mail
      BY <3>1 DEF DeliveryInv, OneMessage
    <3>2. CASE ~(m \in Mail /\ n \in Mail)
      <4>1. m \notin Mail /\ n \notin Mail
        BY <1>1, <1>3, <3>2
      <4> QED
        BY <1>3, <4>1 DEF Message
    <3> QED
      BY <3>1, <3>2
  <2>2. queue' \cap unacked' = {}
    <3> SUFFICES ASSUME NEW m \in queue', m \in unacked' PROVE FALSE
      OBVIOUS
    <3>1. m \in Mail /\ m \in unacked /\ req[m.analysis] = "accepted"
      BY <1>1 DEF Mail
    <3> QED
      BY <3>1 DEF DeliveryInv, OneMessage
  <2>3. ASSUME NEW m \in Mail' PROVE req'[m.analysis] = "accepted" /\ m.retries <= faults'
    <3>1. CASE m \in Mail
      <4>1. m.retries <= faults /\ m.retries \in Nat
        BY <1>1, <3>1 DEF DeliveryInv, OneMessage, Message
      <4> QED
        BY <1>1, <1>2, <3>1, <4>1
    <3>2. CASE m \notin Mail
      BY <1>1, <1>3, <3>2
    <3> QED
      BY <3>1, <3>2
  <2> QED
    BY <2>1, <2>2, <2>3 DEF OneMessage
<1>6. OneHolder'
  BY DEF DeliveryInv, OneHolder, Held
<1>7. SessionsHold'
  <2> SUFFICES ASSUME NEW w \in Workers PROVE Holds(job[w], row'[A(w)].status)
    BY DEF SessionsHold, Holds, A
  <2>1. CASE job[w].phase = "idle"
    BY <2>1 DEF Holds
  <2>2. CASE job[w].phase # "idle"
    BY <1>1, <1>2, <2>2 DEF DeliveryInv, SessionsHold
  <2> QED
    BY <2>1, <2>2
<1>8. FirstRun'
  <2>1. \A g \in groups : g.analysis \in Analyses /\ req[g.analysis] = "accepted"
    BY DEF DeliveryInv, FirstRun, TypeOK, Group
  <2>2. \A g \in groups, m \in Mail' : g.analysis = m.analysis => m \in Mail
    BY <1>3, <2>1
  <2> QED
    BY <1>2, <2>1, <2>2 DEF DeliveryInv, FirstRun
<1>9. NoneIsLost
  <2> SUFFICES ASSUME NEW a \in Analyses, Lost(a)' PROVE Lost(a)
    BY DEF NoneIsLost
  <2>1. CASE req[a] = "accepted"
    BY <1>2, <1>4, <2>1 DEF Lost
  <2>2. CASE req[a] # "accepted"
    BY <2>2 DEF Lost, Mail
  <2> QED
    BY <2>1, <2>2
<1> QED
  BY <1>5, <1>6, <1>7, <1>8, <1>9 DEF DeliveryInv

\* A worker gets a message that nobody holds.
LEMMA DeliverKeeps ==
    ASSUME TypeOK, DeliveryInv, NEW w \in Workers, NEW m \in queue, Deliver(w, m)
    PROVE  DeliveryInv' /\ NoneIsLost
<1> DEFINE j == [Idle EXCEPT !.phase = "load", !.msg = m,
                             !.run = runs[m.analysis] + 1]
<1>1. /\ Becomes(w, j) /\ job[w].phase = "idle"
      /\ queue' = queue \ {m} /\ unacked' = unacked \cup {m}
      /\ UNCHANGED <<req, row, groups, faults>>
  BY DEF Deliver, store
<1>2. j.phase = "load" /\ j.msg = m
  BY DEF Idle
<1> HIDE DEF j
<1>3. /\ job'[w] = j
      /\ \A v \in Workers : v # w => job'[v] = job[v] /\ A(v)' = A(v)
  BY <1>1, JobsAfter
<1>4. Mail' = Mail /\ m \in Mail /\ m \notin unacked
  BY <1>1 DEF Mail, DeliveryInv, OneMessage
<1>5. OneMessage'
  BY <1>1, <1>4 DEF DeliveryInv, OneMessage
<1>6. OneHolder'
  BY <1>1, <1>2, <1>3, <1>4 DEF DeliveryInv, OneHolder
<1>7. SessionsHold'
  <2> SUFFICES ASSUME NEW v \in Workers PROVE Holds(job'[v], row[A(v)'].status)
    BY <1>1 DEF SessionsHold, Holds
  <2>1. CASE v = w
    BY <1>2, <1>3, <2>1 DEF Holds
  <2>2. CASE v # w
    BY <1>3, <2>2 DEF DeliveryInv, SessionsHold
  <2> QED
    BY <2>1, <2>2
<1>8. FirstRun'
  <2>1. ASSUME AIEnabled, NEW g \in groups, NEW n \in Mail, g.analysis = n.analysis
        PROVE  \E v \in Workers : job'[v].phase = "ack" /\ job'[v].msg = n
    <3>1. PICK v \in Workers : job[v].phase = "ack" /\ job[v].msg = n
      BY <2>1 DEF DeliveryInv, FirstRun
    <3> QED
      BY <1>1, <1>3, <3>1
  <2> QED
    BY <1>1, <1>4, <2>1 DEF DeliveryInv, FirstRun
<1>9. NoneIsLost
  BY <1>1, <1>4 DEF NoneIsLost, Lost
<1> QED
  BY <1>5, <1>6, <1>7, <1>8, <1>9 DEF DeliveryInv

\* The insert of an insight finds no other one for its group.
LEMMA InsertKeeps ==
    ASSUME TypeOK, RunInv, InsightInv, DeliveryInv, NEW w \in Workers, InsertInsight(w)
    PROVE  DeliveryInv' /\ NoneIsLost
<1>1. PICK new \in job[w].adding :
         \/ HasInsight(w, new.group)
         \/ Becomes(w, Inserted(job[w], new))
  BY DEF InsertInsight
<1> DEFINE g == new.group
           j == Inserted(job[w], new)
<1>2. /\ g \in job[w].todo /\ g \in Visible(w) /\ g.analysis = A(w)
      /\ AIEnabled /\ \A i \in job[w].insights : i.group \notin job[w].todo
      /\ job[w].phase = "insert"
  BY <1>1, VisibleIsOwn
  DEF InsertInsight, InsightInv, TodoIsVisible, DeliveryInv, SessionsHold, Holds
<1>3. g \notin groups
  <2> SUFFICES ASSUME g \in groups PROVE FALSE
    OBVIOUS
  <2>1. job[w].msg \in Mail /\ g.analysis = job[w].msg.analysis
    BY <1>2 DEF DeliveryInv, OneHolder, Mail, A
  <2>2. PICK v \in Workers : job[v].phase = "ack" /\ job[v].msg = job[w].msg
    BY <1>2, <2>1 DEF DeliveryInv, FirstRun
  <2> QED
    BY <1>2, <2>2 DEF DeliveryInv, OneHolder
<1>4. ~HasInsight(w, g)
  BY <1>2, <1>3 DEF HasInsight, InsightInv, InsightsAreOwned
<1>5. Becomes(w, j) /\ UNCHANGED <<req, row, groups, queue, unacked, faults>>
  BY <1>1, <1>4 DEF InsertInsight, store, broker
<1>n. job[w] \in Job /\ new \in Insight
  BY <1>1, HoldsMessage DEF InsertInsight, Job
<1>6. /\ j.phase = "enrich" /\ j.msg = job[w].msg /\ j.todo = job[w].todo \ {g}
      /\ j.insights = job[w].insights \cup {new}
  BY <1>n, AddingIsJob
<1> HIDE DEF j
<1>7. Holds(j, row'[A(w)].status)
  BY <1>2, <1>6 DEF Holds
<1> QED
  BY <1>2, <1>5, <1>6, <1>7, SessionKeeps

\* The steps of a session that neither insert nor end.
LEMMA WorkKeeps ==
    ASSUME TypeOK, RunInv, InsightInv, DeliveryInv, NEW w \in Workers, Work(w)
    PROVE  DeliveryInv' /\ NoneIsLost
<1>1. /\ job[w] \in Job /\ Holds(job[w], row[A(w)].status)
      /\ job[w].phase # "idle" => A(w) \in Analyses
  BY HoldsMessage DEF DeliveryInv, SessionsHold
<1> DEFINE To(ph) == [job[w] EXCEPT !.phase = ph]
<1>2. \A ph : /\ To(ph).phase = ph /\ To(ph).msg = job[w].msg
              /\ To(ph).insights = job[w].insights
  BY <1>1 DEF Job
<1>3. CASE Load(w)
  <2> DEFINE j == [job[w] EXCEPT !.phase = "file", !.seen.status = row[A(w)].status]
  <2>1. row[A(w)].status # "absent" /\ job[w].phase = "load"
    BY <1>3 DEF Load, RunInv, RowsExist
  <2>2. Becomes(w, j) /\ UNCHANGED <<req, row, groups, queue, unacked, faults>>
    BY <1>3, <2>1 DEF Load, store, broker
  <2>3. j.phase = "file" /\ j.msg = job[w].msg
    BY <1>1 DEF Job
  <2> HIDE DEF j
  <2> QED
    BY <2>1, <2>2, <2>3, SessionKeeps DEF Holds
<1>17. CASE LoadFile(w)
  <2> DEFINE j == [job[w] EXCEPT !.phase = "begin", !.seen.format = row[A(w)].format]
  <2>1. /\ job[w].phase = "file" /\ Becomes(w, j)
        /\ UNCHANGED <<req, row, groups, queue, unacked, faults>>
    BY <1>17 DEF LoadFile, store, broker
  <2>2. j.phase = "begin" /\ j.msg = job[w].msg
    BY <1>1 DEF Job
  <2> HIDE DEF j
  <2> QED
    BY <2>1, <2>2, SessionKeeps DEF Holds
<1>4. CASE Begin(w)
  <2>1. /\ job[w].phase = "begin" /\ Becomes(w, To("read"))
        /\ UNCHANGED <<req, groups, queue, unacked, faults>>
        /\ \A a \in Analyses : a # A(w) => row'[a] = row[a]
    BY <1>1, <1>4 DEF Begin, broker, TypeOK
  <2> HIDE DEF To
  <2> QED
    BY <1>2, <2>1, SessionKeeps DEF Holds
<1>5. CASE FailRead(w)
  <2>1. /\ job[w].phase = "read" /\ Becomes(w, To("ack"))
        /\ UNCHANGED <<req, groups, queue, unacked, faults>>
        /\ \A a \in Analyses : a # A(w) => row'[a] = row[a]
    BY <1>1, <1>5 DEF FailRead, broker, TypeOK
  <2>2. row'[A(w)].status \in Terminal
    BY <1>1, <1>5, <2>1 DEF FailRead, TypeOK, Row, Terminal
  <2> HIDE DEF To
  <2> QED
    BY <1>2, <2>1, <2>2, SessionKeeps DEF Holds
<1>6. CASE PersistGroups(w)
  <2> DEFINE j == [job[w] EXCEPT !.phase = AfterFlush(A(w)),
                                 !.groups = RunGroups(A(w), job[w].run)]
  <2>1. /\ job[w].phase = "read" /\ Becomes(w, j)
        /\ UNCHANGED <<req, row, groups, queue, unacked, faults>>
    BY <1>6 DEF PersistGroups, store, broker
  <2>2. /\ j.phase = AfterFlush(A(w)) /\ j.msg = job[w].msg
        /\ j.insights = {}
    BY <1>1, <2>1 DEF Job, RunInv, LocalRows, Writing
  <2>3. /\ AfterFlush(A(w)) \in {"select", "index", "finish"}
        /\ AfterFlush(A(w)) = "select" => AIEnabled
    BY DEF AfterFlush, AfterAI
  <2> HIDE DEF j
  <2> QED
    BY <2>1, <2>2, <2>3, SessionKeeps DEF Holds
<1>7. CASE SelectTop(w)
  <2>1. PICK T \in SUBSET Visible(w) :
           Becomes(w, [job[w] EXCEPT !.phase = "enrich", !.todo = T])
    BY <1>7 DEF SelectTop
  <2> DEFINE j == [job[w] EXCEPT !.phase = "enrich", !.todo = T]
  <2>2. /\ job[w].phase = "select"
        /\ UNCHANGED <<req, row, groups, queue, unacked, faults>>
    BY <1>7 DEF SelectTop, store, broker
  <2>3. /\ j.phase = "enrich" /\ j.msg = job[w].msg
        /\ j.insights = job[w].insights
    BY <1>1 DEF Job
  <2>4. job[w].insights = {} /\ Becomes(w, j)
    BY <1>1, <2>1, <2>2 DEF Holds
  <2> HIDE DEF j
  <2> QED
    BY <1>1, <2>2, <2>3, <2>4, SessionKeeps DEF Holds
<1>8. CASE CacheHit(w)
  <2>1. PICK g \in job[w].todo : \E prior \in Cache(w, g) :
           /\ IsNext(w, g)
           /\ Becomes(w, [job[w] EXCEPT !.phase = "insert",
                          !.adding = {NewInsight(w, g, prior.payload, TRUE)}])
    BY <1>8 DEF CacheHit
  <2>2. PICK prior \in Cache(w, g) :
           /\ IsNext(w, g)
           /\ Becomes(w, [job[w] EXCEPT !.phase = "insert",
                          !.adding = {NewInsight(w, g, prior.payload, TRUE)}])
    BY <2>1
  <2> DEFINE new == NewInsight(w, g, prior.payload, TRUE)
             j == [job[w] EXCEPT !.phase = "insert", !.adding = {new}]
  <2>3. /\ job[w].phase = "enrich" /\ Becomes(w, j)
        /\ UNCHANGED <<req, row, groups, queue, unacked, faults>>
    BY <1>8, <2>2 DEF CacheHit, IsNext, store, broker
  <2>4. new.group = g
    BY DEF NewInsight
  <2> HIDE DEF new
  <2>5. /\ j.phase = "insert" /\ j.adding = {new} /\ j.todo = job[w].todo
        /\ j.insights = job[w].insights /\ j.msg = job[w].msg
    BY <1>1 DEF Job
  <2> HIDE DEF j
  <2>6. Holds(j, row'[A(w)].status)
    BY <1>1, <2>3, <2>4, <2>5 DEF Holds
  <2> QED
    BY <2>3, <2>5, <2>6, SessionKeeps
<1>9. CASE CacheMiss(w)
  <2>1. PICK g \in job[w].todo :
           /\ job[w].phase = "enrich"
           /\ Becomes(w, [job[w] EXCEPT !.phase = "calling", !.asking = g])
           /\ UNCHANGED <<req, row, groups, queue, unacked, faults>>
    BY <1>9 DEF CacheMiss, IsNext, store, broker
  <2> DEFINE j == [job[w] EXCEPT !.phase = "calling", !.asking = g]
  <2>2. /\ j.phase = "calling" /\ j.asking = g /\ j.todo = job[w].todo
        /\ j.insights = job[w].insights /\ j.msg = job[w].msg
    BY <1>1 DEF Job
  <2> HIDE DEF j
  <2>3. Holds(j, row'[A(w)].status)
    BY <1>1, <2>1, <2>2 DEF Holds
  <2> QED
    BY <2>1, <2>2, <2>3, SessionKeeps DEF j
<1>10. CASE Answer(w)
  <2> DEFINE new == NewInsight(w, job[w].asking, job[w].asking, FALSE)
             j == [job[w] EXCEPT !.phase = "insert", !.asking = NoGroup,
                                 !.adding = {new}]
  <2>1. /\ job[w].phase = "calling" /\ Becomes(w, j)
        /\ UNCHANGED <<req, row, groups, queue, unacked, faults>>
    BY <1>10 DEF Answer, store, broker
  <2>2. new.group = job[w].asking
    BY DEF NewInsight
  <2> HIDE DEF new
  <2>3. /\ j.phase = "insert" /\ j.adding = {new} /\ j.todo = job[w].todo
        /\ j.insights = job[w].insights /\ j.msg = job[w].msg
    BY <1>1 DEF Job
  <2> HIDE DEF j
  <2>4. Holds(j, row'[A(w)].status)
    BY <1>1, <2>1, <2>2, <2>3 DEF Holds
  <2> QED
    BY <2>1, <2>3, <2>4, SessionKeeps
<1>18. CASE InsertInsight(w)
  BY <1>18, InsertKeeps
<1>11. CASE CallFails(w)
  <2> DEFINE j == [job[w] EXCEPT !.phase = "enrich", !.asking = NoGroup,
                                 !.todo = @ \ {job[w].asking}]
  <2>1. /\ job[w].phase = "calling" /\ Becomes(w, j)
        /\ UNCHANGED <<req, row, groups, queue, unacked, faults>>
    BY <1>11 DEF CallFails, store, broker
  <2>2. /\ j.phase = "enrich" /\ j.todo \subseteq job[w].todo
        /\ j.insights = job[w].insights /\ j.msg = job[w].msg
    BY <1>1 DEF Job
  <2> HIDE DEF j
  <2>3. Holds(j, row'[A(w)].status)
    BY <1>1, <2>1, <2>2 DEF Holds
  <2> QED
    BY <2>1, <2>2, <2>3, SessionKeeps
\* The insight that w waits for is about a group of another analysis.
<1>12. CASE InsertDeadlock(w)
  <2>1. PICK v \in Workers \ {w} : WaitsFor(w, v)
    <3>1. PICK S \in SUBSET Workers :
             /\ w \in S
             /\ \A v \in S : \E t, u \in S : WaitsFor(t, v) /\ WaitsFor(v, u)
      BY <1>12 DEF InsertDeadlock
    <3>2. PICK u \in S : WaitsFor(w, u)
      BY <3>1
    <3> QED BY <3>2 DEF WaitsFor
  <2>2. PICK new \in job[w].adding : \E i \in job[v].insights : i.group = new.group
    BY <2>1 DEF WaitsFor
  <2>3. job[v].phase # "idle" /\ new.group.analysis = A(v)
    BY <2>2, VisibleIsOwn DEF RunInv, LocalRows, Writing, InsightInv, LocalInsights
  <2>4. new.group \in Visible(w) /\ job[w].phase = "insert"
    BY <1>12, <2>2 DEF InsertDeadlock, InsightInv, LocalInsights
  <2>5. new.group.analysis = A(w)
    BY <2>4, VisibleIsOwn
  <2> QED
    BY <2>1, <2>3, <2>4, <2>5, OneWorker
<1>13. CASE EnrichDone(w)
  <2>1. /\ job[w].phase = "enrich" /\ Becomes(w, To(AfterAI))
        /\ UNCHANGED <<req, row, groups, queue, unacked, faults>>
        /\ AfterAI \in {"index", "finish"}
    BY <1>13 DEF EnrichDone, store, broker, AfterAI
  <2> HIDE DEF To
  <2> QED
    BY <1>2, <2>1, SessionKeeps DEF Holds
<1>19. CASE SelectAll(w)
  <2> DEFINE j == [job[w] EXCEPT !.phase = "upsert", !.todo = Visible(w)]
  <2>1. /\ job[w].phase = "index" /\ Becomes(w, j)
        /\ UNCHANGED <<req, row, groups, queue, unacked, faults>>
    BY <1>19 DEF SelectAll, store, broker
  <2>2. j.phase = "upsert" /\ j.msg = job[w].msg
    BY <1>1 DEF Job
  <2> HIDE DEF j
  <2> QED
    BY <2>1, <2>2, SessionKeeps DEF Holds
<1>14. CASE Index(w)
  <2> DEFINE j == [job[w] EXCEPT !.phase = "finish", !.todo = {}]
  <2>1. /\ job[w].phase = "upsert" /\ Becomes(w, j)
        /\ UNCHANGED <<req, row, groups, queue, unacked, faults>>
    BY <1>14 DEF Index, broker
  <2>2. j.phase = "finish" /\ j.msg = job[w].msg
    BY <1>1 DEF Job
  <2> HIDE DEF j
  <2> QED
    BY <2>1, <2>2, SessionKeeps DEF Holds
<1>15. CASE Finish(w)
  <2> DEFINE j == [job[w] EXCEPT !.phase = "ack", !.groups = {}, !.insights = {}]
  <2>1. /\ job[w].phase = "finish" /\ Becomes(w, j)
        /\ UNCHANGED <<req, queue, unacked, faults>>
        /\ groups' = groups \cup job[w].groups
        /\ \A a \in Analyses : a # A(w) => row'[a] = row[a]
    BY <1>1, <1>15 DEF Finish, broker, TypeOK
  <2>2. row'[A(w)].status \in Terminal
    BY <1>1, <1>15, <2>1 DEF Finish, TypeOK, Terminal
  <2>3. j.phase = "ack" /\ j.msg = job[w].msg
    BY <1>1 DEF Job
  <2>4. \A g \in job[w].groups : g.analysis = A(w)
    BY VisibleIsOwn DEF Visible
  <2> HIDE DEF j
  <2> QED
    BY <2>1, <2>2, <2>3, <2>4, SessionKeeps DEF Holds
<1>16. CASE Ack(w)
  <2>1. /\ job[w].phase = "ack" /\ Becomes(w, Idle)
        /\ UNCHANGED <<req, row, groups, faults, queue>>
        /\ unacked' = unacked \ {job[w].msg}
    BY <1>1, <1>16 DEF Ack, EndDelivery, store, Holds
  <2>2. faults' \in Nat /\ faults' >= faults
    BY <2>1 DEF TypeOK
  <2>3. DeliveryInv' /\ \A a \in Analyses : Lost(a)' => Lost(a)
    BY <2>1, <2>2, ReleaseKeeps DEF GivenUp
  <2> QED
    BY <2>3 DEF NoneIsLost
<1> QED
  BY <1>3, <1>4, <1>5, <1>6, <1>7, <1>8, <1>9, <1>10, <1>11, <1>12, <1>13, <1>14,
     <1>15, <1>16, <1>17, <1>18, <1>19 DEF Work

\* Each step keeps the delivery in order, and loses a job only at a last refusal.
LEMMA DeliveryStep ==
    ASSUME Survivable, TypeOK, RunInv, InsightInv, DeliveryInv, [Next]_vars
    PROVE  DeliveryInv' /\ RefusalsLose
<1>0. NoneIsLost => RefusalsLose
  BY DEF NoneIsLost, RefusalsLose
<1>1. ASSUME NEW a \in Analyses, Api(a) PROVE DeliveryInv' /\ NoneIsLost
  <2>1. CASE Register(a)
    <3>1. /\ req[a] = "none" /\ req' = [req EXCEPT ![a] = "committed"]
          /\ row' = [row EXCEPT ![a].status = "pending"]
          /\ UNCHANGED <<groups, job, queue, unacked, faults>>
      BY <2>1 DEF Register, broker
    <3> QED
      BY <3>1, MailKeeps DEF TypeOK
  <2>2. CASE Enqueue(a)
    <3> DEFINE m == [analysis |-> a, retries |-> 0, by |-> 0]
    <3>1. /\ req[a] = "committed" /\ req' = [req EXCEPT ![a] = "accepted"]
          /\ queue' = queue \cup {m}
          /\ UNCHANGED <<row, groups, job, unacked, faults>>
      BY <2>2 DEF Enqueue, store
    <3>2. m \in Message /\ m.analysis = a /\ m.retries = 0 /\ m.by = 0
      BY DEF Message
    <3> HIDE DEF m
    <3> QED
      BY <3>1, <3>2, MailKeeps DEF TypeOK
  <2>3. CASE EnqueueFails(a)
    <3>1. /\ req[a] = "committed" /\ req' = [req EXCEPT ![a] = "error"]
          /\ UNCHANGED <<row, groups, job, queue, unacked>>
          /\ faults' = faults + 1
      BY <2>3 DEF EnqueueFails, Fault, store, broker
    <3> QED
      BY <3>1, MailKeeps DEF TypeOK
  <2> QED
    BY <1>1, <2>1, <2>2, <2>3 DEF Api
<1>2. ASSUME NEW w \in Workers, NEW m \in queue, Deliver(w, m)
      PROVE  DeliveryInv' /\ NoneIsLost
  BY <1>2, DeliverKeeps
<1>3. ASSUME NEW m \in unacked, Restore(m) PROVE DeliveryInv' /\ NoneIsLost
  <2>1. /\ ~Held(m) /\ unacked' = unacked \ {m} /\ queue' = queue \cup {m}
        /\ UNCHANGED <<req, row, groups, job, faults>>
    BY <1>3 DEF Restore, BackToQueue, store
  <2> QED
    BY <2>1, MailKeeps
<1>4. ASSUME NEW m \in unacked, RestoreWhileHeld(m) PROVE FALSE
  BY <1>4 DEF RestoreWhileHeld, Fault, Survivable
<1>5. ASSUME NEW w \in Workers, Work(w) PROVE DeliveryInv' /\ NoneIsLost
  BY <1>5, WorkKeeps
<1>6. ASSUME NEW w \in Workers, WorkerFault(w)
      PROVE  DeliveryInv' /\ RefusalsLose
  <2>1. ConnectFails(w) \/ Crash(w)
    BY <1>6 DEF WorkerFault, SetupFails, DbError, ChildLost, Fault, Survivable
  <2>2. CASE ConnectFails(w)
    <3> DEFINE n == [analysis |-> A(w), by |-> job[w].run,
                     retries |-> job[w].msg.retries + 1]
    <3>1. /\ "connect" \in Faults /\ faults < MaxFaults /\ faults' = faults + 1
          /\ job[w].phase = "load" /\ Becomes(w, Idle)
          /\ unacked' = unacked \ {job[w].msg}
          /\ UNCHANGED <<req, row, groups>>
          /\ queue' = IF job[w].msg.retries < MaxRetries
                      THEN queue \cup {n} ELSE queue
      BY <2>2 DEF ConnectFails, Fault, EndDelivery, store
    <3>2. /\ job[w].msg.retries \in Nat /\ job[w].msg.retries <= faults
          /\ A(w) \in Analyses /\ job[w].run \in Nat /\ faults \in Nat
      BY <3>1, HoldsMessage DEF DeliveryInv, OneHolder, OneMessage, Mail, TypeOK
    <3> HIDE DEF n
    <3>3. CASE job[w].msg.retries < MaxRetries
      <4>1. n \in Message /\ n.analysis = A(w) /\ n.retries <= faults'
        BY <3>1, <3>2, <3>3, ConstantsAssumption DEF n, Message
      <4>2. queue' = queue \cup {n} /\ faults' \in Nat /\ faults' >= faults
        BY <3>1, <3>2, <3>3
      <4>3. /\ DeliveryInv'
            /\ \A a \in Analyses : Lost(a)' => Lost(a) \/ a = A(w)
        BY <3>1, <4>1, <4>2, ReleaseKeeps
      <4>4. \A a \in Analyses : Lost(a)' => a # A(w)
        BY <4>1, <4>2 DEF Lost, Mail
      <4> QED
        BY <4>3, <4>4 DEF RefusalsLose
    <3>4. CASE ~(job[w].msg.retries < MaxRetries)
      <4>1. job[w].msg.retries \in 0 .. MaxRetries
        BY <3>1, HoldsMessage DEF Message
      <4>2. LastRefusal(w)
        <5>1. \A r \in 0 .. MaxRetries : r < MaxRetries \/ r = MaxRetries
          BY ConstantsAssumption
        <5>2. job[w].msg.retries = MaxRetries
          BY <3>4, <4>1, <5>1
        <5> QED
          BY <2>2, <5>2 DEF LastRefusal
      <4>3. GivenUp(w) /\ faults' \in Nat /\ faults' >= faults
        BY <3>1, <3>2, <3>4 DEF GivenUp
      <4>4. /\ DeliveryInv'
            /\ \A a \in Analyses : Lost(a)' => Lost(a) \/ a = A(w)
        BY <3>1, <4>3, ReleaseKeeps
      <4> QED
        BY <4>2, <4>4 DEF RefusalsLose
    <3> QED
      BY <3>3, <3>4
  <2>3. CASE Crash(w)
    <3>1. /\ "crash" \in Faults /\ faults' = faults + 1
          /\ job[w].phase # "idle" /\ Becomes(w, Idle)
          /\ UNCHANGED <<req, row, groups, queue, unacked>>
      BY <2>3 DEF Crash, Fault, store, broker
    <3>2. ~AIEnabled /\ faults' \in Nat /\ faults' >= faults
      BY <3>1 DEF Survivable, TypeOK
    <3>3. ~GivenUp(w)
      BY <3>1 DEF GivenUp, DeliveryInv, OneHolder
    <3>4. DeliveryInv' /\ \A a \in Analyses : Lost(a)' => Lost(a)
      BY <3>1, <3>2, <3>3, ReleaseKeeps
    <3> QED
      BY <3>4 DEF RefusalsLose
  <2> QED
    BY <2>1, <2>2, <2>3
<1>7. CASE UNCHANGED vars
  <2>1. UNCHANGED <<req, row, groups, queue, unacked, job, faults>>
    BY <1>7 DEF vars
  <2> QED
    BY <1>0, <2>1, MailKeeps
<1> QED
  BY <1>0, <1>1, <1>2, <1>3, <1>4, <1>5, <1>6, <1>7 DEF Next, Rest

LEMMA DeliveryInvariant == ASSUME Survivable PROVE Spec => []DeliveryInv
<1>1. Init => DeliveryInv
  BY DEF Init, DeliveryInv, OneMessage, OneHolder, SessionsHold, Holds, FirstRun,
         Idle, Mail
<1>2. TypeOK /\ RunInv /\ InsightInv /\ DeliveryInv /\ [Next]_vars => DeliveryInv'
  BY DeliveryStep
<1> QED
  BY <1>1, <1>2, TypeCorrect, RunInvariant, InsightInvariant, PTL DEF Spec

\* As long as only such faults occur, and however often connections are refused,
\* an accepted analysis that is not settled keeps its message in every step but
\* one: when the connection is refused after max_retries retries of its task
\* (workers/tasks.py:17), nothing picks it up again.
THEOREM OnlyRefusalsLoseJobs ==
    ASSUME Survivable PROVE Spec => [][RefusalsLose]_vars
<1>1. TypeOK /\ RunInv /\ InsightInv /\ DeliveryInv /\ [Next]_vars
        => [RefusalsLose]_vars
  BY DeliveryStep
<1> QED
  BY <1>1, TypeCorrect, RunInvariant, InsightInvariant, DeliveryInvariant, PTL DEF Spec

\* So every accepted analysis that is not settled has its message while there are
\* not more faults than retries: the acknowledgement comes after the final commit
\* (workers/celery_app.py:10, services/pipeline.py:91), and a refused
\* connection is retried.
THEOREM NoJobIsLost == ASSUME Survivable, FewRefusals PROVE Spec => []NoLostJob
<1>1. NoLostJob <=> \A a \in Analyses : ~Lost(a)
  BY DEF NoLostJob, Lost, Mail
<1>2. Init => NoLostJob
  BY DEF Init, NoLostJob
<1>3. ASSUME TypeOK, DeliveryInv, NEW w \in Workers PROVE ~LastRefusal(w)
  <2> SUFFICES ASSUME LastRefusal(w) PROVE FALSE
    OBVIOUS
  <2>1. /\ "connect" \in Faults /\ faults < MaxFaults
        /\ job[w].phase = "load" /\ job[w].msg.retries = MaxRetries
    BY DEF LastRefusal, ConnectFails, Fault
  <2>2. job[w].msg.retries <= faults /\ faults \in Nat
    BY <1>3, <2>1 DEF DeliveryInv, OneHolder, OneMessage, Mail, TypeOK
  <2> QED
    BY <2>1, <2>2, ConstantsAssumption DEF FewRefusals
<1>4. TypeOK /\ RunInv /\ InsightInv /\ DeliveryInv /\ NoLostJob /\ [Next]_vars
        => NoLostJob'
  <2> SUFFICES ASSUME TypeOK, RunInv, InsightInv, DeliveryInv, NoLostJob,
                      [Next]_vars
               PROVE  NoLostJob'
    OBVIOUS
  <2>1. \A a \in Analyses : ~Lost(a)'
    BY <1>1, <1>3, DeliveryStep DEF RefusalsLose
  <2> QED
    BY <2>1 DEF NoLostJob, Lost, Mail
<1> QED
  BY <1>2, <1>4, TypeCorrect, RunInvariant, InsightInvariant, DeliveryInvariant, PTL
  DEF Spec
-----------------------------------------------------------------------------
\* The vector store: what a session is about to commit has been indexed.

IndexWorks == Indexing /\ "vector" \notin Faults

IndexedFirst ==
    \A w \in Workers :
        /\ job[w].phase = "upsert" => job[w].groups \subseteq job[w].todo
        /\ job[w].phase = "finish" => job[w].groups \subseteq points

IndexInv == IndexedFirst /\ CommittedIsIndexed

LEMMA IndexKeeps ==
    ASSUME TypeOK, IndexInv, NEW w \in Workers, NEW j, Becomes(w, j),
           points \subseteq points', groups' \subseteq points',
           j.phase = "upsert" => j.groups \subseteq j.todo,
           j.phase = "finish" => j.groups \subseteq points'
    PROVE  IndexInv'
BY JobsAfter DEF IndexInv, IndexedFirst, CommittedIsIndexed

LEMMA IndexInvariant == ASSUME IndexWorks PROVE Spec => []IndexInv
<1>1. Init => IndexInv
  BY DEF Init, IndexInv, IndexedFirst, CommittedIsIndexed, Idle
<1>2. TypeOK /\ IndexInv /\ [Next]_vars => IndexInv'
  <2> SUFFICES ASSUME TypeOK, IndexInv, [Next]_vars PROVE IndexInv'
    OBVIOUS
  <2>1. ASSUME UNCHANGED <<groups, points, job>> PROVE IndexInv'
    BY <2>1 DEF IndexInv, IndexedFirst, CommittedIsIndexed
  <2>2. ASSUME NEW a \in Analyses, Api(a) PROVE IndexInv'
    BY <2>1, <2>2 DEF Api, Register, Enqueue, EnqueueFails, store
  <2>3. ASSUME NEW m \in unacked, Restore(m) \/ RestoreWhileHeld(m) PROVE IndexInv'
    BY <2>1, <2>3 DEF Restore, RestoreWhileHeld, store
  <2>4. groups \subseteq points
    BY DEF IndexInv, CommittedIsIndexed
  \* Steps after which w is not about to index or to commit.
  <2>5. ASSUME NEW w \in Workers, NEW j, Becomes(w, j),
               j.phase \notin {"upsert", "finish"}, UNCHANGED <<groups, points>>
        PROVE  IndexInv'
    BY <2>4, <2>5, IndexKeeps
  <2>6. ASSUME NEW w \in Workers, NEW m \in queue, Deliver(w, m) PROVE IndexInv'
    <3> DEFINE j == [Idle EXCEPT !.phase = "load", !.msg = m,
                                 !.run = runs[m.analysis] + 1]
    <3>1. Becomes(w, j) /\ UNCHANGED <<groups, points>>
      BY <2>6 DEF Deliver, store
    <3>2. j.phase = "load"
      BY DEF Idle
    <3> HIDE DEF j
    <3> QED BY <2>5, <3>1, <3>2
  <2>7. ASSUME NEW w \in Workers,
               Ack(w) \/ WorkerFault(w) \/ InsertDeadlock(w)
        PROVE  IndexInv'
    <3>1. /\ Becomes(w, Idle) \/ Becomes(w, Broken(job[w]))
          /\ UNCHANGED <<groups, points>>
      BY <2>7 DEF Ack, WorkerFault, InsertDeadlock, SetupFails, ConnectFails,
                  DbError, Crash, ChildLost, EndDelivery, store
    <3>2. Idle.phase = "idle" /\ Broken(job[w]).phase = "broken"
      BY HoldsMessage DEF Idle, Broken, Job
    <3> QED BY <2>5, <3>1, <3>2
  <2>8. ASSUME NEW w \in Workers, InsertInsight(w) PROVE IndexInv'
    <3>1. PICK new \in job[w].adding :
             Becomes(w, Broken(job[w])) \/ Becomes(w, Inserted(job[w], new))
      BY <2>8 DEF InsertInsight
    <3>2. UNCHANGED <<groups, points>>
      BY <2>8 DEF InsertInsight, store
    <3>3. Inserted(job[w], new).phase = "enrich" /\ Broken(job[w]).phase = "broken"
      BY HoldsMessage DEF Inserted, Broken, Job
    <3> QED BY <2>5, <3>1, <3>2, <3>3
  <2>10. ASSUME NEW w \in Workers,
                \/ Load(w) \/ LoadFile(w) \/ Begin(w) \/ FailRead(w)
                \/ CacheHit(w) \/ CacheMiss(w) \/ Answer(w)
                \/ CallFails(w) \/ EnrichDone(w) \/ SelectTop(w)
         PROVE  IndexInv'
    <3>1. PICK j : /\ Becomes(w, j) /\ UNCHANGED <<groups, points>>
                   /\ j.phase \notin {"upsert", "finish"}
      <4> DEFINE to(ph) == [job[w] EXCEPT !.phase = ph]
                 loaded(x) == [job[w] EXCEPT !.phase = "file", !.seen.status = x]
                 found(x) == [job[w] EXCEPT !.phase = "begin", !.seen.format = x]
                 selected(x) == [job[w] EXCEPT !.phase = "enrich", !.todo = x]
                 asking(x) == [job[w] EXCEPT !.phase = "calling", !.asking = x]
                 hit(x) == [job[w] EXCEPT !.phase = "insert", !.adding = x]
                 answered(x) == [job[w] EXCEPT !.phase = "insert", !.asking = NoGroup,
                                               !.adding = x]
                 failed == [job[w] EXCEPT !.phase = "enrich", !.asking = NoGroup,
                                          !.todo = @ \ {job[w].asking}]
      <4>1. /\ \/ \E x : \/ Becomes(w, loaded(x)) \/ Becomes(w, found(x))
                        \/ Becomes(w, selected(x)) \/ Becomes(w, asking(x))
                        \/ Becomes(w, hit(x)) \/ Becomes(w, answered(x))
               \/ Becomes(w, failed)
               \/ \E ph \in {"ack", "read", AfterAI} : Becomes(w, to(ph))
            /\ UNCHANGED <<groups, points>>
        BY <2>10 DEF Load, LoadFile, Begin, FailRead, CacheHit, CacheMiss, Answer,
                     CallFails, EnrichDone, SelectTop, store
      <4>2. job[w] \in Job /\ AfterAI = "index"
        BY HoldsMessage DEF IndexWorks, AfterAI
      <4> DEFINE Early(j) == j.phase \notin {"upsert", "finish"}
      <4>3. /\ \A ph \in {"ack", "read", AfterAI} : Early(to(ph))
            /\ \A x : /\ Early(loaded(x)) /\ Early(found(x)) /\ Early(selected(x))
                      /\ Early(asking(x)) /\ Early(hit(x)) /\ Early(answered(x))
            /\ Early(failed)
        BY <4>2 DEF Job
      <4> HIDE DEF to, loaded, found, selected, asking, hit, answered, failed, Early
      <4>4. \E k : Becomes(w, k) /\ Early(k)
        BY <4>1, <4>3
      <4> QED BY <4>1, <4>4 DEF Early
    <3> QED BY <2>5, <3>1
  <2>11. ASSUME NEW w \in Workers, PersistGroups(w) PROVE IndexInv'
    <3> DEFINE j == [job[w] EXCEPT !.phase = AfterFlush(A(w)),
                                   !.groups = RunGroups(A(w), job[w].run)]
    <3>1. Becomes(w, j) /\ UNCHANGED <<groups, points>>
      BY <2>11 DEF PersistGroups, store
    <3>2. j.phase = AfterFlush(A(w)) /\ j.groups = RunGroups(A(w), job[w].run)
      BY HoldsMessage DEF Job
    <3>3. /\ AfterFlush(A(w)) = "finish" => RunGroups(A(w), job[w].run) = {}
          /\ AfterFlush(A(w)) # "upsert"
      BY DEF AfterFlush, AfterAI, RunGroups, IndexWorks
    <3> HIDE DEF j
    <3> QED BY <2>4, <3>1, <3>2, <3>3, IndexKeeps
  <2>9. ASSUME NEW w \in Workers, SelectAll(w) PROVE IndexInv'
    <3> DEFINE j == [job[w] EXCEPT !.phase = "upsert", !.todo = Visible(w)]
    <3>1. Becomes(w, j) /\ UNCHANGED <<groups, points>>
      BY <2>9 DEF SelectAll, store
    <3>2. j.phase = "upsert" /\ j.groups \subseteq j.todo
      BY HoldsMessage DEF Job, Visible
    <3> HIDE DEF j
    <3> QED BY <2>4, <3>1, <3>2, IndexKeeps
  <2>12. ASSUME NEW w \in Workers, Index(w) PROVE IndexInv'
    <3> DEFINE j == [job[w] EXCEPT !.phase = "finish", !.todo = {}]
    <3>1. /\ Becomes(w, j) /\ groups' = groups /\ points' = points \cup job[w].todo
          /\ job[w].groups \subseteq job[w].todo
      BY <2>12 DEF Index, IndexWorks, IndexInv, IndexedFirst
    <3>2. j.groups = job[w].groups /\ j.phase = "finish"
      BY HoldsMessage DEF Job
    <3> HIDE DEF j
    <3> QED BY <2>4, <3>1, <3>2, IndexKeeps
  <2>13. ASSUME NEW w \in Workers, Finish(w) PROVE IndexInv'
    <3> DEFINE j == [job[w] EXCEPT !.phase = "ack", !.groups = {}, !.insights = {}]
    <3>1. /\ Becomes(w, j) /\ groups' = groups \cup job[w].groups /\ points' = points
          /\ job[w].phase = "finish"
      BY <2>13 DEF Finish
    <3>2. j.phase = "ack"
      BY HoldsMessage DEF Job
    <3>3. job[w].groups \subseteq points
      BY <3>1 DEF IndexInv, IndexedFirst
    <3> HIDE DEF j
    <3> QED BY <2>4, <3>1, <3>2, <3>3, IndexKeeps
  <2>14. CASE UNCHANGED vars
    BY <2>1, <2>14 DEF vars
  <2> QED
    BY <2>2, <2>3, <2>6, <2>7, <2>8, <2>9, <2>10, <2>11, <2>12, <2>13, <2>14
    DEF Next, Work, Rest
<1> QED BY <1>1, <1>2, TypeCorrect, PTL DEF Spec

\* As long as the vector store answers, what readers can open can be found,
\* however runs crash, fail, overlap or are repeated (services/pipeline.py:172).
THEOREM CommittedStaysIndexed == ASSUME IndexWorks PROVE Spec => []CommittedIsIndexed
<1>1. IndexInv => CommittedIsIndexed
  BY DEF IndexInv
<1> QED BY <1>1, IndexInvariant, PTL
=============================================================================
