---------------------------- MODULE AnalysisJobs ----------------------------
(***************************************************************************)
(* The life of an analysis: the API registers it and hands its id to the   *)
(* Celery broker; workers, each in a database session of its own, parse    *)
(* the file, persist error groups, ask the LLM for insights, index the     *)
(* groups in the vector store and publish everything in one commit.        *)
(*                                                                         *)
(* A worker's uncommitted rows live in job[w]; groups, insights and row    *)
(* are what has been committed.  PostgreSQL runs READ COMMITTED, so a      *)
(* session sees committed rows and its own.  Delivery is at least once.    *)
(* A run is one execution of the task; its number stands for the fresh     *)
(* uuids of the rows that execution inserts.  What a session does between  *)
(* two awaits is one step.                                                 *)
(***************************************************************************)
EXTENDS Integers, FiniteSets

CONSTANTS
    Users,          \* account ids
    Analyses,       \* analysis ids, one per accepted upload or paste
    Fingerprints,   \* fingerprints of the error groups
    Workers,        \* Celery pool children
    Owner,          \* the user an analysis belongs to
    Content,        \* the fingerprints the file of an analysis parses into
    Count,          \* how many lines of a file carry a fingerprint
    MaxGroups,      \* settings.ai_max_groups_per_analysis
    MaxRetries,     \* max_retries of the Celery task
    AIEnabled,      \* settings.ai_enabled
    Indexing,       \* settings.qdrant_url is set
    Faults,         \* the kinds of fault a run of the model may meet
    MaxFaults,      \* bound: how many of the budgeted faults may happen
    NoGroup, NoMessage

FaultKinds == {"enqueue", "connect", "setup", "db", "crash", "child", "stall",
               "file", "llm", "vector"}

ASSUME ConstantsAssumption ==
    /\ Owner \in [Analyses -> Users]
    /\ IsFiniteSet(Fingerprints)
    /\ Content \in [Analyses -> SUBSET Fingerprints]
    /\ Count \in [Analyses -> [Fingerprints -> Nat]]
    /\ MaxGroups \in Nat
    /\ MaxRetries \in Nat
    /\ MaxFaults \in Nat
    /\ AIEnabled \in BOOLEAN
    /\ Indexing \in BOOLEAN
    /\ Faults \subseteq FaultKinds

VARIABLES
    req,        \* the HTTP request that submits each analysis
    row,        \* committed row of analyses, with detected_format of its file
    groups,     \* committed rows of error_groups
    insights,   \* committed rows of group_insights
    points,     \* points of the vector store, by group id
    queue,      \* messages waiting in the broker
    unacked,    \* messages delivered and not yet acknowledged
    job,        \* what each worker is doing, with its uncommitted writes
    runs,       \* executions started so far, per analysis
    faults      \* budgeted faults so far

vars == <<req, row, groups, insights, points, queue, unacked, job, runs, faults>>
store == <<row, groups, insights, points>>
broker == <<queue, unacked>>

-----------------------------------------------------------------------------
Statuses == {"absent", "pending", "running", "completed", "failed"}
Terminal == {"completed", "failed"}
Phases == {"idle", "load", "file", "begin", "read", "select", "enrich",
           "calling", "insert", "index", "upsert", "finish", "ack", "broken"}
\* Between the flush of its groups and the commit of them.
Writing == {"select", "enrich", "calling", "insert", "index", "upsert", "finish"}

Row == [status: Statuses, error: BOOLEAN, count: Nat, format: BOOLEAN]
Group == [analysis: Analyses, run: Nat, fp: Fingerprints]
\* payload is named by the group whose LLM call produced it.
Insight == [group: Group, user: Users, fp: Fingerprints, payload: Group,
            cached: BOOLEAN]
\* by is the run that published the message, 0 for the API.
Message == [analysis: Analyses, retries: 0..MaxRetries, by: Nat]

NotSeen == [status |-> "absent", format |-> FALSE]

Job == [phase: Phases, msg: Message \cup {NoMessage}, run: Nat,
        seen: [status: Statuses, format: BOOLEAN],
        todo: SUBSET Group, asking: Group \cup {NoGroup}, adding: SUBSET Insight,
        groups: SUBSET Group, insights: SUBSET Insight]

Idle == [phase |-> "idle", msg |-> NoMessage, run |-> 0, seen |-> NotSeen,
         todo |-> {}, asking |-> NoGroup, adding |-> {},
         groups |-> {}, insights |-> {}]

JobsOK ==
    /\ job \in [Workers -> Job]
    /\ \A w \in Workers : /\ job[w].phase # "idle" => job[w].msg \in Message
                          /\ job[w].phase = "calling" => job[w].asking \in Group

TypeOK ==
    /\ req \in [Analyses -> {"none", "committed", "accepted", "error"}]
    /\ row \in [Analyses -> Row]
    /\ groups \subseteq Group
    /\ insights \subseteq Insight
    /\ points \subseteq Group
    /\ queue \subseteq Message
    /\ unacked \subseteq Message
    /\ JobsOK
    /\ runs \in [Analyses -> Nat]
    /\ faults \in Nat

Init ==
    /\ req = [a \in Analyses |-> "none"]
    /\ row = [a \in Analyses |-> [status |-> "absent", error |-> FALSE,
                                  count |-> 0, format |-> FALSE]]
    /\ groups = {}
    /\ insights = {}
    /\ points = {}
    /\ queue = {}
    /\ unacked = {}
    /\ job = [w \in Workers |-> Idle]
    /\ runs = [a \in Analyses |-> 0]
    /\ faults = 0

Becomes(w, j) == job' = [job EXCEPT ![w] = j]

\* A budgeted fault of kind k happens in this step.
Fault(k) ==
    /\ k \in Faults
    /\ faults < MaxFaults
    /\ faults' = faults + 1

-----------------------------------------------------------------------------
(* The API: ingest_upload or ingest_paste, then _accept.                   *)

\* The LogFile and Analysis rows are flushed and committed together.
Register(a) ==
    /\ req[a] = "none"
    /\ req' = [req EXCEPT ![a] = "committed"]
    /\ row' = [row EXCEPT ![a].status = "pending"]
    /\ UNCHANGED <<groups, insights, points, broker, job, runs, faults>>

\* Mutant: the id may go to the broker before the commit.
EnqueueEarly(a) ==
    /\ req[a] \in {"none", "committed"}
    /\ req' = [req EXCEPT ![a] = "accepted"]
    /\ queue' = queue \cup {[analysis |-> a, retries |-> 0, by |-> 0]}
    /\ UNCHANGED <<store, unacked, job, runs, faults>>

\* The id goes to the broker only after the commit; then 202 is answered.
Enqueue(a) ==
    /\ req[a] = "committed"
    /\ req' = [req EXCEPT ![a] = "accepted"]
    /\ queue' = queue \cup {[analysis |-> a, retries |-> 0, by |-> 0]}
    /\ UNCHANGED <<store, unacked, job, runs, faults>>

\* Mutant: the error of the broker is swallowed.
EnqueueSwallowed(a) ==
    /\ Fault("enqueue")
    /\ req[a] = "committed"
    /\ req' = [req EXCEPT ![a] = "accepted"]
    /\ UNCHANGED <<store, broker, job, runs>>

\* The broker refuses the message, or the API dies after the commit.
EnqueueFails(a) ==
    /\ Fault("enqueue")
    /\ req[a] = "committed"
    /\ req' = [req EXCEPT ![a] = "error"]
    /\ UNCHANGED <<store, broker, job, runs>>

-----------------------------------------------------------------------------
(* The broker: Redis transport, acks_late, prefetch 1.                     *)

\* Mutant: task_acks_late is off.
DeliverAcksEarly(w, m) ==
    /\ job[w].phase = "idle"
    /\ m \in queue
    /\ queue' = queue \ {m}
    /\ runs' = [runs EXCEPT ![m.analysis] = @ + 1]
    /\ Becomes(w, [Idle EXCEPT !.phase = "load", !.msg = m,
                                              !.run = runs[m.analysis] + 1])
    /\ UNCHANGED <<req, store, unacked, faults>>

\* A free pool child gets a message, which stays unacknowledged meanwhile.
Deliver(w, m) ==
    /\ job[w].phase = "idle"
    /\ m \in queue
    /\ queue' = queue \ {m}
    /\ unacked' = unacked \cup {m}
    /\ runs' = [runs EXCEPT ![m.analysis] = @ + 1]
    /\ Becomes(w, [Idle EXCEPT !.phase = "load", !.msg = m,
                                              !.run = runs[m.analysis] + 1])
    /\ UNCHANGED <<req, store, faults>>

Held(m) == \E w \in Workers : job[w].phase # "idle" /\ job[w].msg = m

BackToQueue(m) ==
    /\ m \in unacked
    /\ unacked' = unacked \ {m}
    /\ queue' = queue \cup {m}

\* The visibility timeout of a message whose worker is gone.
Restore(m) ==
    /\ ~Held(m)
    /\ BackToQueue(m)
    /\ UNCHANGED <<req, store, job, runs, faults>>

\* The visibility timeout of a message that is still being worked on.
RestoreWhileHeld(m) ==
    /\ Fault("stall")
    /\ Held(m)
    /\ BackToQueue(m)
    /\ UNCHANGED <<req, store, job, runs>>

\* The delivery of w is over: acknowledged, whatever the task's outcome.
\* The tag is the message's own, so a redelivered copy is acknowledged too.
EndDelivery(w) ==
    /\ Becomes(w, Idle)
    /\ unacked' = unacked \ {job[w].msg}

Ack(w) ==
    /\ job[w].phase \in {"ack", "broken"}
    /\ EndDelivery(w)
    /\ UNCHANGED <<req, store, queue, runs, faults>>

-----------------------------------------------------------------------------
(* The task: run_analysis_task, run_analysis, _process, enrich_groups.     *)

A(w) == job[w].msg.analysis

\* The settings, the provider or the vector client cannot be built.
SetupFails(w) ==
    /\ Fault("setup")
    /\ job[w].phase = "load"
    /\ EndDelivery(w)
    /\ UNCHANGED <<req, store, queue, runs>>

\* Mutant: one retry more than max_retries.
ConnectFailsOnceMore(w) ==
    /\ Fault("connect")
    /\ job[w].phase = "load"
    /\ queue' = IF job[w].msg.retries <= MaxRetries
                THEN queue \cup {[analysis |-> A(w), by |-> job[w].run,
                                  retries |-> job[w].msg.retries + 1]}
                ELSE queue
    /\ EndDelivery(w)
    /\ UNCHANGED <<req, store, runs>>

\* Connecting to the database raises ConnectionError, which autoretry_for
\* turns into a new message until max_retries is reached.
ConnectFails(w) ==
    /\ Fault("connect")
    /\ job[w].phase = "load"
    /\ queue' = IF job[w].msg.retries < MaxRetries
                THEN queue \cup {[analysis |-> A(w), by |-> job[w].run,
                                  retries |-> job[w].msg.retries + 1]}
                ELSE queue
    /\ EndDelivery(w)
    /\ UNCHANGED <<req, store, runs>>

\* session.get(Analysis); no row ends the task.
Load(w) ==
    /\ job[w].phase = "load"
    /\ \/ /\ row[A(w)].status = "absent"
          /\ Becomes(w, [job[w] EXCEPT !.phase = "ack"])
       \/ /\ row[A(w)].status # "absent"
          /\ Becomes(w, [job[w] EXCEPT !.phase = "file",
                                       !.seen.status = row[A(w)].status])
    /\ UNCHANGED <<req, store, broker, runs, faults>>

\* session.get(LogFile), whose row exists because of the foreign key.
LoadFile(w) ==
    /\ job[w].phase = "file"
    /\ Becomes(w, [job[w] EXCEPT !.phase = "begin", !.seen.format = row[A(w)].format])
    /\ UNCHANGED <<req, store, broker, runs, faults>>

\* status = RUNNING is written only when the loaded row had another status.
Begin(w) ==
    /\ job[w].phase = "begin"
    /\ row' = IF job[w].seen.status = "running" THEN row
              ELSE [row EXCEPT ![A(w)].status = "running"]
    /\ Becomes(w, [job[w] EXCEPT !.phase = "read"])
    /\ UNCHANGED <<req, groups, insights, points, broker, runs, faults>>

\* Reading or parsing the file raises: FAILED, with the error message.
FailRead(w) ==
    /\ "file" \in Faults
    /\ job[w].phase = "read"
    /\ row' = [row EXCEPT ![A(w)] = [row[A(w)] EXCEPT !.status = "failed",
                                                      !.error = TRUE]]
    /\ Becomes(w, [job[w] EXCEPT !.phase = "ack"])
    /\ UNCHANGED <<req, groups, insights, points, broker, runs, faults>>

RunGroups(a, r) == {[analysis |-> a, run |-> r, fp |-> f] : f \in Content[a]}

\* The flush of a session that changes detected_format locks the log_files
\* row until that session commits or rolls back.
LocksFile(v) == job[v].phase \in Writing /\ ~job[v].seen.format

\* The stages that are switched off, or have no groups to work on, are skipped.
AfterAI == IF Indexing THEN "index" ELSE "finish"
AfterFlush(a) == IF Content[a] = {} THEN "finish"
                 ELSE IF AIEnabled THEN "select" ELSE AfterAI

\* Mutant: the groups are committed, not flushed.
PersistCommits(w) ==
    /\ job[w].phase = "read"
    /\ groups' = groups \cup RunGroups(A(w), job[w].run)
    /\ Becomes(w, [job[w] EXCEPT !.phase = AfterFlush(A(w)),
                                 !.groups = RunGroups(A(w), job[w].run)])
    /\ UNCHANGED <<req, row, insights, points, broker, runs, faults>>

\* Mutant: a group whose insert fails is skipped.
PersistSome(w) ==
    /\ job[w].phase = "read"
    /\ \E G \in SUBSET RunGroups(A(w), job[w].run) :
          Becomes(w, [job[w] EXCEPT !.phase = AfterFlush(A(w)), !.groups = G])
    /\ UNCHANGED <<req, store, broker, runs, faults>>

\* session.flush of one ErrorGroup row per fingerprint of the file.
PersistGroups(w) ==
    /\ job[w].phase = "read"
    /\ job[w].seen.format \/ ~\E v \in Workers : LocksFile(v) /\ A(v) = A(w)
    /\ Becomes(w, [job[w] EXCEPT !.phase = AfterFlush(A(w)),
                                 !.groups = RunGroups(A(w), job[w].run)])
    /\ UNCHANGED <<req, store, broker, runs, faults>>

\* select(ErrorGroup) by analysis_id: rows of earlier runs come back as well.
Visible(w) == {g \in groups : g.analysis = A(w)} \cup job[w].groups

CountOf(g) == Count[g.analysis][g.fp]

\* sorted(groups, key=count, reverse=True)[:max_groups], ties in any order.
IsTop(T, S) ==
    /\ T \subseteq S
    /\ \A g \in T, h \in S \ T : CountOf(g) >= CountOf(h)
    /\ Cardinality(T) = MaxGroups \/ (T = S /\ Cardinality(S) < MaxGroups)

SelectTop(w) ==
    /\ job[w].phase = "select"
    /\ \E T \in SUBSET Visible(w) :
          /\ IsTop(T, Visible(w))
          /\ Becomes(w, [job[w] EXCEPT !.phase = "enrich", !.todo = T])
    /\ UNCHANGED <<req, store, broker, runs, faults>>

IsNext(w, g) ==
    /\ job[w].phase = "enrich"
    /\ g \in job[w].todo
    /\ \A h \in job[w].todo : CountOf(g) >= CountOf(h)

\* The row that _enrich_one adds to the session.
NewInsight(w, g, payload, cached) ==
    [group |-> g, user |-> Owner[A(w)], fp |-> g.fp, payload |-> payload,
     cached |-> cached]

\* Mutant: the lookup reads what other sessions have not committed.
CacheDirty(w, g) ==
    {i \in insights \cup UNION {job[v].insights : v \in Workers} :
        i.user = Owner[A(w)] /\ i.fp = g.fp}

\* Mutant: the lookup forgets the user.
CacheAnyUser(w, g) == {i \in insights \cup job[w].insights : i.fp = g.fp}

\* The fingerprint cache: insights of the same user and fingerprint.
Cache(w, g) == {i \in insights \cup job[w].insights :
                    i.user = Owner[A(w)] /\ i.fp = g.fp}

CacheHit(w) ==
    \E g \in job[w].todo : \E prior \in Cache(w, g) :
        /\ IsNext(w, g)
        /\ Becomes(w, [job[w] EXCEPT !.phase = "insert",
                                     !.adding = {NewInsight(w, g, prior.payload, TRUE)}])
        /\ UNCHANGED <<req, store, broker, runs, faults>>

CacheMiss(w) ==
    \E g \in job[w].todo :
        /\ IsNext(w, g)
        /\ Cache(w, g) = {}
        /\ Becomes(w, [job[w] EXCEPT !.phase = "calling", !.asking = g])
        /\ UNCHANGED <<req, store, broker, runs, faults>>

\* provider.analyze_group returns; other sessions ran in the meantime.
Answer(w) ==
    /\ job[w].phase = "calling"
    /\ LET g == job[w].asking
       IN  Becomes(w, [job[w] EXCEPT !.phase = "insert", !.asking = NoGroup,
                                     !.adding = {NewInsight(w, g, g, FALSE)}])
    /\ UNCHANGED <<req, store, broker, runs, faults>>

\* Mutant: the handler of a failed insert rolls back and goes on.
RollsBackAndGoesOn(j) ==
    [j EXCEPT !.phase = IF @ = "insert" THEN "enrich" ELSE "broken",
              !.todo = IF j.phase = "insert" THEN @ \ {i.group : i \in j.adding} ELSE {},
              !.groups = {}, !.insights = {}, !.adding = {}, !.asking = NoGroup]

\* A failed flush rolls the session back and leaves it unusable: the other
\* groups are skipped, the final commit raises, the task fails.
Broken(j) == [j EXCEPT !.phase = "broken", !.groups = {}, !.insights = {},
                       !.todo = {}, !.adding = {}, !.asking = NoGroup]

\* Another session has an uncommitted insight for g, whose unique key an insert
\* has to wait for.
Blocked(w, g) == \E v \in Workers \ {w} : \E i \in job[v].insights : i.group = g

HasInsight(w, g) == \E i \in insights \cup job[w].insights : i.group = g

Inserted(j, new) ==
    [j EXCEPT !.phase = "enrich", !.insights = @ \cup {new},
              !.todo = @ \ {new.group}, !.adding = {}]

\* Mutant: a group whose insert fails is tried again.
InsertRetries(w) ==
    /\ job[w].phase = "insert"
    /\ \E new \in job[w].adding :
          /\ ~Blocked(w, new.group)
          /\ \/ /\ HasInsight(w, new.group)
                /\ Becomes(w, [job[w] EXCEPT !.phase = "enrich", !.adding = {}])
             \/ /\ ~HasInsight(w, new.group)
                /\ Becomes(w, Inserted(job[w], new))
    /\ UNCHANGED <<req, store, broker, runs, faults>>

\* The flush: group_insights.group_id is unique, so the insert waits for a
\* session that has an uncommitted row for the group, and fails on a row that
\* is committed or its own.
InsertInsight(w) ==
    /\ job[w].phase = "insert"
    /\ \E new \in job[w].adding :
          /\ ~Blocked(w, new.group)
          /\ \/ HasInsight(w, new.group) /\ Becomes(w, Broken(job[w]))
             \/ ~HasInsight(w, new.group) /\ Becomes(w, Inserted(job[w], new))
    /\ UNCHANGED <<req, store, broker, runs, faults>>

\* v's insert waits for w, which has inserted for the same group.
WaitsFor(v, w) ==
    v # w /\ \E new \in job[v].adding : \E i \in job[w].insights : i.group = new.group

\* Sessions that wait for each other in a circle: PostgreSQL aborts one.
InsertDeadlock(w) ==
    /\ job[w].phase = "insert"
    /\ \E S \in SUBSET Workers :
          /\ w \in S
          /\ \A v \in S : \E t, u \in S : WaitsFor(t, v) /\ WaitsFor(v, u)
    /\ Becomes(w, Broken(job[w]))
    /\ UNCHANGED <<req, store, broker, runs, faults>>

\* Mutant: a group whose call fails is tried again.
CallRetries(w) ==
    /\ "llm" \in Faults
    /\ job[w].phase = "calling"
    /\ Becomes(w, [job[w] EXCEPT !.phase = "enrich", !.asking = NoGroup])
    /\ UNCHANGED <<req, store, broker, runs, faults>>

\* LLMError, or any error of the call: the group stays without an insight.
CallFails(w) ==
    /\ "llm" \in Faults
    /\ job[w].phase = "calling"
    /\ Becomes(w, [job[w] EXCEPT !.phase = "enrich", !.asking = NoGroup,
                                 !.todo = @ \ {job[w].asking}])
    /\ UNCHANGED <<req, store, broker, runs, faults>>

EnrichDone(w) ==
    /\ job[w].phase = "enrich"
    /\ job[w].todo = {}
    /\ Becomes(w, [job[w] EXCEPT !.phase = AfterAI])
    /\ UNCHANGED <<req, store, broker, runs, faults>>

\* Mutant: the groups to index are read in a session of their own.
SelectCommitted(w) ==
    /\ job[w].phase = "index"
    /\ Becomes(w, [job[w] EXCEPT !.phase = "upsert",
                                 !.todo = {g \in groups : g.analysis = A(w)}])
    /\ UNCHANGED <<req, store, broker, runs, faults>>

\* The same select once more, for the vector store.
SelectAll(w) ==
    /\ job[w].phase = "index"
    /\ Becomes(w, [job[w] EXCEPT !.phase = "upsert", !.todo = Visible(w)])
    /\ UNCHANGED <<req, store, broker, runs, faults>>

\* index_groups embeds and upserts them, before they are committed; a failure
\* of either is only logged.
Index(w) ==
    /\ job[w].phase = "upsert"
    /\ \/ points' = points \cup job[w].todo
       \/ "vector" \in Faults /\ UNCHANGED points
    /\ Becomes(w, [job[w] EXCEPT !.phase = "finish", !.todo = {}])
    /\ UNCHANGED <<req, row, groups, insights, broker, runs, faults>>

\* COMPLETED and the statistics, committed together with the run's rows.
Finish(w) ==
    /\ job[w].phase = "finish"
    /\ groups' = groups \cup job[w].groups
    /\ insights' = insights \cup job[w].insights
    /\ row' = [row EXCEPT ![A(w)] = [error |-> row[A(w)].error, format |-> TRUE,
                                     status |-> "completed",
                                     count |-> Cardinality(Content[A(w)])]]
    /\ Becomes(w, [job[w] EXCEPT !.phase = "ack", !.groups = {}, !.insights = {}])
    /\ UNCHANGED <<req, points, broker, runs, faults>>

\* A statement or the commit fails: nothing of the session is kept.
DbError(w) ==
    /\ Fault("db")
    /\ job[w].phase \in {"file", "begin", "read"} \cup Writing
    /\ Becomes(w, Broken(job[w]))
    /\ UNCHANGED <<req, store, broker, runs>>

\* The worker's host or container dies.
Crash(w) ==
    /\ Fault("crash")
    /\ job[w].phase # "idle"
    /\ Becomes(w, Idle)
    /\ UNCHANGED <<req, store, broker, runs>>

\* Only the pool child dies; the parent reports WorkerLostError and, as
\* task_reject_on_worker_lost is not set, acknowledges the message.
ChildLost(w) ==
    /\ Fault("child")
    /\ job[w].phase # "idle"
    /\ EndDelivery(w)
    /\ UNCHANGED <<req, store, queue, runs>>

-----------------------------------------------------------------------------
Api(a) == Register(a) \/ Enqueue(a) \/ EnqueueFails(a)

\* The steps a live worker takes by itself.
Work(w) ==
    \/ Load(w) \/ LoadFile(w) \/ Begin(w) \/ FailRead(w) \/ PersistGroups(w)
    \/ SelectTop(w) \/ CacheHit(w) \/ CacheMiss(w) \/ Answer(w) \/ CallFails(w)
    \/ InsertInsight(w) \/ InsertDeadlock(w) \/ EnrichDone(w)
    \/ SelectAll(w) \/ Index(w) \/ Finish(w) \/ Ack(w)

WorkerFault(w) ==
    SetupFails(w) \/ ConnectFails(w) \/ DbError(w) \/ Crash(w) \/ ChildLost(w)

\* Everything submitted has been dealt with.
Rest ==
    /\ \A a \in Analyses : req[a] \in {"accepted", "error"}
    /\ queue = {} /\ unacked = {}
    /\ \A w \in Workers : job[w].phase = "idle"
    /\ UNCHANGED vars

Next ==
    \/ \E a \in Analyses : Api(a)
    \/ \E w \in Workers : Work(w) \/ WorkerFault(w)
    \/ \E w \in Workers, m \in queue : Deliver(w, m)
    \/ \E m \in unacked : Restore(m) \/ RestoreWhileHeld(m)
    \/ Rest

Spec == Init /\ [][Next]_vars

\* The event loop of the API and the workers keep running; the broker keeps
\* delivering and its visibility timeout fires.
Fairness ==
    /\ \A a \in Analyses : WF_vars(Enqueue(a))
    /\ \A w \in Workers : WF_vars(Work(w))
    /\ WF_vars(\E w \in Workers, m \in queue : Deliver(w, m))
    /\ WF_vars(\E m \in unacked : Restore(m))

FairSpec == Spec /\ Fairness

-----------------------------------------------------------------------------
(* Properties of the committed results.                                    *)

\* The rows one run of the task has committed for an analysis.
Committed(a, r) == {g \in groups : g.analysis = a /\ g.run = r}

\* Group rows become visible all together or not at all: no reader, and no
\* other run, ever sees part of what a run of _process found in the file.
RunsAreAtomic ==
    \A a \in Analyses : \A r \in 1..runs[a] :
        Committed(a, r) \in {{}, RunGroups(a, r)}

\* A client that polls "completed" finds the complete groups of some run, and
\* the group_count it is shown is that run's.
CompletedHasResults ==
    \A a \in Analyses : row[a].status = "completed" =>
        /\ row[a].count = Cardinality(Content[a])
        /\ \E r \in 1..runs[a] : Committed(a, r) = RunGroups(a, r)

\* What the insight cache serves was once produced, for this user and this
\* fingerprint, by an LLM call whose own insight is committed as well: the
\* cache never copies a row of a session that may still roll back.
CacheIsGrounded ==
    \A i \in insights : \E o \in insights :
        /\ ~o.cached
        /\ o.group = i.payload /\ o.payload = i.payload
        /\ o.user = i.user /\ o.fp = i.fp

\* An insight sits on a committed group of its own fingerprint that belongs to
\* the insight's user, whoever's file the payload came from.
InsightsAreOwned ==
    \A i \in insights :
        /\ i.group \in groups
        /\ i.fp = i.group.fp
        /\ i.user = Owner[i.group.analysis]
        /\ i.user = Owner[i.payload.analysis]

\* One insight per error group, although runs of the same analysis overlap
\* and each looks the group up before it inserts.
OneInsightPerGroup ==
    \A i, j \in insights : i.group = j.group => i = j

\* A step that makes an analysis completed commits a whole fresh run of it,
\* and a step that commits groups makes their analysis completed.
PublishedAtOnce ==
    [][\A a \in Analyses :
          /\ row[a].status # "completed" /\ row'[a].status = "completed"
             => \E r \in 1..runs[a] : /\ Committed(a, r) = {}
                                      /\ RunGroups(a, r) \subseteq groups'
          /\ (\E g \in groups' \ groups : g.analysis = a)
             => row'[a].status = "completed"]_vars

-----------------------------------------------------------------------------
(* Properties of the delivery.                                             *)

\* As long as workers only crash, or the database refuses connections at most
\* max_retries times, every accepted analysis that is not settled still has its
\* message: the acknowledgement comes after the final commit.  With the LLM
\* stage on, this needs that no worker crashes: a second execution fails on the
\* insights of the first.
NoLostJob ==
    \A a \in Analyses : req[a] = "accepted" /\ row[a].status \notin Terminal
        => \E m \in queue \cup unacked : m.analysis = a

\* A message never names a row a worker's own session could not read yet: the
\* API commits before it enqueues, so no task ends at "analysis_not_found".
WorkerFindsRow ==
    \A a \in Analyses :
        \/ \E m \in queue \cup unacked : m.analysis = a
        \/ \E w \in Workers : job[w].phase = "load" /\ A(w) = a
        => row[a].status # "absent"

\* While the vector store answers, every group a reader can open can also be
\* found by similarity search: the worker indexes the rows of its own session
\* before they are committed, so no other run could index them for it.
CommittedIsIndexed == groups \subseteq points

\* Every accepted analysis ends up completed or failed, and stays there.
Settles ==
    \A a \in Analyses :
        req[a] = "accepted" ~> [](row[a].status \in Terminal)

\* With the LLM stage on, this takes that no message is redelivered while a
\* worker holds it: a second execution fails on the insights of the first.
SettlesOnce == [](\A m \in queue : ~Held(m)) => Settles

\* Whatever sessions wait for (the log_files row, the unique keys of insights)
\* and whatever fails, a worker is free again at some time.
DeliveriesEnd ==
    \A w \in Workers : job[w].phase # "idle" ~> job[w].phase = "idle"

-----------------------------------------------------------------------------
(* The inductive invariant behind the properties of the results.           *)

\* Runs of an analysis have distinct numbers, none of them used for committed
\* rows before the run's own commit.
RunsAreFresh ==
    /\ \A g \in groups : g.run \in 1..runs[g.analysis]
    /\ \A w \in Workers : job[w].phase # "idle" => job[w].run \in 1..runs[A(w)]
    /\ \A v, w \in Workers :
          v # w /\ job[v].phase # "idle" /\ job[w].phase # "idle" /\ A(v) = A(w)
             => job[v].run # job[w].run
    /\ \A w \in Workers : job[w].phase \notin {"idle", "ack"}
          => \A g \in groups : g.analysis = A(w) => g.run # job[w].run

\* A session holds uncommitted rows only between the flush and the commit, and
\* then all the groups of its run.
LocalRows ==
    \A w \in Workers :
        /\ job[w].phase \in Writing => job[w].groups = RunGroups(A(w), job[w].run)
        /\ job[w].phase \notin Writing => job[w].groups = {} /\ job[w].insights = {}

\* Whoever holds the id of an analysis finds its row.
RowsExist ==
    /\ \A a \in Analyses : req[a] = "committed" => row[a].status # "absent"
    /\ \A m \in queue \cup unacked : row[m.analysis].status # "absent"
    /\ \A w \in Workers : job[w].phase # "idle" => row[A(w)].status # "absent"

RunInv == RunsAreFresh /\ LocalRows /\ RowsExist
             /\ RunsAreAtomic /\ CompletedHasResults

\* The groups a session still has to enrich are committed or its own.
TodoIsVisible ==
    \A w \in Workers : job[w].phase \in {"enrich", "calling", "insert"} =>
        /\ job[w].todo \subseteq Visible(w)
        /\ job[w].phase = "calling" => job[w].asking \in Visible(w)

\* InsightsAreOwned and CacheIsGrounded for the rows of a session and the one
\* it is about to insert, which may be its own first.
LocalInsights ==
    \A w \in Workers : \A i \in job[w].insights \cup job[w].adding :
        /\ i.group \in Visible(w)
        /\ i.fp = i.group.fp
        /\ i.user = Owner[A(w)]
        /\ i.user = Owner[i.payload.analysis]
        /\ \E o \in insights \cup job[w].insights \cup {i} :
              /\ ~o.cached
              /\ o.group = i.payload /\ o.payload = i.payload
              /\ o.user = i.user /\ o.fp = i.fp

\* A session adds one row at a time and inserts it at its next await.
AddedIsInserted == \A w \in Workers : job[w].phase # "insert" => job[w].adding = {}

\* No group has two insights, in whatever sessions they are.
InsightsAreUnique ==
    \A v, w \in Workers :
        \A i \in insights \cup job[v].insights, j \in insights \cup job[w].insights :
            i.group = j.group => i = j

InsightInv == TodoIsVisible /\ LocalInsights /\ AddedIsInserted
                 /\ InsightsAreUnique /\ CacheIsGrounded /\ InsightsAreOwned
                 /\ OneInsightPerGroup

-----------------------------------------------------------------------------
(* What docs and comments say of the program, and runs refute.             *)

\* ADR-002: "Tasks are idempotent": executing the task again leaves one row
\* per fingerprint of the file.
TaskIsIdempotent ==
    \A g, h \in groups : g.analysis = h.analysis /\ g.fp = h.fp => g = h

\* run_analysis: "Any exception -> status FAILED (never lost)": a running
\* analysis is being executed or will be.
NeverLost ==
    \A a \in Analyses : row[a].status = "running" =>
        \/ \E m \in queue \cup unacked : m.analysis = a
        \/ \E w \in Workers : job[w].phase \notin {"idle", "broken"} /\ A(w) = a

-----------------------------------------------------------------------------
(* What a reader of the tables sees of all this.                           *)

Board == INSTANCE AnalysisBoard
            WITH status <- [a \in Analyses |-> row[a].status],
                 board <- groups, advice <- insights

\* The workers, with all their overlaps, crashes and redeliveries, implement
\* the board: nothing is ever shown, withdrawn or overwritten but by whole
\* runs, and insights only appear with the run that wrote them.
ImplementsBoard == Board!BoardSpec
=============================================================================
