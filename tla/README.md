# TLA+ specifications of AI-Log-Analyzer

A user uploads a log file; the service parses it in the background, groups its
errors by fingerprint, asks an LLM for an explanation of the largest groups and
shows the result. The API is FastAPI over PostgreSQL, the background work runs
in Celery workers fed by Redis, similar incidents are found through a vector
store, and the client is a React page that polls.

The specifications model the parts of this where order, failure and concurrency
decide whether the user ever sees a result, and a correct one. TLC checks them
on small instances; TLAPS proves all safety properties that the passing runs
check for all instances.

## 1. Inventory

| Component | State it keeps | Operations | Interacts with | What is hard | What makes it correct |
|---|---|---|---|---|---|
| Log ingestion (`services/ingestion.py`, `api/v1/logs.py`) | files under `upload_dir`, rows `log_files`, `analyses` | upload, paste, `_register`, `_accept` | database, broker | commit before enqueue; broker refuses after the commit; partial files | a message never precedes its row; no file without a row |
| Analysis jobs (`services/pipeline.py`, `ai/pipelines/analyze.py`, `workers/`) | `analyses.status` and statistics, `error_groups`, `group_insights`, Celery messages, one open transaction per worker | `run_analysis`, `_process`, `enrich_groups`, `_enrich_one`, `index_groups`, retry, ack | database, broker, LLM, vector store | at-least-once delivery, overlapping runs, crash between commit and ack, failed flush inside a swallowed exception, cache read before and written after the LLM call | whole runs only; every accepted job settles; the cache serves one user's own, committed answers |
| Parsing and grouping (`parsing/`, `_GroupAccumulator`) | in-memory accumulators | detect, parse, fingerprint, add | files | none concurrent; format guesses, first/last timestamps | counts and bounds of a group are those of its lines |
| Similar incidents (`services/similarity.py`, `ai/vectorstore`) | points of the vector store | upsert, search | database, embedder | points are written before the rows commit; hits are filtered after a limited search | what can be read can be found; only the user's own incidents |
| Chat with logs (`api/v1/chat.py`, `ai/pipelines/chat.py`) | `conversations`, `messages` | history, ask, stream | LLM, retrieval, browser | two tabs create the conversation together; client leaves mid-stream; the commit after the stream fails | one conversation per file; a question survives its stream; `done` means saved |
| Retrieval (`ai/rag`) | none | chunk, score | files, embedder | strides and windows at the cap | chunks cover every line, at most `MAX_CHUNKS` |
| Authentication and audit (`services/auth.py`, `core/security.py`, `core/db.py`) | `users`, `audit_logs`, tokens | register, login, refresh, get_current_user | every request | rollback of the request that records a failure; racing registrations; expiry | one account per email; failures are on record |
| Rate limiter (`core/ratelimit.py`) | a deque of times per path and client | call | every limited route | boundary of the window | never more than `times` accepted calls within `seconds` |
| Reports and commands (`services/report.py`, `ai/commands`) | `incident_reports` | create, get, download, suggest | database | two creates at once; a run commits between two reads | one report per analysis |
| Timeline, investigation (`services/timeline.py`, `ai/agents`) | `investigations`, steps | build, investigate, latest | database | ordering of undated groups; step budget | the first failure is the earliest dated group |
| Reading endpoints (`api/v1/analyses.py`) | none | list, get, groups, similar | database, vector store | reads in several statements; a list is ordered and cut off at its limit | a page agrees with its total and leaves out only what the limit cuts off |
| Metrics, errors, health (`core/metrics.py`, `core/exceptions.py`, `api/v1/health.py`) | counters | track, render, ready | every request | a handler that raises past the middleware | every request is counted |
| Browser client (`frontend/src`) | tokens, page state | request, refresh, poll, chat | API | concurrent refreshes, late answers, logout during a call, a stream that rejects | the page settles; no answer of another page or account is shown |

Configuration, schemas, logging, migrations and deployment files declare things
and have no behaviour of their own; prompts and LLM providers are text and HTTP.
They are not modelled.

## 2. What is modelled

| Module | Models | Composed with |
|---|---|---|
| `AnalysisBoard` | what readers are promised of analyses (abstract) | implemented by `AnalysisJobs`, read by `AnalysisPage` |
| `AnalysisJobs` | API, broker and workers behind an analysis | |
| `AnalysisPage` | the analysis page, status and group endpoints, reports | extends `AnalysisBoard` |
| `System` | workers and the pages that read their tables | composes `AnalysisJobs` and `AnalysisPage` |
| `Transcript` | what the chat promises of the saved conversation (abstract) | implemented by `ChatSession` |
| `ChatSession` | chat pages, chat endpoints, conversation, event stream | |
| `AuthClient` | tokens and the account in a browser tab | |
| `Accounts` | requests on accounts inside the transaction of `get_db` | |
| `RateLimiter` | the sliding window | |
| `Uploads` | one upload or paste: file, rows, message | |
| `LogGroups`, `Incident` | detection, parsing, grouping; severity, timeline, agents | `Incident` extends `LogGroups` |
| `SimilarIncidents` | search and merge of matches | |
| `Chunking` | windows of a log for the chat | |

### `AnalysisJobs` – the life of an analysis

| Variable | In the code |
|---|---|
| `req[a]` | the HTTP request that submits `a`: `none`, rows `committed`, `accepted` (202) or `error` (500 after the commit) |
| `row[a]` | the committed row of `analyses` (`status`, whether `error_message` is set, `group_count`) and whether `log_files.detected_format` is set |
| `groups`, `insights` | the committed rows of `error_groups` and `group_insights` |
| `points` | points of the vector store |
| `queue`, `unacked` | messages in the Redis list, and those delivered but not acknowledged |
| `job[w]` | one pool child: where `run_analysis` stands (`phase`), its message, its uncommitted rows, the insight that waits for its flush (`adding`), the status it loaded, the groups left to enrich |
| `runs[a]` | how often the task was started for `a`; `(a, run, fingerprint)` names an `error_groups` row, since every execution inserts rows with fresh uuids |
| `faults` | how many of the budgeted faults have happened |

The session of a worker is a transaction at READ COMMITTED: it reads `groups`
and `insights` and its own rows, never another session's. `Finish` is the second
`commit` of `run_analysis` and moves everything at once. Between two statements
any other worker may move, so every statement is a step of its own, and so is the
wait for the LLM. Only the two calls of `index_groups` that follow its select,
embedding and upsert, are one step: nothing is read in between, and a failure of
either is logged and nothing else.

| Action | Code |
|---|---|
| `Register`, `Enqueue`, `EnqueueFails` | `_register`, then `_accept`: commit, then `enqueue_analysis` |
| `Deliver`, `Ack`, `Restore`, `RestoreWhileHeld` | Celery with `task_acks_late`, prefetch 1, on Redis: a message stays unacknowledged during the run and comes back when its visibility timeout fires, also under a worker that still runs |
| `SetupFails`, `ConnectFails` | `_run` before the session works: any error fails the task, `ConnectionError` publishes a retry with `retries + 1` up to `max_retries` |
| `Load`, `LoadFile`, `Begin`, `FailRead` | `run_analysis` up to the first commit: the two `session.get`, the commit of RUNNING; the `except` branch that ends in FAILED |
| `PersistGroups` | reading the file, `detected_format` (which locks the `log_files` row for other runs of the same file) and the flush of the groups |
| `SelectTop`, `CacheHit`, `CacheMiss`, `Answer`, `CallFails`, `EnrichDone` | `enrich_groups` and the part of `_enrich_one` up to `session.add`: the lookup of the cache, the call of the LLM |
| `InsertInsight`, `InsertDeadlock` | the flush at its end, which waits while another session holds an uncommitted insight of the same `group_id`, fails if there is one, and is aborted if sessions wait for each other in a circle |
| `SelectAll`, `Index` | `index_groups`, whose failure is only logged |
| `Finish`, `DbError` | the last commit, or a failing statement: the `except` branch cannot commit on a session that needs a rollback (`Broken`), so the task fails and is acknowledged |
| `Crash`, `ChildLost` | host lost (message comes back) or pool child killed (Celery acknowledges it) |

A fingerprint is a model value, the groups a file parses into are the constants
`Content` and `Count`, and the payload of an insight is named by the group whose
LLM call produced it. That keeps exactly what the properties tell apart: whose
answer it is, for which fingerprint, and from which call.

External behaviour (Celery, Redis, PostgreSQL, SQLAlchemy) is modelled from how
the code configures and uses it, and marked external in `PROJECT.json`.

### `AnalysisBoard` – what readers are promised

No workers, sessions or messages: a status per analysis, the groups on display
and the insights on display. A run's groups, its insights and the status
`completed` appear in one step; nothing is withdrawn or overwritten. An analysis
may be started, failed or published again, because delivery is at least once and
the code does not prevent it. `AnalysisJobs!ImplementsBoard` states that the
workers implement the board under the mapping *status of the committed row,
committed groups, committed insights*.

### `ChatSession` – the chat about one file, and `Transcript`

| Variable | In the code |
|---|---|
| `conv`, `msgs` | committed rows of `conversations` (unique per file and user) and `messages` |
| `req[r]` | where the endpoint stands with a request: history `<<t, 0>>` or the n-th question `<<t, n>>` of page `t` |
| `snap`, `wire` | rows a history request has read; response or server-sent events under way |
| `cut`, `cuts` | requests whose connection is gone, and how often that happened |
| `page[t]` | the component `Chat`: `messages`, `streaming`, `error`, and the local variable `answer` of each send |

| Action | Code |
|---|---|
| `LookupConv`, `InsertConv`, `RequestFails` | `_get_or_create_conversation`: lookup, insert and its flush, which fails in the session that lost the race; ownership and other refusals |
| `CommitQuestion`, `StreamAnswer`, `StreamBreaks` | `chat_ask`: the question is committed before the stream starts; tokens; the provider or retrieval raises and an `error` event follows |
| `Finish`, `SaveFails`, `Cancelled` | the answer's row, the commit and only then `done`; the commit fails; the client has left |
| `OpenChat`, `CloseChat`, `send`, `Drop` | the user, and the network |
| `LoadHistory`, `HistoryFails`, `OnToken`, `OnDone`, `OnError`, `Settle`, `StreamRejects` | the handlers of `Chat.tsx` and the reader of `client.ts` |

An answer is `empty` or `full`: what the properties ask is whether a page shows
a whole answer that was saved, a torso, or nothing. A page that is reloaded is
another tab. `Transcript` is the promise about the database: opened once,
questions and answers only added, an answer only to a question that is there.
`ImplementsTranscript` maps the rows to it.

### `AuthClient` – tokens, refresh and retry

`stored` is the refresh token in `localStorage` and `access` the one in memory,
each named by its account; `user`, `loading` and `form` are what
`AuthProvider` and the router show; `call` holds the outstanding requests, with
the account that was on display when each was made, the header it carries and
the token it refreshes with. `request`, `login`, `logout`, `Reload` and `Expire`
start things; `PageAnswered`, `MeAnswered`, `LoginAnswered`, `Unauthorized`,
`RefreshOk`, `RefreshRefused` and `NetworkFails` are the outcomes of a `fetch`.
Refresh tokens are stateless, so several requests may refresh with the same one,
and a refresh that is answered after a logout stores the tokens of the account
that has left. Two histories tell what the properties have to except: a request
is `late` when somebody has signed in or out since it was sent, and `mixed` says
that a late answer has left its tokens or its account in the tab. No action
depends on either. `scene` says whether sessions end, whether the network fails
and which page requests there are.

### `AnalysisPage` – polling a board that workers change

The module extends `AnalysisBoard` and lets workers move as the board allows,
which `AnalysisJobs` implements. `poll[v]` is the promise chain of the v-th run
of the effect, `visit` the current one, `view` the component's state, `click`
the report requests, `reports` the rows of `incident_reports`. `PollStatus`,
`PollAgain`, `PollReads`, `PollGroups`, `Aside` and `PollFails` are `poll` in
`Analysis.tsx` together with `get_analysis` and `list_groups`, one step per
statement of the endpoint (total, groups, insights); `ClickReport`,
`ReportStatus`, `ReportReads`, `ReportLookup`, `ReportSave` and
`ReportAnswered` are the report button and `generate_report`, whose insert
fails if another request has inserted meanwhile. `total`, `groups` and `advice`
are read at READ COMMITTED: each statement sees the board of its moment. A list
holds the `PageLimit` most frequent groups (`MostFrequent`; 50 in `client.ts:118`),
in the code's order, which leaves groups of equal count in any order; the page
always asks from offset 0. A report is written from all groups. The history
component `had` keeps what could not be missed.

### `System` – pages over the workers

Extends `AnalysisJobs` and instantiates the page with the committed rows for the
board: `status` is that of the committed row, `board` and `advice` are the
committed groups and insights. A step is one of the workers (`Next`) or one of
the page and the report requests (`Browse`), never `MoveBoard`, which only stands
in for the workers. What a promise of the page needs of them is not assumed
here: `PagesKeepPromises` is checked, and proved, with their crashes and
redeliveries.

### `Accounts` – what a request writes, lands or not

One session per request: `Lookup`, `Create` (flush of the user, waiting for a
registration of the same email that is not decided), `Record` (flush of the audit
row), then `Commit` and `Reply`, or `Raise` with its rollback; `DbFails` breaks a
statement or a commit. `commitFirst` says on which side of the answer `get_db`
commits: FastAPI has done both, and the repository does not pin the version.
`known`, a history of each request, is what its client had heard of the account:
nothing, that a registration succeeded, or that and the end of its transaction.
`counted` is `http_requests_total`.

### `RateLimiter`, `Chunking`, `Uploads`

- `RateLimiter`: `hits` is `_hits`, a deque per key. `Accept` and `Reject` evict
  from the left and then test the length, in one step, because `__call__` has no
  `await`. `granted` and `refused` are history variables. `Tick` is the
  monotonic clock.
- `Chunking`: `Cut` is one turn of the loop of `chunk_lines`, with the stride
  that `WideStride` computes when a log has more windows than `MAX_CHUNKS`.
- `Uploads`: `Open`, `ReadChunk` and `UploadEnd` are `ingest_upload`, `Paste` is
  `ingest_paste`, `FlushRows` is `_register`, `CommitRows` and `Enqueues` are
  `_accept`; `UploadFails` is a failure of disk, database or broker in between.

### `LogGroups`, `Incident`, `SimilarIncidents`

- `LogGroups`: a line is its shape (the format whose expression it matches), a
  word that tells the level, a problem and a time stamp with or without offset.
  `Detect` is `detect`, `ReadLine` the body of the loop of `_process` with
  `normalize_level`, `parse_timestamp`, the four parsers, `fingerprint` and
  `_GroupAccumulator.add`. Comparing stamps with and without offset raises in
  Python, and so does a syslog day that does not exist: `reading = "raised"`.
- `Incident`: `Store` gives each row of `error_groups` its severity, that of the
  LLM where it answered, and an execution may have happened twice;
  `BuildTimeline` is `build_timeline` with its sort key; `RunAgent` is planner,
  investigator and verifier in the orchestrator's loop, `BudgetExceeded` its
  deadline between two agents, `Conclude` the stored row. With three agents the
  loop never reaches `MAX_STEPS`.
- `SimilarIncidents`: `Match` is `find_similar` for one top group (search by
  user with `EXTRA` hits beyond the limit, then without the own analysis, the
  weak and the surplus), `ShowBest` the endpoint's merge. Equal scores come in
  any order, so `Best` is a set of choices.

### Modules that only check or prove

`MCAnalysisJobs`, `MCSystem`, `MCBrowser` and `MCServices` give the constants
values. The last two hold modules that share no state. A behaviour plays one of
them: `part` says which, the others keep their first state, so the state space
is the sum and not the product of the parts; `Parts` lists what a run plays.

The theorems are in `AnalysisJobs_proofs` (types, rows of a run, insights,
delivery, vector store), `AnalysisBoard_proofs`, which extends it and `System`
(publication, refinement, pages over the workers), `AnalysisPage_proofs`,
`ChatSession_proofs`, `Browser_proofs` (tokens, and the three parts of
`MCBrowser` together), `Accounts_proofs`, `Incident_proofs` (groups and timeline)
and `Services_proofs` (limiter, chunks, uploads, similar incidents, and the six
parts of `MCServices` together).

Operators whose comment starts with "Mutant" are plausible bugs, each placed
before the definition it would replace; no specification uses them, and each
breaks one of the properties.

## 3. What the runs check

Seven runs pass.

| Run | Question | Instance |
|---|---|---|
| `jobs_insights` | Is the fingerprint cache sound across analyses and users? | 3 analyses, 2 users, 1 fingerprint, 1 budgeted fault, LLM and vector store may fail |
| `system` | Do pages and reports keep their promises when two runs of an analysis overlap under them? | 1 analysis, 2 fingerprints with equal counts, 1 redelivery to a second worker, LLM may fail, 1 visit and 1 report request, lists of 3 groups |
| `jobs_faults` | What do readers see when anything may fail, does it implement the board, and does anything hang? | 2 analyses of 2 users, one with 2 fingerprints of equal counts and one without errors, every fault, 2 of them, the LLM stage on and failing at will, `MaxRetries = 1` so that retries reach their limit |
| `jobs_survive` | Does every accepted analysis settle for good through crashes, refused connections and a broker that refuses messages? | 2 analyses, 2 faults, `MaxRetries = 2`, fair |
| `jobs_settle_ai` | Do the degraded paths lead to a final status, and every delivery to its end? | all stages on, LLM, vector store and files failing at will, 1 refused connection or redelivery of a held message, fair |
| `browser` | Does what a page shows agree with what the server has saved, for its account and its analysis, and does every wait end? | see below |
| `services` | Does each service keep its promise over all small inputs and interleavings? | see below |

The job runs use two workers, so that two executions can overlap; three would
add orders of the same pairwise conflicts. `MaxGroups = 2` against at most two
fingerprints per file lets a rerun see more groups than it may enrich.
`MaxFaults` bounds host losses, redeliveries of held messages, refused messages
and connections, database errors and the like together; LLM, vector store and
file failures are not bounded. Worker symmetry is used where no liveness is
checked.

Two sessions wait for each other only if they enrich the groups of an earlier
run in different orders. That takes three executions of one analysis, hence two
faults, and groups of equal counts, which is what `jobs_faults` has. PostgreSQL
aborts one of the two (`InsertDeadlock`); without that action the run ends in a
deadlock.

`browser`, by part:

| Part | Instance | Properties |
|---|---|---|
| chat | one page with two questions, with and without a lost connection or a closed page (`MaxCuts = 1`) while it streams; one page with three questions; or two pages with a question each, which race for the conversation | `DoneMeansSaved`, `ViewMatchesTranscript`, `NoSilentFailure`, `ImplementsTranscript`, `InputReturnsOnline` |
| auth | 2 accounts, 2 page requests beside restore and login, sessions that end or not; or 1 page request and a network that fails | `TokensMatchAccount`, `AnswersMatchAccount`, `ExpiryIsInvisible`, `RestoreEnds` |
| page | two visits while both analyses run, one of them twice; or one visit and two report requests while an analysis runs twice | `SettledShowsItself`, `ListsWholeRuns`, `PollsAreFresh`, `ReportsAreFresh`, `PageSettles` |

Two questions are what it takes for an answer to come late, three for two streams
that run at once: the `done` of the first answer gives the input back, and the
end of its stream gives it back again while the second is under way. Two pages
make the race, two requests for a double refresh, two runs for a board that changes
after it was complete. `PageLimit = 3` holds one run of an analysis and cuts off a
group of the second; the counts of its fingerprints differ here and are equal in
`system`, so the cut falls once among unequal groups and once among equal ones.

`services`, by part:

| Part | Instance | Properties |
|---|---|---|
| accounts | 3 requests of any kind for one email, 1 failing statement or commit, commit before or after the answer | `AllOrNone`, `OneRegistrationWins`, `RegisteredCanLogin`, `RequestsAreAnswered` |
| limiter | 2 keys with limits 2 and 1 in 2 time units, clock up to 4, so that the window slides past its first requests | `NeverMoreThanTimes`, `RefusedForReason` |
| chunks | logs of up to 14 lines with a blank stretch, windows of 4 lines, overlap 1, 2 chunks, so that the stride is widened | `EventsStayWhole` |
| incident | every log of up to 3 lines over nine kinds of line, and a logfmt log; a head of 2 lines; a second execution up to 4 rows | `GroupsMatchLines`, `FirstFailureIsEarliest` |
| uploads | sizes around both limits (3 and 5) and the chunk (2) | `UploadsAreWholeOrGone` |
| similar | 2 top groups or none, 3 past groups and up to 3 own ones, all scores of 1 to 3, limits 1 and 2, `EXTRA = 1` | `PastIsFound` |

Some properties name where they stop, because the code does:

- `ViewMatchesTranscript` and `NoSilentFailure` except questions sent before the
  history had arrived, which then replaces the list (`Chat.tsx:16`).
- `NoSilentFailure` also excepts questions sent while an earlier one of the page
  was being answered: two streams that run at once write over each other's tokens
  (`Chat.tsx:43`, `63`), and what is left of a failed one is up to the other.
- `TokensMatchAccount`, `AnswersMatchAccount` and `ExpiryIsInvisible` hold until
  a request from before the last sign in or out is answered, by which the tokens
  or the account that has left come back (`client.ts:65`).
- `ListsWholeRuns` and `PollsAreFresh` are about a list with a limit: of a run
  that it lists, or of what was on display, it leaves out a group only if it is
  full of groups that are as frequent; and it holds as many groups as its total
  announces, or as many as fit. Reports have no limit and hold whole runs.
- `SettlesOnce` assumes, with the LLM stage on, that no message is redelivered
  while a worker holds it: a second execution fails on the insights of the first.
  `DeliveriesEnd` holds without that.
- `RegisteredCanLogin` lets a right password be refused only where the commit
  comes after the answer: while it is outstanding, or when one has failed.
- `OneRegistrationWins` excepts a commit that fails after the answer was sent.
- `PastIsFound` assumes at most `EXTRA` groups of the analysis itself: the store
  is asked for the limit and a few more, and own groups are dropped afterwards.
  That a full answer has matches at least as similar is said of the first top
  group only: a point that an earlier group matched keeps its score, however
  much better it fits a later one.

Five runs confirm that the code does not do what a comment or a document says:

| Run | Says | The code |
|---|---|---|
| `jobs_v_idempotent` | ADR-002: tasks are idempotent | a crash between the last commit and the acknowledgement runs the task again, which inserts every group a second time |
| `jobs_v_lost` | `pipeline.py:63`: any exception leads to FAILED, never lost | a failing statement leaves the session unusable; the commit of FAILED raises; the row stays RUNNING, the message is gone |
| `chat_v_stuck` | `Chat.tsx:61`: settle the UI either way | a connection that breaks makes the awaited stream reject; nothing catches it and the input stays disabled |
| `auth_v_audit` | `docs/09_Security.md:68`: failed logins are in the audit log | the row is flushed, then the exception rolls it back |
| `incident_v_undated` | `agents.py:75`: verified only if the first failure is genuinely the earliest | a timeline without any time is verified, with confidence 0.85 |

Three more divergences follow from the same model of the jobs and have no run of
their own: a killed pool child acknowledges its task, although
`celery_app.py:11` promises redelivery after a crash (only a lost host is
redelivered); two workers miss the cache together, so there can be two LLM calls
per user and fingerprint (`analyze.py:5` says one); and a failed flush inside
`_enrich_one`, as a rerun causes for every group that has its insight, breaks
the session instead of degrading one group (`analyze.py:7`). The last has a
consequence: with the LLM stage on, a crash after the last commit makes the rerun
fail and leaves a *completed* analysis in RUNNING for good. So `NoLostJob` and
`Settles` are checked through crashes with the LLM stage off, and with the LLM
stage on `SettlesOnce`, without crashes.

### Fairness

All fairness is weak; nothing that is waited for is taken away again and again.
Faults and users have none.

- `FairSpec` (jobs): each worker's own steps, the API's step from commit to
  enqueue, delivery, and the visibility timeout of messages nobody holds. Event
  loop and worker processes run until they stop, a free pool child takes a
  message if there is one, and Redis restores messages periodically.
- `ChatFairness`: the steps of the endpoints and of the page's handlers. The
  event loops run, the database answers, a provider's stream ends by itself or by
  its timeout.
- `AuthFairness`: every request has an outcome, since `fetch` resolves or
  rejects.
- `PageFairness`: polls are answered or fail, and the browser's timer fires.
- `AccountFairness`: the statements of a request; a registration that waits for
  another gets the lock when that one commits or rolls back.

`InputReturnsOnline` and `RestoreEnds` need connections that hold; without that
the first is refuted by `chat_v_stuck`, and a refresh that rejects during the
restore leaves the page on "Loading session".

`Rest` and its siblings (`ChatRest`, `PageRest`, `AccountRest`, `ServicesRest`)
let a finished system stutter, so deadlock checking stays on in every run and
finds any other state without a successor, sessions that wait for each other
included.

## 4. What is proved

Every theorem holds for all values of the constants that the named assumption of
its module allows: types of the constants, and what is said below. Each
invariant that a theorem needs was checked by TLC on an instance before it was
proved.

### Analyses

From `ConstantsAssumption` (types, a finite set of fingerprints), for any number
of users, analyses, workers, retries and faults:

| Theorem | Statement | Module |
|---|---|---|
| `TypeCorrect` | `Spec => []TypeOK` | `AnalysisJobs_proofs` |
| `RunsStayAtomic` | `Spec => []RunsAreAtomic` | `AnalysisJobs_proofs` |
| `CompletedMeansResults` | `Spec => []CompletedHasResults` | `AnalysisJobs_proofs` |
| `WorkersFindTheirRow` | `Spec => []WorkerFindsRow` | `AnalysisJobs_proofs` |
| `CacheStaysGrounded` | `Spec => []CacheIsGrounded` | `AnalysisJobs_proofs` |
| `InsightsStayOwned` | `Spec => []InsightsAreOwned` | `AnalysisJobs_proofs` |
| `InsightsStayUnique` | `Spec => []OneInsightPerGroup` | `AnalysisJobs_proofs` |
| `OnlyRefusalsLoseJobs` | if `Survivable`: `Spec => [][RefusalsLose]_vars` | `AnalysisJobs_proofs` |
| `NoJobIsLost` | if `Survivable` and `FewRefusals`: `Spec => []NoLostJob` | `AnalysisJobs_proofs` |
| `CommittedStaysIndexed` | if `IndexWorks`: `Spec => []CommittedIsIndexed` | `AnalysisJobs_proofs` |
| `RunsArePublishedAtOnce` | `Spec => PublishedAtOnce` | `AnalysisBoard_proofs` |
| `WorkersImplementBoard` | `Spec => ImplementsBoard` | `AnalysisBoard_proofs` |
| `ResultsReachPages` | if `Page!PageAssumption`: `SystemSpec => []PagesKeepPromises` | `AnalysisBoard_proofs` |

`RunsAreAtomic` is not inductive: it says nothing of the rows that sessions
still hold. `RunInv` adds that executions of an analysis have distinct numbers
not yet used by committed rows (`RunsAreFresh`), that a session holds all groups
of its run from the flush to the commit and none otherwise (`LocalRows`), and
that every id in a message or a session has its row (`RowsExist`). With these,
the commit of a run adds all its groups where none were. Most actions leave
committed rows alone and keep the session's message and run; one lemma
(`QuietStep`) covers them, another (`ReleaseStep`) covers every end of a
delivery, a third (`FrameStep`) the API and the broker, and only `Deliver` and
`Finish` need an argument of their own.

The insights need an invariant of their own, `InsightInv`, inductive together
with `TypeOK` and `RunInv`. `OneInsightPerGroup`, which it contains, has no run
of its own; `ImplementsBoard` checks it as a part of what may go on display.
`TodoIsVisible` says that a session enriches only groups that are committed or
its own, although other runs commit meanwhile; `LocalInsights` says of the
uncommitted insights of a session what the theorems say of committed ones,
except that the LLM answer behind a copy may still be in the same session;
`InsightsAreUnique` says that no two insights, in whatever sessions, share a
group, which is what the wait for the unique key guarantees. A step of a session
either keeps its insights or drops them (`KeepInsights`, `DropInsights`), and
only `session.add` (`AddKeeps`), the flush (`InsertionKeeps`) and the commit
(`FinishKeeps`) need more. A row that is added is an insight in all but name
until it is flushed: its payload came from the cache or the LLM before, other
sessions commit meanwhile, and `LocalInsights` covers it too.

`NoLostJob` is false for some faults, so its theorem names those that the code
survives. `Survivable`: no fault that acknowledges the message of an unfinished
task (a killed pool child, a failing setup, a failing statement) or hands it to
a second worker meanwhile; and no crash while the LLM stage is on, because a
second execution fails on the insights of the first. Connections may be refused
any number of times. Then one kind of step alone can lose an accepted job, the
refusal of a connection after `max_retries` retries of its task
(`RefusalsLose`), and no job is lost if there are fewer faults than that
(`FewRefusals`). The run `jobs_survive` is an instance of the second.
`DeliveryInv` is the argument: an accepted analysis has one message at most, in
one place (`OneMessage`); a busy worker holds it alone (`OneHolder`), so that no
two workers execute one analysis; no session breaks, and one is through only
when its row is final (`SessionsHold`); and with the LLM stage on, an analysis
with committed groups is through (`FirstRun`), so that no insert meets another
insight for its group. A message that leaves the broker belongs to a row that is
final, or is published again with one retry more, or has had all of them; and a
message has no more retries than faults have happened. `IndexWorks` says that
the vector store is configured and answers; then a session selects for the store
whatever it is about to commit, and has indexed it when it commits
(`IndexedFirst`), whatever else fails.

For the refinement, `ReadersSee` shows that four actions alone change what
readers see: `Register`, `Begin`, `FailRead` and `Finish`. They are the steps
`Submit`, `Start`, `Fail` and `Publish` of the board (a `Begin` of a row that was
loaded as RUNNING is a stutter). `Publish` asks for a fresh whole run, from
`RunInv`, and for grounded, owned and unique insights, from `InsightInv` after
the step; `Submit` needs that an analysis nobody submitted has no row.
`PublishedAtOnce`, which says it in terms of the workers' executions, has no run of
its own beside `ImplementsBoard`.

`ResultsReachPages` puts the two halves together. `SystemSpec` implies `Spec`, so
what is invariant of the workers holds under the pages (`BoardIInv`); a step of
the workers is therefore a step of the board as pages see it (`StepOfBoard`,
`PagesSeeBoard`), and a step of `SystemNext` one of `OpenNext`, the page over any
board. `PageInv`, read through the instance, is preserved by such steps.

### The page that polls

From `PageAssumption` (files have finitely many groups with counts, a page has
room for one), for any limit and any number of visits, report requests and
analyses:

| Theorem | Statement | Module |
|---|---|---|
| `PagesReadTheBoard` | `PageSpec => BoardSpec` | `AnalysisPage_proofs` |
| `SettledPagesShowThemselves` | `[]SettledShowsItself` | `AnalysisPage_proofs` |
| `PagesListWholeRuns` | `[]ListsWholeRuns` | `AnalysisPage_proofs` |
| `PollsStayFresh` | `PollsAreFresh` | `AnalysisPage_proofs` |
| `ReportsStayFresh` | `ReportsAreFresh` | `AnalysisPage_proofs` |

The last four are proved of `PageSpec` and of `OpenSpec`, in which workers move
in any way the board allows, not only as often as a plan of TLC's runs says.
Over the workers of `AnalysisJobs` they are `ResultsReachPages`. `PageInv`
follows one chain of requests: what has been read by each stage (`ChainOK`),
that it only grows with the board, and that a whole run was there before the
first statement looked. Each statement reads the board of its moment; a list is
whole because the board holds whole runs at every moment, and no older than the
question because nothing is withdrawn. The limit needs a lemma (`LimitAnswers`):
the most frequent of a finite set are all of it, or they fill the page and what
is left out is not more frequent (`Crowded`). That stays true as the board
grows, because the list is compared with what it was cut from, and a list
without a limit is the special case of the reports (`AllAnswers`). `LoadsItself`
says that the current chain, once it loads, is the one whose status the page
shows, which is what keeps late answers of earlier visits away.

### Tokens

From `AuthAssumption` (the accounts and requests have names of their own), for any
number of accounts and concurrent requests:

| Theorem | Statement | Module |
|---|---|---|
| `OneAccountAtATime` | `AuthSpec => []AuthInv` | `Browser_proofs` |
| `TokensStayWithAccount` | `AuthSpec => []TokensMatchAccount` | `Browser_proofs` |
| `AnswersStayWithAccount` | `AuthSpec => AnswersMatchAccount` | `Browser_proofs` |
| `ExpiryStaysInvisible` | `AuthSpec => ExpiryIsInvisible` | `Browser_proofs` |

`OneOwner` says that, until an answer that came late has mixed two accounts, one
account owns everything that is not late: the stored tokens, those a refresh, the
restore or the login asks with, and every request of a page. A change of the
account makes all that is outstanding late at once (`Overtaking`), so the new
owner starts alone; a late request may still be refused or fail without harm.
`SessionHasToken` says that a session that has begun can refresh. Stating one
owner, rather than pairs of tokens that agree, is what makes it inductive: a
refresh that is answered later compares with tokens that were not there when it
was sent.

### Uploads, accounts and the chat

From `UploadAssumption`, `AccountAssumption` and `ChatAssumption` (types, and that
there is an email), for any sizes and limits, any number of requests, emails,
pages, questions, database failures and lost connections:

| Theorem | Statement | Module |
|---|---|---|
| `UploadsStayWhole` | `UploadSpec => []UploadsAreWholeOrGone` | `Services_proofs` |
| `RequestsLandWhole` | `AccountSpec => []AllOrNone` | `Accounts_proofs` |
| `OneRegistrationPerEmail` | `AccountSpec => []OneRegistrationWins` | `Accounts_proofs` |
| `RegisteredAreWelcome` | `AccountSpec => []RegisteredCanLogin` | `Accounts_proofs` |
| `ChatKeepsTranscript` | `ChatSpec => ImplementsTranscript` | `ChatSession_proofs` |
| `DoneIsSaved` | `ChatSpec => []DoneMeansSaved` | `ChatSession_proofs` |
| `ViewIsTranscript` | `ChatSpec => []ViewMatchesTranscript` | `ChatSession_proofs` |
| `FailuresShow` | `ChatSpec => []NoSilentFailure` | `ChatSession_proofs` |

`UploadsAreWholeOrGone` speaks of results. `StageDone` says what each
stage has done so far (the file has as many bytes as were read, and all of them
once the rows are written), `Kept` what stays true at the end.

For the accounts, `Written` says which rows a request holds or has committed at
each stage, `Outcome` what it will answer, `Entitled` whose account must be
there: that of tokens a login issued, and one whose registration was announced,
or over if the commit comes after the answer. `Welcome` says that it is there and
that good credentials for it are not refused. `OneRowPerEmail` ranges over
committed and flushed rows together: it is the wait for the unique key that
keeps it. A step changes one request (`StepKeeps`), and the others keep their
conjuncts because committed rows are never taken back (`OthersStay`).

For the transcript, `RowsOf` says that nothing of a question is saved before its
commit, and of a streaming question exactly its own row. So the commit of a
question and that of its answer are the steps `Ask` and `Answer` of
`Transcript`, a history that creates the conversation is `Open`, and all other
steps change no row.

For what the pages show, `ChatInv` relates the two ends of a stream.
`AnswerOnWire` lists what can be under way to a page that listens, by how far the
server is, what the handler has collected and whether the answer is saved: a
`done` event is on the wire only if the row is committed and the handler has, or
has before it, every token. `HistoryOK` says that the history arrives once, so
that questions sent after it stay (`ShownOK`). A failure leaves its trace
(`TraceOK`) as long as the question streams alone (`Alone`), which is where the
exception of `NoSilentFailure` comes from: without it the invariant is not
inductive, and a run with three questions on a page shows why.

### Limiter, chunks and similar incidents

From `LimiterAssumption` (limits and windows are natural numbers),
`ChunkAssumption` (the overlap is smaller than the window, at least one chunk is
allowed) and `SearchAssumption` (finite stores, integer scores), for any keys,
limits, timing, logs, stores and ties:

| Theorem | Statement | Module |
|---|---|---|
| `LimiterTypeCorrect` | `LimiterSpec => []LimiterTypeOK` | `Services_proofs` |
| `LimitHolds` | `LimiterSpec => []NeverMoreThanTimes` | `Services_proofs` |
| `RefusalsAreJustified` | `LimiterSpec => []RefusedForReason` | `Services_proofs` |
| `EventsAreNeverTorn` | `ChunkSpec => []EventsStayWhole` | `Services_proofs` |
| `PastStaysFound` | `SimilarSpec => []PastIsFound` | `Services_proofs` |

`NeverMoreThanTimes` is about the whole history, the code remembers only a
window. `WindowIsRecentEnd` relates them: the window is the end of the history,
no longer than the limit, and everything before it is old. `EvictedAreOld` keeps
that through the eviction loop, which stops at the first recent hit; so an
accepted request that has `times` predecessors finds the first of them outside
the window, hence old, and `Spaced` is kept. A refusal (`Refusals`) sees a full
window of recent hits, and as times are accepted in order (`InOrder`), later
requests take none of them away from it.

For the chunks, `DoneBefore` says that every stretch of lines no longer than the
overlap that begins at or before `start` is in one chunk already. A turn of the
loop adds a window of stride plus overlap, which holds every such stretch that
begins within the stride; `StrideIsPositive` covers the widened stride.

For similar incidents, `FetchedAreEnough` is the lemma behind `EXTRA`: of the
best `limit + EXTRA` hits at most `EXTRA` are the analysis's own, so the rest has
the match or `limit` that are as good. `TopIsFound` carries it through the merge
of later groups, since more items push nothing out that was not beaten, and
`BestLeavesOut` through the final cut. For the groups after the first,
`EachIsFound` says that a match was found or `limit` others were, `ItemsDiffer`
that items are of different points; so a cut that leaves the match out is full
(`ShownAreAll`, `FewerPoints`).

### Groups and timeline

From `LogAssumption` and `IncidentAssumption` (types), for logs of any length, any
answers of the LLM about severity and any number of second executions:

| Theorem | Statement | Module |
|---|---|---|
| `GroupsSayWhatLinesSay` | `GroupSpec => []GroupsMatchLines` | `Incident_proofs` |
| `InvestigationsKeepGroups` | `IncidentSpec => []GroupsMatchLines` | `Incident_proofs` |
| `FirstFailureStaysEarliest` | `IncidentSpec => []FirstFailureIsEarliest` | `Incident_proofs` |

`GroupsMatchLines` is about a log that has been read; `GroupInv` says the same of
its first lines at every turn of the loop: counters are cardinalities of sets of
lines, and every group is that of its lines so far (`GroupMatches`), with the
smallest and largest of their times and the first of their texts. One more line
changes one group, and `RaisedForReason` says what may stop the loop.

The timeline is sorted by ranks. `RanksList` is the lemma about sorting: in a
total order of `N` elements the number of elements up to each is a permutation of
`1..N`; its proof is by cardinalities, since induction over sequences is not
available. `SortIsTotalOrder` shows that the sort key with ties left in place is
such an order. `InDateOrder` and `Marked` then give the theorem: undated events
come last, so the marked one is not later than any dated event, and every time in
the log is at or after that of its group.

### Types, and the combined models

From the assumptions above:

| Theorem | Statement | Module |
|---|---|---|
| `IncidentTypeCorrect` | `IncidentSpec => []IncidentTypeOK` | `Incident_proofs` |
| `ServicesAreTheirParts` | `ServicesSpec` implies the specification of each of its six parts | `Services_proofs` |
| `ServicesTypeCorrect` | `ServicesSpec => []ServicesTypeOK` | `Services_proofs` |
| `BrowserIsItsParts` | `BrowserSpec => ChatSpec /\ AuthSpec /\ PageSpec` | `Browser_proofs` |
| `BrowserTypeCorrect` | `BrowserSpec => []BrowserTypeOK` | `Browser_proofs` |

A step of a combined model is a step of one part and a stutter of the others, so
a behaviour that TLC plays is one of every part, and each theorem about a part is
about what the run checks. Each part has a type theorem of its own
(`AccountTypeCorrect`, `LimiterTypeCorrect`, `ChunkTypeCorrect`,
`UploadTypeCorrect`, `SimilarTypeCorrect`, `ChatTypeCorrect`, `AuthTypeCorrect`,
`PageTypeCorrect`). Most follow from the invariants above; what an agent may write into
an investigation (`AgentsTyped`) and that a board shows only planned runs
(`OnlyPlannedGroups`) are invariants of their own.

### Only model-checked

- Liveness (`Settles`, `SettlesOnce`, `DeliveriesEnd`, `InputReturnsOnline`,
  `RestoreEnds`, `PageSettles`, `RequestsAreAnswered`), which is out of the
  prover's reach.
- That the five divergences of section 3 occur.

## 5. Not modelled

- *Reports and remediation commands*: the markdown and the command catalogue are
  text without state. *Prompt-injection guards* rewrite strings by regular
  expressions; what they let pass is decided character by character.
- *Retrieval scores and embeddings* are floating point over words. Scores are
  inputs of `SimilarIncidents`; that retrieval refuses, answers or raises is a
  choice in `ChatSession`. The HTTP of the Qdrant store is left out, and so is
  the rounding of scores for display (`similarity.py:71`): it comes after the
  hits were chosen, and the sorting that follows it is stable.
- *LLM providers*: that a call or a stream returns, breaks or fails is in
  `AnalysisJobs` and `ChatSession`; HTTP and JSON are not.
- *InlineTaskQueue*, which tests use instead of Celery.
- *Reading endpoints* other than status, groups and similar incidents, the
  stored investigation, and offsets, with which no page but the history list
  asks; *history, upload and landing pages*, which send one request and show
  its answer.
- *Health probes, rendering of metrics, startup*, configuration, logging,
  schemas, migrations and deployment: no behaviour over time.
- *Hashing and tokens* are taken to work: a token names its account and is
  issued, expired or not valid. Deactivated accounts are left out, because
  nothing deactivates one.
- *The number of chunks*: `MAX_CHUNKS` is a target that the widened stride misses
  by a few, and the tests tolerate that; there is no exact bound to state.
- *The size of the limiter's table*, which has no bound in the code.

## 6. What is left to do

1. The history list with its offsets while analyses are added.
2. Several pages of a user at once over the workers: `System` has one page, whose
   own promises do not depend on others, but reports are shared.
3. A second execution with the LLM stage on, if the code comes to skip groups
   that have their insight: `Survivable` could then allow crashes there.
