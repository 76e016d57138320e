------------------------------ MODULE Accounts ------------------------------
(***************************************************************************)
(* The requests that create accounts and hand out tokens, each in the one  *)
(* database session that get_db opens, commits and rolls back.  A session  *)
(* sees its own rows and the committed ones; its statements are steps that *)
(* other requests interleave with.  FastAPI, whose version is not pinned,  *)
(* runs what follows the yield of get_db before it sends the answer or     *)
(* after: commitFirst says which.                                          *)
(***************************************************************************)
EXTENDS Naturals, FiniteSets

CONSTANTS
    AccountReqs,  \* requests
    Emails,       \* the email stands for the account, its id and its password
    MaxDbFaults   \* statements and commits that fail

ASSUME AccountAssumption == Emails # {} /\ MaxDbFaults \in Nat

VARIABLES
    commitFirst,
    db,         \* committed rows of users and audit_logs
    pending,    \* rows a session has flushed
    asked,      \* what each request asks for, and where it stands
    counted,    \* requests in http_requests_total
    dbFaults    \* failures so far

accountVars == <<commitFirst, db, pending, asked, counted, dbFaults>>

Ops == {"register", "login", "refresh", "me"}
\* What a request brings: a password, or a token, issued or not valid.
Creds == {"right", "wrong", "access", "refresh", "invalid"}
Row == [table : {"users", "audit_logs"},
        key : Emails \union {"success", "failure"}, by : AccountReqs]
\* known is a history variable: whether the client was told of the account
\* before it sent the request, and whether the session that had created it was
\* over by then.
Request == [op : Ops, email : Emails, cred : Creds, known : {"no", "told", "over"},
            stage : {"idle", "start", "create", "record", "refuse", "done",
                     "raise", "reply", "late", "ended"},
            status : {0, 200, 201, 401, 409, 500},
            answer : {0, 200, 201, 401, 409, 500}]

Exists(e) == \E w \in db : w.table = "users" /\ w.key = e
UserRow(r) == [table |-> "users", key |-> asked[r].email, by |-> r]
AuditRow(r, outcome) == [table |-> "audit_logs", key |-> outcome, by |-> r]
Answered(e, op, code) ==
    {r \in AccountReqs : asked[r].email = e /\ asked[r].op = op
                         /\ asked[r].answer = code}
Heard(e) ==
    LET told == Answered(e, "register", 201) IN
    IF \E r \in told : asked[r].stage = "ended" THEN "over"
    ELSE IF told # {} THEN "told" ELSE "no"

AccountInit ==
    /\ commitFirst \in BOOLEAN
    /\ db = {}
    /\ pending = [r \in AccountReqs |-> {}]
    /\ asked = [r \in AccountReqs |->
          [op |-> "me", email |-> CHOOSE e \in Emails : TRUE, known |-> "no",
           cred |-> "invalid", stage |-> "idle", status |-> 0, answer |-> 0]]
    /\ counted = {}
    /\ dbFaults = 0
-----------------------------------------------------------------------------
Goes(r, stage, status) ==
    asked' = [asked EXCEPT ![r].stage = stage, ![r].status = status]
Answers(r, stage) ==
    asked' = [asked EXCEPT ![r].answer = asked[r].status, ![r].stage = stage]

\* A client has the tokens of an account once a login was answered.
Sends(r, op, e, cred) ==
    /\ asked[r].stage = "idle"
    /\ \/ op = "register" /\ cred = "right"
       \/ op = "login" /\ cred \in {"right", "wrong"}
       \/ op \in {"refresh", "me"} /\ cred = "invalid"
       \/ /\ op \in {"refresh", "me"} /\ cred \in {"access", "refresh"}
          /\ Answered(e, "login", 200) # {}
    /\ asked' = [asked EXCEPT ![r] =
          [op |-> op, email |-> e, cred |-> cred, stage |-> "start",
           known |-> Heard(e), status |-> 0, answer |-> 0]]
    /\ UNCHANGED <<commitFirst, db, pending, counted, dbFaults>>

\* The account is looked up, by its email or by the subject of the token.
Lookup(r) ==
    LET q == asked[r] IN
    /\ q.stage = "start"
    /\ \/ /\ q.op = "register"
          /\ IF Exists(q.email) THEN Goes(r, "refuse", 409)
             ELSE Goes(r, "create", 201)
       \/ /\ q.op = "login"
          /\ IF Exists(q.email) /\ q.cred = "right" THEN Goes(r, "record", 200)
             ELSE Goes(r, "refuse", 401)
       \/ /\ q.op = "refresh"
          /\ IF q.cred # "refresh" THEN Goes(r, "refuse", 401)
             ELSE IF Exists(q.email) THEN Goes(r, "record", 200)
             ELSE Goes(r, "raise", 401)
       \/ /\ q.op = "me"
          /\ IF q.cred = "access" /\ Exists(q.email) THEN Goes(r, "done", 200)
             ELSE Goes(r, "raise", 401)
    /\ UNCHANGED <<commitFirst, db, pending, counted, dbFaults>>

MutCreate(r) ==  \* Mutant: the email has no unique key.
    /\ asked[r].stage = "create"
    /\ pending' = [pending EXCEPT ![r] = @ \union {UserRow(r)}]
    /\ Goes(r, "record", 201)
    /\ UNCHANGED <<commitFirst, db, counted, dbFaults>>

\* The flush of the account.  It waits for a session that has flushed the same
\* email; if that one commits, the unique key raises, which nothing handles.
Create(r) ==
    LET e == asked[r].email IN
    /\ asked[r].stage = "create"
    /\ \A s \in AccountReqs :
          \A w \in pending[s] : w.table = "users" => w.key # e
    /\ IF Exists(e)
       THEN Goes(r, "raise", 500) /\ UNCHANGED pending
       ELSE /\ pending' = [pending EXCEPT ![r] = @ \union {UserRow(r)}]
            /\ Goes(r, "record", 201)
    /\ UNCHANGED <<commitFirst, db, counted, dbFaults>>

\* The flush of the audit row.  A refusal is raised after that.
Record(r) ==
    LET q == asked[r]
        ok == q.stage = "record" IN
    /\ q.stage \in {"record", "refuse"}
    /\ pending' = [pending EXCEPT ![r] =
          @ \union {AuditRow(r, IF ok THEN "success" ELSE "failure")}]
    /\ Goes(r, IF ok THEN "done" ELSE "raise", q.status)
    /\ UNCHANGED <<commitFirst, db, counted, dbFaults>>

Ready(r) == asked[r].stage = (IF commitFirst THEN "done" ELSE "late")

MutCommit(r) ==  \* Mutant: the session closes without a commit.
    /\ Ready(r)
    /\ pending' = [pending EXCEPT ![r] = {}]
    /\ Goes(r, IF commitFirst THEN "reply" ELSE "ended", asked[r].status)
    /\ UNCHANGED <<commitFirst, db, counted, dbFaults>>

\* get_db: the commit.
Commit(r) ==
    /\ Ready(r)
    /\ db' = db \union pending[r]
    /\ pending' = [pending EXCEPT ![r] = {}]
    /\ Goes(r, IF commitFirst THEN "reply" ELSE "ended", asked[r].status)
    /\ UNCHANGED <<commitFirst, counted, dbFaults>>

\* The answer of the handler; _track counts it.
Reply(r) ==
    /\ asked[r].stage = (IF commitFirst THEN "reply" ELSE "done")
    /\ Answers(r, IF commitFirst THEN "ended" ELSE "late")
    /\ counted' = counted \union {r}
    /\ UNCHANGED <<commitFirst, db, pending, dbFaults>>

\* A statement or the commit raises.  After the answer, nobody is told.
DbFails(r) ==
    /\ dbFaults < MaxDbFaults
    /\ dbFaults' = dbFaults + 1
    /\ \/ /\ asked[r].stage \in {"start", "create", "record", "refuse"}
                \union (IF commitFirst THEN {"done"} ELSE {})
          /\ Goes(r, "raise", 500)
          /\ UNCHANGED pending
       \/ /\ asked[r].stage = "late"
          /\ Goes(r, "ended", asked[r].status)
          /\ pending' = [pending EXCEPT ![r] = {}]
    /\ UNCHANGED <<commitFirst, db, counted>>

MutRaise(r) ==  \* Mutant: the session is committed whatever happens.
    /\ asked[r].stage = "raise"
    /\ db' = db \union pending[r]
    /\ pending' = [pending EXCEPT ![r] = {}]
    /\ Answers(r, "ended")
    /\ counted' = IF asked[r].status = 500 THEN counted ELSE counted \union {r}
    /\ UNCHANGED <<commitFirst, dbFaults>>

MutRaiseOpen(r) ==  \* Mutant: no rollback, and the session stays open.
    /\ asked[r].stage = "raise"
    /\ Answers(r, "ended")
    /\ counted' = IF asked[r].status = 500 THEN counted ELSE counted \union {r}
    /\ UNCHANGED <<commitFirst, db, pending, dbFaults>>

\* get_db rolls back, and the handlers of core/exceptions answer.  An unexpected
\* exception passes the middleware by, which then counts nothing.
Raise(r) ==
    /\ asked[r].stage = "raise"
    /\ pending' = [pending EXCEPT ![r] = {}]
    /\ Answers(r, "ended")
    /\ counted' = IF asked[r].status = 500 THEN counted ELSE counted \union {r}
    /\ UNCHANGED <<commitFirst, db, dbFaults>>

RequestStep(r) == \/ Lookup(r) \/ Create(r) \/ Record(r)
                  \/ Commit(r) \/ Reply(r) \/ Raise(r)

AccountRest == /\ \A r \in AccountReqs : asked[r].stage = "ended"
               /\ UNCHANGED accountVars

AccountNext ==
    \/ \E r \in AccountReqs :
          \/ RequestStep(r) \/ DbFails(r)
          \/ \E op \in Ops, e \in Emails, cred \in Creds : Sends(r, op, e, cred)
    \/ AccountRest

AccountSpec == AccountInit /\ [][AccountNext]_accountVars
AccountFairness == \A r \in AccountReqs : WF_accountVars(RequestStep(r))
-----------------------------------------------------------------------------
(* Properties. *)

\* Types of all variables.
AccountTypeOK ==
    /\ commitFirst \in BOOLEAN /\ db \subseteq Row
    /\ pending \in [AccountReqs -> SUBSET Row]
    /\ asked \in [AccountReqs -> Request]
    /\ counted \subseteq AccountReqs /\ dbFaults \in 0 .. MaxDbFaults

\* All writes of a request land or none do (core/db.py:35-37): an account is
\* never without the audit row of its registration, nor the row without it,
\* and what a refused or failed request wrote is gone.
AllOrNone ==
    \A r \in AccountReqs :
        /\ asked[r].op = "register" =>
              (UserRow(r) \in db <=> AuditRow(r, "success") \in db)
        /\ asked[r].answer >= 400 => \A w \in db : w.by # r

\* Of the registrations of an email one is answered with an account, however
\* they race, and its row is the account; the others get an error.
OneRegistrationWins ==
    \A r, s \in AccountReqs :
        /\ asked[r].op = "register" /\ asked[r].answer = 201
        /\ asked[s].op = "register" /\ asked[s].email = asked[r].email
        /\ s # r
        => asked[s].answer # 201 \/ (~commitFirst /\ dbFaults > 0)

\* Whoever was told that the account exists can log in at once, and the tokens
\* of a login are good.  A right password is refused only if the commit comes
\* after the answer: while it is outstanding, or when one has failed.
Good(q) == <<q.op, q.cred>> \in
    {<<"login", "right">>, <<"refresh", "refresh">>, <<"me", "access">>}
RegisteredCanLogin ==
    \A r \in AccountReqs :
        LET q == asked[r] IN
        Good(q) /\ q.answer = 401 =>
            /\ q.op = "login"
            /\ q.known # "no" => /\ ~commitFirst
                                 /\ q.known = "over" => dbFaults > 0

\* Every request is answered, though registrations wait for each other.
RequestsAreAnswered ==
    []<>(\A r \in AccountReqs : asked[r].stage \in {"idle", "ended"})

\* Logins that fail are in the audit log like those that succeed
\* (docs/09_Security.md:68-69).
LoginsAreAudited ==
    \A r \in AccountReqs :
        asked[r].op = "login" /\ asked[r].stage = "ended"
            /\ asked[r].answer \in {200, 401}
        => \E outcome \in {"success", "failure"} : AuditRow(r, outcome) \in db
=============================================================================
