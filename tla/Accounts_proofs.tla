--------------------------- MODULE Accounts_proofs ---------------------------
(***************************************************************************)
(* Requests on accounts land as a whole or not at all, one registration of *)
(* an email wins, and who has been told of an account can use it: for any  *)
(* number of requests, emails and database failures.                       *)
(***************************************************************************)
EXTENDS Accounts, TLAPS

Quiet(r) == \A w \in db : w.by # r

\* A registration's account and its audit row are in S together.
Both(r, S) ==
    asked[r].op = "register" =>
        (UserRow(r) \in S <=> AuditRow(r, "success") \in S)
Has(r, S) == asked[r].op = "register" => UserRow(r) \in S

\* What a request has written, by its stage: rows of its own, committed only
\* at the end.
Written(r) ==
    LET q == asked[r] IN
    /\ \A w \in pending[r] : w.by = r
    /\ q.stage \in {"idle", "start", "create"} => pending[r] = {}
    /\ q.stage = "record" /\ q.op = "register" => pending[r] = {UserRow(r)}
    /\ q.stage \in {"done", "late"} => Both(r, pending[r]) /\ Has(r, pending[r])
    /\ q.stage \notin {"reply", "ended"} => Quiet(r)
    /\ q.stage = "reply" => Has(r, db)
    /\ q.stage = "ended" /\ q.answer = 201
          => Has(r, db) \/ (~commitFirst /\ dbFaults > 0)
    /\ q.answer >= 400 => Quiet(r)
    /\ Both(r, db)

\* What it will answer, and that it has not answered before its time.
Outcome(r) ==
    LET q == asked[r] IN
    /\ q.stage \in {"create", "record", "done", "late", "reply"}
          => q.status < 400
    /\ q.stage \in {"refuse", "raise"} => q.status >= 400
    /\ IF q.stage \in {"late", "ended"} THEN q.answer = q.status
       ELSE q.answer = 0
    /\ q.stage = "late" => ~commitFirst
    /\ q.stage = "reply" => commitFirst

\* Whose account must be there: who was told of it, once its session is over,
\* and who has its tokens.
Entitled(q) ==
    \/ q.known # "no" /\ (commitFirst \/ (q.known = "over" /\ dbFaults = 0))
    \/ q.op # "login" /\ Good(q)

\* It is, as it is for who has just logged in, and good credentials for it are
\* never refused.
Welcome(r) ==
    LET q == asked[r] IN
    /\ Entitled(q) => Exists(q.email) /\ (Good(q) => q.status # 401)
    /\ q.op = "login" /\ q.status = 200 => Exists(q.email)

\* Rows of users, committed or flushed, that name the same email are of one
\* request.
InPlay(w) == w \in db \/ \E s \in AccountReqs : w \in pending[s]
OneRowPerEmail ==
    \A w1, w2 \in Row :
        /\ InPlay(w1) /\ InPlay(w2)
        /\ w1.table = "users" /\ w2.table = "users" /\ w1.key = w2.key
        => w1.by = w2.by

Requests ==
    \A r \in AccountReqs : Written(r) /\ Outcome(r) /\ Welcome(r)

AccountInv == AccountTypeOK /\ Requests /\ OneRowPerEmail
-----------------------------------------------------------------------------
\* Everybody starts with nothing.
LEMMA AccountInvInit == AccountInit => AccountInv
<1> SUFFICES ASSUME AccountInit
             PROVE  AccountInv
    OBVIOUS
<1>1. (CHOOSE e \in Emails : TRUE) \in Emails
    BY AccountAssumption
<1>2. AccountTypeOK
    BY <1>1, AccountAssumption
       DEF AccountInit, AccountTypeOK, Request, Ops, Creds
<1>3. Requests
    BY DEF AccountInit, Requests, Written, Outcome, Welcome, Entitled, Good, Quiet,
           Both, Has
<1>4. OneRowPerEmail
    BY DEF AccountInit, OneRowPerEmail, InPlay
<1> QED
    BY <1>2, <1>3, <1>4 DEF AccountInv

\* What Goes changes of a request.
LEMMA GoesOn ==
    ASSUME AccountTypeOK, NEW r \in AccountReqs, NEW stage, NEW status,
           Goes(r, stage, status),
           stage \in {"idle", "start", "create", "record", "refuse", "done",
                      "raise", "reply", "late", "ended"},
           status \in {0, 200, 201, 401, 409, 500}
    PROVE  /\ asked' \in [AccountReqs -> Request]
           /\ asked'[r].stage = stage /\ asked'[r].status = status
           /\ asked'[r].op = asked[r].op /\ asked'[r].email = asked[r].email
           /\ asked'[r].cred = asked[r].cred
           /\ asked'[r].known = asked[r].known
           /\ asked'[r].answer = asked[r].answer
           /\ \A s \in AccountReqs : s # r => asked'[s] = asked[s]
<1> DEFINE a == [asked EXCEPT ![r].stage = stage]
<1>1. asked' = [a EXCEPT ![r].status = status]
    BY DEF Goes
<1>2. /\ a \in [AccountReqs -> Request]
      /\ a[r].stage = stage /\ a[r].op = asked[r].op
      /\ a[r].email = asked[r].email /\ a[r].cred = asked[r].cred
      /\ a[r].known = asked[r].known /\ a[r].answer = asked[r].answer
      /\ \A s \in AccountReqs : s # r => a[s] = asked[s]
    BY DEF AccountTypeOK, Request
<1> HIDE DEF a
<1> QED
    BY <1>1, <1>2 DEF Request

\* The same for an answer, which Reply and Raise give.
LEMMA AnswersNow ==
    ASSUME AccountTypeOK, NEW r \in AccountReqs, NEW stage,
           stage \in {"idle", "start", "create", "record", "refuse", "done",
                      "raise", "reply", "late", "ended"},
           Answers(r, stage)
    PROVE  /\ asked' \in [AccountReqs -> Request]
           /\ asked'[r].stage = stage /\ asked'[r].status = asked[r].status
           /\ asked'[r].op = asked[r].op /\ asked'[r].email = asked[r].email
           /\ asked'[r].cred = asked[r].cred
           /\ asked'[r].known = asked[r].known
           /\ asked'[r].answer = asked[r].status
           /\ \A s \in AccountReqs : s # r => asked'[s] = asked[s]
<1> DEFINE a == [asked EXCEPT ![r].answer = asked[r].status]
<1>1. asked' = [a EXCEPT ![r].stage = stage]
    BY DEF Answers
<1>2. /\ a \in [AccountReqs -> Request]
      /\ a[r].answer = asked[r].status /\ a[r].op = asked[r].op
      /\ a[r].email = asked[r].email /\ a[r].cred = asked[r].cred
      /\ a[r].known = asked[r].known /\ a[r].status = asked[r].status
      /\ \A s \in AccountReqs : s # r => a[s] = asked[s]
    BY DEF AccountTypeOK, Request
<1> HIDE DEF a
<1> QED
    BY <1>1, <1>2 DEF Request

\* Whose a row is.
LEMMA RowsAreOwn ==
    ASSUME AccountTypeOK, NEW r \in AccountReqs
    PROVE  /\ UserRow(r) \in Row /\ UserRow(r).by = r
           /\ UserRow(r).table = "users" /\ UserRow(r).key = asked[r].email
           /\ \A o \in {"success", "failure"} :
                 /\ AuditRow(r, o) \in Row /\ AuditRow(r, o).by = r
                 /\ AuditRow(r, o).table = "audit_logs"
                 /\ AuditRow(r, o) # UserRow(r)
<1>1. asked[r].email \in Emails
    BY DEF AccountTypeOK, Request
<1>2. /\ UserRow(r) \in Row /\ UserRow(r).by = r
      /\ UserRow(r).table = "users" /\ UserRow(r).key = asked[r].email
    BY <1>1 DEF UserRow, Row
<1>3. ASSUME NEW o \in {"success", "failure"}
      PROVE  /\ AuditRow(r, o) \in Row /\ AuditRow(r, o).by = r
             /\ AuditRow(r, o).table = "audit_logs"
    BY DEF AuditRow, Row
<1>4. \A o \in {"success", "failure"} : AuditRow(r, o) # UserRow(r)
    BY <1>2, <1>3
<1> QED
    BY <1>2, <1>3, <1>4
-----------------------------------------------------------------------------
\* What a step of r leaves to the others.
StepOf(r) ==
    /\ commitFirst' = commitFirst
    /\ \A s \in AccountReqs :
          s # r => asked'[s] = asked[s] /\ pending'[s] = pending[s]
    /\ db \subseteq db' /\ \A w \in db' : w \in db \/ w.by = r
    /\ dbFaults > 0 => dbFaults' > 0

\* The others are where they were.
LEMMA OthersStay ==
    ASSUME AccountInv, NEW r \in AccountReqs, StepOf(r),
           NEW s \in AccountReqs, s # r
    PROVE  Written(s)' /\ Outcome(s)' /\ Welcome(s)'
<1>1. /\ asked'[s] = asked[s] /\ pending'[s] = pending[s]
      /\ commitFirst' = commitFirst
    BY DEF StepOf
<1>2. \A w : w.by = s => (w \in db' <=> w \in db)
    BY DEF StepOf
<1>3. Quiet(s) => Quiet(s)'
    BY <1>2 DEF Quiet
<1>4. /\ UserRow(s)' = UserRow(s) /\ UserRow(s).by = s
      /\ AuditRow(s, "success").by = s
    BY <1>1, RowsAreOwn DEF UserRow, AccountInv
<1>5. /\ Has(s, db) => Has(s, db)'
      /\ Both(s, db) => Both(s, db)'
      /\ Has(s, pending[s]) => Has(s, pending[s])'
      /\ Both(s, pending[s]) => Both(s, pending[s])'
    BY <1>1, <1>2, <1>4 DEF Has, Both, AuditRow
<1>6. Written(s) /\ Outcome(s) /\ Welcome(s)
    BY DEF AccountInv, Requests
<1>7. Written(s)'
    BY <1>1, <1>3, <1>4, <1>5, <1>6 DEF Written, StepOf
<1>8. Outcome(s)'
    BY <1>1, <1>6 DEF Outcome
<1>9. Exists(asked[s].email) => Exists(asked[s].email)'
    BY <1>1 DEF Exists, StepOf
<1>10. Welcome(s)'
    <2>1. Entitled(asked[s])' => Entitled(asked[s])
        BY <1>1, AccountAssumption DEF Entitled, Good, StepOf, AccountInv, AccountTypeOK
    <2> QED
        BY <1>1, <1>6, <1>9, <2>1 DEF Welcome, Good
<1> QED
    BY <1>7, <1>8, <1>10

\* No user row comes into play.
LEMMA NoNewUser ==
    ASSUME AccountInv,
           \A w \in Row : w.table = "users" /\ InPlay(w)' => InPlay(w)
    PROVE  OneRowPerEmail'
BY DEF AccountInv, OneRowPerEmail

\* A step of r that keeps what is said of r.
LEMMA StepKeeps ==
    ASSUME AccountInv, NEW r \in AccountReqs, StepOf(r), AccountTypeOK',
           Written(r)', Outcome(r)', Welcome(r)', OneRowPerEmail'
    PROVE  AccountInv'
<1>1. Requests'
    <2>1. ASSUME NEW s \in AccountReqs
          PROVE  Written(s)' /\ Outcome(s)' /\ Welcome(s)'
        BY OthersStay
    <2> QED
        BY <2>1 DEF Requests
<1> QED
    BY <1>1 DEF AccountInv

\* A step that goes on without a row or a commit keeps what r has written.
LEMMA GoesKeeps ==
    ASSUME AccountInv, NEW r \in AccountReqs,
           asked[r].stage \in {"start", "create", "record", "refuse", "done"},
           NEW stage \in {"create", "record", "refuse", "done", "raise"},
           NEW status \in {0, 200, 201, 401, 409, 500},
           Goes(r, stage, status),
           UNCHANGED <<commitFirst, db, pending, counted>>,
           dbFaults' \in 0 .. MaxDbFaults, dbFaults' >= dbFaults,
           IF stage \in {"refuse", "raise"} THEN status >= 400
           ELSE asked[r].stage = "start" /\ status < 400,
           stage \in {"record", "done"} => asked[r].op # "register",
           Entitled(asked[r]) /\ Good(asked[r]) => status # 401,
           asked[r].op = "login" /\ status = 200 => Exists(asked[r].email)
    PROVE  AccountInv'
<1>1. /\ asked' \in [AccountReqs -> Request]
      /\ asked'[r].stage = stage /\ asked'[r].status = status
      /\ asked'[r].op = asked[r].op /\ asked'[r].email = asked[r].email
      /\ asked'[r].cred = asked[r].cred /\ asked'[r].known = asked[r].known
      /\ asked'[r].answer = asked[r].answer
      /\ \A s \in AccountReqs : s # r => asked'[s] = asked[s]
    BY GoesOn DEF AccountInv
<1>2. AccountTypeOK /\ Written(r) /\ Outcome(r) /\ Welcome(r)
    BY DEF AccountInv, Requests
<1>3. AccountTypeOK'
    BY <1>1, <1>2 DEF AccountTypeOK
<1>4. StepOf(r)
    BY <1>1, <1>2, AccountAssumption DEF StepOf, AccountTypeOK
<1>5. Quiet(r)' /\ asked[r].answer = 0 /\ \A w \in pending'[r] : w.by = r
    BY <1>2 DEF Written, Outcome, Quiet
<1>6. Both(r, db)'
    BY <1>5, <1>3, RowsAreOwn DEF Both, Quiet, UserRow, AuditRow
<1>7. Written(r)'
    BY <1>1, <1>2, <1>5, <1>6 DEF Written, Both, Has
<1>8. Outcome(r)'
    BY <1>1, <1>5 DEF Outcome
<1>9. Welcome(r)'
    <2>1. Entitled(asked[r])' => Entitled(asked[r])
        BY <1>1, <1>2, AccountAssumption DEF Entitled, Good, AccountTypeOK
    <2> QED
        BY <1>1, <1>2, <2>1 DEF Welcome, Good, Exists
<1>10. OneRowPerEmail'
    BY NoNewUser DEF InPlay
<1> QED
    BY <1>3, <1>4, <1>7, <1>8, <1>9, <1>10, StepKeeps
-----------------------------------------------------------------------------
\* The lookup decides with what is committed.
LEMMA LookupKeeps ==
    ASSUME AccountInv, NEW r \in AccountReqs, Lookup(r)
    PROVE  AccountInv'
<1> DEFINE q == asked[r]
<1>1. /\ q.stage = "start" /\ q.status \in {0, 200, 201, 401, 409, 500}
      /\ dbFaults \in 0 .. MaxDbFaults
      /\ UNCHANGED <<commitFirst, db, pending, counted>>
      /\ dbFaults' = dbFaults
    BY DEF Lookup, AccountInv, AccountTypeOK, Request
<1>2. Entitled(q) => Exists(q.email)
    BY DEF AccountInv, Requests, Welcome
<1>3. PICK stage \in {"create", "record", "refuse", "done", "raise"},
           status \in {0, 200, 201, 401, 409, 500} :
        /\ Goes(r, stage, status)
        /\ IF stage \in {"refuse", "raise"} THEN status >= 400 ELSE status < 400
        /\ stage \in {"record", "done"} => q.op # "register"
        /\ Entitled(q) /\ Good(q) => status # 401
        /\ q.op = "login" /\ status = 200 => Exists(q.email)
    <2>1. CASE q.op = "register"
        BY <2>1 DEF Lookup, Good
    <2>2. CASE q.op = "login"
        BY <1>2, <2>2 DEF Lookup, Good
    <2>3. CASE q.op = "refresh"
        BY <1>2, <2>3 DEF Lookup, Good
    <2>4. CASE q.op = "me"
        BY <1>2, <2>4 DEF Lookup, Good
    <2> QED
        BY <2>1, <2>2, <2>3, <2>4 DEF Lookup
<1> QED
    BY <1>1, <1>3, AccountAssumption, GoesKeeps

\* The account is the first row of its email: the flush waits for the others
\* that are pending, and fails if one is committed.
LEMMA CreateKeeps ==
    ASSUME AccountInv, NEW r \in AccountReqs, Create(r)
    PROVE  AccountInv'
<1>1. /\ AccountTypeOK /\ Written(r) /\ Outcome(r) /\ Welcome(r)
      /\ OneRowPerEmail
    BY DEF AccountInv, Requests
<1>2. /\ asked[r].stage = "create"
      /\ UNCHANGED <<commitFirst, db, counted, dbFaults>>
      /\ dbFaults \in 0 .. MaxDbFaults
    BY <1>1 DEF Create, AccountTypeOK
<1>3. CASE Exists(asked[r].email)
    <2>1. Goes(r, "raise", 500) /\ UNCHANGED pending
        BY <1>3 DEF Create
    <2> QED
        BY <1>2, <2>1, AccountAssumption, GoesKeeps
<1>4. CASE ~Exists(asked[r].email)
    <2>1. /\ pending' = [pending EXCEPT ![r] = @ \union {UserRow(r)}]
          /\ Goes(r, "record", 201)
        BY <1>4 DEF Create
    <2>2. /\ asked' \in [AccountReqs -> Request]
          /\ asked'[r].stage = "record" /\ asked'[r].status = 201
          /\ asked'[r].op = asked[r].op /\ asked'[r].email = asked[r].email
          /\ asked'[r].cred = asked[r].cred
          /\ asked'[r].known = asked[r].known
          /\ asked'[r].answer = asked[r].answer
          /\ \A s \in AccountReqs : s # r => asked'[s] = asked[s]
        BY <1>1, <2>1, GoesOn
    <2>3. pending[r] = {} /\ pending \in [AccountReqs -> SUBSET Row]
        BY <1>1, <1>2 DEF Written, AccountTypeOK
    <2>4. /\ pending' \in [AccountReqs -> SUBSET Row]
          /\ pending'[r] = {UserRow(r)}
          /\ \A s \in AccountReqs : s # r => pending'[s] = pending[s]
        BY <1>1, <2>1, <2>3, RowsAreOwn
    <2>5. AccountTypeOK'
        BY <1>1, <1>2, <2>2, <2>4 DEF AccountTypeOK
    <2>6. StepOf(r)
        BY <1>2, <2>2, <2>4 DEF StepOf
    <2>7. UserRow(r)' = UserRow(r) /\ UserRow(r).by = r
        BY <1>1, <2>2, RowsAreOwn DEF UserRow
    <2>8. Quiet(r)' /\ asked[r].answer = 0
        BY <1>1, <1>2 DEF Written, Outcome, Quiet
    <2>9. Both(r, db)'
        BY <2>5, <2>8, RowsAreOwn DEF Both, Quiet, UserRow, AuditRow
    <2>10. Written(r)'
        BY <2>2, <2>4, <2>7, <2>8, <2>9 DEF Written
    <2>11. Outcome(r)'
        BY <2>2, <2>8 DEF Outcome
    <2>12. Welcome(r)'
        BY <1>1, <1>2, <2>2 DEF Welcome, Entitled, Good, Exists
    <2>13. OneRowPerEmail'
        <3>1. \A w \in Row : InPlay(w)' => InPlay(w) \/ w = UserRow(r)
            BY <1>2, <2>4 DEF InPlay
        <3>2. \A w \in Row : InPlay(w) /\ w.table = "users"
                                => w.key # asked[r].email
            BY <1>4 DEF Create, InPlay, Exists
        <3> QED
            BY <1>1, <3>1, <3>2, RowsAreOwn DEF OneRowPerEmail
    <2> QED
        BY <2>5, <2>6, <2>10, <2>11, <2>12, <2>13, StepKeeps
<1> QED
    BY <1>3, <1>4

\* A success is recorded beside the account, a failure alone.
LEMMA RecordKeeps ==
    ASSUME AccountInv, NEW r \in AccountReqs, Record(r)
    PROVE  AccountInv'
<1> DEFINE ok == asked[r].stage = "record"
           row == AuditRow(r, IF ok THEN "success" ELSE "failure")
           stage == IF ok THEN "done" ELSE "raise"
<1>1. /\ AccountTypeOK /\ Written(r) /\ Outcome(r) /\ Welcome(r)
    BY DEF AccountInv, Requests
<1>2. /\ asked[r].stage \in {"record", "refuse"}
      /\ pending' = [pending EXCEPT ![r] = @ \union {row}]
      /\ Goes(r, stage, asked[r].status)
      /\ UNCHANGED <<commitFirst, db, counted, dbFaults>>
    BY DEF Record
<1>3. /\ asked' \in [AccountReqs -> Request]
      /\ asked'[r].stage = stage /\ asked'[r].status = asked[r].status
      /\ asked'[r].op = asked[r].op /\ asked'[r].email = asked[r].email
      /\ asked'[r].cred = asked[r].cred /\ asked'[r].known = asked[r].known
      /\ asked'[r].answer = asked[r].answer
      /\ \A s \in AccountReqs : s # r => asked'[s] = asked[s]
    <2>1. asked[r].status \in {0, 200, 201, 401, 409, 500}
        BY <1>1 DEF AccountTypeOK, Request
    <2> QED
        BY <1>1, <1>2, <2>1, GoesOn
<1>4. row \in Row /\ row.by = r /\ row.table = "audit_logs"
    BY <1>1, RowsAreOwn
<1>5. /\ pending' \in [AccountReqs -> SUBSET Row]
      /\ pending'[r] = pending[r] \union {row}
      /\ \A s \in AccountReqs : s # r => pending'[s] = pending[s]
    BY <1>1, <1>2, <1>4 DEF AccountTypeOK
<1>6. AccountTypeOK'
    BY <1>1, <1>2, <1>3, <1>5 DEF AccountTypeOK
<1>7. StepOf(r)
    BY <1>2, <1>3, <1>5 DEF StepOf
<1>8. UserRow(r)' = UserRow(r) /\ AuditRow(r, "success")' = AuditRow(r, "success")
    BY <1>3 DEF UserRow, AuditRow
<1>9. Quiet(r)' /\ asked[r].answer = 0
    BY <1>1, <1>2 DEF Written, Outcome, Quiet
<1>10. Both(r, db)'
    BY <1>6, <1>9, RowsAreOwn DEF Both, Quiet, UserRow, AuditRow
<1>11. ok => Both(r, pending[r])' /\ Has(r, pending[r])'
    <2>1. ok /\ asked[r].op = "register" =>
            pending'[r] = {UserRow(r), AuditRow(r, "success")}
        BY <1>1, <1>5 DEF Written
    <2> QED
        BY <1>3, <1>8, <2>1 DEF Both, Has
<1>12. Written(r)'
    <2>1. \A w \in pending'[r] : w.by = r
        BY <1>1, <1>4, <1>5 DEF Written
    <2> QED
        BY <1>2, <1>3, <1>9, <1>10, <1>11, <2>1 DEF Written
<1>13. Outcome(r)'
    BY <1>1, <1>2, <1>3 DEF Outcome
<1>14. Welcome(r)'
    BY <1>1, <1>2, <1>3 DEF Welcome, Entitled, Good, Exists
<1>15. OneRowPerEmail'
    <2>1. \A w \in Row : w.table = "users" /\ InPlay(w)' => InPlay(w)
        BY <1>2, <1>4, <1>5 DEF InPlay
    <2> QED
        BY <2>1, NoNewUser
<1> QED
    BY <1>6, <1>7, <1>12, <1>13, <1>14, <1>15, StepKeeps

\* The commit lands all that the session has written.
LEMMA CommitKeeps ==
    ASSUME AccountInv, NEW r \in AccountReqs, Commit(r)
    PROVE  AccountInv'
<1> DEFINE stage == IF commitFirst THEN "reply" ELSE "ended"
<1>1. AccountTypeOK /\ Written(r) /\ Outcome(r) /\ Welcome(r)
    BY DEF AccountInv, Requests
<1>2. /\ asked[r].stage = (IF commitFirst THEN "done" ELSE "late")
      /\ db' = db \union pending[r]
      /\ pending' = [pending EXCEPT ![r] = {}]
      /\ Goes(r, stage, asked[r].status)
      /\ UNCHANGED <<commitFirst, counted, dbFaults>>
    BY DEF Commit, Ready
<1>3. /\ asked' \in [AccountReqs -> Request]
      /\ asked'[r].stage = stage /\ asked'[r].status = asked[r].status
      /\ asked'[r].op = asked[r].op /\ asked'[r].email = asked[r].email
      /\ asked'[r].cred = asked[r].cred /\ asked'[r].known = asked[r].known
      /\ asked'[r].answer = asked[r].answer
      /\ \A s \in AccountReqs : s # r => asked'[s] = asked[s]
    <2>1. asked[r].status \in {0, 200, 201, 401, 409, 500}
        BY <1>1 DEF AccountTypeOK, Request
    <2> QED
        BY <1>1, <1>2, <2>1, GoesOn
<1>4. /\ pending' \in [AccountReqs -> SUBSET Row] /\ pending'[r] = {}
      /\ \A s \in AccountReqs : s # r => pending'[s] = pending[s]
      /\ db' \subseteq Row
    BY <1>1, <1>2 DEF AccountTypeOK
<1>5. AccountTypeOK'
    BY <1>1, <1>2, <1>3, <1>4 DEF AccountTypeOK
<1>6. \A w \in pending[r] : w.by = r
    BY <1>1 DEF Written
<1>7. StepOf(r)
    BY <1>2, <1>3, <1>4, <1>6 DEF StepOf
<1>8. UserRow(r)' = UserRow(r) /\ AuditRow(r, "success")' = AuditRow(r, "success")
    BY <1>3 DEF UserRow, AuditRow
<1>9. /\ Quiet(r) /\ Both(r, pending[r]) /\ Has(r, pending[r])
      /\ asked[r].status < 400 /\ asked[r].answer < 400
    BY <1>1, <1>2 DEF Written, Outcome
<1>10. Both(r, db)' /\ Has(r, db)'
    <2>1. \A w \in Row : w.by = r => (w \in db' <=> w \in pending[r])
        BY <1>2, <1>9 DEF Quiet
    <2>2. /\ UserRow(r) \in Row /\ UserRow(r).by = r
          /\ AuditRow(r, "success") \in Row /\ AuditRow(r, "success").by = r
        BY <1>1, RowsAreOwn
    <2> QED
        BY <1>3, <1>8, <1>9, <2>1, <2>2 DEF Both, Has
<1>11. Written(r)'
    <2>1. ~(asked'[r].answer >= 400)
        BY <1>1, <1>3, <1>9 DEF AccountTypeOK, Request
    <2>2. stage \in {"reply", "ended"}
        OBVIOUS
    <2> HIDE DEF stage
    <2> QED
        BY <1>3, <1>4, <1>10, <2>1, <2>2 DEF Written
<1>12. Outcome(r)'
    BY <1>1, <1>2, <1>3, <1>9 DEF Outcome
<1>13. Welcome(r)'
    BY <1>1, <1>2, <1>3 DEF Welcome, Entitled, Good, Exists
<1>14. OneRowPerEmail'
    <2>1. \A w \in Row : InPlay(w)' => InPlay(w)
        BY <1>2, <1>4 DEF InPlay
    <2> QED
        BY <2>1, NoNewUser
<1> QED
    BY <1>5, <1>7, <1>11, <1>12, <1>13, <1>14, StepKeeps

\* The answer precedes the commit or follows it.
LEMMA ReplyKeeps ==
    ASSUME AccountInv, NEW r \in AccountReqs, Reply(r)
    PROVE  AccountInv'
<1> DEFINE stage == IF commitFirst THEN "ended" ELSE "late"
<1>1. AccountTypeOK /\ Written(r) /\ Outcome(r) /\ Welcome(r)
    BY DEF AccountInv, Requests
<1>2. /\ asked[r].stage = (IF commitFirst THEN "reply" ELSE "done")
      /\ Answers(r, stage)
      /\ counted' = counted \union {r}
      /\ UNCHANGED <<commitFirst, db, pending, dbFaults>>
    BY DEF Reply
<1>3. /\ asked' \in [AccountReqs -> Request]
      /\ asked'[r].stage = stage /\ asked'[r].status = asked[r].status
      /\ asked'[r].op = asked[r].op /\ asked'[r].email = asked[r].email
      /\ asked'[r].cred = asked[r].cred /\ asked'[r].known = asked[r].known
      /\ asked'[r].answer = asked[r].status
      /\ \A s \in AccountReqs : s # r => asked'[s] = asked[s]
    BY <1>1, <1>2, AnswersNow
<1>4. AccountTypeOK'
    BY <1>1, <1>2, <1>3 DEF AccountTypeOK
<1>5. StepOf(r)
    BY <1>2, <1>3 DEF StepOf
<1>6. UserRow(r)' = UserRow(r) /\ AuditRow(r, "success")' = AuditRow(r, "success")
    BY <1>3 DEF UserRow, AuditRow
<1>7. asked[r].status < 400 /\ ~(asked'[r].answer >= 400)
    BY <1>1, <1>2, <1>3 DEF Outcome, AccountTypeOK, Request
<1>8. Both(r, db)'
    BY <1>1, <1>2, <1>3, <1>6 DEF Both, Written
<1>9. Written(r)'
    <2>1. CASE commitFirst
        <3>1. Has(r, db)'
            BY <1>1, <1>2, <1>3, <1>6, <2>1 DEF Has, Written
        <3> QED
            BY <1>1, <1>2, <1>3, <1>7, <1>8, <2>1, <3>1 DEF Written
    <2>2. CASE ~commitFirst
        <3>1. Both(r, pending[r])' /\ Has(r, pending[r])' /\ Quiet(r)'
            BY <1>1, <1>2, <1>3, <1>6, <2>2 DEF Has, Both, Quiet, Written
        <3> QED
            BY <1>1, <1>2, <1>3, <1>7, <1>8, <2>2, <3>1 DEF Written
    <2> QED
        BY <2>1, <2>2
<1>10. Outcome(r)'
    BY <1>2, <1>3, <1>7 DEF Outcome
<1>11. Welcome(r)'
    BY <1>1, <1>2, <1>3 DEF Welcome, Entitled, Good, Exists
<1>12. OneRowPerEmail'
    <2>1. \A w \in Row : InPlay(w)' => InPlay(w)
        BY <1>2 DEF InPlay
    <2> QED
        BY <2>1, NoNewUser
<1> QED
    BY <1>4, <1>5, <1>9, <1>10, <1>11, <1>12, StepKeeps

\* The rollback leaves nothing of the request.
LEMMA RaiseKeeps ==
    ASSUME AccountInv, NEW r \in AccountReqs, Raise(r)
    PROVE  AccountInv'
<1>1. AccountTypeOK /\ Written(r) /\ Outcome(r) /\ Welcome(r)
    BY DEF AccountInv, Requests
<1>2. /\ asked[r].stage = "raise" /\ Answers(r, "ended")
      /\ pending' = [pending EXCEPT ![r] = {}]
      /\ counted' \in {counted, counted \union {r}}
      /\ UNCHANGED <<commitFirst, db, dbFaults>>
    BY DEF Raise
<1>3. /\ asked' \in [AccountReqs -> Request]
      /\ asked'[r].stage = "ended" /\ asked'[r].status = asked[r].status
      /\ asked'[r].op = asked[r].op /\ asked'[r].email = asked[r].email
      /\ asked'[r].cred = asked[r].cred /\ asked'[r].known = asked[r].known
      /\ asked'[r].answer = asked[r].status
      /\ \A s \in AccountReqs : s # r => asked'[s] = asked[s]
    BY <1>1, <1>2, AnswersNow
<1>4. /\ pending' \in [AccountReqs -> SUBSET Row] /\ pending'[r] = {}
      /\ \A s \in AccountReqs : s # r => pending'[s] = pending[s]
    BY <1>1, <1>2 DEF AccountTypeOK
<1>5. AccountTypeOK'
    BY <1>1, <1>2, <1>3, <1>4 DEF AccountTypeOK
<1>6. StepOf(r)
    BY <1>2, <1>3, <1>4 DEF StepOf
<1>7. Quiet(r)' /\ asked'[r].answer # 201
    BY <1>1, <1>2, <1>3 DEF Written, Outcome, Quiet
<1>8. Both(r, db)'
    BY <1>5, <1>7, RowsAreOwn DEF Both, Quiet, UserRow, AuditRow
<1>9. Written(r)'
    BY <1>3, <1>4, <1>7, <1>8 DEF Written
<1>10. Outcome(r)'
    BY <1>3 DEF Outcome
<1>11. Welcome(r)'
    BY <1>1, <1>2, <1>3 DEF Welcome, Entitled, Good, Exists
<1>12. OneRowPerEmail'
    <2>1. \A w \in Row : InPlay(w)' => InPlay(w)
        BY <1>2, <1>4 DEF InPlay
    <2> QED
        BY <2>1, NoNewUser
<1> QED
    BY <1>5, <1>6, <1>9, <1>10, <1>11, <1>12, StepKeeps

\* A failure ends in an error, or is not told after the answer.
LEMMA DbFailsKeeps ==
    ASSUME AccountInv, NEW r \in AccountReqs, DbFails(r)
    PROVE  AccountInv'
<1>1. AccountTypeOK /\ Written(r) /\ Outcome(r) /\ Welcome(r)
    BY DEF AccountInv, Requests
<1>2. /\ dbFaults \in Nat /\ dbFaults' = dbFaults + 1
      /\ dbFaults' \in 0 .. MaxDbFaults
      /\ UNCHANGED <<commitFirst, db, counted>>
    BY <1>1, AccountAssumption DEF DbFails, AccountTypeOK
<1>3. CASE /\ asked[r].stage \in {"start", "create", "record", "refuse", "done"}
           /\ Goes(r, "raise", 500) /\ UNCHANGED pending
    BY <1>2, <1>3, GoesKeeps
<1>4. CASE /\ asked[r].stage = "late"
           /\ Goes(r, "ended", asked[r].status)
           /\ pending' = [pending EXCEPT ![r] = {}]
    <2>1. asked[r].status \in {0, 200, 201, 401, 409, 500}
        BY <1>1 DEF AccountTypeOK, Request
    <2>2. /\ asked' \in [AccountReqs -> Request]
          /\ asked'[r].stage = "ended" /\ asked'[r].status = asked[r].status
          /\ asked'[r].op = asked[r].op /\ asked'[r].email = asked[r].email
          /\ asked'[r].cred = asked[r].cred
          /\ asked'[r].known = asked[r].known
          /\ asked'[r].answer = asked[r].answer
          /\ \A s \in AccountReqs : s # r => asked'[s] = asked[s]
        BY <1>1, <1>4, <2>1, GoesOn
    <2>3. /\ pending' \in [AccountReqs -> SUBSET Row] /\ pending'[r] = {}
          /\ \A s \in AccountReqs : s # r => pending'[s] = pending[s]
        BY <1>1, <1>4 DEF AccountTypeOK
    <2>4. AccountTypeOK'
        BY <1>1, <1>2, <2>2, <2>3 DEF AccountTypeOK
    <2>5. StepOf(r)
        BY <1>2, <2>2, <2>3 DEF StepOf
    <2>6. Quiet(r)' /\ ~commitFirst' /\ dbFaults' > 0
        BY <1>1, <1>2, <1>4 DEF Written, Outcome, Quiet
    <2>7. Both(r, db)'
        BY <2>4, <2>6, RowsAreOwn DEF Both, Quiet, UserRow, AuditRow
    <2>8. Written(r)'
        BY <2>2, <2>3, <2>6, <2>7 DEF Written
    <2>9. Outcome(r)'
        BY <1>1, <1>4, <2>2 DEF Outcome
    <2>10. Welcome(r)'
        <3>1. Entitled(asked[r])' => Entitled(asked[r])
            BY <2>2, <2>6 DEF Entitled, Good
        <3> QED
            BY <1>1, <1>2, <2>2, <3>1 DEF Welcome, Good, Exists
    <2>11. OneRowPerEmail'
        <3>1. \A w \in Row : InPlay(w)' => InPlay(w)
            BY <1>2, <2>3 DEF InPlay
        <3> QED
            BY <3>1, NoNewUser
    <2> QED
        BY <2>4, <2>5, <2>8, <2>9, <2>10, <2>11, StepKeeps
<1> QED
    BY <1>3, <1>4 DEF DbFails

\* A new request starts with nothing; what it knows is committed, if commits
\* precede answers.
LEMMA SendsKeeps ==
    ASSUME AccountInv, NEW r \in AccountReqs, NEW op \in Ops,
           NEW e \in Emails, NEW cred \in Creds, Sends(r, op, e, cred)
    PROVE  AccountInv'
<1>1. AccountTypeOK /\ Written(r) /\ Outcome(r)
    BY DEF AccountInv, Requests
<1> DEFINE new == [op |-> op, email |-> e, cred |-> cred, stage |-> "start",
                   known |-> Heard(e), status |-> 0, answer |-> 0]
<1>2. /\ asked[r].stage = "idle"
      /\ asked' = [asked EXCEPT ![r] = new]
      /\ UNCHANGED <<commitFirst, db, pending, counted, dbFaults>>
    BY DEF Sends
<1>3. new \in Request
    BY DEF Request, Heard
<1>4. /\ asked' \in [AccountReqs -> Request] /\ asked'[r] = new
      /\ \A s \in AccountReqs : s # r => asked'[s] = asked[s]
    BY <1>1, <1>2, <1>3 DEF AccountTypeOK
<1>5. AccountTypeOK'
    BY <1>1, <1>2, <1>4 DEF AccountTypeOK
<1>6. StepOf(r)
    BY <1>2, <1>4 DEF StepOf
<1>7. Quiet(r)' /\ pending'[r] = {}
    BY <1>1, <1>2 DEF Written, Quiet
<1>8. Both(r, db)'
    BY <1>5, <1>7, RowsAreOwn DEF Both, Quiet, UserRow, AuditRow
<1>9. Written(r)'
    BY <1>4, <1>7, <1>8 DEF Written
<1>10. Outcome(r)'
    BY <1>4 DEF Outcome
<1>11. Entitled(new) => Exists(e)
    <2>1. CASE op # "login" /\ Good(new)
        <3>1. PICK s \in AccountReqs : /\ asked[s].email = e /\ asked[s].op = "login"
                                       /\ asked[s].answer = 200
            BY <2>1 DEF Sends, Good, Answered
        <3>2. Outcome(s) /\ Welcome(s)
            BY DEF AccountInv, Requests
        <3> QED
            BY <3>1, <3>2 DEF Outcome, Welcome
    <2>2. CASE /\ Heard(e) # "no"
               /\ commitFirst \/ (Heard(e) = "over" /\ dbFaults = 0)
        <3>1. PICK s \in AccountReqs :
                 /\ asked[s].email = e /\ asked[s].op = "register"
                 /\ asked[s].answer = 201
                 /\ commitFirst \/ (asked[s].stage = "ended" /\ dbFaults = 0)
            BY <2>2 DEF Heard, Answered
        <3>2. Written(s) /\ Outcome(s)
            BY DEF AccountInv, Requests
        <3>3. UserRow(s) \in db
            BY <3>1, <3>2 DEF Written, Outcome, Has
        <3> QED
            BY <1>1, <3>1, <3>3, RowsAreOwn DEF Exists
    <2> QED
        BY <2>1, <2>2 DEF Entitled
<1>12. Welcome(r)'
    <2>1. Exists(asked[r].email)' <=> Exists(asked'[r].email)
        BY <1>2 DEF Exists
    <2>2. Entitled(asked[r])' <=> Entitled(new)
        BY <1>2, <1>4 DEF Entitled, Good
    <2> QED
        BY <1>4, <1>11, <2>1, <2>2 DEF Welcome
<1>13. OneRowPerEmail'
    <2>1. \A w \in Row : InPlay(w)' => InPlay(w)
        BY <1>2 DEF InPlay
    <2> QED
        BY <2>1, NoNewUser
<1> QED
    BY <1>5, <1>6, <1>9, <1>10, <1>12, <1>13, StepKeeps
-----------------------------------------------------------------------------
LEMMA AccountInvariant == AccountSpec => []AccountInv
<1>1. AccountInv /\ [AccountNext]_accountVars => AccountInv'
    <2> SUFFICES ASSUME AccountInv, [AccountNext]_accountVars
                 PROVE  AccountInv'
        OBVIOUS
    <2>1. ASSUME NEW r \in AccountReqs, RequestStep(r) \/ DbFails(r)
          PROVE  AccountInv'
        BY <2>1, LookupKeeps, CreateKeeps, RecordKeeps, CommitKeeps,
           ReplyKeeps, RaiseKeeps, DbFailsKeeps DEF RequestStep
    <2>2. ASSUME NEW r \in AccountReqs, NEW op \in Ops, NEW e \in Emails,
                 NEW cred \in Creds, Sends(r, op, e, cred)
          PROVE  AccountInv'
        BY <2>2, SendsKeeps
    <2>3. CASE UNCHANGED accountVars
        BY <2>3 DEF accountVars, AccountInv, AccountTypeOK, Requests,
                    OneRowPerEmail, InPlay, Written, Outcome, Welcome,
                    Entitled, Good, Quiet, Both, Has, Exists, UserRow, AuditRow
    <2> QED
        BY <2>1, <2>2, <2>3 DEF AccountNext, AccountRest
<1> QED
    BY <1>1, AccountInvInit, PTL DEF AccountSpec

\* The variables keep their types.
THEOREM AccountTypeCorrect == AccountSpec => []AccountTypeOK
<1>1. AccountInv => AccountTypeOK
    BY DEF AccountInv
<1> QED
    BY <1>1, AccountInvariant, PTL

\* For any number of requests, emails and failures: the rows of a registration
\* land together, and a request that is answered with an error leaves none.
THEOREM RequestsLandWhole == AccountSpec => []AllOrNone
<1>1. AccountInv => AllOrNone
    BY DEF AccountInv, Requests, Written, Both, Quiet, AllOrNone
<1> QED
    BY <1>1, AccountInvariant, PTL

\* However many registrations of an email race, one is answered with it.
THEOREM OneRegistrationPerEmail == AccountSpec => []OneRegistrationWins
<1>1. AccountInv => OneRegistrationWins
    <2> SUFFICES
            ASSUME AccountInv,
                   NEW r \in AccountReqs, NEW s \in AccountReqs, s # r,
                   asked[r].op = "register", asked[r].answer = 201,
                   asked[s].op = "register", asked[s].answer = 201,
                   asked[s].email = asked[r].email,
                   ~(~commitFirst /\ dbFaults > 0)
            PROVE  FALSE
        BY DEF OneRegistrationWins
    <2>1. ASSUME NEW t \in {r, s}
          PROVE  InPlay(UserRow(t))
        <3>1. t \in AccountReqs /\ Written(t) /\ Outcome(t)
            BY DEF AccountInv, Requests
        <3>2. asked[t].stage \in {"late", "ended"}
            BY <3>1 DEF Outcome
        <3>3. UserRow(t) \in pending[t] \/ UserRow(t) \in db
            BY <3>1, <3>2 DEF Written, Has
        <3> QED
            BY <3>1, <3>3 DEF InPlay
    <2> QED
        BY <2>1, RowsAreOwn DEF AccountInv, OneRowPerEmail
<1> QED
    BY <1>1, AccountInvariant, PTL

\* Whoever was told that the account exists, or has its tokens, is not refused
\* with good credentials; a right password may be while the commit that follows
\* the announcement is outstanding, or when one has failed.
THEOREM RegisteredAreWelcome == AccountSpec => []RegisteredCanLogin
<1>1. AccountInv => RegisteredCanLogin
    <2> SUFFICES ASSUME AccountInv, NEW r \in AccountReqs,
                        Good(asked[r]), asked[r].answer = 401
                 PROVE  /\ asked[r].op = "login"
                        /\ asked[r].known # "no" =>
                              /\ ~commitFirst
                              /\ asked[r].known = "over" => dbFaults > 0
        BY DEF RegisteredCanLogin
    <2>1. asked[r].status = 401
        BY DEF AccountInv, Requests, Outcome
    <2>2. ~Entitled(asked[r])
        BY <2>1 DEF AccountInv, Requests, Welcome
    <2> QED
        BY <2>2, AccountAssumption DEF Entitled, AccountInv, AccountTypeOK
<1> QED
    BY <1>1, AccountInvariant, PTL
=============================================================================
