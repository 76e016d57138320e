---------------------------- MODULE Browser_proofs ----------------------------
(***************************************************************************)
(* Tokens and requests stay with their account, for any number of          *)
(* accounts and of requests that expire, refresh and retry together.  At   *)
(* the end, MCBrowser is shown to play the three parts of the browser, so  *)
(* that the theorems about them hold of what its runs check.               *)
(***************************************************************************)
EXTENDS MCBrowser, ChatSession_proofs, AnalysisPage_proofs, TLAPS

\* The parts a request may play, and what it carries.
CallOK(r, c) ==
    /\ c.phase # "idle" =>
          c.path \in (IF r \in Calls THEN {"page"}
                      ELSE IF r = "boot" THEN {"me"} ELSE {"login", "me"})
    /\ c.phase # "idle" /\ c.path = "login" => c.acct \in AuthUsers
    /\ c.phase = "refreshing" => c.key # NoUser
    /\ c.phase = "sent" /\ c.token = NoUser => c.retry

\* u is the account of all tokens: the stored ones and, of requests that are not
\* late, those that are refreshed and that the restore and the login ask with.
CallServes(r, c, u) == ~c.late =>
    /\ c.phase = "refreshing" => c.key = u
    /\ r \notin Calls /\ c.phase = "sent" /\ c.path = "me" =>
          c.token \in {u, NoUser}

TokensOf(u) ==
    /\ stored \in {u, NoUser} /\ access \in {u, NoUser}
    /\ \A r \in Ids : CallServes(r, call[r], u)
    /\ user # NoUser /\ ~form => user = u

\* ... and of all requests of pages that are not late.
PageServes(c, u) ==
    c.phase # "idle" /\ ~c.late => c.acct = u /\ c.token \in {u, NoUser}
RequestsOf(u) == \A r \in Calls : PageServes(call[r], u)

\* Somebody is signed in, or is about to be.
Begins(c) ==
    ~c.late /\ (c.phase = "refreshing" \/ (c.phase = "sent" /\ c.path # "login"))
SessionBegun == user # NoUser \/ \E r \in Ids : Begins(call[r])

CallsOK == \A r \in Ids : CallOK(r, call[r])
LoginOnForm == call["login"].phase # "idle" => form
OneOwner == ~mixed => \E u \in Account : TokensOf(u) /\ RequestsOf(u)
SessionHasToken ==
    ~mixed /\ ~scene.ends /\ SessionBegun => stored # NoUser

AuthInv == AuthTypeOK /\ CallsOK /\ LoginOnForm /\ OneOwner /\ SessionHasToken
-----------------------------------------------------------------------------
(* What a step does to the requests and to the history.                    *)

LEMMA CallMoves ==
    ASSUME AuthTypeOK, NEW r \in Ids, NEW d \in Call, Becomes(r, d)
    PROVE  /\ call' \in [Ids -> Call] /\ call'[r] = d
           /\ \A q \in Ids : q # r => call'[q] = call[q]
BY DEF AuthTypeOK, Becomes

LEMMA IdleTyped == IdleCall \in Call /\ IdleCall.phase = "idle"
BY DEF IdleCall, Call, Account

LEMMA RefreshingTyped ==
    ASSUME AuthTypeOK, NEW c \in Call
    PROVE  /\ Refreshing(c) \in Call
           /\ Refreshing(c).phase = "refreshing" /\ Refreshing(c).key = stored
           /\ Refreshing(c).path = c.path /\ Refreshing(c).acct = c.acct
           /\ Refreshing(c).retry = c.retry /\ Refreshing(c).token = c.token
           /\ Refreshing(c).late = c.late
BY DEF AuthTypeOK, Refreshing, Call

\* What is outstanding becomes late, and nothing else changes of it.
LEMMA Overtaking ==
    ASSUME AuthTypeOK
    PROVE  /\ Overtaken \in [Ids -> Call]
           /\ \A r \in Ids :
                 /\ Overtaken[r].phase = call[r].phase
                 /\ Overtaken[r].path = call[r].path
                 /\ Overtaken[r].acct = call[r].acct
                 /\ Overtaken[r].key = call[r].key
                 /\ Overtaken[r].token = call[r].token
                 /\ Overtaken[r].retry = call[r].retry
                 /\ Overtaken[r].late \/ Overtaken[r].phase = "idle"
<1>1. \A r \in Ids : call[r] \in Call /\ (r \in Busy \/ call[r].phase = "idle")
  BY DEF AuthTypeOK, Busy, Call
<1>2. ASSUME NEW r \in Ids
      PROVE  /\ Overtaken[r] = [call[r] EXCEPT !.late = r \in Busy]
             /\ (r \in Busy) \in BOOLEAN
  BY DEF Overtaken
<1>3. ASSUME NEW r \in Ids, NEW b \in BOOLEAN
      PROVE  [call[r] EXCEPT !.late = b] \in Call
  BY <1>1 DEF Call
<1>4. Overtaken \in [Ids -> Call]
  BY <1>2, <1>3 DEF Overtaken
<1>5. QED
  BY <1>1, <1>2, <1>4 DEF Call

LEMMA NamedCalls == "boot" \in Ids \ Calls /\ "login" \in Ids \ Calls
BY AuthAssumption DEF Ids
-----------------------------------------------------------------------------
(* Steps that change one request, to d, and keep the tokens with their     *)
(* account, unless they are late.                                          *)

LEMMA OneCallStep ==
    ASSUME AuthInv, NEW r \in Ids, NEW d \in Call, Becomes(r, d),
           UNCHANGED scene, mixed' \in BOOLEAN, mixed => mixed',
           stored' \in Account, access' \in Account, user' \in Account,
           loading' \in BOOLEAN, form' \in BOOLEAN,
           CallOK(r, d), form => form', r = "login" /\ d.phase # "idle" => form',
           \A u \in Account : ~mixed' /\ TokensOf(u) /\ RequestsOf(u) =>
               /\ stored' \in {u, NoUser} /\ access' \in {u, NoUser}
               /\ CallServes(r, d, u)
               /\ r \in Calls => PageServes(d, u)
               /\ user' # NoUser /\ ~form' => user' = u,
           ~mixed' /\ ~scene.ends
               /\ (SessionBegun \/ Begins(d) \/ user' # NoUser) => stored' # NoUser
    PROVE  AuthInv'
<1> USE DEF AuthInv
<1>1. /\ call' \in [Ids -> Call] /\ call'[r] = d
      /\ \A q \in Ids : q # r => call'[q] = call[q]
  BY CallMoves
<1>2. AuthTypeOK'
  BY <1>1 DEF AuthTypeOK
<1>3. CallsOK'
  BY <1>1 DEF CallsOK
<1>4. LoginOnForm'
  BY <1>1, NamedCalls DEF LoginOnForm
<1>5. OneOwner'
  <2>1. SUFFICES ASSUME ~mixed'
                 PROVE  \E u \in Account : TokensOf(u)' /\ RequestsOf(u)'
    BY DEF OneOwner
  <2>2. PICK u \in Account : TokensOf(u) /\ RequestsOf(u)
    BY <2>1 DEF OneOwner
  <2>3. \A q \in Ids : CallServes(q, call'[q], u)
    BY <1>1, <2>1, <2>2 DEF TokensOf
  <2>4. TokensOf(u)'
    BY <2>1, <2>2, <2>3 DEF TokensOf
  <2>5. RequestsOf(u)'
    BY <1>1, <2>1, <2>2 DEF RequestsOf, Ids
  <2>6. QED
    BY <2>4, <2>5
<1>6. SessionHasToken'
  <2>1. SessionBegun' => SessionBegun \/ Begins(d) \/ user' # NoUser
    BY <1>1 DEF SessionBegun
  <2>2. QED
    BY <2>1 DEF SessionHasToken
<1>7. QED
  BY <1>2, <1>3, <1>4, <1>5, <1>6
-----------------------------------------------------------------------------
(* Each action keeps the invariant.                                        *)

LEMMA InitHolds == ASSUME AuthInit PROVE AuthInv
<1>1. IdleCall \in Call /\ IdleCall.phase = "idle"
  BY IdleTyped
<1>2. /\ Booted \in [Ids -> Call]
      /\ \A r \in Ids : Booted[r].phase = "idle" \/
            /\ r = "boot" /\ stored # NoUser /\ Booted[r].phase = "refreshing"
            /\ Booted[r].key = stored /\ Booted[r].path = "me"
  BY <1>1 DEF Booted, AuthInit, Refreshing, IdleCall, Call, Account
<1>3. AuthTypeOK
  BY <1>2 DEF AuthInit, AuthTypeOK, Account
<1>4. CallsOK
  BY <1>2, NamedCalls DEF AuthInit, CallsOK, CallOK
<1>5. LoginOnForm
  BY <1>2, NamedCalls DEF AuthInit, LoginOnForm
<1>6. TokensOf(stored) /\ RequestsOf(stored)
  BY <1>2, NamedCalls
  DEF AuthInit, TokensOf, RequestsOf, CallServes, PageServes, Ids
<1>7. OneOwner
  BY <1>3, <1>6 DEF OneOwner, AuthTypeOK
<1>8. SessionHasToken
  BY <1>2 DEF AuthInit, SessionHasToken, SessionBegun, Begins
<1>9. QED
  BY <1>3, <1>4, <1>5, <1>7, <1>8 DEF AuthInv

LEMMA RequestStep ==
    ASSUME AuthInv, NEW c \in Calls, request(c)
    PROVE  AuthInv'
<1> DEFINE d == Sending("page", user, TRUE, access)
<1>1. c \in Ids /\ AuthTypeOK
  BY DEF Ids, AuthInv
<1>2. /\ d \in Call /\ d.phase = "sent" /\ d.path = "page"
      /\ d.acct = user /\ d.token = access /\ d.retry = TRUE /\ ~d.late
  <2>1. user \in Account /\ access \in Account
    BY <1>1 DEF AuthTypeOK
  <2>2. QED
    BY <2>1 DEF Sending, Call, Account
<1> HIDE DEF d
<1>3. Becomes(c, d)
  BY DEF request, d
<1>4. CallOK(c, d)
  BY <1>2 DEF CallOK
<1>5. ~mixed /\ ~scene.ends => stored # NoUser
  BY DEF request, AuthInv, SessionHasToken, SessionBegun
<1>6. \A u \in Account : TokensOf(u) => CallServes(c, d, u) /\ PageServes(d, u)
  BY <1>2 DEF TokensOf, CallServes, PageServes, request
<1>7. QED
  BY <1>1, <1>2, <1>3, <1>4, <1>5, <1>6, NamedCalls, OneCallStep
  DEF request, AuthTypeOK, TokensOf

LEMMA LoginStep ==
    ASSUME AuthInv, NEW a \in AuthUsers, login(a) PROVE AuthInv'
<1> DEFINE d == Sending("login", a, TRUE, access)
<1>1. "login" \in Ids \ Calls /\ AuthTypeOK /\ a \in Account
  BY NamedCalls DEF AuthInv, Account
<1>2. /\ d \in Call /\ d.phase = "sent" /\ d.path = "login"
      /\ d.acct = a /\ d.token = access /\ d.retry = TRUE
  <2>1. access \in Account
    BY <1>1 DEF AuthTypeOK
  <2>2. QED
    BY <1>1, <2>1 DEF Sending, Call, Account
<1> HIDE DEF d
<1>3. Becomes("login", d)
  BY DEF login, d
<1>4. CallOK("login", d)
  BY <1>1, <1>2 DEF CallOK
<1>5. \A u \in Account : CallServes("login", d, u)
  BY <1>2 DEF CallServes
<1>6. ~mixed' /\ ~scene.ends
         /\ (SessionBegun \/ Begins(d) \/ user' # NoUser) => stored' # NoUser
  BY <1>2 DEF login, AuthInv, SessionHasToken, SessionBegun, Begins
<1>7. QED
  BY <1>1, <1>2, <1>3, <1>4, <1>5, <1>6, OneCallStep
  DEF login, AuthTypeOK, TokensOf

LEMMA LogoutStep == ASSUME AuthInv, logout PROVE AuthInv'
<1>1. AuthTypeOK /\ call' = Overtaken /\ stored' = NoUser /\ access' = NoUser
      /\ user' = NoUser /\ form' /\ ~mixed' /\ UNCHANGED scene
  BY DEF AuthInv, logout, clearTokens
<1>2. AuthTypeOK'
  BY <1>1, Overtaking DEF logout, AuthTypeOK, Account
<1>3. CallsOK' /\ LoginOnForm'
  BY <1>1, Overtaking DEF AuthInv, CallsOK, CallOK, LoginOnForm
<1>4. TokensOf(NoUser)' /\ RequestsOf(NoUser)'
  BY <1>1, Overtaking
  DEF TokensOf, RequestsOf, CallServes, PageServes, Ids
<1>5. OneOwner'
  BY <1>4 DEF OneOwner, Account
<1>6. SessionHasToken'
  BY <1>1, Overtaking DEF SessionHasToken, SessionBegun, Begins
<1>7. QED
  BY <1>2, <1>3, <1>5, <1>6 DEF AuthInv

LEMMA ReloadStep == ASSUME AuthInv, Reload PROVE AuthInv'
<1>1. IdleCall \in Call /\ IdleCall.phase = "idle" /\ AuthTypeOK
  BY IdleTyped DEF AuthInv
<1>2. /\ Booted \in [Ids -> Call]
      /\ \A r \in Ids : Booted[r].phase = "idle" \/
            /\ r = "boot" /\ stored # NoUser /\ Booted[r].phase = "refreshing"
            /\ Booted[r].key = stored /\ Booted[r].path = "me"
  BY <1>1 DEF Booted, AuthTypeOK, Refreshing, IdleCall, Call, Account
<1>3. AuthTypeOK'
  BY <1>1, <1>2 DEF Reload, AuthTypeOK, Account
<1>4. CallsOK'
  BY <1>2, NamedCalls DEF Reload, CallsOK, CallOK
<1>5. LoginOnForm'
  BY <1>2, NamedCalls DEF Reload, LoginOnForm
<1>6. TokensOf(stored)' /\ RequestsOf(stored)'
  BY <1>2, NamedCalls
  DEF Reload, TokensOf, RequestsOf, CallServes, PageServes, Ids
<1>7. OneOwner'
  BY <1>3, <1>6 DEF OneOwner, AuthTypeOK
<1>8. SessionHasToken'
  BY <1>2 DEF Reload, SessionHasToken, SessionBegun, Begins
<1>9. QED
  BY <1>3, <1>4, <1>5, <1>7, <1>8 DEF AuthInv

LEMMA ExpireStep == ASSUME AuthInv, Expire PROVE AuthInv'
<1>1. AuthTypeOK' /\ CallsOK' /\ LoginOnForm' /\ SessionHasToken'
  BY DEF AuthInv, Expire, AuthTypeOK, Account, CallsOK, LoginOnForm,
         SessionHasToken, SessionBegun
<1>2. \A u \in Account : TokensOf(u) => TokensOf(u)'
  BY DEF Expire, TokensOf
<1>3. OneOwner'
  BY <1>2 DEF AuthInv, OneOwner, Expire, RequestsOf
<1>4. QED
  BY <1>1, <1>3 DEF AuthInv

\* The request of r ends, because it was answered or because it failed.
LEMMA EndStep ==
    ASSUME AuthInv, NEW r \in Ids, Becomes(r, IdleCall),
           UNCHANGED <<scene, mixed>>, form => form',
           loading' \in BOOLEAN, form' \in BOOLEAN, user' \in {user, NoUser},
           \/ UNCHANGED <<stored, access>>
           \/ scene.ends /\ clearTokens
    PROVE  AuthInv'
<1>1. IdleCall \in Call /\ IdleCall.phase = "idle" /\ AuthTypeOK
  BY IdleTyped DEF AuthInv
<1>2. CallOK(r, IdleCall) /\ ~Begins(IdleCall)
  BY <1>1 DEF CallOK, Begins
<1>3. \A u \in Account : CallServes(r, IdleCall, u) /\ PageServes(IdleCall, u)
  BY <1>1 DEF CallServes, PageServes
<1>4. stored' \in Account /\ access' \in Account /\ user' \in Account
  BY <1>1 DEF AuthTypeOK, clearTokens, Account
<1>5. \A u \in Account : TokensOf(u) =>
          /\ stored' \in {u, NoUser} /\ access' \in {u, NoUser}
          /\ user' # NoUser /\ ~form' => user' = u
  BY DEF TokensOf, clearTokens
<1>6. ~mixed' /\ ~scene.ends
         /\ (SessionBegun \/ Begins(IdleCall) \/ user' # NoUser) => stored' # NoUser
  BY <1>2 DEF AuthInv, SessionHasToken, SessionBegun
<1>7. QED
  BY <1>1, <1>2, <1>3, <1>4, <1>5, <1>6, OneCallStep DEF AuthTypeOK

LEMMA MeAnsweredStep ==
    ASSUME AuthInv, NEW r \in Ids, MeAnswered(r) PROVE AuthInv'
<1>1. IdleCall \in Call /\ IdleCall.phase = "idle" /\ AuthTypeOK
  BY IdleTyped DEF AuthInv
<1>2. /\ call' \in [Ids -> Call] /\ call'[r] = IdleCall
      /\ \A q \in Ids : q # r => call'[q] = call[q]
  BY <1>1, CallMoves DEF MeAnswered
<1>3. mixed' \in BOOLEAN /\ (~mixed' => ~mixed /\ ~call[r].late)
  BY <1>1 DEF MeAnswered, AuthTypeOK, Call
<1>4. r \notin Calls
  BY DEF MeAnswered, Accepted, AuthInv, CallsOK, CallOK
<1>5. AuthTypeOK'
  BY <1>1, <1>2, <1>3 DEF MeAnswered, AuthTypeOK, Call
<1>6. CallsOK' /\ LoginOnForm'
  BY <1>1, <1>2, NamedCalls
  DEF AuthInv, CallsOK, LoginOnForm, CallOK, MeAnswered
<1>7. ASSUME NEW u \in Account, TokensOf(u), ~mixed' PROVE TokensOf(u)'
  <2>1. user' = u
    BY <1>3, <1>4, <1>7 DEF MeAnswered, Accepted, TokensOf, CallServes
  <2>2. \A q \in Ids : CallServes(q, call'[q], u)
    BY <1>1, <1>2, <1>7 DEF TokensOf, CallServes
  <2>3. QED
    BY <1>7, <2>1, <2>2 DEF TokensOf, MeAnswered
<1>8. \A u \in Account : RequestsOf(u) => RequestsOf(u)'
  BY <1>2, <1>4 DEF RequestsOf, Ids
<1>9. OneOwner'
  BY <1>3, <1>7, <1>8 DEF AuthInv, OneOwner
<1>10. SessionHasToken'
  <2>1. ~mixed' => SessionBegun
    BY <1>3 DEF SessionBegun, Begins, MeAnswered, Accepted
  <2>2. QED
    BY <1>3, <2>1 DEF AuthInv, SessionHasToken, MeAnswered
<1>11. QED
  BY <1>5, <1>6, <1>9, <1>10 DEF AuthInv

LEMMA LoginAnsweredStep == ASSUME AuthInv, LoginAnswered PROVE AuthInv'
<1>1. AuthTypeOK /\ "login" \in Ids \ Calls /\ "boot" # "login"
  BY NamedCalls DEF AuthInv
<1>2. PICK a \in AuthUsers : a = call["login"].acct
  BY <1>1 DEF LoginAnswered, AuthInv, CallsOK, CallOK
<1> DEFINE d == Sending("me", a, TRUE, a)
<1>0. a \in Account
  BY DEF Account
<1>3. /\ d \in Call /\ d.phase = "sent" /\ d.path = "me"
      /\ d.acct = a /\ d.token = a /\ d.retry = TRUE /\ ~d.late
  BY <1>0 DEF Sending, Call, Account
<1>4. /\ stored' = a /\ access' = a /\ ~mixed' /\ UNCHANGED <<scene, user, form>>
      /\ call' = [Overtaken EXCEPT !["login"] = d]
  BY <1>2 DEF LoginAnswered, storeTokens
<1> HIDE DEF d
<1>5. /\ call' \in [Ids -> Call] /\ call'["login"] = d
      /\ \A q \in Ids : q # "login" => call'[q] = Overtaken[q]
  BY <1>1, <1>3, <1>4, Overtaking
<1>6. AuthTypeOK'
  BY <1>0, <1>1, <1>4, <1>5 DEF LoginAnswered, AuthTypeOK
<1>7. form /\ form'
  BY DEF LoginAnswered, AuthInv, LoginOnForm
<1>8. CallsOK' /\ LoginOnForm'
  <2>1. CallOK("login", d)
    BY <1>1, <1>3 DEF CallOK
  <2>2. ASSUME NEW q \in Ids, q # "login" PROVE CallOK(q, call'[q])
    BY <1>1, <1>5, <2>2, Overtaking DEF AuthInv, CallsOK, CallOK
  <2>3. QED
    BY <1>5, <1>7, <2>1, <2>2 DEF CallsOK, LoginOnForm
<1>9. TokensOf(a)' /\ RequestsOf(a)'
  <2>1. ASSUME NEW q \in Ids, q # "login"
        PROVE  call'[q].late \/ call'[q].phase = "idle"
    BY <1>1, <1>5, <2>1, Overtaking
  <2>2. ASSUME NEW q \in Ids PROVE CallServes(q, call'[q], a)
    BY <1>3, <1>5, <2>1 DEF CallServes
  <2>3. ASSUME NEW q \in Calls PROVE PageServes(call'[q], a)
    BY <1>1, <2>1 DEF PageServes, Ids
  <2>4. QED
    BY <1>4, <1>7, <2>2, <2>3 DEF TokensOf, RequestsOf
<1>10. OneOwner'
  BY <1>0, <1>9 DEF OneOwner
<1>11. SessionHasToken'
  BY <1>2, <1>4, AuthAssumption DEF SessionHasToken
<1>12. QED
  BY <1>6, <1>8, <1>10, <1>11 DEF AuthInv

LEMMA UnauthorizedStep ==
    ASSUME AuthInv, NEW r \in Ids, Unauthorized(r) PROVE AuthInv'
<1>1. AuthTypeOK /\ call[r] \in Call /\ CallOK(r, call[r])
  BY DEF AuthInv, AuthTypeOK, CallsOK
<1>2. CASE /\ call[r].retry /\ stored # NoUser
           /\ Becomes(r, Refreshing(call[r]))
           /\ UNCHANGED <<user, loading, form>>
  <2> DEFINE d == Refreshing(call[r])
  <2>1. /\ d \in Call /\ d.phase = "refreshing" /\ d.key = stored
        /\ d.path = call[r].path /\ d.acct = call[r].acct
        /\ d.retry = call[r].retry /\ d.token = call[r].token
        /\ d.late = call[r].late
    BY <1>1, RefreshingTyped
  <2>2. Becomes(r, d)
    BY <1>2
  <2> HIDE DEF d
  <2>3. CallOK(r, d)
    BY <1>1, <1>2, <2>1 DEF CallOK, Unauthorized
  <2>4. \A u \in Account : TokensOf(u) => CallServes(r, d, u)
    BY <1>2, <2>1 DEF TokensOf, CallServes
  <2>5. \A u \in Account : RequestsOf(u) /\ r \in Calls => PageServes(d, u)
    BY <2>1 DEF RequestsOf, PageServes, Unauthorized
  <2>6. r = "login" => form
    BY DEF AuthInv, LoginOnForm, Unauthorized
  <2>7. QED
    BY <1>1, <1>2, <2>1, <2>2, <2>3, <2>4, <2>5, <2>6, OneCallStep
    DEF Unauthorized, AuthTypeOK, TokensOf
<1>3. CASE Ends(r)
  BY <1>1, <1>3, EndStep DEF Ends, Unauthorized, AuthTypeOK
<1>4. QED
  BY <1>2, <1>3 DEF Unauthorized

LEMMA RefreshOkStep ==
    ASSUME AuthInv, NEW r \in Ids, RefreshOk(r) PROVE AuthInv'
<1> DEFINE k == call[r].key
           a == IF r = "boot" THEN k ELSE call[r].acct
           d == [Sending(call[r].path, a, r = "boot", k)
                   EXCEPT !.late = call[r].late]
<1>1. /\ AuthTypeOK /\ call[r] \in Call /\ CallOK(r, call[r])
      /\ call[r].phase = "refreshing"
  BY DEF AuthInv, AuthTypeOK, CallsOK, RefreshOk
<1>2. k \in AuthUsers /\ k \in Account /\ a \in Account
  BY <1>1 DEF CallOK, Call, Account
<1>3. /\ d \in Call /\ d.phase = "sent" /\ d.path = call[r].path
      /\ d.acct = a /\ d.token = k /\ d.late = call[r].late
  BY <1>1, <1>2 DEF Sending, Call, Account
<1>4. stored' = k /\ access' = k /\ Becomes(r, d)
  BY DEF RefreshOk, storeTokens
<1>5. r # "boot" => a = call[r].acct
  OBVIOUS
<1> HIDE DEF d, a
<1>6. CallOK(r, d)
  BY <1>1, <1>2, <1>3, <1>5, NamedCalls, AuthAssumption DEF CallOK
<1>7. r = "login" => form
  BY <1>1 DEF AuthInv, LoginOnForm
<1>15. mixed' = (mixed \/ call[r].late) /\ mixed' \in BOOLEAN
  BY <1>1 DEF RefreshOk, AuthTypeOK, Call
<1>8. ASSUME NEW u \in Account, TokensOf(u), ~mixed'
      PROVE  k = u /\ CallServes(r, d, u)
  BY <1>1, <1>3, <1>8, <1>15 DEF TokensOf, CallServes
<1>9. ASSUME NEW u \in Account, TokensOf(u), RequestsOf(u), r \in Calls, ~mixed'
      PROVE  PageServes(d, u)
  BY <1>1, <1>3, <1>5, <1>8, <1>9, NamedCalls DEF RequestsOf, PageServes
<1>10. stored' # NoUser /\ stored' \in Account /\ access' \in Account
  BY <1>2, <1>4, AuthAssumption
<1>11. UNCHANGED <<scene, user, loading, form>>
  BY DEF RefreshOk
<1>12. \A u \in Account : TokensOf(u) /\ ~mixed' =>
          /\ stored' \in {u, NoUser} /\ access' \in {u, NoUser}
          /\ CallServes(r, d, u)
          /\ user' # NoUser /\ ~form' => user' = u
  BY <1>4, <1>8, <1>11 DEF TokensOf
<1>13. user' \in Account /\ loading' \in BOOLEAN /\ form' \in BOOLEAN
  BY <1>1, <1>11 DEF AuthTypeOK
<1>14. QED
  BY <1>3, <1>4, <1>6, <1>7, <1>9, <1>10, <1>11, <1>12, <1>13,
     <1>15, OneCallStep

LEMMA RefreshRefusedStep ==
    ASSUME AuthInv, NEW r \in Ids, RefreshRefused(r) PROVE AuthInv'
BY EndStep DEF RefreshRefused, Ends, AuthInv, AuthTypeOK

LEMMA NetworkFailsStep ==
    ASSUME AuthInv, NEW r \in Ids, NetworkFails(r) PROVE AuthInv'
<1>1. CASE Ends(r)
  BY <1>1, EndStep DEF NetworkFails, Ends, AuthInv, AuthTypeOK
<1>2. CASE Becomes(r, IdleCall) /\ UNCHANGED <<user, loading, form>>
  BY <1>2, EndStep DEF NetworkFails, AuthInv, AuthTypeOK
<1>3. QED
  BY <1>1, <1>2 DEF NetworkFails

LEMMA PageAnsweredStep ==
    ASSUME AuthInv, NEW r \in Ids, PageAnswered(r) PROVE AuthInv'
BY EndStep DEF PageAnswered, AuthInv, AuthTypeOK
-----------------------------------------------------------------------------
(* Theorems.                                                               *)

LEMMA StepHolds == ASSUME AuthInv, [AuthNext]_authVars PROVE AuthInv'
<1>1. CASE UNCHANGED authVars
  BY <1>1
  DEF authVars, AuthInv, AuthTypeOK, CallsOK, LoginOnForm, OneOwner, TokensOf,
      RequestsOf, SessionHasToken, SessionBegun
<1>2. ASSUME NEW r \in Ids, Reply(r) PROVE AuthInv'
  BY <1>2, PageAnsweredStep, MeAnsweredStep, LoginAnsweredStep, UnauthorizedStep,
     RefreshOkStep, RefreshRefusedStep, NetworkFailsStep DEF Reply
<1>4. ASSUME NEW c \in scene.calls PROVE c \in Calls
  BY AuthAssumption DEF AuthInv, AuthTypeOK, Scene
<1>3. QED
  BY <1>1, <1>2, <1>4, RequestStep, LoginStep, LogoutStep, ReloadStep, ExpireStep
  DEF AuthNext

\* The invariant holds: all tokens and requests are of one account, until a late
\* answer mixes them up, and a begun session has a refresh token.
THEOREM OneAccountAtATime == AuthSpec => []AuthInv
BY InitHolds, StepHolds, PTL DEF AuthSpec

\* Whatever expires, is refreshed, refused or lost, and however many requests
\* are outstanding: stored tokens are those of the account that is shown, until
\* a request from before the last sign in or out is answered with others.
THEOREM TokensStayWithAccount == AuthSpec => []TokensMatchAccount
<1>1. AuthInv => TokensMatchAccount
  BY DEF AuthInv, OneOwner, TokensOf, TokensMatchAccount
<1>2. QED
  BY <1>1, OneAccountAtATime, PTL

\* A request of a page is answered for the account that sent it, also when it
\* was sent again with other tokens, if nobody signed in or out meanwhile.
THEOREM AnswersStayWithAccount == AuthSpec => AnswersMatchAccount
<1>1. ASSUME AuthInv, NEW c \in Calls, ~mixed, ~call[c].late, PageAnswered(c)
      PROVE  call[c].token = call[c].acct
  BY <1>1 DEF AuthInv, OneOwner, RequestsOf, PageServes, PageAnswered, Accepted
<1>2. AuthInv => [\A c \in Calls :
                    ~mixed /\ ~call[c].late /\ PageAnswered(c) =>
                        call[c].token = call[c].acct
                 ]_authVars
  BY <1>1
<1>3. QED
  BY <1>2, OneAccountAtATime, PTL DEF AnswersMatchAccount

\* What the other requests did to the tokens makes no request of a page fail.
LEMMA PageRequestSurvives ==
    ASSUME AuthInv, AuthNext, ~scene.ends, ~scene.lossy, ~mixed,
           NEW c \in Busy \cap Calls, ~call[c].late
    PROVE  c \in Busy' \/ PageAnswered(c) \/ Reload
<1> SUFFICES ASSUME c \notin Busy', ~PageAnswered(c), ~Reload PROVE FALSE
  OBVIOUS
<1>1. /\ AuthTypeOK /\ c \in Ids /\ call[c] \in Call /\ CallOK(c, call[c])
      /\ call[c].phase \in {"sent", "refreshing"} /\ call[c].path = "page"
  BY DEF AuthInv, AuthTypeOK, CallsOK, CallOK, Ids, Busy
<1>2. stored # NoUser
  BY <1>1 DEF AuthInv, SessionHasToken, SessionBegun, Begins
<1>3. ASSUME NEW r \in Ids, NEW d, Becomes(r, d),
             d.phase \in {"sent", "refreshing"} \/ r # c
      PROVE  FALSE
  BY <1>1, <1>3 DEF AuthTypeOK, Becomes, Busy
<1>4. ASSUME UNCHANGED call PROVE FALSE
  BY <1>4 DEF Busy
<1>9. ASSUME call'[c] = Overtaken[c] PROVE FALSE
  BY <1>1, <1>9, Overtaking DEF Busy
<1>5. ASSUME NEW r \in Ids, Reply(r) PROVE FALSE
  <2>1. CASE PageAnswered(r)
    BY <1>3, <2>1 DEF PageAnswered
  <2>2. CASE MeAnswered(r)
    BY <1>1, <1>3, <2>2 DEF MeAnswered
  <2>3. CASE r = "login" /\ LoginAnswered
    <3>1. c # "login"
      BY NamedCalls
    <3>2. call'[c] = Overtaken[c]
      BY <1>1, <2>3, <3>1, Overtaking DEF LoginAnswered
    <3>3. QED
      BY <1>9, <3>2
  <2>4. CASE Unauthorized(r)
    <3>1. CASE Becomes(r, Refreshing(call[r]))
      <4>1. call[r] \in Call
        BY <1>1 DEF AuthTypeOK
      <4>2. Refreshing(call[r]).phase = "refreshing"
        BY <1>1, <4>1, RefreshingTyped
      <4>3. QED
        BY <1>3, <3>1, <4>2
    <3>2. CASE ~call[r].retry \/ stored = NoUser
      <4>1. r # c
        BY <1>1, <1>2, <2>4, <3>2 DEF Unauthorized, CallOK
      <4>2. Becomes(r, IdleCall)
        BY <1>2, <2>4, <3>2 DEF Unauthorized, Ends
      <4>3. QED
        BY <1>3, <4>1, <4>2
    <3>3. QED
      BY <2>4, <3>1, <3>2 DEF Unauthorized
  <2>5. CASE RefreshOk(r)
    BY <1>3, <2>5 DEF RefreshOk, Sending
  <2>6. QED
    BY <1>5, <2>1, <2>2, <2>3, <2>4, <2>5
    DEF Reply, RefreshRefused, NetworkFails
<1>6. ASSUME NEW q \in scene.calls, request(q) PROVE FALSE
  BY <1>1, <1>3, <1>6, AuthAssumption DEF request, Sending, Ids, AuthTypeOK, Scene
<1>7. ASSUME NEW u \in AuthUsers, login(u) PROVE FALSE
  BY <1>3, <1>7, NamedCalls DEF login, Sending
<1>8. QED
  BY <1>4, <1>5, <1>6, <1>7, <1>9 DEF AuthNext, logout, Expire

\* While the session is good and the network works, requests whose access token
\* expired all come through, whoever refreshed it first.
THEOREM ExpiryStaysInvisible == AuthSpec => ExpiryIsInvisible
<1>1. AuthInv /\ [AuthNext]_authVars =>
        [~scene.ends /\ ~scene.lossy /\ ~mixed =>
          \A c \in Busy \cap Calls :
              call[c].late \/ c \in Busy' \/ PageAnswered(c) \/ Reload]_authVars
  BY PageRequestSurvives
<1>2. QED
  BY <1>1, OneAccountAtATime, PTL DEF AuthSpec, ExpiryIsInvisible

\* The client keeps the types of its variables.
THEOREM AuthTypeCorrect == AuthSpec => []AuthTypeOK
<1>1. AuthInv => AuthTypeOK
  BY DEF AuthInv
<1>2. QED
  BY <1>1, OneAccountAtATime, PTL
-----------------------------------------------------------------------------
(* The three parts in one specification. *)

\* While one part is played, each of the others stutters.
LEMMA OneBrowserPartSteps ==
    ASSUME [BrowserNext]_browserVars
    PROVE  [ChatNext]_chatVars /\ [AuthNext]_authVars /\ [PageNext]_pageVars
<1>1. CASE part = "chat" /\ ChatNext /\ UNCHANGED <<part, authVars, pageVars>>
  BY <1>1
<1>2. CASE part = "auth" /\ AuthNext /\ UNCHANGED <<part, chatVars, pageVars>>
  BY <1>2
<1>3. CASE part = "page" /\ PageNext /\ UNCHANGED <<part, chatVars, authVars>>
  BY <1>3
<1>4. CASE UNCHANGED browserVars
  BY <1>4 DEF browserVars
<1>5. QED
  BY <1>1, <1>2, <1>3, <1>4 DEF BrowserNext

\* What the runs of MCBrowser check is the chat, the client and the page: every
\* theorem about one of them holds of the specification of these runs.
THEOREM BrowserIsItsParts == BrowserSpec => ChatSpec /\ AuthSpec /\ PageSpec
<1>1. BrowserInit => ChatInit /\ AuthInit /\ PageInit
  BY DEF BrowserInit
<1>2. QED
  BY <1>1, OneBrowserPartSteps, PTL DEF BrowserSpec, ChatSpec, AuthSpec, PageSpec

\* The three parts keep the types of their variables.
THEOREM BrowserTypeCorrect == BrowserSpec => []BrowserTypeOK
<1>1. ChatTypeOK /\ AuthTypeOK /\ PageTypeOK => BrowserTypeOK
  BY DEF BrowserTypeOK
<1>2. QED
  BY <1>1, BrowserIsItsParts, ChatTypeCorrect, AuthTypeCorrect, PageTypeCorrect, PTL
=============================================================================
