----------------------------- MODULE AuthClient -----------------------------
(***************************************************************************)
(* Tokens and the signed-in account in one browser tab: the api client     *)
(* with its refresh-and-retry, the AuthProvider around it, and the parts   *)
(* of the server that accept and issue tokens.  Several requests may be    *)
(* outstanding; "boot" is the restore after a page load and "login" the    *)
(* submit of the login form, each followed by GET /users/me.               *)
(***************************************************************************)
CONSTANTS
    AuthUsers,  \* accounts
    Calls,      \* requests of pages that may be outstanding together
    Scenes,     \* circumstances to play: a set of Scene
    NoUser      \* null

\* ends: the server may refuse a refresh; lossy: the network may fail; calls:
\* the requests that pages send.
Scene == [ends : BOOLEAN, lossy : BOOLEAN, calls : SUBSET Calls]

ASSUME AuthAssumption ==
    /\ Scenes \subseteq Scene
    /\ NoUser \notin AuthUsers
    /\ {"boot", "login"} \cap Calls = {}

VARIABLES
    scene,
    stored,     \* the refresh token in localStorage, by its account
    access,     \* the access token in memory, by its account; none if expired
    user,       \* the account the AuthProvider shows
    loading,    \* whether the AuthProvider waits for the restore
    form,       \* whether the login form is on display, not a page
    call,       \* the requests
    mixed       \* history variable: whether an answer that came late, after
                \* somebody signed in or out, has left its tokens or account

authVars == <<scene, stored, access, user, loading, form, call, mixed>>

Ids == Calls \union {"boot", "login"}
Account == AuthUsers \union {NoUser}
\* acct is the account that was shown, or typed, when the request was made;
\* token the Authorization header, expired ones left out; key the token a
\* refresh was sent with; late (a history) says that somebody signed in or out
\* since.
Call == [phase : {"idle", "sent", "refreshing"},
         path : {"page", "login", "me"}, retry : BOOLEAN,
         acct : Account, token : Account, key : Account, late : BOOLEAN]
IdleCall == [phase |-> "idle", path |-> "page", retry |-> TRUE,
             acct |-> NoUser, token |-> NoUser, key |-> NoUser, late |-> FALSE]

Busy == {r \in Ids : call[r].phase \in {"sent", "refreshing"}}
\* What is outstanding when somebody signs in or out is late from then on.
Overtaken == [r \in Ids |-> [call[r] EXCEPT !.late = r \in Busy]]

Sending(path, acct, retry, token) ==
    [phase |-> "sent", path |-> path, retry |-> retry,
     acct |-> acct, token |-> token, key |-> NoUser, late |-> FALSE]
Refreshing(c) == [c EXCEPT !.phase = "refreshing", !.key = stored]

\* restoreSession on a page load: without a refresh token it ends at once.
Booted == [r \in Ids |->
    IF r = "boot" /\ stored # NoUser
    THEN [Refreshing(IdleCall) EXCEPT !.path = "me"] ELSE IdleCall]

AuthInit ==
    /\ scene \in Scenes
    /\ stored \in Account
    /\ access = NoUser
    /\ user = NoUser
    /\ loading = (stored # NoUser)
    /\ form \in {stored = NoUser, TRUE}
    /\ call = Booted
    /\ mixed = FALSE
-----------------------------------------------------------------------------
storeTokens(u) == stored' = u /\ access' = u
clearTokens == stored' = NoUser /\ access' = NoUser
Becomes(r, c) == call' = [call EXCEPT ![r] = c]

\* The request throws; restoreSession turns that into "nobody", and RequireAuth
\* shows the login form instead of a page.
Ends(r) ==
    /\ form' = (form \/ r = "boot")
    /\ Becomes(r, IdleCall)
    /\ loading' = (loading /\ r # "boot")
    /\ user' = IF r = "boot" THEN NoUser ELSE user

\* A page of the signed-in account sends a request.
request(c) ==
    /\ c \in scene.calls
    /\ c \notin Busy
    /\ user # NoUser /\ ~form
    /\ Becomes(c, Sending("page", user, TRUE, access))
    /\ UNCHANGED <<scene, stored, access, user, loading, form, mixed>>

\* The form is a public route: a page load may lead to it with a session, and
\* before that has been restored.
login(u) ==
    /\ form
    /\ "login" \notin Busy
    /\ Becomes("login", Sending("login", u, TRUE, access))
    /\ UNCHANGED <<scene, stored, access, user, loading, form, mixed>>

logout ==
    /\ user # NoUser /\ ~form
    /\ clearTokens
    /\ user' = NoUser /\ form' = TRUE
    /\ call' = Overtaken /\ mixed' = FALSE
    /\ UNCHANGED <<scene, loading>>

\* A page load: only localStorage survives.  One during the restore would only
\* start the same restore again.
Reload ==
    /\ "boot" \notin Busy
    /\ access' = NoUser
    /\ user' = NoUser
    /\ loading' = (stored # NoUser)
    /\ form' \in {stored = NoUser, TRUE}
    /\ call' = Booted
    /\ mixed' = FALSE
    /\ UNCHANGED <<scene, stored>>

\* Access tokens outlive the retry that follows a refresh.
Expire ==
    /\ access # NoUser
    /\ \A r \in Busy : call[r].retry
    /\ access' = NoUser
    /\ UNCHANGED <<scene, stored, user, loading, form, call, mixed>>
-----------------------------------------------------------------------------
(* Answers of the server.  get_current_user accepts a live access token.   *)

Accepted(r) == call[r].phase = "sent" /\ call[r].token # NoUser

PageAnswered(r) ==
    /\ Accepted(r) /\ call[r].path = "page"
    /\ Becomes(r, IdleCall)
    /\ UNCHANGED <<scene, stored, access, user, loading, form, mixed>>

MutMeAnswered(r) ==  \* Mutant: an account that is shown already is kept.
    /\ Accepted(r) /\ call[r].path = "me"
    /\ user' = IF user = NoUser THEN call[r].token ELSE user
    /\ loading' = (loading /\ r # "boot")
    /\ form' = (form /\ r # "login")
    /\ Becomes(r, IdleCall)
    /\ mixed' = (mixed \/ call[r].late)
    /\ UNCHANGED <<scene, stored, access>>

\* setUser; after a login, submit leaves the form.
MeAnswered(r) ==
    /\ Accepted(r) /\ call[r].path = "me"
    /\ user' = call[r].token
    /\ loading' = (loading /\ r # "boot")
    /\ form' = (form /\ r # "login")
    /\ Becomes(r, IdleCall)
    /\ mixed' = (mixed \/ call[r].late)
    /\ UNCHANGED <<scene, stored, access>>

\* The pair is stored and /users/me is asked with it.
LoginAnswered ==
    LET c == call["login"] IN
    /\ c.phase = "sent" /\ c.path = "login"
    /\ storeTokens(c.acct)
    /\ call' = [Overtaken EXCEPT !["login"] =
                  Sending("me", c.acct, TRUE, access')]
    /\ mixed' = FALSE
    /\ UNCHANGED <<scene, user, loading, form>>

\* 401: no or an expired access token, or wrong credentials.  The request is
\* retried once, after a refresh, if there is a refresh token.
Unauthorized(r) ==
    /\ call[r].phase = "sent"
    /\ call[r].path = "login" \/ call[r].token = NoUser
    /\ \/ /\ call[r].retry /\ stored # NoUser
          /\ Becomes(r, Refreshing(call[r]))
          /\ UNCHANGED <<user, loading, form>>
       \/ /\ ~call[r].retry \/ stored = NoUser
          /\ Ends(r)
    /\ UNCHANGED <<scene, stored, access, mixed>>

MutRefreshOk(r) ==  \* Mutant: the retry reuses the headers of the first try.
    LET c == call[r] IN
    /\ c.phase = "refreshing"
    /\ storeTokens(c.key)
    /\ Becomes(r, Sending(c.path, c.acct, r = "boot", c.token))
    /\ UNCHANGED <<scene, user, loading, form, mixed>>

\* A fresh pair for the account of the token that was sent, whatever happened
\* to the stored one meanwhile: tokens are not revoked, so that the same token
\* can be refreshed by several requests.
RefreshOk(r) ==
    LET c == call[r] IN
    /\ c.phase = "refreshing"
    /\ storeTokens(c.key)
    /\ Becomes(r, [Sending(c.path, IF r = "boot" THEN c.key ELSE c.acct,
                           r = "boot", access') EXCEPT !.late = c.late])
    /\ mixed' = (mixed \/ c.late)
    /\ UNCHANGED <<scene, user, loading, form>>

MutRefreshRefused(r) ==  \* Mutant: restoreSession forgets to end.
    /\ scene.ends
    /\ call[r].phase = "refreshing"
    /\ clearTokens
    /\ Becomes(r, IdleCall)
    /\ UNCHANGED <<scene, user, loading, form, mixed>>

\* Any answer that is not ok, an expired token or a server error, ends the
\* session.
RefreshRefused(r) ==
    /\ scene.ends
    /\ call[r].phase = "refreshing"
    /\ clearTokens
    /\ Ends(r)
    /\ UNCHANGED <<scene, mixed>>

\* fetch rejects.  A refresh that rejects during the restore is not caught.
NetworkFails(r) ==
    /\ scene.lossy
    /\ \/ call[r].phase = "sent" /\ Ends(r)
       \/ /\ call[r].phase = "refreshing"
          /\ IF r = "boot"
             THEN /\ Becomes(r, IdleCall)
                  /\ UNCHANGED <<user, loading, form>>
             ELSE Ends(r)
    /\ UNCHANGED <<scene, stored, access, mixed>>

Reply(r) ==
    \/ PageAnswered(r) \/ MeAnswered(r) \/ (r = "login" /\ LoginAnswered)
    \/ Unauthorized(r) \/ RefreshOk(r) \/ RefreshRefused(r) \/ NetworkFails(r)

AuthNext ==
    \/ \E r \in Ids : Reply(r)
    \/ \E c \in scene.calls : request(c)
    \/ \E u \in AuthUsers : login(u)
    \/ logout \/ Reload \/ Expire

\* Every request is answered or fails: fetch has no state without an outcome.
AuthFairness == \A r \in Ids : WF_authVars(Reply(r))
AuthSpec == AuthInit /\ [][AuthNext]_authVars
AuthFairSpec == AuthSpec /\ AuthFairness
-----------------------------------------------------------------------------
(* Properties. *)

\* Types of all variables.
AuthTypeOK ==
    /\ scene \in Scenes /\ stored \in Account /\ access \in Account
    /\ user \in Account /\ loading \in BOOLEAN /\ form \in BOOLEAN
    /\ call \in [Ids -> Call] /\ mixed \in BOOLEAN

\* The tokens belong to the account whose page is shown, whatever expires, is
\* refreshed or refused, until the answer to a request from before the last sign
\* in or out brings back the tokens or the account that has left (client.ts:65).
TokensMatchAccount ==
    ~mixed /\ user # NoUser /\ ~form =>
        stored \in {user, NoUser} /\ access \in {user, NoUser}

\* Until then, a request of a page is answered for the account whose page sent
\* it, a retry included, if nobody signed in or out meanwhile.
AnswersMatchAccount ==
    [][ \A c \in Calls :
          ~mixed /\ ~call[c].late /\ PageAnswered(c) =>
              call[c].token = call[c].acct
      ]_authVars

\* Requests that find their access token expired together, and refresh the
\* same token together, all succeed as long as the session is good: no request
\* of a page fails because of what another one did to the tokens.
ExpiryIsInvisible ==
    [][ ~scene.ends /\ ~scene.lossy /\ ~mixed =>
          \A c \in Busy \cap Calls :
              call[c].late \/ c \in Busy' \/ PageAnswered(c) \/ Reload ]_authVars

\* The page leaves "Loading session" once the network answers.
RestoreEnds == loading /\ ~scene.lossy ~> ~loading
=============================================================================
