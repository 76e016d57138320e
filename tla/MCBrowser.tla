----------------------------- MODULE MCBrowser ------------------------------
(***************************************************************************)
(* Instances of the three modules about the browser and the endpoints it   *)
(* talks to.  They share no state, so that a behaviour plays one of them:  *)
(* part says which, and the others stay as they started.                   *)
(***************************************************************************)
EXTENDS ChatSession, AuthClient, AnalysisPage

CONSTANT Parts  \* the parts that are played

VARIABLE part

browserVars == <<part, chatVars, authVars, pageVars>>

\* Two questions of a page that may be closed and, if lossy, lose connections;
\* two pages with a question each; or three questions of a page, of which two
\* may be answered at once.
Quota(m, n) == [t \in ChatTabs |-> IF t = "t1" THEN m ELSE n]
MCUsages ==
    [asks : {Quota(2, 0)}, shaky : {{"t1"}}, lossy : BOOLEAN]
    \union [asks : {Quota(1, 1), Quota(3, 0)}, shaky : {{}}, lossy : {FALSE}]
MCLossy == [asks : {Quota(2, 0)}, shaky : {{"t1"}}, lossy : {TRUE}]

\* Two requests at once, whether or not the session may end; connections that
\* fail, for one.
MCScenes == {sc \in Scene : sc.calls = (IF sc.lossy THEN {"c1"} ELSE Calls)}

MCOwner == [a \in Analyses |-> "ann"]
MCContent == [a \in Analyses |-> IF a = "a1" THEN {"f1", "f2"} ELSE {"f1"}]
MCCount == [a \in Analyses |-> [f \in MCContent[a] |->
                                  IF f = "f1" THEN 2 ELSE 1]]
\* Two pages while both analyses run, or one page and two report requests.
Executed(m, n) == [a \in Analyses |-> IF a = "a1" THEN m ELSE n]
MCPlans == {[visits |-> 2, clicks |-> {}, runs |-> Executed(2, 1)],
            [visits |-> 1, clicks |-> Clicks, runs |-> Executed(2, 0)]}

BrowserInit ==
    /\ part \in Parts
    /\ ChatInit /\ AuthInit /\ PageInit
    /\ part # "chat" => usage = CHOOSE u \in Usages : TRUE
    /\ part # "auth" => scene = (CHOOSE s \in Scenes : TRUE) /\ stored = NoUser
    /\ part # "page" => plan = CHOOSE p \in Plans : TRUE

BrowserNext ==
    \/ part = "chat" /\ ChatNext /\ UNCHANGED <<part, authVars, pageVars>>
    \/ part = "auth" /\ AuthNext /\ UNCHANGED <<part, chatVars, pageVars>>
    \/ part = "page" /\ PageNext /\ UNCHANGED <<part, chatVars, authVars>>

\* ChatFairness, AuthFairness and PageFairness, for the part that is played.
BrowserFairness ==
    /\ \A r \in Requests : /\ WF_chatVars(part = "chat" /\ ServerStep(r))
                          /\ WF_chatVars(part = "chat" /\ PageStep(r))
    /\ \A r \in Ids : WF_authVars(part = "auth" /\ Reply(r))
    /\ \A v \in Visits : WF_pageVars(part = "page" /\ PollStep(v))

BrowserSpec == BrowserInit /\ [][BrowserNext]_browserVars /\ BrowserFairness

\* Types of all variables of the three parts.
BrowserTypeOK == ChatTypeOK /\ AuthTypeOK /\ PageTypeOK
=============================================================================
