----------------------------- MODULE MCServices ------------------------------
(***************************************************************************)
(* Instances of the services behind the endpoints.  They share no state,   *)
(* so that a behaviour plays one of them: part says which, and the others  *)
(* stay as they started.                                                   *)
(***************************************************************************)
EXTENDS Accounts, RateLimiter, Chunking, Incident, Uploads, SimilarIncidents,
        TLC

CONSTANTS
    Parts,      \* the parts that are played
    MaxLines    \* bound: lines of a log

VARIABLE part

servicesVars == <<part, accountVars, limiterVars, chunkVars, incidentVars,
                  uploadVars, similarVars>>

MCTimes == [k \in Keys |-> IF k = "login" THEN 2 ELSE 1]
MCSeconds == [k \in Keys |-> 2]

\* Logs of up to fourteen lines of which a stretch is blank.
MCTexts == {[total |-> n, blank |-> a .. b] : n \in 0 .. 14, a \in 1 .. 5,
                                              b \in {0, 4, 6, 9}}

\* Lines whose levels, problems, times and offsets differ or agree, of three
\* formats; the fourth matches as logfmt and is the last of its log.
At(t, aware) == [time |-> t, aware |-> aware]
MkLine(shape, word, problem, stamp) ==
    [shape |-> shape, word |-> word, problem |-> problem, stamp |-> stamp]
MCKinds == {MkLine("plain", "error", "p", At(2, FALSE)),
            MkLine("plain", "failed", "p", At(1, TRUE)),
            MkLine("plain", "warn", "q", NoTime),
            MkLine("json", "error", "p", At(1, TRUE)),
            MkLine("json", "fatal", "q", At(3, TRUE)),
            MkLine("json", "info", "r", BadTime),
            MkLine("syslog", "failed", "p", At(2, FALSE)),
            MkLine("syslog", "none", "r", BadTime),
            MkLine("blank", "none", "r", NoTime)}
MCLogs == UNION {[1 .. n -> MCKinds] : n \in 0 .. MaxLines}
          \union {<<MkLine("logfmt", "warn", "q", At(1, FALSE))>> \o l :
                    l \in {<<k>> : k \in MCKinds}}

\* Three groups of the past, one of another user, and up to three of the
\* analysis itself, which resemble its top groups most; or an analysis without
\* errors, which asks for nothing.
Point(analysis, user, i) == [analysis |-> analysis, user |-> user, i |-> i]
Past == {Point("b", "ann", i) : i \in 1 .. 3}
Own(n) == {Point("a", "ann", i) : i \in 1 .. n}
Foreign == {Point("c", "bob", 1)}
MCSearches ==
    {[user |-> "ann", analysis |-> "a", limit |-> limit,
      points |-> Past \union Own(n) \union Foreign,
      score |-> <<[p \in Past |-> f[p]] @@ [p \in Own(n) \union Foreign |-> 3],
                  [p \in Past |-> g[p]] @@ [p \in Own(n) \union Foreign |-> 3]>>]
        : limit \in {1, 2}, n \in 1 .. 3, f \in [Past -> {1, 2, 3}],
          g \in {[p \in Past |-> p.i], [p \in Past |-> 4 - p.i]}}
    \union {[user |-> "ann", analysis |-> "a", limit |-> 1, points |-> Past,
             score |-> <<>>]}

\* What the parts that are not played start with is fixed.
Played(p, choices) == IF part = p THEN choices ELSE {CHOOSE c \in choices : TRUE}

ServicesInit ==
    /\ part \in Parts
    /\ commitFirst \in Played("accounts", BOOLEAN)
    /\ text \in Played("chunks", Texts)
    /\ lines \in Played("incident", Logs)
    /\ sent \in Played("uploads", Sent)
    /\ search \in Played("similar", Searches)
    /\ AccountInit /\ LimiterInit /\ ChunkInit /\ IncidentInit
    /\ UploadInit /\ SimilarInit

\* What has its answer stops.
ServicesRest ==
    /\ \/ part = "chunks" /\ ~cutting
       \/ part = "incident" /\ inquiry \in {"ended", "refused"}
       \/ part = "uploads" /\ upStage = "ended"
       \/ part = "similar" /\ ~searching
    /\ UNCHANGED servicesVars

ServicesNext ==
    \/ /\ part = "accounts" /\ AccountNext
       /\ UNCHANGED <<part, limiterVars, chunkVars, incidentVars, uploadVars,
                      similarVars>>
    \/ /\ part = "limiter" /\ LimiterNext
       /\ UNCHANGED <<part, accountVars, chunkVars, incidentVars, uploadVars,
                      similarVars>>
    \/ /\ part = "chunks" /\ ChunkNext
       /\ UNCHANGED <<part, accountVars, limiterVars, incidentVars, uploadVars,
                      similarVars>>
    \/ /\ part = "incident" /\ IncidentNext
       /\ UNCHANGED <<part, accountVars, limiterVars, chunkVars, uploadVars,
                      similarVars>>
    \/ /\ part = "uploads" /\ UploadNext
       /\ UNCHANGED <<part, accountVars, limiterVars, chunkVars, incidentVars,
                      similarVars>>
    \/ /\ part = "similar" /\ SimilarNext
       /\ UNCHANGED <<part, accountVars, limiterVars, chunkVars, incidentVars,
                      uploadVars>>
    \/ ServicesRest

\* AccountFairness, when that part is played.
ServicesFairness ==
    \A r \in AccountReqs : WF_accountVars(part = "accounts" /\ RequestStep(r))

ServicesSpec ==
    ServicesInit /\ [][ServicesNext]_servicesVars /\ ServicesFairness

\* Types of all variables of the parts.
ServicesTypeOK == /\ AccountTypeOK /\ LimiterTypeOK /\ ChunkTypeOK
                  /\ IncidentTypeOK /\ UploadTypeOK /\ SimilarTypeOK
=============================================================================
