------------------------------ MODULE Incident -------------------------------
(***************************************************************************)
(* What becomes of the groups of a log: they are stored with a severity,   *)
(* ordered into a timeline, and three agents draw a conclusion from it.    *)
(* Stored times are comparable: the database keeps instants.               *)
(***************************************************************************)
EXTENDS LogGroups

CONSTANTS
    AISeverities,    \* severities an insight may give instead
    MaxEvents        \* bound: rows that a second execution may lead to

VARIABLES
    events,     \* the rows of error_groups; sorted, once the timeline is built
    first,      \* first_failure_id
    scratch,    \* what the agents tell each other
    steps,      \* their trace
    outcome,    \* the investigation that is stored
    inquiry     \* "none", "stored", "timeline", "ended" or "refused"

incidentVars == <<groupVars, events, first, scratch, steps, outcome, inquiry>>

MutSeverityByLevel ==  \* Mutant: the level is the severity.
    [critical |-> "critical", error |-> "error", warning |-> "warning"]

SeverityByLevel == [critical |-> "critical", error |-> "high",
                    warning |-> "medium"]
_SEVERITY_RANK == [critical |-> 0, high |-> 1, medium |-> 2, low |-> 3]
Severities == DOMAIN _SEVERITY_RANK

ASSUME IncidentAssumption == AISeverities \subseteq Severities /\ MaxEvents \in Nat

NoEvent == [id |-> "none"]

IncidentInit ==
    /\ GroupInit
    /\ events = <<>>
    /\ first = NoEvent.id
    /\ scratch = [plan |-> <<>>, hypothesis |-> "none", verified |-> FALSE,
                  confidence |-> 40]
    /\ steps = <<>>
    /\ outcome = {}
    /\ inquiry = "none"
-----------------------------------------------------------------------------
Parse ==
    /\ GroupNext
    /\ UNCHANGED <<events, first, scratch, steps, outcome, inquiry>>

\* An execution adds the groups, and so does a second one, after a redelivery.
\* The insight of a row, if it has one, may refine its severity.
Store ==
    /\ reading = "read" /\ inquiry = "none"
    /\ \E n \in {1, 2} :
       /\ n = 2 => 2 * Cardinality(DOMAIN groups) <= MaxEvents
       /\ LET ids == [fingerprint : DOMAIN groups, run : 1 .. n] IN
          \E refined \in [ids -> AISeverities \union {"none"}] :
             LET Event(id) ==
                     LET g == groups[id.fingerprint]
                         ai == refined[id] IN
                     [id |-> id, count |-> g.count,
                      severity |-> IF ai # "none" THEN ai
                                   ELSE SeverityByLevel[id.fingerprint.level],
                      first_seen |-> g.first_seen.time,
                      last_seen |-> g.last_seen.time] IN
             \* the query that the timeline starts from has no order
             \E order \in [1 .. Cardinality(ids) -> ids] :
                /\ \A i, j \in DOMAIN order : i # j => order[i] # order[j]
                /\ events' = [i \in DOMAIN order |-> Event(order[i])]
    /\ inquiry' = "stored"
    /\ UNCHANGED <<groupVars, first, scratch, steps, outcome>>

\* The analysis failed: there is nothing to investigate.
Refuse ==
    /\ reading = "raised" /\ inquiry = "none"
    /\ inquiry' = "refused"
    /\ UNCHANGED <<groupVars, events, first, scratch, steps, outcome>>

Dated(e) == e.first_seen # 0

MutBefore(e, f) ==  \* Mutant: groups without a time sort first.
    \/ e.first_seen < f.first_seen
    \/ /\ e.first_seen = f.first_seen
       /\ \/ _SEVERITY_RANK[e.severity] < _SEVERITY_RANK[f.severity]
          \/ e.severity = f.severity /\ e.count > f.count

\* sort_key: groups with a time by time, then the others; then by severity and
\* by count.
Before(e, f) ==
    \/ Dated(e) /\ ~Dated(f)
    \/ Dated(e) /\ Dated(f) /\ e.first_seen < f.first_seen
    \/ /\ e.first_seen = f.first_seen
       /\ \/ _SEVERITY_RANK[e.severity] < _SEVERITY_RANK[f.severity]
          \/ e.severity = f.severity /\ e.count > f.count

\* sorted is stable.
BuildTimeline ==
    LET Rank(i) == Cardinality({j \in DOMAIN events :
                       \/ Before(events[j], events[i])
                       \/ ~Before(events[i], events[j]) /\ j <= i})
        ordered == [r \in DOMAIN events |->
                       events[CHOOSE i \in DOMAIN events : Rank(i) = r]]
        dated == {r \in DOMAIN events : Dated(ordered[r])}
        earliest == CHOOSE r \in dated : \A q \in dated : r <= q IN
    /\ inquiry = "stored"
    /\ events' = ordered
    /\ first' = IF events = <<>> THEN NoEvent.id
                ELSE IF dated # {} THEN ordered[earliest].id
                ELSE ordered[1].id
    /\ inquiry' = "timeline"
    /\ UNCHANGED <<groupVars, scratch, steps, outcome>>

Others == SelectSeq(events, LAMBDA e : e.id # first)

\* The first failure, and four more.
Planner == [scratch EXCEPT !.plan =
    LET subjects == (IF events = <<>> THEN <<>> ELSE <<first>>)
                    \o [i \in DOMAIN Others |-> Others[i].id] IN
    SubSeq(subjects, 1, IF Len(subjects) < 5 THEN Len(subjects) ELSE 5)]

Investigator == [scratch EXCEPT !.hypothesis =
    CASE events = <<>> -> "no order"
      [] Others # <<>> -> "trigger"
      [] OTHER -> "isolated"]

Verifier ==
    LET dated == SelectSeq(events, Dated)
        supported == /\ events # <<>>
                     /\ dated = <<>> \/ dated[1].id = first
        verified == supported /\ Len(events) > 1 IN
    [scratch EXCEPT
        !.verified = verified,
        !.confidence = IF verified THEN 85
                       ELSE IF events # <<>> THEN 60 ELSE 40]

default_agents == <<"planner", "investigator", "verifier">>
MAX_STEPS == 8

InLoop == /\ inquiry = "timeline" /\ Len(steps) < Len(default_agents)
          /\ ~\E i \in DOMAIN steps : steps[i] = "budget_exceeded"

RunAgent ==
    LET agent == default_agents[Len(steps) + 1] IN
    /\ InLoop /\ Len(steps) < MAX_STEPS
    /\ steps' = Append(steps, agent)
    /\ scratch' = CASE agent = "planner" -> Planner
                    [] agent = "investigator" -> Investigator
                    [] agent = "verifier" -> Verifier
    /\ UNCHANGED <<groupVars, events, first, outcome, inquiry>>

\* The deadline passes between two agents, at any of them.
BudgetExceeded ==
    /\ InLoop
    /\ steps' = Append(steps, "budget_exceeded")
    /\ UNCHANGED <<groupVars, events, first, scratch, outcome, inquiry>>

\* The outcome is assembled and stored with its steps.
Conclude ==
    /\ inquiry = "timeline" /\ ~InLoop
    /\ outcome' = {[conclusion |-> scratch.hypothesis,
                    verified |-> scratch.verified,
                    confidence |-> scratch.confidence,
                    total_steps |-> Len(steps)]}
    /\ inquiry' = "ended"
    /\ UNCHANGED <<groupVars, events, first, scratch, steps>>

IncidentNext == \/ Parse \/ Store \/ Refuse \/ BuildTimeline
                \/ RunAgent \/ BudgetExceeded \/ Conclude

IncidentSpec == IncidentInit /\ [][IncidentNext]_incidentVars
-----------------------------------------------------------------------------
(* Properties. *)

\* Types of all variables.
IncidentTypeOK ==
    /\ GroupTypeOK
    /\ \A i \in DOMAIN events : /\ events[i].severity \in Severities
                                /\ events[i].first_seen \in Nat
    /\ scratch.verified \in BOOLEAN /\ scratch.confidence \in {40, 60, 85}
    /\ inquiry \in {"none", "stored", "timeline", "ended", "refused"}

\* "The FIRST failure is the most valuable signal in any incident, so it's
\* marked": one event is marked, and of the log's error lines none with a time
\* is earlier than it; what has a time comes first, in its order.
FirstFailureIsEarliest ==
    inquiry \in {"timeline", "ended"} /\ events # <<>> =>
        LET marked == {i \in DOMAIN events : events[i].id = first} IN
        /\ Cardinality(marked) = 1
        /\ \A n \in DOMAIN lines :
              LET e == parse_line(parser, lines[n])
                  t == e.timestamp.time IN
              /\ lines[n].shape # "blank" /\ Understands(parser, lines[n])
              /\ e.level \in GroupedLevels /\ t # 0
              => \E i \in marked : /\ i = 1 /\ Dated(events[i])
                                   /\ events[i].first_seen <= t
        /\ \A i, j \in DOMAIN events :
              i < j /\ Dated(events[j]) =>
                  /\ Dated(events[i])
                  /\ events[i].first_seen <= events[j].first_seen

\* "Verified only if the first failure is genuinely the earliest": a verified
\* conclusion names a first failure that has a time (ai/agents/agents.py:75-76).
VerifiedIsEarliest ==
    \A o \in outcome : o.verified =>
        \E i \in DOMAIN events : events[i].id = first /\ Dated(events[i])
=============================================================================
