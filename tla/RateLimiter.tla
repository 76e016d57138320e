---------------------------- MODULE RateLimiter -----------------------------
(***************************************************************************)
(* The sliding-window rate limiter of one API process.  A key is a path    *)
(* and a client address; every rate-limited path has one limiter.  The     *)
(* check has no await, so that a request passes it in one step.            *)
(***************************************************************************)
EXTENDS Naturals, Sequences, FiniteSets

CONSTANTS
    Keys,
    times,      \* requests a limiter accepts ...
    seconds,    \* ... in that time
    MaxClock    \* bound: the clock stops there

ASSUME LimiterAssumption ==
    /\ times \in [Keys -> Nat] /\ seconds \in [Keys -> Nat] /\ MaxClock \in Nat

VARIABLES
    clock,      \* time.monotonic()
    hits,       \* _hits: the accepted requests still remembered
    granted,    \* history variable: the times of all accepted requests
    refused     \* history variable: when requests were refused

limiterVars == <<clock, hits, granted, refused>>

LimiterInit ==
    /\ clock = 0
    /\ hits = [k \in Keys |-> <<>>]
    /\ granted = [k \in Keys |-> <<>>]
    /\ refused = [k \in Keys |-> {}]

Old(k, hit) == clock - hit > seconds[k]

\* The loop pops n hits from the left, up to the first that is not old.
Evicts(k, n) ==
    /\ \A i \in 1 .. n : Old(k, hits[k][i])
    /\ n < Len(hits[k]) => ~Old(k, hits[k][n + 1])
Rest(k, n) == SubSeq(hits[k], n + 1, Len(hits[k]))

MutAccept(k) ==  \* Mutant: one request more.
    \E n \in 0 .. Len(hits[k]) :
        /\ Evicts(k, n)
        /\ Len(Rest(k, n)) <= times[k]
        /\ hits' = [hits EXCEPT ![k] = Append(Rest(k, n), clock)]
        /\ granted' = [granted EXCEPT ![k] = Append(@, clock)]
        /\ UNCHANGED <<clock, refused>>

MutAcceptExpiry(k) ==  \* Mutant: a hit is stored by the time it expires.
    \E n \in 0 .. Len(hits[k]) :
        /\ Evicts(k, n)
        /\ Len(Rest(k, n)) < times[k]
        /\ hits' = [hits EXCEPT ![k] = Append(Rest(k, n), clock + seconds[k])]
        /\ granted' = [granted EXCEPT ![k] = Append(@, clock)]
        /\ UNCHANGED <<clock, refused>>

Accept(k) ==
    \E n \in 0 .. Len(hits[k]) :
        /\ Evicts(k, n)
        /\ Len(Rest(k, n)) < times[k]
        /\ hits' = [hits EXCEPT ![k] = Append(Rest(k, n), clock)]
        /\ granted' = [granted EXCEPT ![k] = Append(@, clock)]
        /\ UNCHANGED <<clock, refused>>

\* 429; the eviction is kept.
Reject(k) ==
    \E n \in 0 .. Len(hits[k]) :
        /\ Evicts(k, n)
        /\ Len(Rest(k, n)) >= times[k]
        /\ hits' = [hits EXCEPT ![k] = Rest(k, n)]
        /\ refused' = [refused EXCEPT ![k] = @ \union {clock}]
        /\ UNCHANGED <<clock, granted>>

Tick == /\ clock < MaxClock
        /\ clock' \in clock + 1 .. MaxClock
        /\ UNCHANGED <<hits, granted, refused>>

LimiterNext == Tick \/ \E k \in Keys : Accept(k) \/ Reject(k)

LimiterSpec == LimiterInit /\ [][LimiterNext]_limiterVars
-----------------------------------------------------------------------------
(* Properties. *)

\* Types of all variables.
LimiterTypeOK ==
    /\ clock \in Nat
    /\ hits \in [Keys -> Seq(Nat)]
    /\ granted \in [Keys -> Seq(Nat)]
    /\ refused \in [Keys -> SUBSET Nat]

\* No stretch of time as long as the window, its ends included, holds more
\* accepted requests of a key than the limit: among any times + 1 in a row, the
\* last comes more than the window's length after the first.
NeverMoreThanTimes ==
    \A k \in Keys : \A i \in 1 .. Len(granted[k]) :
        i + times[k] <= Len(granted[k]) =>
            granted[k][i + times[k]] - granted[k][i] > seconds[k]

\* Nobody is turned away without reason: when a request is refused, as many as
\* the limit were accepted within the window that ends there.
RefusedForReason ==
    \A k \in Keys : \A t \in refused[k] :
        Cardinality({i \in 1 .. Len(granted[k]) :
            granted[k][i] <= t /\ t - granted[k][i] <= seconds[k]}) >= times[k]
=============================================================================
