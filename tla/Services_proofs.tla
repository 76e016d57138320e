--------------------------- MODULE Services_proofs --------------------------
(***************************************************************************)
(* Proofs about the services that stand alone: the rate limiter, the       *)
(* windows of lines the chat retrieves, the upload of a log and the search *)
(* for similar incidents.  They share no state; one module holds them, and *)
(* what follows for the six services when a behaviour plays one of them.   *)
(***************************************************************************)
EXTENDS MCServices, Accounts_proofs, Incident_proofs,
        SequenceTheorems, FiniteSetTheorems, TLAPS
-----------------------------------------------------------------------------
(***************************************************************************)
(* The rate limiter never accepts more than `times` requests in `seconds`, *)
(* for any limits, any keys and any timing.  The window that is kept is    *)
(* the end of the history of accepted requests, and everything before it   *)
(* is old: an accepted request sees at most times - 1 recent ones.         *)
(***************************************************************************)

\* The window of k is the recent end of what was granted, and full at most.
WindowIsRecentEnd(k) ==
    LET w == hits[k]  g == granted[k] IN
    /\ Len(w) <= Len(g) /\ Len(w) <= times[k]
    /\ \A i \in 1 .. Len(w) : w[i] = g[Len(g) - Len(w) + i]
    /\ \A i \in 1 .. Len(g) : g[i] <= clock
    /\ \A i \in 1 .. Len(g) - Len(w) : clock - g[i] > seconds[k]

Spaced(k) ==
    \A i \in 1 .. Len(granted[k]) :
        i + times[k] <= Len(granted[k]) =>
            granted[k][i + times[k]] - granted[k][i] > seconds[k]

LimiterInv == LimiterTypeOK /\ \A k \in Keys : WindowIsRecentEnd(k) /\ Spaced(k)

\* What eviction leaves of a window: a shorter end of it.
LEMMA RestOfWindow ==
    ASSUME LimiterTypeOK, NEW k \in Keys, NEW n \in 0 .. Len(hits[k])
    PROVE  /\ Rest(k, n) \in Seq(Nat)
           /\ Len(Rest(k, n)) = Len(hits[k]) - n
           /\ \A i \in 1 .. Len(hits[k]) - n : Rest(k, n)[i] = hits[k][n + i]
<1>1. hits[k] \in Seq(Nat) /\ Len(hits[k]) \in Nat
    BY DEF LimiterTypeOK
<1>2. \A i \in n + 1 .. Len(hits[k]) : hits[k][i] \in Nat
    <2>1. TAKE i \in n + 1 .. Len(hits[k])
    <2>2. i \in 1 .. Len(hits[k])
        BY <1>1
    <2> QED
        BY <1>1, <2>2, ElementOfSeq
<1>3. /\ Rest(k, n) \in Seq(Nat)
      /\ Len(Rest(k, n)) = IF n + 1 <= Len(hits[k])
                           THEN Len(hits[k]) - (n + 1) + 1 ELSE 0
      /\ \A i \in 1 .. Len(hits[k]) - (n + 1) + 1 :
            Rest(k, n)[i] = hits[k][(n + 1) + i - 1]
    BY <1>1, <1>2, SubSeqProperties, n + 1 \in Int, Len(hits[k]) \in Int
       DEF Rest
<1>4. \A i \in 1 .. Len(hits[k]) - n : (n + 1) + i - 1 = n + i
    BY <1>1
<1> QED
    BY <1>1, <1>3, <1>4
-----------------------------------------------------------------------------
\* Requests and the clock keep the types.
LEMMA LimiterTypes ==
    ASSUME LimiterTypeOK, [LimiterNext]_limiterVars
    PROVE  LimiterTypeOK'
<1> USE LimiterAssumption
<1>1. CASE Tick
    BY <1>1 DEF Tick, LimiterTypeOK
<1>2. ASSUME NEW k \in Keys, Accept(k)
      PROVE  LimiterTypeOK'
    <2>1. PICK n \in 0 .. Len(hits[k]) :
            /\ hits' = [hits EXCEPT ![k] = Append(Rest(k, n), clock)]
            /\ granted' = [granted EXCEPT ![k] = Append(granted[k], clock)]
            /\ UNCHANGED <<clock, refused>>
        BY <1>2 DEF Accept
    <2>2. Append(Rest(k, n), clock) \in Seq(Nat)
        BY RestOfWindow DEF LimiterTypeOK
    <2>3. Append(granted[k], clock) \in Seq(Nat)
        BY DEF LimiterTypeOK
    <2> QED
        BY <2>1, <2>2, <2>3 DEF LimiterTypeOK
<1>3. ASSUME NEW k \in Keys, Reject(k)
      PROVE  LimiterTypeOK'
    <2>1. PICK n \in 0 .. Len(hits[k]) :
            /\ hits' = [hits EXCEPT ![k] = Rest(k, n)]
            /\ refused' = [refused EXCEPT ![k] = refused[k] \union {clock}]
            /\ UNCHANGED <<clock, granted>>
        BY <1>3 DEF Reject
    <2>2. Rest(k, n) \in Seq(Nat)
        BY RestOfWindow
    <2> QED
        BY <2>1, <2>2 DEF LimiterTypeOK
<1>4. CASE UNCHANGED limiterVars
    BY <1>4 DEF limiterVars, LimiterTypeOK
<1> QED
    BY <1>1, <1>2, <1>3, <1>4 DEF LimiterNext

\* After eviction, what the window no longer holds is old.
LEMMA EvictedAreOld ==
    ASSUME LimiterInv, NEW k \in Keys, NEW n \in 0 .. Len(hits[k]),
           Evicts(k, n)
    PROVE  \A i \in 1 .. Len(granted[k]) - (Len(hits[k]) - n) :
              clock - granted[k][i] > seconds[k]
<1>1. PICK G \in Nat : G = Len(granted[k])
    BY DEF LimiterInv, LimiterTypeOK
<1>2. PICK H \in Nat : H = Len(hits[k])
    BY DEF LimiterInv, LimiterTypeOK
<1>3. H <= G /\ n \in Nat /\ n <= H
    <2>1. Len(hits[k]) <= Len(granted[k])
        BY DEF LimiterInv, WindowIsRecentEnd
    <2>2. n \in 0 .. H
        BY <1>2
    <2> QED
        BY <1>1, <1>2, <2>1, <2>2
<1> SUFFICES ASSUME NEW i \in Nat, 1 <= i, i <= G - (H - n)
             PROVE  clock - granted[k][i] > seconds[k]
    BY <1>1, <1>2, <1>3
<1>4. CASE i <= G - H
    <2>1. i \in 1 .. Len(granted[k]) - Len(hits[k])
        BY <1>1, <1>2, <1>4
    <2> QED
        BY <2>1 DEF LimiterInv, WindowIsRecentEnd
<1>5. CASE ~(i <= G - H)
    <2>1. PICK j \in Nat : i = G - H + j
        BY <1>3, <1>5
    <2>2. j \in 1 .. n /\ j \in 1 .. H
        BY <2>1, <1>3, <1>5
    <2>3. hits[k][j] = granted[k][i]
        BY <1>1, <1>2, <2>1, <2>2 DEF LimiterInv, WindowIsRecentEnd
    <2>4. clock - hits[k][j] > seconds[k]
        BY <2>2 DEF Evicts, Old
    <2> QED
        BY <2>3, <2>4
<1> QED
    BY <1>4, <1>5
-----------------------------------------------------------------------------
\* Time only makes hits older.
LEMMA TickKeeps == ASSUME LimiterInv, Tick PROVE LimiterInv'
<1>1. LimiterTypeOK'
    BY LimiterTypes DEF LimiterInv, LimiterNext
<1>2. clock \in Nat /\ clock' \in Nat /\ clock' > clock
      /\ hits' = hits /\ granted' = granted
    BY LimiterAssumption DEF Tick, LimiterInv, LimiterTypeOK
<1>3. ASSUME NEW k \in Keys
      PROVE  WindowIsRecentEnd(k)' /\ Spaced(k)'
    <2>1. /\ granted[k] \in Seq(Nat) /\ Len(granted[k]) \in Nat
          /\ Len(hits[k]) \in Nat /\ seconds[k] \in Nat
        BY LimiterAssumption DEF LimiterInv, LimiterTypeOK
    <2>2. \A i \in 1 .. Len(granted[k]) : granted[k][i] \in Nat
        BY <2>1, ElementOfSeq
    <2>3. WindowIsRecentEnd(k) /\ Spaced(k)
        BY DEF LimiterInv
    <2>4. \A i \in 1 .. Len(granted[k]) : granted[k][i] <= clock'
        BY <1>2, <2>2, <2>3 DEF WindowIsRecentEnd
    <2>5. ASSUME NEW i \in 1 .. Len(granted[k]) - Len(hits[k])
          PROVE  clock' - granted[k][i] > seconds[k]
        <3>1. i \in 1 .. Len(granted[k])
            <4>1. PICK G \in Nat, H \in Nat :
                     G = Len(granted[k]) /\ H = Len(hits[k])
                BY <2>1
            <4>2. i \in 1 .. G - H
                BY <4>1
            <4>3. i \in 1 .. G
                BY <4>2
            <4> QED
                BY <4>1, <4>3
        <3>2. clock - granted[k][i] > seconds[k]
            BY <2>3 DEF WindowIsRecentEnd
        <3> QED
            BY <1>2, <2>1, <2>2, <3>1, <3>2
    <2> QED
        BY <1>2, <2>3, <2>4, <2>5 DEF WindowIsRecentEnd, Spaced
<1> QED
    BY <1>1, <1>3 DEF LimiterInv

\* An accepted request joins the history and the window; the one that comes
\* `times` before it is no longer in the window, and so is old.
LEMMA AcceptKeeps ==
    ASSUME LimiterInv, NEW k \in Keys, Accept(k)
    PROVE  LimiterInv'
<1>1. LimiterTypeOK'
    BY LimiterTypes DEF LimiterInv, LimiterNext
<1>2. PICK n \in 0 .. Len(hits[k]) :
        /\ Evicts(k, n) /\ Len(Rest(k, n)) < times[k]
        /\ hits' = [hits EXCEPT ![k] = Append(Rest(k, n), clock)]
        /\ granted' = [granted EXCEPT ![k] = Append(granted[k], clock)]
        /\ UNCHANGED <<clock, refused>>
    BY DEF Accept
<1>3. LimiterTypeOK /\ WindowIsRecentEnd(k) /\ Spaced(k)
    BY DEF LimiterInv
<1>4. /\ Rest(k, n) \in Seq(Nat) /\ granted[k] \in Seq(Nat)
      /\ clock \in Nat /\ times[k] \in Nat /\ seconds[k] \in Nat
    BY <1>3, RestOfWindow, LimiterAssumption DEF LimiterTypeOK
<1>5. PICK G \in Nat : G = Len(granted[k])
    <2>1. Len(granted[k]) \in Nat
        BY <1>4
    <2> QED
        BY <2>1
<1>6. PICK R \in Nat : R = Len(Rest(k, n))
    <2>1. Len(Rest(k, n)) \in Nat
        BY <1>4
    <2> QED
        BY <2>1
<1>7. /\ R = Len(hits[k]) - n /\ R <= G /\ R < times[k]
      /\ \A i \in 1 .. R : Rest(k, n)[i] = granted[k][G - R + i]
    <2>1. PICK H \in Nat : H = Len(hits[k])
        BY <1>3 DEF LimiterTypeOK
    <2>2. n \in 0 .. H /\ R = H - n /\ H <= G
        BY <1>3, <1>5, <1>6, <2>1, RestOfWindow DEF WindowIsRecentEnd
    <2>3. ASSUME NEW i \in 1 .. R
          PROVE  Rest(k, n)[i] = granted[k][G - R + i]
        <3>1. n + i \in 1 .. H /\ G - H + (n + i) = G - R + i
            BY <2>2
        <3>2. Rest(k, n)[i] = hits[k][n + i]
            BY <1>3, <2>1, <2>2, RestOfWindow
        <3>3. hits[k][n + i] = granted[k][G - H + (n + i)]
            BY <1>3, <1>5, <2>1, <3>1 DEF WindowIsRecentEnd
        <3> QED
            BY <3>1, <3>2, <3>3
    <2>4. R < times[k]
        BY <1>2, <1>6
    <2>5. R = Len(hits[k]) - n /\ R <= G
        BY <2>1, <2>2
    <2> QED
        BY <2>3, <2>4, <2>5
<1>8. \A i \in 1 .. G - R : clock - granted[k][i] > seconds[k]
    BY <1>2, <1>5, <1>7, EvictedAreOld
<1> DEFINE w == hits'[k]  g == granted'[k]
<1>9. /\ Len(w) = R + 1 /\ Len(g) = G + 1
      /\ \A i \in 1 .. R : w[i] = Rest(k, n)[i]
      /\ \A i \in 1 .. G : g[i] = granted[k][i]
      /\ w[R + 1] = clock /\ g[G + 1] = clock
    <2>1. w = Append(Rest(k, n), clock) /\ g = Append(granted[k], clock)
        BY <1>2, <1>3 DEF LimiterTypeOK
    <2> QED
        BY <1>4, <1>5, <1>6, <2>1, AppendProperties
<1> HIDE DEF w, g
<1>10. \A i \in 1 .. R + 1 : w[i] = g[(G + 1) - (R + 1) + i]
    <2>1. ASSUME NEW i \in 1 .. R
          PROVE  w[i] = g[(G + 1) - (R + 1) + i]
        <3>1. G - R + i \in 1 .. G /\ (G + 1) - (R + 1) + i = G - R + i
            BY <1>7
        <3> QED
            BY <1>7, <1>9, <3>1
    <2>2. (G + 1) - (R + 1) + (R + 1) = G + 1
        OBVIOUS
    <2>3. w[R + 1] = g[(G + 1) - (R + 1) + (R + 1)]
        BY <1>9, <2>2
    <2> QED
        BY <2>1, <2>3
<1>11. /\ \A i \in 1 .. G + 1 : g[i] <= clock
       /\ \A i \in 1 .. (G + 1) - (R + 1) : clock - g[i] > seconds[k]
    <2>1. \A i \in 1 .. G : granted[k][i] <= clock
        BY <1>3, <1>5 DEF WindowIsRecentEnd
    <2>2. (G + 1) - (R + 1) = G - R /\ \A i \in 1 .. G - R : i \in 1 .. G
        BY <1>7
    <2>3. \A i \in 1 .. G + 1 : i \in 1 .. G \/ i = G + 1
        OBVIOUS
    <2>4. clock <= clock
        BY <1>4
    <2>5. \A i \in 1 .. G + 1 : g[i] <= clock
        BY <1>9, <2>1, <2>3, <2>4
    <2>6. \A i \in 1 .. (G + 1) - (R + 1) : clock - g[i] > seconds[k]
        BY <1>8, <1>9, <2>2
    <2> QED
        BY <2>5, <2>6
<1>12. \A i \in 1 .. G + 1 :
          i + times[k] <= G + 1 => g[i + times[k]] - g[i] > seconds[k]
    <2> SUFFICES ASSUME NEW i \in 1 .. G + 1, i + times[k] <= G + 1
                 PROVE  g[i + times[k]] - g[i] > seconds[k]
        OBVIOUS
    <2>1. times[k] > 0 /\ i \in 1 .. G
        BY <1>4, <1>7
    <2>2. CASE i + times[k] <= G
        <3>1. i + times[k] \in 1 .. G
            BY <1>4, <2>1, <2>2
        <3>2. granted[k][i + times[k]] - granted[k][i] > seconds[k]
            BY <1>3, <1>5, <2>1, <2>2 DEF Spaced
        <3>3. g[i + times[k]] = granted[k][i + times[k]] /\ g[i] = granted[k][i]
            BY <1>9, <2>1, <3>1
        <3> QED
            BY <3>2, <3>3
    <2>3. CASE i + times[k] = G + 1
        <3>1. i \in 1 .. G - R
            BY <1>4, <1>7, <2>1, <2>3
        <3> QED
            BY <1>8, <1>9, <2>1, <2>3, <3>1
    <2>4. PICK t \in Nat : t = times[k]
        BY <1>4
    <2>5. i + t <= G \/ i + t = G + 1
        BY <2>4
    <2> QED
        BY <2>2, <2>3, <2>4, <2>5
<1>13. WindowIsRecentEnd(k)' /\ Spaced(k)'
    <2>1. clock' = clock /\ R + 1 <= G + 1 /\ R + 1 <= times[k]
        BY <1>2, <1>4, <1>7
    <2> QED
        BY <1>9, <1>10, <1>11, <1>12, <2>1 DEF WindowIsRecentEnd, Spaced, w, g
<1>14. ASSUME NEW m \in Keys, m # k
       PROVE  WindowIsRecentEnd(m)' /\ Spaced(m)'
    <2>1. hits'[m] = hits[m] /\ granted'[m] = granted[m] /\ clock' = clock
        BY <1>2, <1>3, <1>14 DEF LimiterTypeOK
    <2> QED
        BY <2>1 DEF LimiterInv, WindowIsRecentEnd, Spaced
<1> QED
    BY <1>1, <1>13, <1>14 DEF LimiterInv

\* A refused request only evicts.
LEMMA RejectKeeps ==
    ASSUME LimiterInv, NEW k \in Keys, Reject(k)
    PROVE  LimiterInv'
<1>1. LimiterTypeOK'
    BY LimiterTypes DEF LimiterInv, LimiterNext
<1>2. PICK n \in 0 .. Len(hits[k]) :
        /\ Evicts(k, n)
        /\ hits' = [hits EXCEPT ![k] = Rest(k, n)]
        /\ UNCHANGED <<clock, granted>>
    BY DEF Reject
<1>3. LimiterTypeOK /\ WindowIsRecentEnd(k) /\ Spaced(k)
    BY DEF LimiterInv
<1>4. PICK G \in Nat : G = Len(granted[k])
    BY <1>3 DEF LimiterTypeOK
<1>5. PICK H \in Nat : H = Len(hits[k])
    BY <1>3 DEF LimiterTypeOK
<1>6. n \in 0 .. H /\ H <= G /\ H <= times[k] /\ times[k] \in Nat
    BY <1>3, <1>4, <1>5, LimiterAssumption DEF WindowIsRecentEnd
<1>7. PICK R \in Nat : R = H - n
    BY <1>6
<1>8. hits'[k] = Rest(k, n) /\ granted'[k] = granted[k] /\ clock' = clock
    BY <1>2, <1>3 DEF LimiterTypeOK
<1>9. Len(Rest(k, n)) = R
    BY <1>3, <1>5, <1>7, RestOfWindow
<1>10. ASSUME NEW i \in 1 .. R
       PROVE  Rest(k, n)[i] = granted[k][G - R + i]
    <2>1. n + i \in 1 .. H /\ G - H + (n + i) = G - R + i
        BY <1>6, <1>7
    <2>2. Rest(k, n)[i] = hits[k][n + i]
        BY <1>3, <1>5, <1>7, RestOfWindow
    <2>3. hits[k][n + i] = granted[k][G - H + (n + i)]
        BY <1>3, <1>4, <1>5, <2>1 DEF WindowIsRecentEnd
    <2> QED
        BY <2>1, <2>2, <2>3
<1>11. \A i \in 1 .. G - R : clock - granted[k][i] > seconds[k]
    BY <1>2, <1>4, <1>5, <1>7, EvictedAreOld
<1>12. WindowIsRecentEnd(k)' /\ Spaced(k)'
    <2>1. R <= G /\ R <= times[k]
        BY <1>6, <1>7
    <2> QED
        BY <1>3, <1>4, <1>8, <1>9, <1>10, <1>11, <2>1
           DEF WindowIsRecentEnd, Spaced
<1>13. ASSUME NEW m \in Keys, m # k
       PROVE  WindowIsRecentEnd(m)' /\ Spaced(m)'
    <2>1. hits'[m] = hits[m] /\ granted'[m] = granted[m] /\ clock' = clock
        BY <1>2, <1>3, <1>13 DEF LimiterTypeOK
    <2> QED
        BY <2>1 DEF LimiterInv, WindowIsRecentEnd, Spaced
<1> QED
    BY <1>1, <1>12, <1>13 DEF LimiterInv
-----------------------------------------------------------------------------
\* LimiterInv is inductive.
LEMMA LimiterInvariant == LimiterSpec => []LimiterInv
<1>1. LimiterInit => LimiterInv
    BY LimiterAssumption
       DEF LimiterInit, LimiterInv, LimiterTypeOK, WindowIsRecentEnd, Spaced
<1>2. LimiterInv /\ [LimiterNext]_limiterVars => LimiterInv'
    <2> SUFFICES ASSUME LimiterInv, [LimiterNext]_limiterVars
                 PROVE  LimiterInv'
        OBVIOUS
    <2>1. CASE UNCHANGED limiterVars
        BY <2>1 DEF limiterVars, LimiterInv, LimiterTypeOK,
                    WindowIsRecentEnd, Spaced
    <2> QED
        BY <2>1, TickKeeps, AcceptKeeps, RejectKeeps DEF LimiterNext
<1> QED
    BY <1>1, <1>2, PTL DEF LimiterSpec

\* Type correctness of the limiter, for any keys and limits
\* (core/ratelimit.py:15-34).
THEOREM LimiterTypeCorrect == LimiterSpec => []LimiterTypeOK
<1>1. LimiterInv => LimiterTypeOK
    BY DEF LimiterInv
<1> QED
    BY <1>1, LimiterInvariant, PTL

\* Whatever the limits and however requests are timed, no window's length of
\* time holds more accepted requests of a key than its limit
\* (core/ratelimit.py:25-34).
THEOREM LimitHolds == LimiterSpec => []NeverMoreThanTimes
<1>1. LimiterInv => NeverMoreThanTimes
    BY DEF LimiterInv, NeverMoreThanTimes, Spaced
<1> QED
    BY <1>1, LimiterInvariant, PTL
\* The accepted requests that count against a request of k at time t.
InWindow(k, t) == {i \in 1 .. Len(granted[k]) :
                      granted[k][i] <= t /\ t - granted[k][i] <= seconds[k]}

\* Times are accepted in their order, and at every refusal the limit was used up.
InOrder(k) == \A i, j \in 1 .. Len(granted[k]) :
                  i <= j => granted[k][i] <= granted[k][j]
Refusals(k) == \A t \in refused[k] : Cardinality(InWindow(k, t)) >= times[k]

RefusalInv == \A k \in Keys : InOrder(k) /\ Refusals(k)

LEMMA WindowIsFinite ==
    ASSUME LimiterTypeOK, NEW k \in Keys, NEW t
    PROVE  IsFiniteSet(InWindow(k, t)) /\ Cardinality(InWindow(k, t)) \in Nat
<1>1. IsFiniteSet(1 .. Len(granted[k]))
    <2>1. Len(granted[k]) \in Int
        BY DEF LimiterTypeOK
    <2> QED
        BY <2>1, FS_Interval, 1 \in Int
<1>2. InWindow(k, t) \in SUBSET (1 .. Len(granted[k]))
    BY DEF InWindow
<1> QED
    BY <1>1, <1>2, FS_Subset, FS_CardinalityType

\* A further accepted request takes nothing from an earlier window.
LEMMA AcceptKeepsRefusals ==
    ASSUME LimiterInv, RefusalInv, NEW k \in Keys, Accept(k)
    PROVE  RefusalInv'
<1>1. LimiterTypeOK /\ LimiterTypeOK' /\ WindowIsRecentEnd(k)
    BY LimiterTypes DEF LimiterInv, LimiterNext
<1>2. /\ granted' = [granted EXCEPT ![k] = Append(granted[k], clock)]
      /\ refused' = refused
    BY DEF Accept
<1>3. ASSUME NEW m \in Keys, m # k PROVE InOrder(m)' /\ Refusals(m)'
    <2>1. granted'[m] = granted[m]
        BY <1>1, <1>2, <1>3 DEF LimiterTypeOK
    <2>2. \A t : InWindow(m, t)' = InWindow(m, t)
        BY <2>1 DEF InWindow
    <2> QED
        BY <1>2, <2>1, <2>2 DEF RefusalInv, InOrder, Refusals
<1>4. PICK G \in Nat : G = Len(granted[k])
    BY <1>1 DEF LimiterTypeOK
<1> DEFINE g == granted'[k]
<1>5. /\ Len(g) = G + 1 /\ g[G + 1] = clock
      /\ \A i \in 1 .. G : g[i] = granted[k][i]
    <2>1. granted[k] \in Seq(Nat) /\ clock \in Nat
        BY <1>1 DEF LimiterTypeOK
    <2>2. g = Append(granted[k], clock)
        BY <1>1, <1>2 DEF LimiterTypeOK
    <2> QED
        BY <1>4, <2>1, <2>2, AppendProperties
<1> HIDE DEF g
<1>6. \A i \in 1 .. G : granted[k][i] <= clock
    BY <1>1, <1>4 DEF WindowIsRecentEnd
<1>7. InOrder(k)'
    <2> SUFFICES ASSUME NEW i \in 1 .. G + 1, NEW j \in 1 .. G + 1, i <= j
                 PROVE  g[i] <= g[j]
        BY <1>5 DEF InOrder, g
    <2>1. CASE j \in 1 .. G
        <3>1. i \in 1 .. G
            BY <2>1
        <3> QED
            BY <1>4, <1>5, <2>1, <3>1 DEF RefusalInv, InOrder
    <2>2. CASE j = G + 1
        <3>1. CASE i \in 1 .. G
            BY <1>5, <1>6, <2>2, <3>1
        <3>2. CASE i = G + 1
            <4>1. clock \in Nat
                BY <1>1 DEF LimiterTypeOK
            <4> QED
                BY <1>5, <2>2, <3>2, <4>1
        <3> QED
            BY <3>1, <3>2
    <2> QED
        BY <2>1, <2>2
<1>8. ASSUME NEW t \in refused[k]
      PROVE  Cardinality(InWindow(k, t)') >= times[k]
    <2>1. InWindow(k, t) \in SUBSET (InWindow(k, t)')
        <3> SUFFICES ASSUME NEW i \in InWindow(k, t) PROVE i \in InWindow(k, t)'
            OBVIOUS
        <3>1. i \in 1 .. G /\ i \in 1 .. G + 1
            BY <1>4 DEF InWindow
        <3> QED
            BY <1>5, <3>1 DEF InWindow, g
    <2>2. IsFiniteSet(InWindow(k, t)') /\ Cardinality(InWindow(k, t)') \in Nat
        <3>1. IsFiniteSet(1 .. G + 1)
            BY FS_Interval, 1 \in Int, G + 1 \in Int
        <3>2. InWindow(k, t)' \in SUBSET (1 .. G + 1)
            BY <1>5 DEF InWindow, g
        <3> QED
            BY <3>1, <3>2, FS_Subset, FS_CardinalityType
    <2>3. Cardinality(InWindow(k, t)) <= Cardinality(InWindow(k, t)')
        BY <2>1, <2>2, FS_Subset
    <2>4. /\ Cardinality(InWindow(k, t)) \in Nat /\ times[k] \in Nat
          /\ Cardinality(InWindow(k, t)) >= times[k]
        BY <1>1, WindowIsFinite, LimiterAssumption DEF RefusalInv, Refusals
    <2> QED
        BY <2>2, <2>3, <2>4
<1>9. Refusals(k)'
    BY <1>2, <1>8 DEF Refusals
<1> QED
    BY <1>3, <1>7, <1>9 DEF RefusalInv

\* What is left of the window when a request is refused is recent, and there
\* is as much of it as the limit.
LEMMA RejectHasReason ==
    ASSUME LimiterInv, RefusalInv, NEW k \in Keys, Reject(k)
    PROVE  Cardinality(InWindow(k, clock)) >= times[k]
<1>1. /\ LimiterTypeOK /\ WindowIsRecentEnd(k) /\ InOrder(k)
      /\ clock \in Nat /\ seconds[k] \in Nat /\ times[k] \in Nat
    BY LimiterAssumption DEF LimiterInv, LimiterTypeOK, RefusalInv
<1>2. PICK n \in 0 .. Len(hits[k]) : Evicts(k, n) /\ Len(Rest(k, n)) >= times[k]
    BY DEF Reject
<1>3. PICK G \in Nat : G = Len(granted[k])
    BY <1>1 DEF LimiterTypeOK
<1>4. PICK H \in Nat : H = Len(hits[k])
    BY <1>1 DEF LimiterTypeOK
<1>5. n \in Nat /\ n <= H /\ H <= G /\ H - n >= times[k]
    BY <1>1, <1>2, <1>3, <1>4, RestOfWindow DEF WindowIsRecentEnd
<1>6. PICK lo \in Nat : lo = G - (H - n) + 1
    BY <1>5
<1>7. ASSUME NEW i \in lo .. G PROVE i \in InWindow(k, clock)
    <2>1. /\ n + 1 \in 1 .. H /\ n < H /\ lo = G - H + (n + 1)
          /\ lo \in 1 .. G /\ i \in 1 .. G /\ lo <= i
        BY <1>5, <1>6
    <2>2. ~(clock - hits[k][n + 1] > seconds[k])
        BY <1>2, <1>4, <2>1 DEF Evicts, Old
    <2>3. hits[k][n + 1] = granted[k][lo]
        BY <1>1, <1>3, <1>4, <2>1 DEF WindowIsRecentEnd
    <2>4. granted[k][lo] <= granted[k][i] /\ granted[k][i] <= clock
        BY <1>1, <1>3, <2>1 DEF InOrder, WindowIsRecentEnd
    <2>5. granted[k][lo] \in Nat /\ granted[k][i] \in Nat
        <3>1. granted[k] \in Seq(Nat)
            BY <1>1 DEF LimiterTypeOK
        <3> QED
            BY <1>3, <2>1, <3>1, ElementOfSeq
    <2>6. clock - granted[k][i] <= seconds[k]
        BY <1>1, <2>2, <2>3, <2>4, <2>5
    <2> QED
        BY <1>3, <2>1, <2>4, <2>6 DEF InWindow
<1>8. lo .. G \in SUBSET InWindow(k, clock)
    BY <1>7
<1>9. Cardinality(lo .. G) >= times[k] /\ Cardinality(lo .. G) \in Nat
    <2>1. Cardinality(lo .. G) = IF lo > G THEN 0 ELSE G - lo + 1
        BY FS_Interval, lo \in Int, G \in Int
    <2> QED
        BY <1>1, <1>5, <1>6, <2>1
<1>10. /\ Cardinality(lo .. G) <= Cardinality(InWindow(k, clock))
       /\ Cardinality(InWindow(k, clock)) \in Nat
    BY <1>1, <1>8, WindowIsFinite, FS_Subset
<1> QED
    BY <1>1, <1>9, <1>10

LEMMA RefusalInvariant == LimiterSpec => []RefusalInv
<1>1. LimiterInit => RefusalInv
    BY DEF LimiterInit, RefusalInv, InOrder, Refusals
<1>2. LimiterInv /\ RefusalInv /\ [LimiterNext]_limiterVars => RefusalInv'
    <2> SUFFICES ASSUME LimiterInv, RefusalInv, [LimiterNext]_limiterVars
                 PROVE  RefusalInv'
        OBVIOUS
    <2>1. CASE Tick \/ UNCHANGED limiterVars
        <3>1. granted' = granted /\ refused' = refused
            BY <2>1 DEF Tick, limiterVars
        <3>2. \A k, t : InWindow(k, t)' = InWindow(k, t)
            BY <3>1 DEF InWindow
        <3> QED
            BY <3>1, <3>2 DEF RefusalInv, InOrder, Refusals
    <2>2. ASSUME NEW k \in Keys, Reject(k) PROVE RefusalInv'
        <3>1. /\ granted' = granted
              /\ refused' = [refused EXCEPT ![k] = refused[k] \union {clock}]
            BY <2>2 DEF Reject
        <3>2. /\ \A m \in Keys : m # k => refused'[m] = refused[m]
              /\ refused'[k] = refused[k] \union {clock}
            BY <3>1 DEF LimiterInv, LimiterTypeOK
        <3>3. \A m, t : InWindow(m, t)' = InWindow(m, t)
            BY <3>1 DEF InWindow
        <3>4. Cardinality(InWindow(k, clock)) >= times[k]
            BY <2>2, RejectHasReason
        <3> QED
            BY <3>1, <3>2, <3>3, <3>4 DEF RefusalInv, InOrder, Refusals
    <2> QED
        BY <2>1, <2>2, AcceptKeepsRefusals DEF LimiterNext
<1> QED
    BY <1>1, <1>2, LimiterInvariant, PTL DEF LimiterSpec

\* Whoever is refused had used up the limit within the window that ends there,
\* for any limits, keys and timing.
THEOREM RefusalsAreJustified == LimiterSpec => []RefusedForReason
<1>1. RefusalInv => RefusedForReason
    BY DEF RefusalInv, Refusals, InWindow, RefusedForReason
<1> QED
    BY <1>1, RefusalInvariant, PTL
-----------------------------------------------------------------------------
(***************************************************************************)
(* For windows, overlaps and logs of any size, no run of lines that fits   *)
(* into the overlap is torn apart.                                         *)
(***************************************************************************)

\* Lines i to j are in one chunk.
Together(i, j) == \E c \in chunks : c.start_line <= i /\ j <= c.end_line

\* The lines before start are done: what begins there is already together.
DoneBefore ==
    \A i, j \in 1 .. text.total :
        /\ i <= j /\ j - i <= OVERLAP_LINES /\ ~(i .. j \subseteq text.blank)
        /\ i <= start \/ ~cutting
        => Together(i, j)

ChunkInv ==
    /\ ChunkTypeOK
    /\ stride > 0 /\ window = stride + OVERLAP_LINES
    /\ cutting => start < text.total
    /\ DoneBefore

-----------------------------------------------------------------------------
\* Widened or not, the stride is positive.
LEMMA StrideIsPositive ==
    ASSUME NEW len \in Nat
    PROVE  WideStride(len) \in Nat /\ WideStride(len) > 0
<1>1. Stride \in Nat /\ Stride > 0
    BY ChunkAssumption DEF Stride
<1>2. len \div MAX_CHUNKS \in Int
    BY ChunkAssumption
<1>3. CASE len \div MAX_CHUNKS > Stride
    <2>1. len \div MAX_CHUNKS \in Nat /\ len \div MAX_CHUNKS > 0
        BY <1>1, <1>2, <1>3
    <2> QED
        BY <1>1, <2>1 DEF WideStride
<1>4. CASE ~(len \div MAX_CHUNKS > Stride)
    BY <1>1, <1>4 DEF WideStride
<1> QED
    BY <1>3, <1>4

\* The loop starts with nothing done.
LEMMA ChunkInvInit == ChunkInit => ChunkInv
<1> SUFFICES ASSUME ChunkInit
             PROVE  ChunkInv
    OBVIOUS
<1>1. text \in Texts /\ text.total \in Nat
    BY ChunkAssumption DEF ChunkInit
<1>2. stride \in Nat /\ stride > 0 /\ window = stride + OVERLAP_LINES
    BY <1>1, StrideIsPositive DEF ChunkInit
<1>3. window \in Nat
    BY <1>2, ChunkAssumption
<1>4. start = 0 /\ chunks = {} /\ cutting = (text.total > 0)
    BY DEF ChunkInit
<1>5. ChunkTypeOK
    BY <1>1, <1>2, <1>3, <1>4 DEF ChunkTypeOK
<1>6. cutting => start < text.total
    BY <1>1, <1>4
<1>7. DoneBefore
    <2>1. CASE text.total > 0
        <3>1. cutting
            BY <1>4, <2>1, Zenon
        <3>2. \A i \in 1 .. text.total : ~(i <= start)
            BY <1>1, <1>4
        <3> QED
            BY <3>1, <3>2 DEF DoneBefore
    <2>2. CASE ~(text.total > 0)
        <3>1. 1 .. text.total = {}
            BY <1>1, <2>2
        <3> QED
            BY <3>1 DEF DoneBefore
    <2> QED
        BY <2>1, <2>2
<1> QED
    BY <1>2, <1>5, <1>6, <1>7 DEF ChunkInv

\* A turn of the loop keeps all of it: what begins within the stride of this
\* turn ends within its window.
LEMMA CutKeeps ==
    ASSUME ChunkInv, Cut
    PROVE  ChunkInv'
<1>1. /\ text \in Texts /\ text.total \in Nat /\ OVERLAP_LINES \in Nat
      /\ stride \in Nat /\ stride > 0 /\ window = stride + OVERLAP_LINES
      /\ start \in Nat /\ start < text.total /\ chunks \subseteq Chunk
    BY ChunkAssumption DEF ChunkInv, ChunkTypeOK, Cut
<1>2. text' = text /\ stride' = stride /\ window' = window
    BY DEF Cut
<1>3. /\ End \in Nat /\ End <= text.total /\ End > start
      /\ End >= text.total \/ End = start + window
    BY <1>1 DEF End
<1> DEFINE new == [start_line |-> start + 1, end_line |-> End]
<1>4. chunks \subseteq chunks'
    BY DEF Cut
<1>5. ~(start + 1 .. End \subseteq text.blank) => new \in chunks'
    BY DEF Cut
<1>6. \/ End >= text.total /\ cutting' = FALSE /\ start' = start
      \/ End < text.total /\ cutting' = TRUE /\ start' = start + stride
    <2>1. CASE End >= text.total
        BY <2>1 DEF Cut
    <2>2. CASE ~(End >= text.total)
        <3>1. start' = start + stride /\ cutting' = cutting
            BY <2>2 DEF Cut
        <3>2. cutting = TRUE
            BY DEF Cut, ChunkInv, ChunkTypeOK
        <3>3. End < text.total
            BY <1>1, <1>3, <2>2
        <3> QED
            BY <3>1, <3>2, <3>3
    <2> QED
        BY <2>1, <2>2
<1>7. new \in Chunk
    BY <1>1, <1>3 DEF Chunk
<1>8. ChunkTypeOK'
    <2>1. chunks' \subseteq Chunk
        BY <1>1, <1>7 DEF Cut
    <2>2. start' \in Nat
        BY <1>1, <1>6
    <2>3. cutting' \in BOOLEAN
        BY <1>6
    <2> QED
        BY <1>2, <2>1, <2>2, <2>3 DEF ChunkTypeOK, ChunkInv
<1>9. cutting' => start' < text.total
    BY <1>1, <1>3, <1>6
<1>10. DoneBefore'
    <2> SUFFICES ASSUME NEW i \in 1 .. text.total, NEW j \in 1 .. text.total,
                        i <= j, j - i <= OVERLAP_LINES,
                        ~(i .. j \subseteq text.blank),
                        i <= start' \/ ~cutting'
                 PROVE  Together(i, j)'
        BY <1>2 DEF DoneBefore
    <2>1. CASE i <= start
        <3>1. Together(i, j)
            BY <2>1 DEF ChunkInv, DoneBefore
        <3> QED
            BY <1>4, <3>1 DEF Together
    <2>2. CASE i > start
        <3>1. start + 1 <= i /\ j <= End
            BY <1>1, <1>3, <1>6, <2>2
        <3>2. i .. j \subseteq start + 1 .. End
            BY <1>1, <1>3, <3>1
        <3>3. new \in chunks'
            BY <1>5, <3>2
        <3> QED
            BY <3>1, <3>3 DEF Together
    <2> QED
        BY <1>1, <2>1, <2>2
<1> QED
    BY <1>1, <1>2, <1>8, <1>9, <1>10 DEF ChunkInv

\* The inductive invariant holds throughout.
LEMMA ChunkInvariant == ChunkSpec => []ChunkInv
<1>1. ChunkInv /\ [ChunkNext]_chunkVars => ChunkInv'
    <2> SUFFICES ASSUME ChunkInv, [ChunkNext]_chunkVars
                 PROVE  ChunkInv'
        OBVIOUS
    <2>1. CASE Cut
        BY <2>1, CutKeeps
    <2>2. CASE UNCHANGED chunkVars
        BY <2>2 DEF chunkVars, ChunkInv, ChunkTypeOK, DoneBefore, Together
    <2> QED
        BY <2>1, <2>2 DEF ChunkNext
<1> QED
    BY <1>1, ChunkInvInit, PTL DEF ChunkSpec

\* The variables keep their types.
THEOREM ChunkTypeCorrect == ChunkSpec => []ChunkTypeOK
<1>1. ChunkInv => ChunkTypeOK
    BY DEF ChunkInv
<1> QED
    BY <1>1, ChunkInvariant, PTL

\* Every run of lines no longer than the overlap allows, blank lines apart, is
\* whole in some chunk when chunk_lines returns, whatever the size of the log.
THEOREM EventsAreNeverTorn == ChunkSpec => []EventsStayWhole
<1>1. ChunkInv => EventsStayWhole
    BY DEF ChunkInv, DoneBefore, Together, EventsStayWhole
<1> QED
    BY <1>1, ChunkInvariant, PTL
-----------------------------------------------------------------------------
(***************************************************************************)
(* A log is stored whole or not at all, whatever its size, the limits and  *)
(* the size of a read, and wherever a request fails.                       *)
(***************************************************************************)

UploadStages == {"start", "read", "register", "accept", "enqueue", "ended"}
UploadRows == [flushed : BOOLEAN, committed : BOOLEAN, size_bytes : Nat]
UploadTypes == /\ UploadTypeOK /\ sent \in Sent /\ rows \in UploadRows
               /\ upStage \in UploadStages

\* The file has every byte, and no more than the limit of its source.
Complete ==
    /\ disk = sent.bytes /\ size = sent.bytes /\ disk > 0
    /\ disk <= IF sent.source = "upload" THEN max_upload_bytes
               ELSE max_paste_bytes

\* What each stage has done so far.
StageDone ==
    /\ upStage = "start" => size = 0 /\ disk = NoFile
    /\ upStage = "read" => /\ disk = size /\ size <= sent.bytes
                           /\ size <= max_upload_bytes
                           /\ sent.source = "upload"
    /\ upStage \in {"start", "read", "register"} => rows = NoRows
    /\ upStage \in {"register", "accept", "enqueue"} => Complete
    /\ upStage = "accept" => ~rows.committed /\ rows.size_bytes = size
    /\ upStage = "enqueue" => rows.committed
    /\ upStage # "ended" => result = 0 /\ ~queued

\* What holds at the end as well.
Kept ==
    /\ rows.committed => Complete /\ rows.size_bytes = size
    /\ queued => rows.committed
    /\ result \in {400, 413} => disk = NoFile /\ ~rows.flushed

UploadInv == UploadTypes /\ StageDone /\ Kept
-----------------------------------------------------------------------------
\* A request starts with nothing on disk.
LEMMA UploadInvInit == UploadInit => UploadInv
<1> SUFFICES ASSUME UploadInit
             PROVE  UploadInv
    OBVIOUS
<1>1. rows \in UploadRows /\ ~rows.flushed /\ ~rows.committed
    BY DEF UploadInit, NoRows, UploadRows
<1>2. UploadTypes
    BY <1>1 DEF UploadInit, UploadTypes, UploadTypeOK, UploadRows, UploadStages
<1>3. StageDone
    BY DEF UploadInit, StageDone
<1>4. Kept
    BY <1>1 DEF UploadInit, Kept
<1> QED
    BY <1>2, <1>3, <1>4 DEF UploadInv

\* The logs that are sent have a size and a source.
LEMMA SentTypes == sent \in Sent => /\ sent.bytes \in Nat
                                    /\ sent.source \in {"upload", "paste"}
                                    /\ sent.source = "paste" => sent.bytes > 0
<1>1. \A b \in Sizes : b \in Nat
    BY UploadAssumption
<1>2. CASE sent \in [source : {"upload"}, bytes : Sizes, blank : {FALSE}]
    BY <1>1, <1>2
<1>3. CASE sent \in [source : {"paste"}, bytes : Sizes \ {0}, blank : BOOLEAN]
    <2>1. sent.bytes \in Sizes \ {0} /\ sent.source = "paste"
        BY <1>3
    <2> QED
        BY <1>1, <2>1
<1> QED
    BY <1>2, <1>3 DEF Sent

\* A read is not longer than what is left of the log.
LEMMA ReadChunkKeeps == ASSUME UploadInv, ReadChunk PROVE UploadInv'
<1> DEFINE chunk == Smaller(CHUNK, sent.bytes - size)
<1>1. /\ sent.bytes \in Nat /\ size \in Nat /\ CHUNK \in Nat
      /\ max_upload_bytes \in Nat
    BY SentTypes, UploadAssumption
       DEF UploadInv, UploadTypes, UploadTypeOK
<1>2. upStage = "read" /\ disk = size /\ size <= sent.bytes
    BY DEF ReadChunk, UploadInv, StageDone
<1>3. chunk \in Nat /\ size + chunk <= sent.bytes
    BY <1>1, <1>2 DEF Smaller
<1>4. size' = size + chunk /\ size' \in Nat /\ size' <= sent.bytes
    BY <1>1, <1>3 DEF ReadChunk
<1>5. UNCHANGED <<sent, rows, queued>> /\ rows = NoRows /\ ~queued
    BY <1>2 DEF ReadChunk, UploadInv, StageDone
<1>6. CASE size' > max_upload_bytes
    <2>1. disk' = NoFile /\ result' = 413 /\ upStage' = "ended"
        BY <1>6 DEF ReadChunk, Answer
    <2> QED
        BY <1>4, <1>5, <2>1
           DEF UploadInv, UploadTypes, UploadTypeOK, UploadStages, StageDone,
               Kept, NoRows
<1>7. CASE ~(size' > max_upload_bytes)
    <2>1. disk' = size' /\ result' = result /\ upStage' = "read"
        BY <1>2, <1>4, <1>7 DEF ReadChunk
    <2> QED
        BY <1>1, <1>2, <1>4, <1>5, <1>7, <2>1
           DEF UploadInv, UploadTypes, UploadTypeOK, UploadStages, StageDone,
               Kept, NoRows
<1> QED
    BY <1>6, <1>7

\* A paste is written whole, if at all.
LEMMA PasteKeeps == ASSUME UploadInv, Paste PROVE UploadInv'
<1>1. /\ sent.bytes \in Nat /\ sent.bytes > 0 /\ max_paste_bytes \in Nat
      /\ sent.source = "paste"
    BY SentTypes, UploadAssumption DEF Paste, UploadInv, UploadTypes
<1>2. /\ UNCHANGED <<sent, rows, queued>> /\ size' = sent.bytes
      /\ rows = NoRows /\ ~queued /\ disk = NoFile /\ result = 0
    BY DEF Paste, UploadInv, StageDone
<1>3. CASE sent.bytes > max_paste_bytes \/ sent.blank
    <2>1. disk' = NoFile /\ result' \in {400, 413} /\ upStage' = "ended"
        BY <1>1, <1>2, <1>3 DEF Paste, Answer
    <2> QED
        BY <1>1, <1>2, <2>1
           DEF UploadInv, UploadTypes, UploadTypeOK, UploadStages, StageDone,
               Kept, NoRows
<1>4. CASE ~(sent.bytes > max_paste_bytes \/ sent.blank)
    <2>1. disk' = sent.bytes /\ result' = 0 /\ upStage' = "register"
        BY <1>1, <1>2, <1>4 DEF Paste
    <2>2. Complete'
        BY <1>1, <1>2, <1>4, <2>1 DEF Complete
    <2> QED
        BY <1>1, <1>2, <2>1, <2>2
           DEF UploadInv, UploadTypes, UploadTypeOK, UploadStages, StageDone,
               Kept, NoRows
<1> QED
    BY <1>3, <1>4

\* After the file, only rows and the message follow; a failure leaves both as
\* they are committed.
LEMMA RegisterKeeps ==
    ASSUME UploadInv, FlushRows \/ CommitRows \/ Enqueues \/ UploadFails
    PROVE  UploadInv'
<1>1. UNCHANGED <<sent, size, disk>>
    BY DEF FlushRows, CommitRows, Enqueues, UploadFails
<1>2. Complete' <=> Complete
    BY <1>1 DEF Complete
<1>3. rows \in UploadRows /\ size \in Nat
    BY DEF UploadInv, UploadTypes, UploadTypeOK
<1>4. CASE FlushRows
    BY <1>1, <1>2, <1>3, <1>4
       DEF FlushRows, UploadInv, UploadTypes, UploadTypeOK, UploadRows,
           UploadStages, StageDone, Kept, NoRows
<1>5. CASE CommitRows
    <2>1. /\ rows' \in UploadRows /\ rows'.committed
          /\ rows'.size_bytes = rows.size_bytes
        BY <1>3, <1>5 DEF CommitRows, UploadRows
    <2>2. Complete /\ rows.size_bytes = size /\ result = 0 /\ ~queued
        BY <1>5 DEF CommitRows, UploadInv, StageDone
    <2>3. /\ upStage' = "enqueue" /\ result' = 0 /\ ~queued'
          /\ queued' \in BOOLEAN
        BY <1>5, <2>2 DEF CommitRows, UploadInv, UploadTypes, UploadTypeOK
    <2>4. UploadTypes'
        BY <1>1, <2>1, <2>3
           DEF UploadInv, UploadTypes, UploadTypeOK, UploadRows, UploadStages
    <2>5. StageDone' /\ Kept'
        BY <1>1, <1>2, <2>1, <2>2, <2>3 DEF StageDone, Kept
    <2> QED
        BY <2>4, <2>5 DEF UploadInv
<1>6. CASE Enqueues
    BY <1>1, <1>2, <1>3, <1>6
       DEF Enqueues, Answer, UploadInv, UploadTypes, UploadTypeOK, UploadRows,
           UploadStages, StageDone, Kept
<1>7. CASE UploadFails
    BY <1>1, <1>2, <1>3, <1>7
       DEF UploadFails, Answer, UploadInv, UploadTypes, UploadTypeOK,
           UploadRows, UploadStages, StageDone, Kept
<1> QED
    BY <1>4, <1>5, <1>6, <1>7

LEMMA UploadInvariant == UploadSpec => []UploadInv
<1>1. UploadInv /\ [UploadNext]_uploadVars => UploadInv'
    <2> SUFFICES ASSUME UploadInv, [UploadNext]_uploadVars
                 PROVE  UploadInv'
        OBVIOUS
    <2>1. CASE Open
        BY <2>1, UploadAssumption, SentTypes
           DEF Open, UploadInv, UploadTypes, UploadTypeOK, UploadStages,
               StageDone, Kept, NoRows
    <2>2. CASE ReadChunk
        BY <2>2, ReadChunkKeeps
    <2>3. CASE UploadEnd
        <3>1. sent.bytes \in Nat
            BY SentTypes DEF UploadInv, UploadTypes
        <3> QED
            BY <2>3, <3>1
               DEF UploadEnd, Answer, UploadInv, UploadTypes, UploadTypeOK,
                   UploadStages, StageDone, Kept, Complete, NoRows
    <2>4. CASE Paste
        BY <2>4, PasteKeeps
    <2>5. CASE FlushRows \/ CommitRows \/ Enqueues \/ UploadFails
        BY <2>5, RegisterKeeps
    <2>6. CASE UNCHANGED uploadVars
        BY <2>6 DEF uploadVars, UploadInv, UploadTypes, UploadTypeOK,
                    StageDone, Kept, Complete
    <2> QED
        BY <2>1, <2>2, <2>3, <2>4, <2>5, <2>6 DEF UploadNext
<1> QED
    BY <1>1, UploadInvInit, PTL DEF UploadSpec
-----------------------------------------------------------------------------
\* The variables keep their types.
THEOREM UploadTypeCorrect == UploadSpec => []UploadTypeOK
<1>1. UploadInv => UploadTypeOK
    BY DEF UploadInv, UploadTypes
<1> QED
    BY <1>1, UploadInvariant, PTL

\* For all sizes and limits: a committed row names a complete file within the
\* limit, a message names a committed row, and a refused log leaves nothing.
THEOREM UploadsStayWhole == UploadSpec => []UploadsAreWholeOrGone
<1>1. UploadInv => UploadsAreWholeOrGone
    BY DEF UploadInv, Kept, Complete, UploadsAreWholeOrGone
<1> QED
    BY <1>1, UploadInvariant, PTL
-----------------------------------------------------------------------------
(***************************************************************************)
(* The search for similar incidents leaves nothing out of the past that it *)
(* has room for, whatever the store holds and however ties are broken.     *)
(***************************************************************************)

\* The user's past, as the search for search.analysis sees it.
Elsewhere(p) == p.user = search.user /\ p.analysis # search.analysis
OwnPoints == {p \in search.points : p.analysis = search.analysis}

\* The match of p with the top group is among the items, or as many as may be
\* shown are at least as good.
MatchFound(p, s) ==
    \/ [point |-> p, score |-> s] \in items
    \/ Cardinality({i \in items : i.score >= s}) >= search.limit

TopIsFound ==
    \A p \in search.points :
        LET s == search.score[1][p] IN
        Elsewhere(p) /\ s >= SIMILARITY_THRESHOLD => MatchFound(p, s)

\* The same of any group, but for the scores: of a point that two groups match,
\* the score that the first gave it is kept, and may be the lower one.
PointFound(p) ==
    \/ \E i \in items : i.point = p
    \/ Cardinality(items) >= search.limit

EachIsFound ==
    \A t \in 1 .. asking - 1, p \in search.points :
        Elsewhere(p) /\ search.score[t][p] >= SIMILARITY_THRESHOLD
            => PointFound(p)

ItemsDiffer == \A i, j \in items : i.point = j.point => i = j

SimilarInv ==
    /\ search \in Searches
    /\ asking \in 1 .. Len(search.score) + 1 /\ searching \in BOOLEAN
    /\ IsFiniteSet(items) /\ ItemsDiffer
    /\ \A i \in items : i.point \in search.points /\ Elsewhere(i.point)
                        /\ i.score \in Int
    /\ asking = 1 => items = {}
    /\ asking > 1 /\ Cardinality(OwnPoints) <= EXTRA => TopIsFound
    /\ Cardinality(OwnPoints) <= EXTRA => EachIsFound
    /\ ~searching => asking > Len(search.score)
    /\ IF searching THEN shown = {}
       ELSE shown \in Best(items, search.limit, [i \in items |-> i.score])

\* What the best n leave out is not better, and then there are n of them.
LEMMA BestLeavesOut ==
    ASSUME NEW S, IsFiniteSet(S), NEW n \in Nat, NEW score,
           NEW T \in Best(S, n, score)
    PROVE  /\ T \subseteq S /\ IsFiniteSet(T) /\ Cardinality(T) \in Nat
           /\ \A y \in S \ T : /\ Cardinality(T) = n
                               /\ \A x \in T : score[x] >= score[y]
<1>1. /\ T \subseteq S
      /\ Cardinality(T) = (IF Cardinality(S) < n THEN Cardinality(S) ELSE n)
      /\ \A x \in T, y \in S \ T : score[x] >= score[y]
    BY DEF Best
<1>2. IsFiniteSet(T) /\ Cardinality(T) \in Nat
    BY <1>1, FS_Subset, FS_CardinalityType
<1>3. ASSUME NEW y \in S \ T PROVE Cardinality(T) = n
    <2>1. Cardinality(T) # Cardinality(S)
        BY <1>1, <1>3, FS_Subset
    <2> QED
        BY <1>1, <2>1
<1> QED
    BY <1>1, <1>2, <1>3

\* As many items as points.
LEMMA ItemsOfPoints ==
    ASSUME NEW R, IsFiniteSet(R), NEW f
    PROVE  LET I == {[point |-> p, score |-> f[p]] : p \in R} IN
           IsFiniteSet(I) /\ Cardinality(I) = Cardinality(R)
<1> DEFINE I == {[point |-> p, score |-> f[p]] : p \in R}
           b == [p \in R |-> [point |-> p, score |-> f[p]]]
<1>1. b \in [R -> I]
    OBVIOUS
<1>2. \A p, q \in R : b[p] = b[q] => p = q
    <2> SUFFICES ASSUME NEW p \in R, NEW q \in R, b[p] = b[q] PROVE p = q
        OBVIOUS
    <2>1. b[p].point = p /\ b[q].point = q
        OBVIOUS
    <2> QED
        BY <2>1
<1>3. \A i \in I : \E p \in R : b[p] = i
    OBVIOUS
<1> HIDE DEF b, I
<1>4. b \in Injection(R, I)
    BY <1>1, <1>2, Zenon DEF Injection, IsInjective
<1>5. b \in Surjection(R, I)
    BY <1>1, <1>3, Zenon DEF Surjection
<1>6. IsFiniteSet(I) /\ Cardinality(I) = Cardinality(R)
    BY <1>4, <1>5, FS_Surjection
<1> QED
    BY <1>6 DEF I

\* Of U the best L + E are fetched, and the best L of those that pass the
\* threshold and are not in O, which has E points at most, are matches: a point
\* that passes is among them, or they are as many as asked for and as good.
LEMMA FetchedAreEnough ==
    ASSUME NEW P, IsFiniteSet(P), NEW f \in [P -> Int], NEW threshold \in Int,
           NEW U \in SUBSET P, NEW O \in SUBSET P, NEW L \in Nat, NEW E \in Nat,
           Cardinality(O) <= E,
           NEW hit \in Best(U, L + E, f),
           NEW R \in Best({x \in hit : x \notin O /\ f[x] >= threshold}, L, f),
           NEW p \in U, p \notin O, f[p] >= threshold
    PROVE  p \in R \/ (Cardinality(R) = L /\ \A x \in R : f[x] >= f[p])
<1> DEFINE F == {x \in hit : x \notin O /\ f[x] >= threshold}
<1>1. IsFiniteSet(U) /\ IsFiniteSet(O) /\ Cardinality(O) \in Nat /\ L + E \in Nat
    BY FS_Subset, FS_CardinalityType
<1>2. /\ hit \subseteq U /\ IsFiniteSet(hit) /\ Cardinality(hit) \in Nat
      /\ \A y \in U \ hit : /\ Cardinality(hit) = L + E
                             /\ \A x \in hit : f[x] >= f[y]
    BY <1>1, BestLeavesOut
<1>3. F \in SUBSET hit /\ IsFiniteSet(F) /\ Cardinality(F) \in Nat
    BY <1>2, FS_Subset, FS_CardinalityType
<1>4. R \in Best(F, L, f)
    OBVIOUS
<1>5. /\ R \subseteq F /\ IsFiniteSet(R) /\ Cardinality(R) \in Nat
      /\ \A y \in F \ R : /\ Cardinality(R) = L
                          /\ \A x \in R : f[x] >= f[y]
    BY <1>3, <1>4, BestLeavesOut
<1>6. CASE p \in hit
    <2>1. p \in F
        BY <1>6
    <2> HIDE DEF F
    <2> QED
        BY <1>5, <2>1
<1>7. CASE p \notin hit
    <2>1. Cardinality(hit) = L + E /\ \A x \in hit : f[x] >= f[p]
        BY <1>2, <1>7
    <2>2. ASSUME NEW x \in hit PROVE f[x] >= threshold
        <3>1. f[x] \in Int /\ f[p] \in Int /\ f[x] >= f[p]
            BY <1>2, <2>1
        <3> QED
            BY <3>1
    <2>3. F = hit \ O
        BY <2>2
    <2>4. Cardinality(F) = Cardinality(hit) - Cardinality(hit \cap O)
        BY <1>2, <2>3, FS_Difference
    <2>5. /\ Cardinality(hit \cap O) <= Cardinality(O)
          /\ Cardinality(hit \cap O) \in Nat
        BY <1>1, <1>2, FS_Intersection, FS_CardinalityType
    <2>6. Cardinality(F) >= L
        BY <1>1, <2>1, <2>4, <2>5
    <2> HIDE DEF F
    <2>7. Cardinality(R) = L
        BY <1>3, <1>4, <2>6 DEF Best
    <2>8. \A x \in R : f[x] >= f[p]
        BY <1>3, <1>5, <2>1
    <2> QED
        BY <2>7, <2>8
<1> QED
    BY <1>6, <1>7

\* What is asked of a store, as SearchAssumption says.
LEMMA SearchTypes ==
    ASSUME search \in Searches
    PROVE  /\ IsFiniteSet(search.points) /\ search.limit \in Nat
           /\ Len(search.score) \in Nat
           /\ \A k \in 1 .. Len(search.score) :
                 search.score[k] \in [search.points -> Int]
<1>1. search.score \in Seq([search.points -> Int])
    BY SearchAssumption
<1> QED
    BY <1>1, SearchAssumption, ElementOfSeq

\* More items push out no match.
LEMMA ItemsGrow ==
    ASSUME IsFiniteSet(items'), items \subseteq items', UNCHANGED search,
           search \in Searches, NEW p, NEW s, MatchFound(p, s)
    PROVE  MatchFound(p, s)'
<1> DEFINE old == {i \in items : i.score >= s}
           now == {i \in items' : i.score >= s}
<1>1. CASE [point |-> p, score |-> s] \in items
    BY <1>1 DEF MatchFound
<1>2. CASE Cardinality(old) >= search.limit
    <2>1. old \in SUBSET now /\ now \in SUBSET items'
        OBVIOUS
    <2> HIDE DEF old, now
    <2>2. /\ IsFiniteSet(now) /\ Cardinality(now) \in Nat
          /\ Cardinality(old) \in Nat /\ Cardinality(old) <= Cardinality(now)
        BY <2>1, FS_Subset, FS_CardinalityType
    <2>3. Cardinality(now) >= search.limit
        BY <1>2, <2>2, SearchTypes
    <2> QED
        BY <2>3 DEF MatchFound, now
<1> QED
    BY <1>1, <1>2 DEF MatchFound

\* Each point of R has an item of its own.
LEMMA FewerPoints ==
    ASSUME NEW R, IsFiniteSet(R), NEW I, IsFiniteSet(I),
           \A r \in R : \E i \in I : i.point = r
    PROVE  Cardinality(R) <= Cardinality(I)
<1> DEFINE P == {i.point : i \in I}
<1>1. IsFiniteSet(P) /\ Cardinality(P) <= Cardinality(I)
    <2> DEFINE f == [i \in I |-> i.point]
    <2>1. f \in Surjection(I, P)
        BY DEF Surjection
    <2> HIDE DEF f, P
    <2> QED
        BY <2>1, FS_Surjection
<1>2. R \in SUBSET P
    OBVIOUS
<1> HIDE DEF P
<1>3. /\ Cardinality(R) \in Nat /\ Cardinality(P) \in Nat
      /\ Cardinality(I) \in Nat /\ Cardinality(R) <= Cardinality(P)
    BY <1>1, <1>2, FS_Subset, FS_CardinalityType
<1> QED
    BY <1>1, <1>3

LEMMA MatchKeeps == ASSUME SimilarInv, Match PROVE SimilarInv'
<1>1. /\ search \in Searches /\ asking \in 1 .. Len(search.score)
      /\ asking' = asking + 1 /\ searching /\ shown = {}
      /\ UNCHANGED <<search, shown, searching>>
      /\ Len(search.score) \in Nat
    BY SearchTypes DEF SimilarInv, Match
<1>2. /\ IsFiniteSet(search.points) /\ search.limit \in Nat
      /\ Score \in [search.points -> Int]
    BY <1>1, SearchTypes DEF Score
<1>3. EXTRA \in Nat /\ SIMILARITY_THRESHOLD \in Int
    BY SearchAssumption
<1> DEFINE U == {p \in search.points : p.user = search.user}
           Passes(h) == {p \in h : p.analysis # search.analysis
                                   /\ Score[p] >= SIMILARITY_THRESHOLD}
           New(r) == {p \in r : \A i \in items : i.point # p}
           Matches(n) == {[point |-> p, score |-> Score[p]] : p \in n}
<1>4. PICK hit \in Best(U, search.limit + EXTRA, Score) :
        \E r \in Best(Passes(hit), search.limit, Score) :
            items' = items \union Matches(New(r))
    BY DEF Match, Fetched
<1>5. PICK results \in Best(Passes(hit), search.limit, Score) :
        items' = items \union Matches(New(results))
    BY <1>4
<1>6. /\ results \subseteq hit /\ IsFiniteSet(results)
      /\ hit \subseteq U
      /\ \A p \in results : p.analysis # search.analysis
    <2>1. IsFiniteSet(U) /\ search.limit + EXTRA \in Nat
        BY <1>2, <1>3, FS_Subset, U \in SUBSET search.points
    <2>2. hit \subseteq U /\ IsFiniteSet(hit)
        BY <2>1, BestLeavesOut
    <2>3. Passes(hit) \in SUBSET hit /\ IsFiniteSet(Passes(hit))
        BY <2>2, FS_Subset, Passes(hit) \in SUBSET hit
    <2>4. results \subseteq Passes(hit) /\ IsFiniteSet(results)
        BY <1>2, <2>3, BestLeavesOut
    <2> QED
        BY <2>2, <2>4
<1>7. ASSUME NEW p \in results
      PROVE  p \in search.points /\ Elsewhere(p) /\ Score[p] \in Int
    BY <1>2, <1>6 DEF Elsewhere
<1>8. New(results) \in SUBSET results
    OBVIOUS
<1>9. IsFiniteSet(Matches(New(results)))
    <2>1. IsFiniteSet(New(results))
        BY <1>6, <1>8, FS_Subset
    <2> HIDE DEF New
    <2> QED
        BY <2>1, ItemsOfPoints
<1>10. IsFiniteSet(items') /\ items \subseteq items'
    <2>1. IsFiniteSet(items)
        BY DEF SimilarInv
    <2> HIDE DEF Matches
    <2> QED
        BY <1>5, <1>9, <2>1, FS_Union
<1>11. ASSUME NEW i \in items'
       PROVE  (i.point \in search.points /\ Elsewhere(i.point) /\ i.score \in Int)'
    <2>1. i.point \in search.points /\ Elsewhere(i.point) /\ i.score \in Int
        <3>1. CASE i \in items
            BY <3>1 DEF SimilarInv
        <3>2. CASE i \in Matches(New(results))
            <4>1. PICK p \in results : i = [point |-> p, score |-> Score[p]]
                BY <3>2
            <4>2. i.point = p /\ i.score = Score[p]
                BY <4>1
            <4> QED
                BY <1>7, <4>2
        <3> QED
            BY <1>5, <3>1, <3>2
    <2> QED
        BY <1>1, <2>1 DEF Elsewhere
<1>12. ASSUME Cardinality(OwnPoints) <= EXTRA PROVE TopIsFound'
    <2> SUFFICES ASSUME NEW p \in search.points, Elsewhere(p),
                        search.score[1][p] >= SIMILARITY_THRESHOLD
                 PROVE  MatchFound(p, search.score[1][p])'
        BY <1>1 DEF TopIsFound, Elsewhere
    <2>1. CASE asking > 1
        <3>1. MatchFound(p, search.score[1][p])
            BY <1>12, <2>1 DEF SimilarInv, TopIsFound
        <3> QED
            BY <1>1, <1>10, <3>1, ItemsGrow
    <2>2. CASE asking = 1
        <3>1. Score = search.score[1] /\ items = {}
            BY <2>2 DEF SimilarInv, Score
        <3>2. New(results) = results
            BY <3>1
        <3>3. items' = Matches(results)
            BY <1>5, <3>1, <3>2
        <3>4. Passes(hit) = {x \in hit : x \notin OwnPoints
                                          /\ Score[x] >= SIMILARITY_THRESHOLD}
            BY <1>6 DEF OwnPoints
        <3>5. p \in U /\ p \notin OwnPoints /\ OwnPoints \in SUBSET search.points
              /\ U \in SUBSET search.points
            BY DEF OwnPoints, Elsewhere
        <3>6. results \in Best({x \in hit : x \notin OwnPoints
                                    /\ Score[x] >= SIMILARITY_THRESHOLD},
                               search.limit, Score)
            BY <1>5, <3>4
        <3> HIDE DEF U, Passes
        <3>7. \/ p \in results
              \/ /\ Cardinality(results) = search.limit
                 /\ \A x \in results : Score[x] >= Score[p]
            BY <1>2, <1>3, <1>4, <1>12, <3>1, <3>5, <3>6, FetchedAreEnough
        <3>8. CASE p \in results
            <4>1. [point |-> p, score |-> Score[p]] \in items'
                BY <3>3, <3>8
            <4> QED
                BY <1>1, <3>1, <4>1 DEF MatchFound
        <3>9. CASE /\ Cardinality(results) = search.limit
                   /\ \A x \in results : Score[x] >= Score[p]
            <4>1. Cardinality(items') = search.limit
                BY <1>6, <3>3, <3>9, ItemsOfPoints
            <4>2. {i \in items' : i.score >= Score[p]} = items'
                <5>1. ASSUME NEW i \in items' PROVE i.score >= Score[p]
                    BY <3>3, <3>9
                <5> QED
                    BY <5>1
            <4>3. Cardinality(items') >= search.limit
                BY <1>2, <4>1
            <4>4. Cardinality({i \in items' : i.score >= Score[p]})
                     >= search.limit
                BY <4>2, <4>3, Zenon
            <4> QED
                BY <1>1, <3>1, <4>4 DEF MatchFound
        <3> QED
            BY <3>7, <3>8, <3>9
    <2> QED
        BY <1>1, <2>1, <2>2
<1>13. OwnPoints' = OwnPoints
    BY <1>1 DEF OwnPoints
<1>14. ASSUME Cardinality(OwnPoints) <= EXTRA PROVE EachIsFound'
    <2> SUFFICES ASSUME NEW t \in 1 .. asking, NEW p \in search.points,
                        Elsewhere(p),
                        search.score[t][p] >= SIMILARITY_THRESHOLD
                 PROVE  PointFound(p)'
        BY <1>1 DEF EachIsFound, Elsewhere
    <2>1. CASE t < asking
        <3>1. PointFound(p)
            BY <1>1, <1>14, <2>1 DEF SimilarInv, EachIsFound
        <3> QED
            BY <1>1, <1>2, <1>10, <3>1, FS_Subset, FS_CardinalityType DEF PointFound
    <2>2. CASE t = asking
        <3>1. /\ p \in U /\ p \notin OwnPoints /\ OwnPoints \in SUBSET search.points
              /\ U \in SUBSET search.points /\ Score[p] >= SIMILARITY_THRESHOLD
            BY <2>2 DEF OwnPoints, Elsewhere, Score
        <3>2. Passes(hit) = {x \in hit : x \notin OwnPoints
                                          /\ Score[x] >= SIMILARITY_THRESHOLD}
            BY <1>6 DEF OwnPoints
        <3>3. results \in Best({x \in hit : x \notin OwnPoints
                                    /\ Score[x] >= SIMILARITY_THRESHOLD},
                               search.limit, Score)
            BY <1>5, <3>2
        <3>4. \A r \in results : \E i \in items' : i.point = r
            <4> SUFFICES ASSUME NEW r \in results
                         PROVE  \E i \in items' : i.point = r
                OBVIOUS
            <4>1. CASE r \in New(results)
                <5>1. [point |-> r, score |-> Score[r]] \in items'
                    BY <1>5, <4>1
                <5> QED
                    BY <5>1
            <4>2. CASE r \notin New(results)
                BY <1>10, <4>2
            <4> QED
                BY <4>1, <4>2
        <3> HIDE DEF U
        <3>5. p \in results \/ Cardinality(results) = search.limit
            BY <1>2, <1>3, <1>4, <1>14, <3>1, <3>3, FetchedAreEnough
        <3>6. Cardinality(results) <= Cardinality(items')
            BY <1>6, <1>10, <3>4, FewerPoints
        <3>7. CASE p \in results
            BY <3>4, <3>7 DEF PointFound
        <3>8. CASE Cardinality(results) = search.limit
            <4>1. Cardinality(items') >= search.limit
                BY <1>2, <1>10, <3>6, <3>8, FS_CardinalityType
            <4> QED
                BY <1>1, <4>1 DEF PointFound
        <3> QED
            BY <3>5, <3>7, <3>8
    <2> QED
        BY <1>1, <2>1, <2>2
<1>15. ItemsDiffer'
    <2> SUFFICES ASSUME NEW i \in items', NEW j \in items', i.point = j.point
                 PROVE  i = j
        BY DEF ItemsDiffer
    <2>1. \A k \in Matches(New(results)) :
            /\ k = [point |-> k.point, score |-> Score[k.point]]
            /\ \A m \in items : m.point # k.point
        OBVIOUS
    <2>2. i \in items /\ j \in items => i = j
        BY DEF SimilarInv, ItemsDiffer
    <2> HIDE DEF Matches
    <2> QED
        BY <1>5, <2>1, <2>2
<1> HIDE DEF U, Passes, New, Matches
<1>16. /\ asking' \in 1 .. Len(search.score) + 1
       /\ asking' > 1 /\ asking' # 1
    BY <1>1
<1> QED
    BY <1>1, <1>10, <1>11, <1>12, <1>13, <1>14, <1>15, <1>16 DEF SimilarInv

\* Nothing is better than what is shown: a match that is left out is pushed out.
LEMMA ShownAreBest ==
    ASSUME SimilarInv, ~searching, NEW p, NEW s \in Int, MatchFound(p, s)
    PROVE  \/ \E i \in shown : i.point = p
           \/ Cardinality({i \in shown : i.score >= s}) >= search.limit
<1> DEFINE score == [i \in items |-> i.score]
<1>1. /\ IsFiniteSet(items) /\ search.limit \in Nat
      /\ shown \in Best(items, search.limit, score)
      /\ \A i \in items : i.score \in Int
    BY SearchTypes DEF SimilarInv
<1>2. /\ shown \subseteq items /\ IsFiniteSet(shown)
      /\ \A y \in items \ shown :
            /\ Cardinality(shown) = search.limit
            /\ \A x \in shown : x.score >= y.score
    <2>1. /\ shown \subseteq items /\ IsFiniteSet(shown)
          /\ \A y \in items \ shown :
                /\ Cardinality(shown) = search.limit
                /\ \A x \in shown : score[x] >= score[y]
        BY <1>1, BestLeavesOut
    <2> QED
        BY <2>1
<1>3. ASSUME NEW y \in items, y \notin shown, y.score >= s
      PROVE  Cardinality({i \in shown : i.score >= s}) >= search.limit
    <2>1. \A x \in shown : x.score >= s
        BY <1>1, <1>2, <1>3
    <2>2. {i \in shown : i.score >= s} = shown
        BY <2>1
    <2>3. Cardinality(shown) = search.limit
        BY <1>2, <1>3
    <2>4. Cardinality(shown) >= search.limit
        BY <1>1, <2>3
    <2> QED
        BY <2>2, <2>4, Zenon
<1>4. CASE [point |-> p, score |-> s] \in items
    <2> DEFINE y == [point |-> p, score |-> s]
    <2>1. y.point = p /\ y.score = s /\ y.score >= s
        OBVIOUS
    <2> QED
        BY <1>3, <1>4, <2>1
<1>5. CASE Cardinality({i \in items : i.score >= s}) >= search.limit
    <2>1. CASE {i \in items : i.score >= s} \subseteq shown
        <3>1. {i \in items : i.score >= s} = {i \in shown : i.score >= s}
            BY <1>2, <2>1
        <3> QED
            BY <1>5, <3>1
    <2>2. CASE ~({i \in items : i.score >= s} \subseteq shown)
        BY <1>3, <2>2
    <2> QED
        BY <2>1, <2>2
<1> QED
    BY <1>4, <1>5 DEF MatchFound

LEMMA SimilarInvariant == SimilarSpec => []SimilarInv
<1>1. SimilarInit => SimilarInv
    <2> SUFFICES ASSUME SimilarInit PROVE SimilarInv
        OBVIOUS
    <2>1. IsFiniteSet({}) /\ search \in Searches /\ Len(search.score) \in Nat
        BY FS_EmptySet, SearchTypes DEF SimilarInit
    <2> QED
        BY <2>1 DEF SimilarInit, SimilarInv, ItemsDiffer, EachIsFound
<1>2. SimilarInv /\ [SimilarNext]_similarVars => SimilarInv'
    <2> SUFFICES ASSUME SimilarInv, [SimilarNext]_similarVars
                 PROVE  SimilarInv'
        OBVIOUS
    <2>1. CASE ShowBest
        <3>1. /\ UNCHANGED <<search, asking, items>> /\ searching' = FALSE
              /\ asking > Len(search.score)
              /\ shown' \in Best(items, search.limit, [i \in items |-> i.score])
            BY <2>1 DEF ShowBest
        <3>2. /\ OwnPoints' = OwnPoints /\ (TopIsFound' <=> TopIsFound)
              /\ (EachIsFound' <=> EachIsFound) /\ (ItemsDiffer' <=> ItemsDiffer)
              /\ \A p : Elsewhere(p)' <=> Elsewhere(p)
            BY <3>1 DEF OwnPoints, TopIsFound, EachIsFound, MatchFound, PointFound,
                        Elsewhere, ItemsDiffer
        <3> QED
            BY <3>1, <3>2 DEF SimilarInv
    <2>2. CASE UNCHANGED similarVars
        <3>1. UNCHANGED <<search, asking, items, shown, searching>>
            BY <2>2 DEF similarVars
        <3>2. /\ OwnPoints' = OwnPoints /\ (TopIsFound' <=> TopIsFound)
              /\ (EachIsFound' <=> EachIsFound) /\ (ItemsDiffer' <=> ItemsDiffer)
              /\ \A p : Elsewhere(p)' <=> Elsewhere(p)
            BY <3>1 DEF OwnPoints, TopIsFound, EachIsFound, MatchFound, PointFound,
                        Elsewhere, ItemsDiffer
        <3> QED
            BY <3>1, <3>2 DEF SimilarInv
    <2> QED
        BY <2>1, <2>2, MatchKeeps DEF SimilarNext
<1> QED
    BY <1>1, <1>2, PTL DEF SimilarSpec

\* Nothing is left out while there is room.
LEMMA ShownAreAll ==
    ASSUME SimilarInv, ~searching, NEW p, PointFound(p)
    PROVE  (\E i \in shown : i.point = p) \/ Cardinality(shown) >= search.limit
<1>1. /\ IsFiniteSet(items) /\ search.limit \in Nat
      /\ shown \in Best(items, search.limit, [i \in items |-> i.score])
    BY SearchTypes DEF SimilarInv
<1>2. /\ shown \subseteq items
      /\ \A y \in items \ shown : Cardinality(shown) = search.limit
    BY <1>1, BestLeavesOut
<1> QED
    BY <1>1, <1>2 DEF PointFound

\* The variables keep their types.
THEOREM SimilarTypeCorrect == SimilarSpec => []SimilarTypeOK
<1>1. SimilarInv => SimilarTypeOK
    BY DEF SimilarInv, SimilarTypeOK, Best
<1> QED
    BY <1>1, SimilarInvariant, PTL

\* Whatever is in the store, however many groups of the analysis resemble the
\* top ones and however ties are broken, only the user's past is shown, each of
\* it once, and a match is left out only of a full answer, one of the top group
\* only for as many at least as similar (services/similarity.py:58-76,
\* api/v1/analyses.py:86-97).
THEOREM PastStaysFound == SimilarSpec => []PastIsFound
<1>1. ASSUME SimilarInv, ~searching
      PROVE  /\ \A i \in shown : Elsewhere(i.point)
             /\ \A i, j \in shown : i.point = j.point => i = j
    <2>1. shown \subseteq items
        BY <1>1 DEF SimilarInv, Best
    <2> QED
        BY <1>1, <2>1 DEF SimilarInv, ItemsDiffer
<1>2. ASSUME SimilarInv, ~searching, Cardinality(OwnPoints) <= EXTRA,
             NEW t \in 1 .. Len(search.score), NEW p \in search.points,
             Elsewhere(p), search.score[t][p] >= SIMILARITY_THRESHOLD
      PROVE  \/ \E i \in shown : i.point = p
             \/ Cardinality({i \in shown : t = 1 => i.score >= search.score[t][p]})
                   >= search.limit
    <2>1. /\ search \in Searches /\ asking > Len(search.score)
          /\ asking \in 1 .. Len(search.score) + 1
        BY <1>2 DEF SimilarInv
    <2>2. Len(search.score) \in Nat /\ search.score[t][p] \in Int
        BY <2>1, SearchTypes
    <2>3. CASE t = 1
        <3>1. MatchFound(p, search.score[1][p])
            BY <1>2, <2>1, <2>2, <2>3 DEF SimilarInv, TopIsFound
        <3> QED
            BY <1>2, <2>2, <2>3, <3>1, ShownAreBest
    <2>4. CASE t # 1
        <3>1. PointFound(p)
            BY <1>2, <2>1, <2>2 DEF SimilarInv, EachIsFound
        <3>2. {i \in shown : t = 1 => i.score >= search.score[t][p]} = shown
            BY <2>4
        <3> QED
            BY <1>2, <3>1, <3>2, ShownAreAll
    <2> QED
        BY <2>3, <2>4
<1>3. SimilarInv => PastIsFound
    BY <1>1, <1>2 DEF PastIsFound, Elsewhere, OwnPoints
<1> QED
    BY <1>3, SimilarInvariant, PTL
-----------------------------------------------------------------------------
(***************************************************************************)
(* The six services next to each other.  Whichever of them is played, the  *)
(* behaviour is one of each service, so that what is proved of a service   *)
(* holds of ServicesSpec.                                                  *)
(***************************************************************************)

\* A step is taken by one service and is a stutter of the others.
LEMMA OneServiceSteps ==
    ASSUME [ServicesNext]_servicesVars
    PROVE  /\ [AccountNext]_accountVars /\ [LimiterNext]_limiterVars
           /\ [ChunkNext]_chunkVars /\ [IncidentNext]_incidentVars
           /\ [UploadNext]_uploadVars /\ [SimilarNext]_similarVars
BY DEF ServicesNext, ServicesRest, servicesVars

\* Every behaviour of the six together is one of each.
THEOREM ServicesAreTheirParts ==
    ServicesSpec => /\ AccountSpec /\ LimiterSpec /\ ChunkSpec
                    /\ IncidentSpec /\ UploadSpec /\ SimilarSpec
<1>1. ServicesInit => /\ AccountInit /\ LimiterInit /\ ChunkInit
                      /\ IncidentInit /\ UploadInit /\ SimilarInit
    BY DEF ServicesInit
<1>2. [ServicesNext]_servicesVars
         => /\ [AccountNext]_accountVars /\ [LimiterNext]_limiterVars
            /\ [ChunkNext]_chunkVars /\ [IncidentNext]_incidentVars
            /\ [UploadNext]_uploadVars /\ [SimilarNext]_similarVars
    BY OneServiceSteps
<1> QED
    BY <1>1, <1>2, PTL DEF ServicesSpec, AccountSpec, LimiterSpec, ChunkSpec,
                           IncidentSpec, UploadSpec, SimilarSpec

\* The variables of all six keep their types.
THEOREM ServicesTypeCorrect == ServicesSpec => []ServicesTypeOK
<1>1. ServicesTypeOK <=> /\ AccountTypeOK /\ LimiterTypeOK /\ ChunkTypeOK
                         /\ IncidentTypeOK /\ UploadTypeOK /\ SimilarTypeOK
    BY DEF ServicesTypeOK
<1> QED
    BY <1>1, ServicesAreTheirParts, AccountTypeCorrect, LimiterTypeCorrect,
       ChunkTypeCorrect, IncidentTypeCorrect, UploadTypeCorrect,
       SimilarTypeCorrect, PTL
=============================================================================
