--------------------------- MODULE Incident_proofs ---------------------------
(***************************************************************************)
(* What a log is reduced to line by line is what it says as a whole, and   *)
(* the timeline made of it begins with its earliest failure: for logs of   *)
(* any length, any sample size and any number of samples per group.        *)
(***************************************************************************)
EXTENDS Incident, FiniteSetTheorems, SequenceTheorems, TLAPS

-----------------------------------------------------------------------------
(* Groups as functions of the lines they are made of.                      *)

\* The earliest and the latest of the times in D, none if there is none.
TimesMatch(a, b, D) ==
    IF D = {} THEN a = NoTime /\ b = NoTime
    ELSE /\ a \in D /\ b \in D
         /\ \A t \in D : a.time <= t.time /\ t.time <= b.time

\* The first of the lines in S, as many as there may be.
SamplesMatch(s, S) ==
    /\ s \in Seq(S)
    /\ Len(s) = IF Cardinality(S) < MAX_SAMPLES_PER_GROUP
                THEN Cardinality(S) ELSE MAX_SAMPLES_PER_GROUP
    /\ \A n \in S : (\E i \in 1 .. Len(s) : s[i] = n)
                    <=> Cardinality({m \in S : m < n}) < MAX_SAMPLES_PER_GROUP

\* g is the group of the lines in S, whose times T gives.
TimesIn(S, T) == {T[n] : n \in S} \ {NoTime}
GroupMatches(g, S, T) ==
    /\ g.count = Cardinality(S)
    /\ TimesMatch(g.first_seen, g.last_seen, TimesIn(S, T))
    /\ SamplesMatch(g.samples, S)

LEMMA StampTypes == /\ \A t \in Stamps : t.time \in Nat /\ t.time > 0
                    /\ NoTime.time = 0 /\ NoTime \notin Stamps
                    /\ BadTime # NoTime
<1>1. \A t \in Stamps : t.time \in Nat /\ t.time > 0
    BY DEF Stamps
<1>2. NoTime.time = 0
    BY DEF NoTime
<1>3. NoTime.aware # BadTime.aware
    BY DEF NoTime, BadTime
<1> QED
    BY <1>1, <1>2, <1>3

\* One more line, after all others.
LEMMA SamplesGrow ==
    ASSUME NEW S \in SUBSET Nat, IsFiniteSet(S), NEW n \in Nat,
           \A m \in S : m < n,
           NEW s, SamplesMatch(s, S)
    PROVE  SamplesMatch(IF Len(s) < MAX_SAMPLES_PER_GROUP
                        THEN Append(s, n) ELSE s, S \union {n})
<1>1. PICK M \in Nat : M = MAX_SAMPLES_PER_GROUP
    BY LogAssumption
<1>2. PICK c \in Nat : c = Cardinality(S)
    BY FS_CardinalityType
<1>3. s \in Seq(S) /\ s \in Seq(S \union {n})
    <2>1. s \in Seq(S)
        BY DEF SamplesMatch
    <2>2. \A i \in 1 .. Len(s) : s[i] \in S \union {n}
        BY <2>1, ElementOfSeq
    <2> QED
        BY <2>1, <2>2, SeqDef, IsASeq
<1>4. Len(s) \in Nat /\ Len(s) = IF c < M THEN c ELSE M
    BY <1>1, <1>2, <1>3 DEF SamplesMatch
<1>5. Cardinality(S \union {n}) = c + 1
    <2>1. n \notin S
        OBVIOUS
    <2> QED
        BY <1>2, <2>1, FS_AddElement
<1>6. /\ \A k \in S : {m \in S \union {n} : m < k} = {m \in S : m < k}
      /\ {m \in S \union {n} : m < n} = S
    <2>1. ASSUME NEW k \in S
          PROVE  {m \in S \union {n} : m < k} = {m \in S : m < k}
        <3>1. ~(n < k)
            OBVIOUS
        <3> QED
            BY <3>1
    <2>2. {m \in S \union {n} : m < n} = S
        <3>1. ~(n < n)
            OBVIOUS
        <3>2. \A m \in S \union {n} : m < n <=> m \in S
            BY <3>1
        <3> QED
            BY <3>2
    <2> QED
        BY <2>1, <2>2
<1>7. \A i \in 1 .. Len(s) : s[i] \in S /\ s[i] # n
    BY <1>3, ElementOfSeq
<1>8. CASE Len(s) < M
    <2> DEFINE t == Append(s, n)
    <2>1. /\ t \in Seq(S \union {n}) /\ Len(t) = Len(s) + 1
          /\ \A i \in 1 .. Len(s) : t[i] = s[i]
          /\ t[Len(s) + 1] = n
        BY <1>3, AppendProperties, n \in S \union {n}
    <2> HIDE DEF t
    <2>2. c < M /\ Len(s) = c
        BY <1>4, <1>8
    <2>3. ASSUME NEW k \in S
          PROVE  (\E i \in 1 .. Len(t) : t[i] = k)
                 <=> Cardinality({m \in S \union {n} : m < k}) < M
        <3>1. (\E i \in 1 .. Len(t) : t[i] = k) <=> \E i \in 1 .. Len(s) : s[i] = k
            <4>1. \A i \in 1 .. Len(t) : i \in 1 .. Len(s) \/ i = Len(s) + 1
                BY <1>4, <2>1
            <4>2. \A i \in 1 .. Len(s) : i \in 1 .. Len(t)
                BY <1>4, <2>1
            <4>3. k # n
                OBVIOUS
            <4> QED
                BY <2>1, <4>1, <4>2, <4>3
        <3> QED
            BY <1>1, <1>6, <3>1 DEF SamplesMatch
    <2>4. (\E i \in 1 .. Len(t) : t[i] = n)
          <=> Cardinality({m \in S \union {n} : m < n}) < M
        <3>1. Len(t) \in 1 .. Len(t)
            BY <1>4, <2>1
        <3> QED
            BY <1>2, <1>6, <2>1, <2>2, <3>1
    <2>5. Len(t) = IF c + 1 < M THEN c + 1 ELSE M
        BY <2>1, <2>2
    <2>6. SamplesMatch(t, S \union {n})
        <3>1. \A k \in S \union {n} :
                 (\E i \in 1 .. Len(t) : t[i] = k)
                 <=> Cardinality({m \in S \union {n} : m < k}) < M
            BY <2>3, <2>4
        <3>2. Len(t) = IF Cardinality(S \union {n}) < M
                       THEN Cardinality(S \union {n}) ELSE M
            BY <1>5, <2>5
        <3> QED
            BY <1>1, <2>1, <3>1, <3>2, Zenon DEF SamplesMatch
    <2> QED
        BY <1>1, <1>8, <2>6 DEF t
<1>9. CASE ~(Len(s) < M)
    <2>1. Len(s) = M /\ ~(c < M)
        BY <1>4, <1>9
    <2>2. ASSUME NEW k \in S
          PROVE  (\E i \in 1 .. Len(s) : s[i] = k)
                 <=> Cardinality({m \in S \union {n} : m < k}) < M
        BY <1>1, <1>6 DEF SamplesMatch
    <2>3. (\E i \in 1 .. Len(s) : s[i] = n)
          <=> Cardinality({m \in S \union {n} : m < n}) < M
        BY <1>2, <1>6, <1>7, <2>1
    <2>4. Len(s) = IF c + 1 < M THEN c + 1 ELSE M
        BY <2>1
    <2>5. SamplesMatch(s, S \union {n})
        BY <1>1, <1>3, <1>5, <2>2, <2>3, <2>4 DEF SamplesMatch
    <2> QED
        BY <1>1, <1>9, <2>5
<1> QED
    BY <1>8, <1>9

LEMMA TimesGrow ==
    ASSUME NEW D \in SUBSET Stamps, NEW t \in Stamps \union {NoTime},
           NEW a, NEW b, TimesMatch(a, b, D)
    PROVE  TimesMatch(
               IF t # NoTime /\ (a = NoTime \/ t.time < a.time) THEN t ELSE a,
               IF t # NoTime /\ (b = NoTime \/ t.time > b.time) THEN t ELSE b,
               (D \union {t}) \ {NoTime})
<1>1. NoTime \notin D
    BY StampTypes
<1>2. CASE t = NoTime
    <2>1. (D \union {t}) \ {NoTime} = D
        BY <1>1, <1>2
    <2> QED
        BY <1>2, <2>1
<1>3. CASE t # NoTime
    <2>1. (D \union {t}) \ {NoTime} = D \union {t} /\ t \in Stamps
        BY <1>1, <1>3
    <2>2. CASE D = {}
        <3>1. a = NoTime /\ b = NoTime
            BY <2>2 DEF TimesMatch
        <3> QED
            BY <1>3, <2>1, <2>2, <3>1, StampTypes DEF TimesMatch
    <2>3. CASE D # {}
        <3>1. /\ a \in D /\ b \in D /\ a # NoTime /\ b # NoTime
              /\ \A u \in D : a.time <= u.time /\ u.time <= b.time
            BY <1>1, <2>3 DEF TimesMatch
        <3>2. \A u \in D \union {t} : u.time \in Nat
            BY <2>1, StampTypes
        <3> DEFINE x == IF t.time < a.time THEN t ELSE a
                   y == IF t.time > b.time THEN t ELSE b
        <3>3. x \in D \union {t} /\ \A u \in D \union {t} : x.time <= u.time
            BY <3>1, <3>2
        <3>4. y \in D \union {t} /\ \A u \in D \union {t} : u.time <= y.time
            BY <3>1, <3>2
        <3>5. TimesMatch(x, y, D \union {t})
            BY <3>3, <3>4 DEF TimesMatch
        <3> QED
            BY <1>3, <2>1, <3>1, <3>5
    <2> QED
        BY <2>2, <2>3
<1> QED
    BY <1>2, <1>3

\* What add does to a group is what a group of one more line is.
LEMMA AddMatches ==
    ASSUME NEW S \in SUBSET Nat, IsFiniteSet(S), NEW n \in Nat,
           \A m \in S : m < n, NEW T,
           \A m \in S \union {n} : T[m] \in Stamps \union {NoTime},
           NEW g, GroupMatches(g, S, T)
    PROVE  GroupMatches(Add(g, n, T[n]), S \union {n}, T)
<1>1. Cardinality(S \union {n}) = g.count + 1
    <2>1. n \notin S
        OBVIOUS
    <2> QED
        BY <2>1, FS_AddElement DEF GroupMatches
<1>2. TimesIn(S, T) \in SUBSET Stamps
    BY DEF TimesIn
<1>3. TimesIn(S \union {n}, T) = (TimesIn(S, T) \union {T[n]}) \ {NoTime}
    BY DEF TimesIn
<1>4. T[n] \in Stamps \union {NoTime}
    OBVIOUS
<1>5. PICK t : t = T[n]
    OBVIOUS
<1> DEFINE h == Add(g, n, t)
<1>6. /\ h.count = g.count + 1
      /\ h.samples = IF Len(g.samples) < MAX_SAMPLES_PER_GROUP
                     THEN Append(g.samples, n) ELSE g.samples
      /\ h.first_seen = IF t # NoTime /\ (g.first_seen = NoTime
                                          \/ t.time < g.first_seen.time)
                        THEN t ELSE g.first_seen
      /\ h.last_seen = IF t # NoTime /\ (g.last_seen = NoTime
                                         \/ t.time > g.last_seen.time)
                       THEN t ELSE g.last_seen
    BY DEF Add
<1> HIDE DEF h
<1>7. TimesMatch(h.first_seen, h.last_seen, TimesIn(S \union {n}, T))
    <2>1. TimesMatch(g.first_seen, g.last_seen, TimesIn(S, T))
        BY DEF GroupMatches
    <2>2. TimesMatch(IF t # NoTime /\ (g.first_seen = NoTime
                                       \/ t.time < g.first_seen.time)
                     THEN t ELSE g.first_seen,
                     IF t # NoTime /\ (g.last_seen = NoTime
                                       \/ t.time > g.last_seen.time)
                     THEN t ELSE g.last_seen,
                     (TimesIn(S, T) \union {t}) \ {NoTime})
        BY <1>2, <1>4, <1>5, <2>1, TimesGrow
    <2> QED
        BY <1>3, <1>5, <1>6, <2>2, Zenon
<1>8. SamplesMatch(h.samples, S \union {n})
    <2>1. SamplesMatch(g.samples, S)
        BY DEF GroupMatches
    <2> QED
        BY <1>6, <2>1, SamplesGrow
<1> QED
    BY <1>1, <1>5, <1>6, <1>7, <1>8 DEF GroupMatches, h

\* A new group is that of no line.
LEMMA NewGroupMatches ==
    ASSUME NEW T PROVE GroupMatches(NewGroup, {}, T)
<1>1. /\ NewGroup.count = 0 /\ NewGroup.first_seen = NoTime
      /\ NewGroup.last_seen = NoTime /\ NewGroup.samples = <<>>
    BY DEF NewGroup
<1>2. TimesIn({}, T) = {} /\ Cardinality({}) = 0
    BY FS_EmptySet DEF TimesIn
<1>3. SamplesMatch(<<>>, {})
    <2>1. <<>> \in Seq({}) /\ Len(<<>>) = 0
        OBVIOUS
    <2>2. 0 = IF 0 < MAX_SAMPLES_PER_GROUP THEN 0 ELSE MAX_SAMPLES_PER_GROUP
        BY LogAssumption
    <2> QED
        BY <1>2, <2>1, <2>2 DEF SamplesMatch
<1> QED
    BY <1>1, <1>2, <1>3 DEF GroupMatches, TimesMatch
-----------------------------------------------------------------------------
(* The lines that are read.                                                *)

Parsed(n) == parse_line(parser, lines[n])
Known(n) == lines[n].shape # "blank" /\ Understands(parser, lines[n])
IsError(n) == Known(n) /\ Parsed(n).level \in GroupedLevels
KeyOf(n) == fingerprint(Parsed(n))

\* Of the first k lines.
KnownTo(k) == {n \in 1 .. k : Known(n)}
ErrorsTo(k) == {n \in 1 .. k : IsError(n)}
Of(f, k) == {n \in ErrorsTo(k) : KeyOf(n) = f}
Times == [n \in 1 .. Len(lines) |-> Parsed(n).timestamp]

Reading == {"head", "lines", "read", "raised"}

\* Why a run raises.
RaisedForReason ==
    \/ \E n \in KnownTo(Len(lines)) : lines[n].stamp = BadTime
    \/ \E n, m \in ErrorsTo(Len(lines)) :
          /\ KeyOf(n) = KeyOf(m)
          /\ Parsed(n).timestamp.aware # Parsed(m).timestamp.aware

PlaceOK ==
    /\ lines \in Seq(Line) /\ parser \in Formats /\ reading \in Reading
    /\ next \in 1 .. Len(lines) + 1
    /\ reading = "head" => next = 1
    /\ reading = "read" => next = Len(lines) + 1
    /\ reading = "raised" => RaisedForReason

CountsOK ==
    /\ parsed = Cardinality(KnownTo(next - 1))
    /\ errors = Cardinality(ErrorsTo(next - 1))
    /\ total \in Nat /\ parsed <= total

GroupsOK ==
    /\ DOMAIN groups = {KeyOf(n) : n \in ErrorsTo(next - 1)}
    /\ \A n \in ErrorsTo(next - 1) : Times[n] \in Stamps \union {NoTime}
    /\ \A f \in DOMAIN groups : GroupMatches(groups[f], Of(f, next - 1), Times)

GroupInv == PlaceOK /\ CountsOK /\ GroupsOK

LEMMA FormatNames ==
    /\ Formats = {"json", "logfmt", "syslog", "plain"}
    /\ \A i \in 1 .. 3 : REGISTRY[i] \in Formats
<1>1. /\ REGISTRY[1] = "json" /\ REGISTRY[2] = "logfmt"
      /\ REGISTRY[3] = "syslog" /\ REGISTRY[4] = "plain"
      /\ Len(REGISTRY) = 4
    BY DEF REGISTRY
<1>2. 1 .. 4 = {1, 2, 3, 4} /\ 1 .. 3 = {1, 2, 3}
    OBVIOUS
<1> QED
    BY <1>1, <1>2 DEF Formats

\* A time that does not exist comes from the syslog parser only.
LEMMA ParsedTimes ==
    ASSUME NEW format \in Formats, NEW line \in Line,
           ~(format = "syslog" /\ line.stamp = BadTime)
    PROVE  parse_line(format, line).timestamp \in Stamps \union {NoTime}
<1>1. line.stamp \in Stamps \union {NoTime, BadTime}
    BY DEF Line
<1>2. parse_timestamp(line.stamp) \in Stamps \union {NoTime}
    BY <1>1 DEF parse_timestamp
<1>3. /\ ParseFields(line).timestamp = parse_timestamp(line.stamp)
      /\ ParseSyslog(line).timestamp = line.stamp
      /\ ParsePlain(line).timestamp \in {parse_timestamp(line.stamp), NoTime}
    <2>1. ParseFields(line).timestamp = parse_timestamp(line.stamp)
        BY DEF ParseFields, Entry
    <2>2. ParseSyslog(line).timestamp = line.stamp
        BY DEF ParseSyslog, Entry
    <2>3. ParsePlain(line).timestamp
             = IF line.shape = "plain" THEN parse_timestamp(line.stamp) ELSE NoTime
        BY DEF ParsePlain, Entry
    <2> QED
        BY <2>1, <2>2, <2>3
<1>4. CASE format \in {"json", "logfmt"}
    <2>1. parse_line(format, line) = ParseFields(line)
        BY <1>4, Zenon DEF parse_line
    <2> QED
        BY <1>2, <1>3, <2>1
<1>5. CASE format = "syslog"
    <2>1. format \notin {"json", "logfmt"} /\ format # "plain"
        BY <1>5
    <2>2. parse_line(format, line) = ParseSyslog(line)
        BY <1>5, <2>1, Zenon DEF parse_line
    <2> QED
        BY <1>1, <1>3, <1>5, <2>2
<1>6. CASE format = "plain"
    <2>1. format \notin {"json", "logfmt"} /\ format # "syslog"
        BY <1>6
    <2>2. parse_line(format, line) = ParsePlain(line)
        BY <1>6, <2>1, Zenon DEF parse_line
    <2> QED
        BY <1>2, <1>3, <2>2
<1> QED
    BY <1>4, <1>5, <1>6, FormatNames

\* The sets of lines are finite sets of numbers.
LEMMA LinesAreFinite ==
    ASSUME NEW k \in Nat
    PROVE  /\ IsFiniteSet(KnownTo(k)) /\ Cardinality(KnownTo(k)) \in Nat
           /\ IsFiniteSet(ErrorsTo(k)) /\ Cardinality(ErrorsTo(k)) \in Nat
           /\ \A f : /\ IsFiniteSet(Of(f, k)) /\ Cardinality(Of(f, k)) \in Nat
                     /\ Of(f, k) \in SUBSET Nat
                     /\ \A n \in Of(f, k) : n <= k
<1>1. IsFiniteSet(1 .. k)
    BY FS_Interval, 1 \in Int, k \in Int
<1>2. KnownTo(k) \in SUBSET (1 .. k) /\ ErrorsTo(k) \in SUBSET (1 .. k)
    BY DEF KnownTo, ErrorsTo
<1>3. ASSUME NEW f PROVE Of(f, k) \in SUBSET (1 .. k)
    BY DEF Of, ErrorsTo
<1>4. /\ IsFiniteSet(KnownTo(k)) /\ Cardinality(KnownTo(k)) \in Nat
      /\ IsFiniteSet(ErrorsTo(k)) /\ Cardinality(ErrorsTo(k)) \in Nat
    BY <1>1, <1>2, FS_Subset, FS_CardinalityType
<1>5. ASSUME NEW f
      PROVE  /\ IsFiniteSet(Of(f, k)) /\ Cardinality(Of(f, k)) \in Nat
             /\ Of(f, k) \in SUBSET Nat
             /\ \A n \in Of(f, k) : n <= k
    <2>1. IsFiniteSet(Of(f, k)) /\ Cardinality(Of(f, k)) \in Nat
        BY <1>1, <1>3, FS_Subset, FS_CardinalityType
    <2> QED
        BY <1>3, <2>1
<1> QED
    BY <1>4, <1>5

\* The sets with one line more.
LEMMA OneLineMore ==
    ASSUME NEW k \in Nat, k > 0
    PROVE  /\ KnownTo(k) = IF Known(k) THEN KnownTo(k - 1) \union {k}
                           ELSE KnownTo(k - 1)
           /\ ErrorsTo(k) = IF IsError(k) THEN ErrorsTo(k - 1) \union {k}
                            ELSE ErrorsTo(k - 1)
           /\ \A f : Of(f, k) = IF IsError(k) /\ KeyOf(k) = f
                                THEN Of(f, k - 1) \union {k} ELSE Of(f, k - 1)
           /\ k \notin KnownTo(k - 1) /\ k \notin ErrorsTo(k - 1)
<1>1. \A n : n \in 1 .. k <=> n \in 1 .. k - 1 \/ n = k
    OBVIOUS
<1>2. k \notin 1 .. k - 1
    OBVIOUS
<1>3. KnownTo(k) = IF Known(k) THEN KnownTo(k - 1) \union {k} ELSE KnownTo(k - 1)
    BY <1>1, Zenon DEF KnownTo
<1>4. ErrorsTo(k) = IF IsError(k) THEN ErrorsTo(k - 1) \union {k}
                    ELSE ErrorsTo(k - 1)
    BY <1>1, Zenon DEF ErrorsTo
<1>5. ASSUME NEW f
      PROVE  Of(f, k) = IF IsError(k) /\ KeyOf(k) = f
                        THEN Of(f, k - 1) \union {k} ELSE Of(f, k - 1)
    BY <1>4, Zenon DEF Of
<1>6. k \notin KnownTo(k - 1) /\ k \notin ErrorsTo(k - 1)
    BY <1>2 DEF KnownTo, ErrorsTo
<1> QED
    BY <1>3, <1>4, <1>5, <1>6

\* Reading does not change what the lines are.
LEMMA LinesStay ==
    ASSUME lines' = lines, parser' = parser
    PROVE  /\ \A k : KnownTo(k)' = KnownTo(k) /\ ErrorsTo(k)' = ErrorsTo(k)
           /\ \A f, k : Of(f, k)' = Of(f, k)
           /\ \A n : KeyOf(n)' = KeyOf(n)
           /\ Times' = Times
           /\ RaisedForReason' <=> RaisedForReason
<1>1. \A n : /\ Parsed(n)' = Parsed(n)
             /\ (Known(n)' <=> Known(n)) /\ (IsError(n)' <=> IsError(n))
             /\ KeyOf(n)' = KeyOf(n)
    BY DEF Parsed, Known, IsError, KeyOf
<1>2. \A k : KnownTo(k)' = KnownTo(k) /\ ErrorsTo(k)' = ErrorsTo(k)
    BY <1>1 DEF KnownTo, ErrorsTo
<1>3. \A f, k : Of(f, k)' = Of(f, k)
    BY <1>1, <1>2 DEF Of
<1>4. Times' = Times
    BY <1>1 DEF Times
<1>5. RaisedForReason' <=> RaisedForReason
    BY <1>1, <1>2 DEF RaisedForReason
<1> QED
    BY <1>1, <1>2, <1>3, <1>4, <1>5
-----------------------------------------------------------------------------
(* The steps of reading.                                                   *)

\* Before the first line nothing is known and there is no group.
LEMMA NothingRead ==
    /\ KnownTo(0) = {} /\ ErrorsTo(0) = {}
    /\ Cardinality(KnownTo(0)) = 0 /\ Cardinality(ErrorsTo(0)) = 0
<1>1. KnownTo(0) = {} /\ ErrorsTo(0) = {}
    <2>1. 1 .. 0 = {}
        OBVIOUS
    <2> QED
        BY <2>1 DEF KnownTo, ErrorsTo
<1> QED
    BY <1>1, FS_EmptySet

LEMMA GroupInvInit == GroupInit => GroupInv
<1> SUFFICES ASSUME GroupInit PROVE GroupInv
    OBVIOUS
<1>1. lines \in Seq(Line) /\ Len(lines) \in Nat
    BY LogAssumption DEF GroupInit
<1>2. PlaceOK
    BY <1>1, FormatNames DEF GroupInit, PlaceOK, Reading
<1>3. next - 1 = 0
    BY DEF GroupInit
<1>4. CountsOK
    BY <1>3, NothingRead DEF GroupInit, CountsOK
<1>5. DOMAIN groups = {}
    <2>1. groups = <<>>
        BY DEF GroupInit
    <2> QED
        BY <2>1
<1>6. GroupsOK
    BY <1>3, <1>5, NothingRead DEF GroupsOK
<1> QED
    BY <1>2, <1>4, <1>6 DEF GroupInv

\* One of three numbers is the largest, the first of equals.
LEMMA FirstOfEquals ==
    ASSUME NEW a \in Int, NEW b \in Int, NEW c \in Int
    PROVE  \/ (a > b \/ a = b) /\ (a > c \/ a = c)
           \/ b > a /\ (b > c \/ b = c)
           \/ c > a /\ c > b
OBVIOUS

\* The detected format is one of the four.
LEMMA DetectedFormat == ASSUME GroupInv, Detect PROVE parser' \in Formats
<1> DEFINE head == {n \in 1 .. Len(lines) : n <= SAMPLE_SIZE}
           sample == {n \in head : lines[n].shape # "blank"}
           Best(i) == \A j \in 1 .. 3 :
               LET a == Hits(REGISTRY[i], sample)
                   b == Hits(REGISTRY[j], sample) IN
               a > b \/ (a = b /\ i <= j)
           best == CHOOSE i \in 1 .. 3 : Best(i)
<1>1. parser' = IF sample # {}
                   /\ 2 * Hits(REGISTRY[best], sample) >= Cardinality(sample)
                THEN REGISTRY[best] ELSE "plain"
    BY Zenon DEF Detect
<1>2. IsFiniteSet(sample)
    <2>1. IsFiniteSet(1 .. Len(lines))
        BY FS_Interval, 1 \in Int, Len(lines) \in Int DEF GroupInv, PlaceOK
    <2> QED
        BY <2>1, FS_Subset, sample \in SUBSET (1 .. Len(lines))
<1> HIDE DEF sample
<1>3. ASSUME NEW format PROVE Hits(format, sample) \in Int
    <2> DEFINE H == {n \in sample : Understands(format, lines[n])}
    <2>1. IsFiniteSet(H)
        BY <1>2, FS_Subset, H \in SUBSET sample
    <2> HIDE DEF H
    <2>2. Cardinality(H) \in Int
        BY <2>1, FS_CardinalityType
    <2> QED
        BY <2>2 DEF Hits, H
<1>4. \E i \in 1 .. 3 : Best(i)
    <2> DEFINE a == Hits(REGISTRY[1], sample)
               b == Hits(REGISTRY[2], sample)
               c == Hits(REGISTRY[3], sample)
    <2>1. a \in Int /\ b \in Int /\ c \in Int
        BY <1>3
    <2>2. \A j \in 1 .. 3 : j = 1 \/ j = 2 \/ j = 3
        OBVIOUS
    <2> HIDE DEF a, b, c
    <2>3. CASE (a > b \/ a = b) /\ (a > c \/ a = c)
        <3>1. Best(1)
            BY <2>1, <2>2, <2>3 DEF a, b, c
        <3> QED
            BY <3>1, 1 \in 1 .. 3
    <2>4. CASE b > a /\ (b > c \/ b = c)
        <3>1. Best(2)
            BY <2>1, <2>2, <2>4 DEF a, b, c
        <3> QED
            BY <3>1, 2 \in 1 .. 3
    <2>5. CASE c > a /\ c > b
        <3>1. Best(3)
            BY <2>1, <2>2, <2>5 DEF a, b, c
        <3> QED
            BY <3>1, 3 \in 1 .. 3
    <2> QED
        BY <2>1, <2>3, <2>4, <2>5, FirstOfEquals
<1> HIDE DEF Best
<1>5. best \in 1 .. 3
    BY <1>4
<1> HIDE DEF best
<1>6. REGISTRY[best] \in Formats /\ "plain" \in Formats
    BY <1>5, FormatNames
<1> QED
    BY <1>1, <1>6

LEMMA DetectKeeps == ASSUME GroupInv, Detect PROVE GroupInv'
<1>1. /\ reading = "head" /\ reading' = "lines" /\ next = 1
      /\ UNCHANGED <<lines, next, total, parsed, errors, groups>>
    BY DEF Detect, GroupInv, PlaceOK
<1>2. next - 1 = 0 /\ next' - 1 = 0
    BY <1>1
<1>3. PlaceOK'
    BY <1>1, DetectedFormat DEF GroupInv, PlaceOK, Reading
<1>4. /\ KnownTo(0)' = {} /\ ErrorsTo(0)' = {}
    <2>1. 1 .. 0 = {}
        OBVIOUS
    <2> QED
        BY <2>1 DEF KnownTo, ErrorsTo
<1>5. parsed = 0 /\ errors = 0 /\ total \in Nat
    BY <1>2, NothingRead DEF GroupInv, CountsOK
<1>6. CountsOK'
    BY <1>1, <1>2, <1>4, <1>5, FS_EmptySet DEF CountsOK
<1>7. DOMAIN groups = {}
    BY <1>2, NothingRead DEF GroupInv, GroupsOK
<1>8. GroupsOK'
    BY <1>1, <1>2, <1>4, <1>7 DEF GroupsOK
<1> QED
    BY <1>3, <1>6, <1>8 DEF GroupInv

LEMMA ReadEndKeeps == ASSUME GroupInv, ReadEnd PROVE GroupInv'
<1>1. /\ reading = "lines" /\ next > Len(lines) /\ reading' = "read"
      /\ UNCHANGED <<lines, parser, next, total, parsed, errors, groups>>
    BY DEF ReadEnd
<1>2. PlaceOK'
    BY <1>1 DEF GroupInv, PlaceOK, Reading
<1>3. CountsOK' /\ GroupsOK'
    BY <1>1, LinesStay DEF GroupInv, CountsOK, GroupsOK
<1> QED
    BY <1>2, <1>3 DEF GroupInv

\* A run raises only for a time without a day or for times that do not compare.
LEMMA RaiseHasReason ==
    ASSUME GroupInv, NEW n \in 1 .. Len(lines), n = next, Known(n),
           NEW acc,
           acc = IF IsError(n) /\ KeyOf(n) \in DOMAIN groups
                 THEN groups[KeyOf(n)] ELSE NewGroup,
           Raises(lines[n], acc)
    PROVE  RaisedForReason
<1>1. n \in KnownTo(Len(lines))
    BY DEF KnownTo
<1>2. CASE parser = "syslog" /\ lines[n].stamp = BadTime
    BY <1>1, <1>2 DEF RaisedForReason
<1>3. CASE LET stamp == parse_line(parser, lines[n]).timestamp IN
           /\ stamp # NoTime /\ acc.first_seen # NoTime
           /\ stamp.aware # acc.first_seen.aware
    <2>1. /\ acc.first_seen # NoTime
          /\ Parsed(n).timestamp.aware # acc.first_seen.aware
        BY <1>3 DEF Parsed
    <2>2. IsError(n) /\ KeyOf(n) \in DOMAIN groups /\ acc = groups[KeyOf(n)]
        BY <2>1 DEF NewGroup
    <2>3. GroupMatches(groups[KeyOf(n)], Of(KeyOf(n), next - 1), Times)
        BY <2>2 DEF GroupInv, GroupsOK
    <2>4. acc.first_seen \in TimesIn(Of(KeyOf(n), next - 1), Times)
        BY <2>1, <2>2, <2>3 DEF GroupMatches, TimesMatch
    <2>5. PICK m \in Of(KeyOf(n), next - 1) : acc.first_seen = Times[m]
        BY <2>4 DEF TimesIn
    <2>6. m \in 1 .. Len(lines) /\ IsError(m) /\ KeyOf(m) = KeyOf(n)
        BY <2>5 DEF Of, ErrorsTo
    <2>7. Times[m] = Parsed(m).timestamp
        BY <2>6 DEF Times
    <2>8. m \in ErrorsTo(Len(lines)) /\ n \in ErrorsTo(Len(lines))
        BY <2>2, <2>6 DEF ErrorsTo
    <2> QED
        BY <2>1, <2>5, <2>6, <2>7, <2>8 DEF RaisedForReason
<1> QED
    BY <1>2, <1>3 DEF Raises

LEMMA ReadLineKeeps == ASSUME GroupInv, ReadLine PROVE GroupInv'
<1> DEFINE f == KeyOf(next)
           acc == IF f \in DOMAIN groups THEN groups[f] ELSE NewGroup
           raises == Raises(lines[next], IF IsError(next) THEN acc ELSE NewGroup)
<1>1. /\ reading = "lines" /\ next <= Len(lines) /\ next \in Nat /\ next > 0
      /\ next \in 1 .. Len(lines) /\ Len(lines) \in Nat
      /\ lines' = lines /\ parser' = parser
    BY DEF ReadLine, GroupInv, PlaceOK
<1>2. PICK k \in Nat : k = next
    BY <1>1
<1>3. IF Known(k) /\ raises
      THEN /\ reading' = "raised"
           /\ UNCHANGED <<next, total, parsed, errors, groups>>
      ELSE /\ next' = next + 1
           /\ total' = total + (IF lines[k].shape = "blank" THEN 0 ELSE 1)
           /\ parsed' = parsed + (IF Known(k) THEN 1 ELSE 0)
           /\ errors' = errors + (IF IsError(k) THEN 1 ELSE 0)
           /\ groups' = IF IsError(k)
                 THEN [g \in DOMAIN groups \union {f} |->
                         IF g = f THEN Add(acc, k, Parsed(k).timestamp)
                         ELSE groups[g]]
                 ELSE groups
           /\ UNCHANGED reading
    BY <1>2, Zenon DEF ReadLine, Known, IsError, Parsed, KeyOf
<1>4. CASE Known(k) /\ raises
    <2>1. RaisedForReason
        BY <1>1, <1>2, <1>4, RaiseHasReason
    <2>2. /\ reading' = "raised"
          /\ UNCHANGED <<next, total, parsed, errors, groups>>
        BY <1>3, <1>4
    <2>3. PlaceOK'
        BY <1>1, <2>1, <2>2, LinesStay DEF GroupInv, PlaceOK, Reading
    <2> QED
        BY <1>1, <2>2, <2>3, LinesStay DEF GroupInv, CountsOK, GroupsOK
<1>5. CASE ~(Known(k) /\ raises)
    <2>1. /\ next' = k + 1 /\ next' - 1 = k /\ next - 1 = k - 1 /\ k - 1 \in Nat
          /\ reading' = "lines"
        BY <1>1, <1>2, <1>3, <1>5
    <2>2. PlaceOK'
        BY <1>1, <1>2, <2>1 DEF GroupInv, PlaceOK, Reading
    <2>3. CountsOK'
        <3>1. /\ parsed = Cardinality(KnownTo(k - 1))
              /\ errors = Cardinality(ErrorsTo(k - 1))
              /\ total \in Nat /\ parsed <= total
            BY <2>1 DEF GroupInv, CountsOK
        <3>2. /\ parsed \in Nat /\ errors \in Nat
              /\ IsFiniteSet(KnownTo(k - 1)) /\ IsFiniteSet(ErrorsTo(k - 1))
            BY <2>1, <3>1, LinesAreFinite
        <3>3. Cardinality(KnownTo(k)) = parsed + (IF Known(k) THEN 1 ELSE 0)
            <4>1. /\ KnownTo(k) = IF Known(k) THEN KnownTo(k - 1) \union {k}
                               ELSE KnownTo(k - 1)
                  /\ k \notin KnownTo(k - 1)
                BY <1>1, <1>2, OneLineMore
            <4>2. Cardinality(KnownTo(k - 1) \union {k}) = parsed + 1
                BY <3>1, <3>2, <4>1, FS_AddElement
            <4> QED
                BY <3>1, <3>2, <4>1, <4>2
        <3>4. Cardinality(ErrorsTo(k)) = errors + (IF IsError(k) THEN 1 ELSE 0)
            <4>1. /\ ErrorsTo(k) = IF IsError(k) THEN ErrorsTo(k - 1) \union {k}
                               ELSE ErrorsTo(k - 1)
                  /\ k \notin ErrorsTo(k - 1)
                BY <1>1, <1>2, OneLineMore
            <4>2. Cardinality(ErrorsTo(k - 1) \union {k}) = errors + 1
                BY <3>1, <3>2, <4>1, FS_AddElement
            <4> QED
                BY <3>1, <3>2, <4>1, <4>2
        <3>5. Known(k) => lines[k].shape # "blank"
            BY DEF Known
        <3>6. total' \in Nat /\ parsed' <= total'
            BY <1>3, <1>5, <3>1, <3>2, <3>5
        <3> QED
            BY <1>1, <1>3, <1>5, <2>1, <3>3, <3>4, <3>6, LinesStay DEF CountsOK
    <2>4. Times[k] = Parsed(k).timestamp
        BY <1>1, <1>2 DEF Times
    <2>5. IsError(k) => Times[k] \in Stamps \union {NoTime}
        <3>1. IsError(k) => ~(parser = "syslog" /\ lines[k].stamp = BadTime)
            BY <1>2, <1>5 DEF Raises, IsError
        <3>2. lines[k] \in Line /\ parser \in Formats
            BY <1>1, <1>2, ElementOfSeq DEF GroupInv, PlaceOK
        <3> QED
            BY <2>4, <3>1, <3>2, ParsedTimes DEF Parsed
    <2>6. \A n \in ErrorsTo(k) : Times[n] \in Stamps \union {NoTime}
        BY <1>1, <1>2, <2>1, <2>5, OneLineMore DEF GroupInv, GroupsOK
    <2>7. /\ DOMAIN groups = {KeyOf(n) : n \in ErrorsTo(k - 1)}
          /\ \A g \in DOMAIN groups : GroupMatches(groups[g], Of(g, k - 1), Times)
        BY <2>1 DEF GroupInv, GroupsOK
    <2>8. CASE ~IsError(k)
        <3>1. groups' = groups
            BY <1>3, <1>5, <2>8
        <3>2. /\ ErrorsTo(k) = ErrorsTo(k - 1)
              /\ \A g : Of(g, k) = Of(g, k - 1)
            BY <1>1, <1>2, <2>8, OneLineMore
        <3> QED
            BY <1>1, <2>1, <2>2, <2>3, <2>6, <2>7, <3>1, <3>2, LinesStay
            DEF GroupInv, GroupsOK
    <2>9. CASE IsError(k)
        <3>1. groups' = [g \in DOMAIN groups \union {f} |->
                            IF g = f THEN Add(acc, k, Times[k]) ELSE groups[g]]
            BY <1>3, <1>5, <2>4, <2>9
        <3>2. GroupMatches(acc, Of(f, k - 1), Times)
            <4>1. CASE f \in DOMAIN groups
                BY <2>7, <4>1
            <4>2. CASE f \notin DOMAIN groups
                <5>1. Of(f, k - 1) = {}
                    BY <2>7, <4>2 DEF Of
                <5> QED
                    BY <4>2, <5>1, NewGroupMatches
            <4> QED
                BY <4>1, <4>2
        <3>3. Of(f, k) = Of(f, k - 1) \union {k}
            BY <1>1, <1>2, <2>9, OneLineMore
        <3>4. /\ Of(f, k - 1) \in SUBSET Nat /\ IsFiniteSet(Of(f, k - 1))
              /\ \A m \in Of(f, k - 1) : m < k
            <4>1. \A m \in Of(f, k - 1) : m <= k - 1 /\ m \in Nat
                BY <2>1, LinesAreFinite
            <4> QED
                BY <2>1, <4>1, LinesAreFinite
        <3>5. \A m \in Of(f, k - 1) \union {k} : Times[m] \in Stamps \union {NoTime}
            BY <2>6, <3>3 DEF Of
        <3> HIDE DEF acc, f
        <3>6. GroupMatches(Add(acc, k, Times[k]), Of(f, k), Times)
            BY <3>2, <3>3, <3>4, <3>5, AddMatches
        <3>7. ASSUME NEW g \in DOMAIN groups' PROVE GroupMatches(groups'[g], Of(g, k), Times)
            <4>1. CASE g = f
                BY <3>1, <3>6, <4>1
            <4>2. CASE g # f
                <5>1. g \in DOMAIN groups /\ groups'[g] = groups[g]
                    BY <3>1, <4>2, <3>7
                <5>2. Of(g, k) = Of(g, k - 1)
                    BY <1>1, <1>2, <4>2, OneLineMore DEF f
                <5> QED
                    BY <2>7, <5>1, <5>2
            <4> QED
                BY <4>1, <4>2
        <3>8. DOMAIN groups' = {KeyOf(n) : n \in ErrorsTo(k)}
            <4>1. DOMAIN groups' = DOMAIN groups \union {f}
                BY <3>1
            <4>2. ErrorsTo(k) = ErrorsTo(k - 1) \union {k}
                BY <1>1, <1>2, <2>9, OneLineMore
            <4>3. f = KeyOf(k)
                BY <1>2 DEF f
            <4> QED
                BY <2>7, <4>1, <4>2, <4>3
        <3>9. GroupsOK'
            BY <1>1, <2>1, <2>6, <3>7, <3>8, LinesStay DEF GroupsOK
        <3> QED
            BY <2>2, <2>3, <3>9 DEF GroupInv
    <2> QED
        BY <2>8, <2>9
<1> QED
    BY <1>4, <1>5

LEMMA GroupStep == GroupInv /\ [GroupNext]_groupVars => GroupInv'
<1> SUFFICES ASSUME GroupInv, [GroupNext]_groupVars PROVE GroupInv'
    OBVIOUS
<1>1. CASE UNCHANGED groupVars
    <2>1. UNCHANGED <<lines, parser, next, total, parsed, errors, groups, reading>>
        BY <1>1 DEF groupVars
    <2> QED
        BY <2>1, LinesStay DEF GroupInv, PlaceOK, CountsOK, GroupsOK
<1> QED
    BY <1>1, DetectKeeps, ReadLineKeeps, ReadEndKeeps DEF GroupNext

LEMMA GroupInvariant == GroupSpec => []GroupInv
BY GroupInvInit, GroupStep, PTL DEF GroupSpec

\* What GroupInv says of a log that is read, or of a run that raised.
LEMMA GroupInvMatches == GroupInv => GroupsMatchLines
<1> SUFFICES ASSUME GroupInv PROVE GroupsMatchLines
    OBVIOUS
<1> DEFINE E(n) == parse_line(parser, lines[n])
           known == {n \in 1 .. Len(lines) : lines[n].shape # "blank"
                                             /\ Understands(parser, lines[n])}
           errs == {n \in known : E(n).level \in GroupedLevels}
           OfG(f) == {n \in errs : fingerprint(E(n)) = f}
           stampsOf(f) == {E(n).timestamp : n \in OfG(f)} \ {NoTime}
<1>1. /\ known = KnownTo(Len(lines)) /\ errs = ErrorsTo(Len(lines))
      /\ \A n : E(n) = Parsed(n) /\ fingerprint(E(n)) = KeyOf(n)
    BY DEF KnownTo, ErrorsTo, Known, IsError, Parsed, KeyOf
<1>2. \A f : OfG(f) = Of(f, Len(lines))
    BY <1>1 DEF Of
<1>3. ASSUME NEW f PROVE stampsOf(f) = TimesIn(Of(f, Len(lines)), Times)
    <2>1. \A n \in Of(f, Len(lines)) : Times[n] = Parsed(n).timestamp
        BY DEF Of, ErrorsTo, Times
    <2> QED
        BY <1>1, <1>2, <2>1 DEF TimesIn
<1> HIDE DEF E, known, errs, OfG, stampsOf
<1>4. ASSUME reading = "read"
      PROVE  /\ DOMAIN groups = {fingerprint(E(n)) : n \in errs}
             /\ parsed = Cardinality(known) /\ errors = Cardinality(errs)
             /\ parsed <= total
             /\ \A f \in DOMAIN groups :
                   LET g == groups[f] IN
                   /\ g.count = Cardinality(OfG(f))
                   /\ IF stampsOf(f) = {}
                      THEN {g.first_seen, g.last_seen} = {NoTime}
                      ELSE /\ {g.first_seen, g.last_seen} \subseteq stampsOf(f)
                           /\ \A t \in stampsOf(f) : g.first_seen.time <= t.time
                                                  /\ t.time <= g.last_seen.time
                   /\ \A n \in OfG(f) :
                         (\E i \in 1 .. Len(g.samples) : g.samples[i] = n)
                         <=> Cardinality({m \in OfG(f) : m < n})
                                < MAX_SAMPLES_PER_GROUP
    <2>1. next - 1 = Len(lines)
        BY <1>4 DEF GroupInv, PlaceOK
    <2>2. /\ parsed = Cardinality(known) /\ errors = Cardinality(errs)
          /\ parsed <= total
        BY <1>1, <2>1 DEF GroupInv, CountsOK
    <2>3. DOMAIN groups = {fingerprint(E(n)) : n \in errs}
        BY <1>1, <2>1 DEF GroupInv, GroupsOK
    <2>4. ASSUME NEW f \in DOMAIN groups
          PROVE  /\ groups[f].count = Cardinality(OfG(f))
                 /\ TimesMatch(groups[f].first_seen, groups[f].last_seen, stampsOf(f))
                 /\ SamplesMatch(groups[f].samples, OfG(f))
        <3>1. GroupMatches(groups[f], Of(f, Len(lines)), Times)
            BY <2>1 DEF GroupInv, GroupsOK
        <3> QED
            BY <1>2, <1>3, <3>1 DEF GroupMatches
    <2>5. ASSUME NEW f \in DOMAIN groups
          PROVE  /\ IF stampsOf(f) = {}
                    THEN {groups[f].first_seen, groups[f].last_seen} = {NoTime}
                    ELSE /\ {groups[f].first_seen, groups[f].last_seen}
                               \subseteq stampsOf(f)
                         /\ \A t \in stampsOf(f) :
                               /\ groups[f].first_seen.time <= t.time
                               /\ t.time <= groups[f].last_seen.time
                 /\ \A n \in OfG(f) :
                       (\E i \in 1 .. Len(groups[f].samples) :
                            groups[f].samples[i] = n)
                       <=> Cardinality({m \in OfG(f) : m < n})
                              < MAX_SAMPLES_PER_GROUP
        BY <2>4 DEF TimesMatch, SamplesMatch
    <2> QED
        BY <2>2, <2>3, <2>4, <2>5
<1>5. ASSUME reading = "raised"
      PROVE  \/ \E n \in known : lines[n].stamp = BadTime
             \/ \E n, m \in errs : /\ fingerprint(E(n)) = fingerprint(E(m))
                                   /\ E(n).timestamp.aware # E(m).timestamp.aware
    BY <1>1, <1>5 DEF GroupInv, PlaceOK, RaisedForReason
<1> QED
    BY <1>4, <1>5, Zenon DEF GroupsMatchLines, E, known, errs, OfG, stampsOf

\* A log that is read is reduced to what its lines say, for logs of any length:
\* groups, counts, first and last times, samples and statistics
\* (services/pipeline.py:36-125).
THEOREM GroupsSayWhatLinesSay == GroupSpec => []GroupsMatchLines
BY GroupInvariant, GroupInvMatches, PTL
-----------------------------------------------------------------------------
(* The timeline.  A total order on 1 .. N is listed by its ranks.          *)

IsTotalOrder(L, N) ==
    /\ \A i \in 1 .. N : <<i, i>> \in L
    /\ \A i, j \in 1 .. N : <<i, j>> \in L \/ <<j, i>> \in L
    /\ \A i, j \in 1 .. N : <<i, j>> \in L /\ <<j, i>> \in L => i = j
    /\ \A i, j, k \in 1 .. N : <<i, j>> \in L /\ <<j, k>> \in L => <<i, k>> \in L

UpTo(L, N, i) == {j \in 1 .. N : <<j, i>> \in L}

RankedBy(rank, L, N) == rank = [i \in 1 .. N |-> Cardinality(UpTo(L, N, i))]

\* Every position has one element, and later positions have later elements.
LEMMA RanksList ==
    ASSUME NEW N \in Nat, NEW L, IsTotalOrder(L, N),
           NEW rank, RankedBy(rank, L, N)
    PROVE  /\ \A r \in 1 .. N : \E i \in 1 .. N : rank[i] = r
           /\ \A i, j \in 1 .. N : rank[i] = rank[j] => i = j
           /\ \A i, j \in 1 .. N : rank[i] < rank[j] => <<i, j>> \in L
           /\ \A i \in 1 .. N : rank[i] \in 1 .. N
<1>1. IsFiniteSet(1 .. N) /\ Cardinality(1 .. N) = N
    BY FS_Interval, 1 \in Int, N \in Int
<1>2. ASSUME NEW i \in 1 .. N
      PROVE  /\ IsFiniteSet(UpTo(L, N, i)) /\ rank[i] \in 1 .. N
             /\ rank[i] = Cardinality(UpTo(L, N, i))
    <2>1. UpTo(L, N, i) \in SUBSET (1 .. N) /\ i \in UpTo(L, N, i)
        BY DEF UpTo, IsTotalOrder
    <2>2. /\ IsFiniteSet(UpTo(L, N, i)) /\ Cardinality(UpTo(L, N, i)) \in Nat
          /\ Cardinality(UpTo(L, N, i)) <= N
        BY <1>1, <2>1, FS_Subset, FS_CardinalityType
    <2>3. Cardinality(UpTo(L, N, i)) # 0
        BY <2>1, <2>2, FS_EmptySet
    <2> QED
        BY <2>2, <2>3 DEF RankedBy
<1>3. ASSUME NEW i \in 1 .. N, NEW j \in 1 .. N, i # j, <<i, j>> \in L
      PROVE  rank[i] < rank[j]
    <2>1. UpTo(L, N, i) \in SUBSET UpTo(L, N, j)
        BY <1>3 DEF UpTo, IsTotalOrder
    <2>2. j \in UpTo(L, N, j) /\ j \notin UpTo(L, N, i)
        BY <1>3 DEF UpTo, IsTotalOrder
    <2>3. /\ Cardinality(UpTo(L, N, i)) <= Cardinality(UpTo(L, N, j))
          /\ Cardinality(UpTo(L, N, i)) # Cardinality(UpTo(L, N, j))
        BY <1>2, <2>1, <2>2, FS_Subset
    <2> QED
        BY <1>2, <2>3
<1>4. \A i, j \in 1 .. N : rank[i] = rank[j] => i = j
    <2> SUFFICES ASSUME NEW i \in 1 .. N, NEW j \in 1 .. N, i # j
                 PROVE  rank[i] # rank[j]
        OBVIOUS
    <2>1. <<i, j>> \in L \/ <<j, i>> \in L
        BY DEF IsTotalOrder
    <2>2. rank[i] < rank[j] \/ rank[j] < rank[i]
        BY <1>3, <2>1
    <2>3. rank[i] \in Nat /\ rank[j] \in Nat
        BY <1>2
    <2> QED
        BY <2>2, <2>3
<1>5. \A i, j \in 1 .. N : rank[i] < rank[j] => <<i, j>> \in L
    <2> SUFFICES ASSUME NEW i \in 1 .. N, NEW j \in 1 .. N, rank[i] < rank[j]
                 PROVE  <<i, j>> \in L
        OBVIOUS
    <2>1. rank[i] \in Nat /\ rank[j] \in Nat
        BY <1>2
    <2>2. ~(rank[j] < rank[i]) /\ i # j
        BY <2>1
    <2> QED
        BY <1>3, <2>2 DEF IsTotalOrder
<1>6. rank \in [1 .. N -> 1 .. N]
    BY <1>2 DEF RankedBy
<1>7. rank \in Injection(1 .. N, 1 .. N)
    BY <1>4, <1>6 DEF Injection, IsInjective
<1>8. rank \in Surjection(1 .. N, 1 .. N)
    BY <1>1, <1>7, FS_Injection
<1>9. \A r \in 1 .. N : \E i \in 1 .. N : rank[i] = r
    BY <1>8 DEF Surjection
<1> QED
    BY <1>2, <1>4, <1>5, <1>9

\* The rows a timeline is made of.
IsRow(e) == e.count \in Nat /\ e.severity \in Severities /\ e.first_seen \in Nat

LEMMA SeverityRanks ==
    /\ \A s \in Severities : _SEVERITY_RANK[s] \in Nat
    /\ \A s, t \in Severities : _SEVERITY_RANK[s] = _SEVERITY_RANK[t] => s = t
<1>1. Severities = {"critical", "high", "medium", "low"}
    BY DEF Severities, _SEVERITY_RANK
<1>2. /\ _SEVERITY_RANK["critical"] = 0 /\ _SEVERITY_RANK["high"] = 1
      /\ _SEVERITY_RANK["medium"] = 2 /\ _SEVERITY_RANK["low"] = 3
    BY DEF _SEVERITY_RANK
<1> QED
    BY <1>1, <1>2

\* What sorts before what, in numbers.
LEMMA BeforeIsLess ==
    ASSUME NEW e, NEW f, IsRow(e), IsRow(f)
    PROVE  LET r == _SEVERITY_RANK[e.severity]  s == _SEVERITY_RANK[f.severity] IN
           /\ r \in Nat /\ s \in Nat
           /\ Before(e, f) <=>
                \/ e.first_seen # 0 /\ f.first_seen = 0
                \/ /\ e.first_seen # 0 /\ f.first_seen # 0
                   /\ e.first_seen < f.first_seen
                \/ /\ e.first_seen = f.first_seen
                   /\ r < s \/ (r = s /\ e.count > f.count)
BY SeverityRanks DEF IsRow, Before, Dated

\* The order of sorted: rows of equal keys stay as they were.
SortsUpTo(rows, N) ==
    {p \in (1 .. N) \X (1 .. N) :
        \/ Before(rows[p[1]], rows[p[2]])
        \/ ~Before(rows[p[2]], rows[p[1]]) /\ p[1] <= p[2]}

LEMMA SortIsTotalOrder ==
    ASSUME NEW N \in Nat, NEW rows, \A i \in 1 .. N : IsRow(rows[i])
    PROVE  IsTotalOrder(SortsUpTo(rows, N), N)
<1> DEFINE L == SortsUpTo(rows, N)
<1>1. ASSUME NEW i \in 1 .. N, NEW j \in 1 .. N
      PROVE  <<i, j>> \in L <=> \/ Before(rows[i], rows[j])
                                \/ ~Before(rows[j], rows[i]) /\ i <= j
    BY DEF SortsUpTo
<1> HIDE DEF L
<1>2. ASSUME NEW i \in 1 .. N, NEW j \in 1 .. N
      PROVE  ~(Before(rows[i], rows[j]) /\ Before(rows[j], rows[i]))
    BY BeforeIsLess DEF IsRow
<1>3. ASSUME NEW i \in 1 .. N, NEW j \in 1 .. N, NEW k \in 1 .. N
      PROVE  /\ Before(rows[i], rows[j]) /\ Before(rows[j], rows[k])
                => Before(rows[i], rows[k])
             /\ Before(rows[i], rows[j]) /\ ~Before(rows[k], rows[j])
                => Before(rows[i], rows[k])
             /\ ~Before(rows[j], rows[i]) /\ Before(rows[j], rows[k])
                => Before(rows[i], rows[k])
             /\ ~Before(rows[j], rows[i]) /\ ~Before(rows[k], rows[j])
                => ~Before(rows[k], rows[i])
    BY BeforeIsLess DEF IsRow
<1>4. \A i \in 1 .. N : <<i, i>> \in L
    BY <1>1, <1>2
<1>5. \A i, j \in 1 .. N : <<i, j>> \in L \/ <<j, i>> \in L
    <2>1. \A i, j \in 1 .. N : i <= j \/ j <= i
        OBVIOUS
    <2> QED
        BY <1>1, <2>1, Zenon
<1>6. \A i, j \in 1 .. N : <<i, j>> \in L /\ <<j, i>> \in L => i = j
    BY <1>1, <1>2
<1>7. \A i, j, k \in 1 .. N : <<i, j>> \in L /\ <<j, k>> \in L => <<i, k>> \in L
    <2> SUFFICES ASSUME NEW i \in 1 .. N, NEW j \in 1 .. N, NEW k \in 1 .. N,
                        <<i, j>> \in L, <<j, k>> \in L
                 PROVE  <<i, k>> \in L
        OBVIOUS
    <2>1. i <= j /\ j <= k => i <= k
        OBVIOUS
    <2> QED
        BY <1>1, <1>3, <2>1
<1> QED
    BY <1>4, <1>5, <1>6, <1>7 DEF IsTotalOrder, L

\* The rows say what the groups say, and no two are the same.
RowsOK ==
    /\ \A i \in DOMAIN events : IsRow(events[i])
    /\ \A i, j \in DOMAIN events : i # j => events[i].id # events[j].id
    /\ \A f \in DOMAIN groups :
          \E i \in DOMAIN events :
              events[i].first_seen = groups[f].first_seen.time

Listed == \E N \in Nat : events = [i \in 1 .. N |-> events[i]]

\* The timeline is in the order of its dates, the marked event is the first of
\* those that have one, and no other event is marked.
InDateOrder ==
    \A i, j \in DOMAIN events :
        i < j /\ Dated(events[j]) =>
            Dated(events[i]) /\ events[i].first_seen <= events[j].first_seen
Marked ==
    1 \in DOMAIN events =>
        \E i \in DOMAIN events :
            /\ events[i].id = first
            /\ (\E j \in DOMAIN events : Dated(events[j])) => i = 1

IncidentInv ==
    /\ GroupInv
    /\ inquiry \in {"stored", "timeline", "ended"} =>
          reading = "read" /\ Listed /\ RowsOK
    /\ inquiry \in {"timeline", "ended"} => InDateOrder /\ Marked

\* A group has at least one time that is its first, or no time at all.
LEMMA GroupRows ==
    ASSUME GroupInv, NEW f \in DOMAIN groups
    PROVE  /\ groups[f].count \in Nat /\ groups[f].first_seen.time \in Nat
           /\ f.level \in GroupedLevels
<1>1. next - 1 \in Nat
    BY DEF GroupInv, PlaceOK
<1>2. GroupMatches(groups[f], Of(f, next - 1), Times)
    BY DEF GroupInv, GroupsOK
<1>3. groups[f].count \in Nat
    BY <1>1, <1>2, LinesAreFinite DEF GroupMatches
<1>4. TimesIn(Of(f, next - 1), Times) \in SUBSET Stamps
    BY DEF TimesIn, Of, GroupInv, GroupsOK
<1>5. groups[f].first_seen \in Stamps \union {NoTime}
    BY <1>2, <1>4 DEF GroupMatches, TimesMatch
<1>6. groups[f].first_seen.time \in Nat
    BY <1>5, StampTypes
<1>7. PICK n \in ErrorsTo(next - 1) : f = KeyOf(n)
    BY DEF GroupInv, GroupsOK
<1>8. f.level \in GroupedLevels
    BY <1>7 DEF ErrorsTo, IsError, KeyOf, fingerprint
<1> QED
    BY <1>3, <1>6, <1>8

LEMMA GroupsAreFinite == ASSUME GroupInv PROVE IsFiniteSet(DOMAIN groups)
<1> DEFINE E == ErrorsTo(next - 1)
           p == [n \in E |-> KeyOf(n)]
<1>1. IsFiniteSet(E)
    BY LinesAreFinite DEF GroupInv, PlaceOK
<1>2. DOMAIN groups = {KeyOf(n) : n \in E}
    BY DEF GroupInv, GroupsOK
<1> HIDE DEF E
<1>3. p \in Surjection(E, DOMAIN groups)
    BY <1>2 DEF Surjection
<1> QED
    BY <1>1, <1>3, FS_Surjection

LEMMA IdsAreFinite ==
    ASSUME NEW S, IsFiniteSet(S), NEW n \in Nat
    PROVE  IsFiniteSet([fingerprint : S, run : 1 .. n])
<1> DEFINE P == S \X (1 .. n)
           I == [fingerprint : S, run : 1 .. n]
           b == [q \in P |-> [fingerprint |-> q[1], run |-> q[2]]]
<1>1. IsFiniteSet(1 .. n)
    BY FS_Interval, 1 \in Int, n \in Int
<1>2. IsFiniteSet(P)
    BY <1>1, FS_Product
<1>3. b \in [P -> I]
    OBVIOUS
<1>4. ASSUME NEW d \in I PROVE \E q \in P : b[q] = d
    <2>1. <<d.fingerprint, d.run>> \in P
        OBVIOUS
    <2>2. b[<<d.fingerprint, d.run>>] = [fingerprint |-> d.fingerprint, run |-> d.run]
        BY <2>1
    <2>3. [fingerprint |-> d.fingerprint, run |-> d.run] = d
        OBVIOUS
    <2> QED
        BY <2>1, <2>2, <2>3
<1> HIDE DEF P, I, b
<1>5. b \in Surjection(P, I)
    BY <1>3, <1>4 DEF Surjection
<1> QED
    BY <1>2, <1>5, FS_Surjection DEF I

\* Storing the groups makes a row of each, whatever the insights say and
\* however often the analysis was executed.
LEMMA StoreKeeps == ASSUME IncidentInv, Store PROVE IncidentInv'
<1> DEFINE Ids(n) == [fingerprint : DOMAIN groups, run : 1 .. n]
           Event(refined, id) ==
               [id |-> id, count |-> groups[id.fingerprint].count,
                severity |-> IF refined[id] # "none" THEN refined[id]
                             ELSE SeverityByLevel[id.fingerprint.level],
                first_seen |-> groups[id.fingerprint].first_seen.time,
                last_seen |-> groups[id.fingerprint].last_seen.time]
<1>1. /\ reading = "read" /\ inquiry' = "stored"
      /\ UNCHANGED <<groupVars, first>>
    BY DEF Store
<1>2. PICK n \in {1, 2} :
        \E refined \in [Ids(n) -> AISeverities \union {"none"}] :
        \E order \in [1 .. Cardinality(Ids(n)) -> Ids(n)] :
           /\ \A i, j \in DOMAIN order : i # j => order[i] # order[j]
           /\ events' = [i \in DOMAIN order |-> Event(refined, order[i])]
    BY Zenon DEF Store
<1>3. PICK refined \in [Ids(n) -> AISeverities \union {"none"}] :
        \E order \in [1 .. Cardinality(Ids(n)) -> Ids(n)] :
           /\ \A i, j \in DOMAIN order : i # j => order[i] # order[j]
           /\ events' = [i \in DOMAIN order |-> Event(refined, order[i])]
    BY <1>2, Zenon
<1>4. PICK order \in [1 .. Cardinality(Ids(n)) -> Ids(n)] :
           /\ \A i, j \in DOMAIN order : i # j => order[i] # order[j]
           /\ events' = [i \in DOMAIN order |-> Event(refined, order[i])]
    BY <1>3, Zenon
<1>5. UNCHANGED <<lines, parser, next, total, parsed, errors, groups, reading>>
    BY <1>1 DEF groupVars
<1>6. GroupInv /\ GroupInv'
    <2>1. GroupInv
        BY DEF IncidentInv
    <2> QED
        BY <1>1, <2>1, GroupStep
<1>7. IsFiniteSet(Ids(n)) /\ Cardinality(Ids(n)) \in Nat
    BY <1>6, GroupsAreFinite, IdsAreFinite, FS_CardinalityType
<1> DEFINE C == Cardinality(Ids(n))
<1>8. ASSUME NEW d \in Ids(n) PROVE \E i \in 1 .. C : order[i] = d
    <2>1. IsFiniteSet(1 .. C) /\ Cardinality(1 .. C) = C
        BY <1>7, FS_Interval, 1 \in Int, C \in Int
    <2>2. \A a, b \in 1 .. C : order[a] = order[b] => a = b
        BY <1>4
    <2> HIDE DEF Ids
    <2>3. order \in Injection(1 .. C, Ids(n))
        BY <2>2 DEF Injection, IsInjective
    <2>4. order \in Surjection(1 .. C, Ids(n))
        BY <1>7, <2>1, <2>3, FS_Injection
    <2> QED
        BY <2>4 DEF Surjection
<1>9. ASSUME NEW i \in 1 .. C
      PROVE  /\ events'[i] = Event(refined, order[i])
             /\ order[i].fingerprint \in DOMAIN groups
    BY <1>4
<1>10. DOMAIN events' = 1 .. C /\ C \in Nat
    BY <1>4, <1>7
<1>11. Listed'
    BY <1>4, <1>7 DEF Listed
<1>12. ASSUME NEW d \in Ids(n)
       PROVE  IsRow(Event(refined, d))
    <2> DEFINE f == d.fingerprint
               e == Event(refined, d)
    <2>0. f \in DOMAIN groups
        BY <1>12
    <2>1. /\ groups[f].count \in Nat /\ groups[f].first_seen.time \in Nat
          /\ f.level \in GroupedLevels
        BY <1>6, <2>0, GroupRows
    <2>2. SeverityByLevel[f.level] \in Severities
        BY <2>1 DEF GroupedLevels, SeverityByLevel, Severities, _SEVERITY_RANK
    <2>3. refined[d] \in Severities \union {"none"}
        BY <1>3, <1>12, IncidentAssumption
    <2>4. /\ e.count = groups[f].count
          /\ e.first_seen = groups[f].first_seen.time
          /\ e.severity = IF refined[d] # "none" THEN refined[d]
                          ELSE SeverityByLevel[f.level]
        OBVIOUS
    <2> HIDE DEF e, f
    <2> QED
        BY <2>1, <2>2, <2>3, <2>4 DEF IsRow, e
<1>13. \A i \in 1 .. C : IsRow(events'[i]) /\ events'[i].id = order[i]
    <2> TAKE i \in 1 .. C
    <2>1. IsRow(Event(refined, order[i]))
        BY <1>4, <1>12
    <2>2. Event(refined, order[i]).id = order[i]
        OBVIOUS
    <2> QED
        BY <1>9, <2>1, <2>2
<1>14. ASSUME NEW f \in DOMAIN groups
       PROVE  \E i \in 1 .. C : events'[i].first_seen = groups[f].first_seen.time
    <2> DEFINE d == [fingerprint |-> f, run |-> 1]
    <2>1. d \in Ids(n) /\ d.fingerprint = f
        OBVIOUS
    <2>2. PICK i \in 1 .. C : order[i] = d
        BY <1>8, <2>1
    <2>3. Event(refined, d).first_seen = groups[f].first_seen.time
        BY <2>1
    <2> QED
        BY <1>9, <2>2, <2>3
<1>15. \A i, j \in 1 .. C : i # j => events'[i].id # events'[j].id
    BY <1>4, <1>13
<1> HIDE DEF Ids, Event, C
<1>16. RowsOK'
    BY <1>5, <1>10, <1>13, <1>14, <1>15 DEF RowsOK
<1> QED
    BY <1>1, <1>5, <1>6, <1>11, <1>16 DEF IncidentInv

\* The rows in the order of their ranks are the same rows in the order of time.
LEMMA TimelineKeeps == ASSUME IncidentInv, BuildTimeline PROVE IncidentInv'
<1> DEFINE Rank(i) == Cardinality({j \in DOMAIN events :
                         \/ Before(events[j], events[i])
                         \/ ~Before(events[i], events[j]) /\ j <= i})
           At(r) == CHOOSE i \in DOMAIN events : Rank(i) = r
           ordered == [r \in DOMAIN events |-> events[At(r)]]
           dated == {r \in DOMAIN events : Dated(ordered[r])}
           earliest == CHOOSE r \in dated : \A q \in dated : r <= q
<1>1. /\ inquiry = "stored" /\ inquiry' = "timeline"
      /\ UNCHANGED groupVars
      /\ events' = ordered
    BY Zenon DEF BuildTimeline
<1>2. first' = IF events = <<>> THEN NoEvent.id
               ELSE IF dated # {} THEN ordered[earliest].id
               ELSE ordered[1].id
    BY Zenon DEF BuildTimeline
<1>3. /\ GroupInv /\ GroupInv' /\ reading = "read" /\ reading' = "read"
      /\ groups' = groups /\ Listed /\ RowsOK
    <2>1. GroupInv /\ reading = "read" /\ Listed /\ RowsOK
        BY <1>1 DEF IncidentInv
    <2> QED
        BY <1>1, <2>1, GroupStep DEF groupVars
<1>4. PICK N \in Nat : events = [i \in 1 .. N |-> events[i]]
    BY <1>3 DEF Listed
<1>5. DOMAIN events = 1 .. N
    BY <1>4
<1> DEFINE L == SortsUpTo(events, N)
           rank == [i \in 1 .. N |-> Cardinality(UpTo(L, N, i))]
<1>6. IsTotalOrder(L, N)
    BY <1>3, <1>5, SortIsTotalOrder DEF RowsOK
<1>7. ASSUME NEW i \in 1 .. N PROVE Rank(i) = rank[i]
    <2>1. {j \in DOMAIN events : \/ Before(events[j], events[i])
                                 \/ ~Before(events[i], events[j]) /\ j <= i}
             = UpTo(L, N, i)
        BY <1>5 DEF UpTo, SortsUpTo
    <2> QED
        BY <2>1
<1> HIDE DEF L, Rank
<1>8. /\ \A r \in 1 .. N : \E i \in 1 .. N : rank[i] = r
      /\ \A i, j \in 1 .. N : rank[i] = rank[j] => i = j
      /\ \A i, j \in 1 .. N : rank[i] < rank[j] => <<i, j>> \in L
      /\ \A i \in 1 .. N : rank[i] \in 1 .. N
    <2>1. PICK M : M = L
        OBVIOUS
    <2>2. PICK of : of = rank
        OBVIOUS
    <2>3. RankedBy(of, M, N)
        BY <2>1, <2>2, Zenon DEF RankedBy
    <2> HIDE DEF rank
    <2>4. IsTotalOrder(M, N)
        BY <1>6, <2>1, Zenon
    <2>5. /\ \A r \in 1 .. N : \E i \in 1 .. N : of[i] = r
          /\ \A i, j \in 1 .. N : of[i] = of[j] => i = j
          /\ \A i, j \in 1 .. N : of[i] < of[j] => <<i, j>> \in M
          /\ \A i \in 1 .. N : of[i] \in 1 .. N
        BY <2>3, <2>4, RanksList
    <2> QED
        BY <2>1, <2>2, <2>5, Zenon
<1>9. ASSUME NEW r \in 1 .. N PROVE At(r) \in 1 .. N /\ rank[At(r)] = r
    <2>1. \E i \in DOMAIN events : Rank(i) = r
        BY <1>5, <1>7, <1>8
    <2>2. At(r) \in DOMAIN events /\ Rank(At(r)) = r
        BY <2>1
    <2> HIDE DEF At, rank
    <2> QED
        BY <1>5, <1>7, <2>2
<1> HIDE DEF At, rank
<1>10. /\ DOMAIN ordered = 1 .. N
       /\ \A r \in 1 .. N : ordered[r] = events[At(r)]
       /\ ordered = [r \in 1 .. N |-> ordered[r]]
    BY <1>5
<1> HIDE DEF ordered
<1>11. ASSUME NEW r \in 1 .. N, NEW q \in 1 .. N, r < q
       PROVE  ~Before(ordered[q], ordered[r])
    <2>1. <<At(r), At(q)>> \in L
        BY <1>8, <1>9, <1>11
    <2>2. \/ Before(events[At(r)], events[At(q)])
          \/ ~Before(events[At(q)], events[At(r)])
        BY <2>1 DEF L, SortsUpTo
    <2>3. IsRow(events[At(r)]) /\ IsRow(events[At(q)])
        BY <1>3, <1>5, <1>9 DEF RowsOK
    <2>4. ~(/\ Before(events[At(r)], events[At(q)])
            /\ Before(events[At(q)], events[At(r)]))
        BY <2>3, BeforeIsLess DEF IsRow
    <2> QED
        BY <1>10, <2>2, <2>4
<1>12. \A r \in 1 .. N : IsRow(ordered[r])
    BY <1>3, <1>5, <1>9, <1>10 DEF RowsOK
<1>13. ASSUME NEW r \in 1 .. N, NEW q \in 1 .. N, r < q, Dated(ordered[q])
       PROVE  Dated(ordered[r]) /\ ordered[r].first_seen <= ordered[q].first_seen
    BY <1>11, <1>12, <1>13, BeforeIsLess DEF Dated, IsRow
<1>14. \A i, j \in 1 .. N : i # j => ordered[i].id # ordered[j].id
    <2> SUFFICES ASSUME NEW i \in 1 .. N, NEW j \in 1 .. N, i # j
                 PROVE  ordered[i].id # ordered[j].id
        OBVIOUS
    <2>1. At(i) # At(j)
        BY <1>9
    <2> QED
        BY <1>3, <1>5, <1>9, <1>10, <2>1 DEF RowsOK
<1>15. ASSUME NEW f \in DOMAIN groups
       PROVE  \E r \in 1 .. N : ordered[r].first_seen = groups[f].first_seen.time
    <2>1. PICK i \in 1 .. N : events[i].first_seen = groups[f].first_seen.time
        BY <1>3, <1>5 DEF RowsOK
    <2>2. rank[i] \in 1 .. N /\ At(rank[i]) = i
        BY <1>8, <1>9
    <2> QED
        BY <1>10, <2>1, <2>2
<1>16. Listed' /\ RowsOK' /\ InDateOrder'
    <2>1. Listed'
        BY <1>1, <1>10 DEF Listed
    <2>2. RowsOK'
        BY <1>1, <1>3, <1>10, <1>12, <1>14, <1>15 DEF RowsOK
    <2>3. InDateOrder'
        BY <1>1, <1>10, <1>13 DEF InDateOrder
    <2> QED
        BY <2>1, <2>2, <2>3
<1>17. Marked'
    <2> SUFFICES ASSUME 1 \in 1 .. N
                 PROVE  \E i \in 1 .. N :
                           /\ ordered[i].id = first'
                           /\ (\E j \in 1 .. N : Dated(ordered[j])) => i = 1
        BY <1>1, <1>10 DEF Marked
    <2>1. events # <<>>
        <3>1. DOMAIN <<>> = {}
            OBVIOUS
        <3> QED
            BY <1>5, <3>1
    <2>2. CASE dated = {}
        <3>1. first' = ordered[1].id
            BY <1>2, <2>1, <2>2
        <3>2. ~\E j \in 1 .. N : Dated(ordered[j])
            BY <1>5, <2>2
        <3> QED
            BY <3>1, <3>2
    <2>3. CASE dated # {}
        <3>1. dated \subseteq 1 .. N
            BY <1>5
        <3>2. PICK q \in dated : TRUE
            BY <2>3
        <3>3. q \in 1 .. N /\ Dated(ordered[q])
            BY <3>1, <3>2
        <3>4. q = 1 \/ 1 < q
            BY <3>3
        <3>5. 1 \in dated
            BY <1>5, <1>13, <3>3, <3>4
        <3> HIDE DEF dated
        <3>6. \A p \in dated : 1 <= p
            BY <3>1
        <3>7. earliest \in dated /\ earliest <= 1
            <4>1. \E r \in dated : \A p \in dated : r <= p
                BY <3>5, <3>6
            <4>2. earliest \in dated /\ \A p \in dated : earliest <= p
                BY <4>1
            <4> QED
                BY <3>5, <4>2
        <3> HIDE DEF earliest
        <3>8. earliest = 1
            BY <3>1, <3>7
        <3> QED
            BY <1>2, <2>1, <2>3, <3>8
    <2> QED
        BY <2>2, <2>3
<1> HIDE DEF dated, earliest
<1> QED
    BY <1>1, <1>3, <1>16, <1>17 DEF IncidentInv

LEMMA IncidentInvInit == IncidentInit => IncidentInv
BY GroupInvInit DEF IncidentInit, IncidentInv

LEMMA IncidentStep == IncidentInv /\ [IncidentNext]_incidentVars => IncidentInv'
<1> SUFFICES ASSUME IncidentInv, [IncidentNext]_incidentVars PROVE IncidentInv'
    OBVIOUS
<1>1. CASE Parse
    <2>1. GroupNext /\ reading \notin {"read", "raised"}
        BY <1>1 DEF Parse, GroupNext, Detect, ReadLine, ReadEnd
    <2>2. inquiry' = inquiry /\ inquiry \notin {"stored", "timeline", "ended"}
        BY <1>1, <2>1 DEF Parse, IncidentInv
    <2>3. GroupInv'
        BY <2>1, GroupStep DEF IncidentInv
    <2> QED
        BY <2>2, <2>3 DEF IncidentInv
<1>2. ASSUME UNCHANGED <<groupVars, events, first>>,
             \/ inquiry' = inquiry
             \/ inquiry = "timeline" /\ inquiry' = "ended"
             \/ inquiry' = "refused"
      PROVE  IncidentInv'
    <2>1. GroupInv' /\ reading' = reading /\ groups' = groups
        BY <1>2, GroupStep DEF IncidentInv, groupVars
    <2>2. /\ (Listed' <=> Listed) /\ (RowsOK' <=> RowsOK)
          /\ (InDateOrder' <=> InDateOrder) /\ (Marked' <=> Marked)
        BY <1>2, <2>1 DEF Listed, RowsOK, InDateOrder, Marked
    <2> QED
        BY <1>2, <2>1, <2>2 DEF IncidentInv
<1>3. CASE Refuse \/ RunAgent \/ BudgetExceeded \/ Conclude
    <2>1. /\ UNCHANGED <<groupVars, events, first>>
          /\ \/ inquiry' = inquiry
             \/ inquiry = "timeline" /\ inquiry' = "ended"
             \/ inquiry' = "refused"
        BY <1>3 DEF Refuse, RunAgent, BudgetExceeded, Conclude
    <2> QED
        BY <1>2, <2>1
<1>4. CASE UNCHANGED incidentVars
    <2>1. UNCHANGED <<groupVars, events, first>> /\ inquiry' = inquiry
        BY <1>4 DEF incidentVars
    <2> QED
        BY <1>2, <2>1
<1> QED
    BY <1>1, <1>3, <1>4, StoreKeeps, TimelineKeeps DEF IncidentNext

LEMMA IncidentInvariant == IncidentSpec => []IncidentInv
BY IncidentInvInit, IncidentStep, PTL DEF IncidentSpec

\* An error line with a time is not earlier than the marked event.
LEMMA NoneIsEarlier ==
    ASSUME IncidentInv, inquiry \in {"timeline", "ended"},
           NEW m \in DOMAIN events, events[m].id = first,
           (\E j \in DOMAIN events : Dated(events[j])) => m = 1,
           NEW n \in DOMAIN lines, IsError(n), Parsed(n).timestamp.time # 0
    PROVE  /\ m = 1 /\ Dated(events[m])
           /\ events[m].first_seen <= Parsed(n).timestamp.time
<1>1. /\ GroupInv /\ reading = "read" /\ RowsOK /\ Listed /\ InDateOrder
    BY DEF IncidentInv
<1>2. next - 1 = Len(lines) /\ n \in ErrorsTo(Len(lines))
    BY <1>1 DEF GroupInv, PlaceOK, ErrorsTo
<1> DEFINE f == KeyOf(n)
           D == TimesIn(Of(f, next - 1), Times)
           t == Parsed(n).timestamp
<1>3. f \in DOMAIN groups /\ n \in Of(f, next - 1)
    BY <1>1, <1>2 DEF GroupInv, GroupsOK, Of
<1>4. TimesMatch(groups[f].first_seen, groups[f].last_seen, D)
    BY <1>1, <1>3 DEF GroupInv, GroupsOK, GroupMatches
<1>5. Times[n] = t
    BY <1>2 DEF ErrorsTo, Times
<1>6. t # NoTime /\ t \in Stamps \union {NoTime}
    BY <1>1, <1>2, <1>5, StampTypes DEF GroupInv, GroupsOK
<1>7. t \in D /\ D \in SUBSET Stamps
    BY <1>1, <1>3, <1>5, <1>6 DEF TimesIn, Of, GroupInv, GroupsOK
<1>8. groups[f].first_seen \in D /\ groups[f].first_seen.time <= t.time
    BY <1>4, <1>7 DEF TimesMatch
<1>9. PICK j \in DOMAIN events : events[j].first_seen = groups[f].first_seen.time
    BY <1>1, <1>3 DEF RowsOK
<1>10. Dated(events[j]) /\ events[j].first_seen <= t.time
    <2>1. groups[f].first_seen.time # 0
        BY <1>7, <1>8, StampTypes
    <2> QED
        BY <1>8, <1>9, <2>1 DEF Dated
<1>11. m = 1
    BY <1>10
<1>12. Dated(events[m]) /\ events[m].first_seen <= events[j].first_seen
    <2>1. IsRow(events[m]) /\ IsRow(events[j])
        BY <1>1 DEF RowsOK
    <2>2. PICK N \in Nat : DOMAIN events = 1 .. N
        BY <1>1 DEF Listed
    <2>3. j = 1 \/ 1 < j
        BY <2>2
    <2>4. CASE j = 1
        BY <1>10, <1>11, <2>1, <2>4 DEF IsRow
    <2>5. CASE 1 < j
        BY <1>1, <1>10, <1>11, <2>5 DEF InDateOrder
    <2> QED
        BY <2>3, <2>4, <2>5
<1>13. t.time \in Nat /\ events[m].first_seen \in Nat /\ events[j].first_seen \in Nat
    BY <1>1, <1>7, StampTypes DEF RowsOK, IsRow
<1> HIDE DEF t
<1>14. events[m].first_seen <= t.time
    BY <1>10, <1>12, <1>13
<1> QED
    BY <1>11, <1>12, <1>14 DEF t

LEMMA IncidentInvEarliest == IncidentInv => FirstFailureIsEarliest
<1> SUFFICES ASSUME IncidentInv, inquiry \in {"timeline", "ended"}, events # <<>>
             PROVE  LET marked == {i \in DOMAIN events : events[i].id = first} IN
        /\ Cardinality(marked) = 1
        /\ \A n \in DOMAIN lines :
              LET e == parse_line(parser, lines[n])
                  t == e.timestamp.time IN
              /\ lines[n].shape # "blank" /\ Understands(parser, lines[n])
              /\ e.level \in GroupedLevels /\ t # 0
              => \E i \in marked : /\ i = 1 /\ Dated(events[i])
                                   /\ events[i].first_seen <= t
        /\ \A i, j \in DOMAIN events :
              i < j /\ Dated(events[j]) =>
                  /\ Dated(events[i])
                  /\ events[i].first_seen <= events[j].first_seen
    BY Zenon DEF FirstFailureIsEarliest
<1> DEFINE marked == {i \in DOMAIN events : events[i].id = first}
<1>1. RowsOK /\ Listed /\ InDateOrder /\ Marked
    BY DEF IncidentInv
<1>2. 1 \in DOMAIN events
    <2>1. PICK N \in Nat : events = [i \in 1 .. N |-> events[i]]
        BY <1>1 DEF Listed
    <2>2. CASE N = 0
        <3>1. events \in Seq({}) /\ Len(events) = 0
            <4>1. events \in [1 .. N -> {}]
                BY <2>1, <2>2
            <4> QED
                BY <2>2, <4>1, IsASeq
        <3> QED
            BY <3>1, EmptySeq
    <2>3. CASE N # 0
        BY <2>1, <2>3
    <2> QED
        BY <2>2, <2>3
<1>3. PICK m \in DOMAIN events :
        /\ events[m].id = first
        /\ (\E j \in DOMAIN events : Dated(events[j])) => m = 1
    BY <1>1, <1>2 DEF Marked
<1>4. marked = {m}
    BY <1>1, <1>3 DEF RowsOK
<1>5. Cardinality(marked) = 1
    BY <1>4, FS_Singleton
<1>6. ASSUME NEW n \in DOMAIN lines, IsError(n), Parsed(n).timestamp.time # 0
      PROVE  \E i \in marked : /\ i = 1 /\ Dated(events[i])
                               /\ events[i].first_seen <= Parsed(n).timestamp.time
    BY <1>3, <1>4, <1>6, NoneIsEarlier
<1> HIDE DEF marked
<1>7. \A n \in DOMAIN lines :
        LET e == parse_line(parser, lines[n])
            t == e.timestamp.time IN
        /\ lines[n].shape # "blank" /\ Understands(parser, lines[n])
        /\ e.level \in GroupedLevels /\ t # 0
        => \E i \in marked : /\ i = 1 /\ Dated(events[i])
                             /\ events[i].first_seen <= t
    BY <1>6, Zenon DEF IsError, Known, Parsed
<1> QED
    BY <1>1, <1>5, <1>7, Zenon DEF InDateOrder, marked

\* The marked event is one, it is first and it is not later than any error line
\* with a time, for any log, refinement of severities and order of the rows
\* (services/timeline.py:31-78).
THEOREM FirstFailureStaysEarliest == IncidentSpec => []FirstFailureIsEarliest
BY IncidentInvariant, IncidentInvEarliest, PTL

\* The groups stay what the lines say while the incident is investigated.
THEOREM InvestigationsKeepGroups == IncidentSpec => []GroupsMatchLines
<1>1. IncidentInv => GroupsMatchLines
    BY GroupInvMatches DEF IncidentInv
<1> QED
    BY <1>1, IncidentInvariant, PTL

\* Types.  What a group says is in its lines; the rows are empty until they are
\* stored; an agent is one of the three, and only the verifier judges.
LEMMA GroupTypes == ASSUME GroupInv PROVE GroupTypeOK
<1>1. /\ next - 1 \in Nat /\ next \in 1 .. Len(lines) + 1
      /\ parser \in Formats /\ reading \in Reading
    BY DEF GroupInv, PlaceOK
<1>2. total \in Nat /\ parsed \in Nat /\ errors \in Nat
    BY <1>1, LinesAreFinite DEF GroupInv, CountsOK
<1>3. ASSUME NEW f \in DOMAIN groups
      PROVE  /\ f.level \in GroupedLevels
             /\ groups[f].count \in Nat \ {0}
             /\ groups[f].first_seen \in Stamps \union {NoTime}
             /\ groups[f].last_seen \in Stamps \union {NoTime}
    <2>1. GroupMatches(groups[f], Of(f, next - 1), Times)
        BY DEF GroupInv, GroupsOK
    <2>2. PICK n \in ErrorsTo(next - 1) : f = KeyOf(n)
        BY DEF GroupInv, GroupsOK
    <2>3. n \in Of(f, next - 1) /\ IsFiniteSet(Of(f, next - 1))
        BY <1>1, <2>2, LinesAreFinite DEF Of
    <2>4. groups[f].count \in Nat \ {0}
        BY <2>1, <2>3, FS_EmptySet, FS_CardinalityType DEF GroupMatches
    <2>5. TimesIn(Of(f, next - 1), Times) \in SUBSET Stamps
        BY DEF TimesIn, Of, GroupInv, GroupsOK
    <2> QED
        BY <2>1, <2>4, <2>5, GroupRows DEF GroupMatches, TimesMatch
<1> QED
    BY <1>1, <1>2, <1>3 DEF GroupTypeOK, Reading

Traced == {"planner", "investigator", "verifier", "budget_exceeded"}

AgentsTyped ==
    /\ {"verified", "confidence"} \subseteq DOMAIN scratch
    /\ scratch.verified \in BOOLEAN /\ scratch.confidence \in {40, 60, 85}
    /\ steps \in Seq(Traced)
    /\ inquiry \in {"none", "stored", "timeline", "ended", "refused"}
    /\ inquiry \in {"none", "refused"} => events = <<>>

LEMMA AgentTypes == ASSUME AgentsTyped, RunAgent PROVE AgentsTyped'
<1> DEFINE agent == default_agents[Len(steps) + 1]
<1>1. Len(steps) + 1 \in {1, 2, 3}
    <2>1. Len(steps) < Len(default_agents)
        BY DEF RunAgent, InLoop
    <2>2. Len(default_agents) = 3
        BY DEF default_agents
    <2>3. Len(steps) \in Nat
        BY DEF AgentsTyped
    <2> QED
        BY <2>1, <2>2, <2>3
<1>2. agent \in {"planner", "investigator", "verifier"}
    <2>1. /\ default_agents[1] = "planner" /\ default_agents[2] = "investigator"
          /\ default_agents[3] = "verifier"
        BY DEF default_agents
    <2> QED
        BY <1>1, <2>1
<1>3. /\ steps' = Append(steps, agent) /\ UNCHANGED <<events, inquiry>>
      /\ agent = "planner" => scratch' = Planner
      /\ agent = "investigator" => scratch' = Investigator
      /\ agent = "verifier" => scratch' = Verifier
    BY <1>2 DEF RunAgent
<1> HIDE DEF agent
<1>4. steps' \in Seq(Traced)
    BY <1>2, <1>3, AppendProperties DEF AgentsTyped, Traced
<1>5. /\ {"verified", "confidence"} \subseteq DOMAIN scratch'
      /\ scratch'.verified \in BOOLEAN /\ scratch'.confidence \in {40, 60, 85}
    <2>1. CASE agent = "planner"
        BY <1>3, <2>1 DEF Planner, AgentsTyped
    <2>2. CASE agent = "investigator"
        BY <1>3, <2>2 DEF Investigator, AgentsTyped
    <2>3. CASE agent = "verifier"
        BY <1>3, <2>3 DEF Verifier, AgentsTyped
    <2> QED
        BY <1>2, <2>1, <2>2, <2>3
<1> QED
    BY <1>3, <1>4, <1>5 DEF AgentsTyped

LEMMA AgentInvariant == IncidentSpec => []AgentsTyped
<1>1. IncidentInit => AgentsTyped
    BY DEF IncidentInit, AgentsTyped
<1>2. AgentsTyped /\ [IncidentNext]_incidentVars => AgentsTyped'
    <2> SUFFICES ASSUME AgentsTyped, [IncidentNext]_incidentVars
                 PROVE  AgentsTyped'
        OBVIOUS
    <2>1. CASE Parse \/ Store \/ Refuse \/ BuildTimeline \/ Conclude
        BY <2>1 DEF Parse, Store, Refuse, BuildTimeline, Conclude, AgentsTyped
    <2>2. CASE RunAgent
        BY <2>2, AgentTypes
    <2>3. CASE BudgetExceeded
        BY <2>3, AppendProperties DEF BudgetExceeded, AgentsTyped, Traced
    <2>4. CASE UNCHANGED incidentVars
        BY <2>4 DEF incidentVars, AgentsTyped
    <2> QED
        BY <2>1, <2>2, <2>3, <2>4 DEF IncidentNext
<1> QED
    BY <1>1, <1>2, PTL DEF IncidentSpec

\* The variables keep their types, for any log and any agents' steps.
THEOREM IncidentTypeCorrect == IncidentSpec => []IncidentTypeOK
<1>1. IncidentInv /\ AgentsTyped => IncidentTypeOK
    <2> SUFFICES ASSUME IncidentInv, AgentsTyped PROVE IncidentTypeOK
        OBVIOUS
    <2>1. GroupTypeOK
        BY GroupTypes DEF IncidentInv
    <2>2. CASE events = <<>>
        BY <2>1, <2>2 DEF AgentsTyped, IncidentTypeOK
    <2>3. CASE events # <<>>
        <3>1. RowsOK
            BY <2>3 DEF AgentsTyped, IncidentInv
        <3> QED
            BY <2>1, <3>1 DEF AgentsTyped, IncidentTypeOK, RowsOK, IsRow
    <2> QED
        BY <2>2, <2>3
<1> QED
    BY <1>1, IncidentInvariant, AgentInvariant, PTL
=============================================================================
