----------------------------- MODULE LogGroups ------------------------------
(***************************************************************************)
(* The first half of _process: the format of a log is detected from its    *)
(* head, its lines are parsed one by one and the errors among them         *)
(* gathered into groups by fingerprint.  A line has a shape (the format    *)
(* whose regular expression it matches), a word that tells its level, a    *)
(* problem (the message without ids, numbers and times) and a time stamp.  *)
(***************************************************************************)
EXTENDS Integers, Sequences, FiniteSets

CONSTANTS Logs, SAMPLE_SIZE, MAX_SAMPLES_PER_GROUP

VARIABLES
    lines,      \* the log
    parser,     \* the detected format
    next,       \* the line that is parsed next
    total, parsed, errors,
    groups,
    reading     \* "head", "lines", "read" or "raised"

groupVars == <<lines, parser, next, total, parsed, errors, groups, reading>>

REGISTRY == <<"json", "logfmt", "syslog", "plain">>
Formats == {REGISTRY[i] : i \in 1 .. Len(REGISTRY)}

LEVELS == {"debug", "info", "warning", "error", "critical"}
_LEVEL_ALIASES == [warn |-> "warning", fatal |-> "critical"]
GroupedLevels == {"warning", "error", "critical"}

\* A stamp is a time with or without an offset.  Others are missing, or of no
\* known form; a syslog stamp of that kind names a day that does not exist.
Stamps == [time : Nat \ {0}, aware : BOOLEAN]
NoTime == [time |-> 0, aware |-> FALSE]
BadTime == [time |-> 0, aware |-> TRUE]

\* Words of lines: level names, a word that only hints at an error, none.
Words == {"error", "warn", "fatal", "info", "failed", "none"}
Line == [shape : Formats \union {"blank"}, word : Words, problem : STRING,
         stamp : Stamps \union {NoTime, BadTime}]

ASSUME LogAssumption ==
    /\ Logs \subseteq Seq(Line)
    /\ SAMPLE_SIZE \in Nat /\ MAX_SAMPLES_PER_GROUP \in Nat

normalize_level(word) ==
    LET level == IF word \in DOMAIN _LEVEL_ALIASES
                 THEN _LEVEL_ALIASES[word] ELSE word IN
    IF level \in LEVELS THEN level ELSE "none"

parse_timestamp(stamp) == IF stamp = BadTime THEN NoTime ELSE stamp

Entry(level, template, stamp) ==
    [level |-> level, template |-> template, timestamp |-> stamp]

ParseFields(line) ==  \* json and logfmt
    Entry(normalize_level(line.word), line.problem, parse_timestamp(line.stamp))

\* A keyword of the message stands for the level; "failed" is no level.
ParseSyslog(line) ==
    LET hint == line.word \in {"error", "warn", "fatal", "failed"}
        level == IF hint THEN normalize_level(line.word) ELSE "info" IN
    Entry(IF level = "none" THEN "error" ELSE level, line.problem, line.stamp)

\* A line of another shape is one message, without a level or a time at its
\* beginning.
ParsePlain(line) ==
    LET own == line.shape = "plain"
        level == IF own THEN normalize_level(line.word) ELSE "none"
        hint == line.word = "failed" \/ (~own /\ line.word = "error") IN
    Entry(IF level = "none" /\ hint THEN "error" ELSE level,
          IF own THEN line.problem ELSE line.shape \o " " \o line.problem,
          IF own THEN parse_timestamp(line.stamp) ELSE NoTime)

Understands(format, line) == format = "plain" \/ line.shape = format

parse_line(format, line) ==
    CASE format \in {"json", "logfmt"} -> ParseFields(line)
      [] format = "syslog" -> ParseSyslog(line)
      [] format = "plain" -> ParsePlain(line)

fingerprint(entry) == [level |-> entry.level, template |-> entry.template]

GroupInit ==
    /\ lines \in Logs
    /\ parser = "plain"
    /\ next = 1
    /\ total = 0 /\ parsed = 0 /\ errors = 0
    /\ groups = <<>>
    /\ reading = "head"
-----------------------------------------------------------------------------
Hits(format, sample) ==
    Cardinality({n \in sample : Understands(format, lines[n])})

\* The specific format that most of the head matches, the first of equals, if
\* it matches at least half.
Detect ==
    LET head == {n \in 1 .. Len(lines) : n <= SAMPLE_SIZE}
        sample == {n \in head : lines[n].shape # "blank"}
        best == CHOOSE i \in 1 .. 3 : \A j \in 1 .. 3 :
            LET a == Hits(REGISTRY[i], sample)
                b == Hits(REGISTRY[j], sample) IN
            a > b \/ (a = b /\ i <= j) IN
    /\ reading = "head"
    /\ parser' = IF sample # {}
                    /\ 2 * Hits(REGISTRY[best], sample) >= Cardinality(sample)
                 THEN REGISTRY[best] ELSE "plain"
    /\ reading' = "lines"
    /\ UNCHANGED <<lines, next, total, parsed, errors, groups>>

NewGroup == [count |-> 0, first_seen |-> NoTime, last_seen |-> NoTime,
             samples |-> <<>>]

MutAdd(acc, n, stamp) ==  \* Mutant: last_seen in an else branch.
    LET dated == stamp # NoTime
        first == dated /\ (acc.first_seen = NoTime
                           \/ stamp.time < acc.first_seen.time)
        last == dated /\ ~first /\ (acc.last_seen = NoTime
                                    \/ stamp.time > acc.last_seen.time) IN
    [count |-> acc.count + 1,
     samples |-> IF Len(acc.samples) < MAX_SAMPLES_PER_GROUP
                 THEN Append(acc.samples, n) ELSE acc.samples,
     first_seen |-> IF first THEN stamp ELSE acc.first_seen,
     last_seen |-> IF last THEN stamp ELSE acc.last_seen]

\* _GroupAccumulator.add, of the line with number n.
Add(acc, n, stamp) ==
    LET dated == stamp # NoTime
        first == dated /\ (acc.first_seen = NoTime
                           \/ stamp.time < acc.first_seen.time)
        last == dated /\ (acc.last_seen = NoTime
                          \/ stamp.time > acc.last_seen.time) IN
    [count |-> acc.count + 1,
     samples |-> IF Len(acc.samples) < MAX_SAMPLES_PER_GROUP
                 THEN Append(acc.samples, n) ELSE acc.samples,
     first_seen |-> IF first THEN stamp ELSE acc.first_seen,
     last_seen |-> IF last THEN stamp ELSE acc.last_seen]

\* Comparing times with and without an offset raises, and so does a syslog
\* line whose day does not exist: the whole run fails.
Raises(line, acc) ==
    \/ parser = "syslog" /\ line.stamp = BadTime
    \/ LET stamp == parse_line(parser, line).timestamp IN
       /\ stamp # NoTime /\ acc.first_seen # NoTime
       /\ stamp.aware # acc.first_seen.aware

ReadLine ==
    LET line == lines[next]
        entry == parse_line(parser, line)
        known == line.shape # "blank" /\ Understands(parser, line)
        error == known /\ entry.level \in GroupedLevels
        f == fingerprint(entry)
        acc == IF f \in DOMAIN groups THEN groups[f] ELSE NewGroup IN
    /\ reading = "lines" /\ next <= Len(lines)
    /\ IF known /\ Raises(line, IF error THEN acc ELSE NewGroup)
       THEN /\ reading' = "raised"
            /\ UNCHANGED <<next, total, parsed, errors, groups>>
       ELSE /\ next' = next + 1
            /\ total' = total + (IF line.shape = "blank" THEN 0 ELSE 1)
            /\ parsed' = parsed + (IF known THEN 1 ELSE 0)
            /\ errors' = errors + (IF error THEN 1 ELSE 0)
            /\ groups' = IF error
                  THEN [g \in DOMAIN groups \union {f} |->
                          IF g = f THEN Add(acc, next, entry.timestamp)
                          ELSE groups[g]]
                  ELSE groups
            /\ UNCHANGED reading
    /\ UNCHANGED <<lines, parser>>

ReadEnd ==
    /\ reading = "lines" /\ next > Len(lines)
    /\ reading' = "read"
    /\ UNCHANGED <<lines, parser, next, total, parsed, errors, groups>>

GroupNext == Detect \/ ReadLine \/ ReadEnd

GroupSpec == GroupInit /\ [][GroupNext]_groupVars
-----------------------------------------------------------------------------
(* Properties. *)

\* Types of all variables.
GroupTypeOK ==
    /\ parser \in Formats /\ next \in 1 .. Len(lines) + 1
    /\ total \in Nat /\ parsed \in Nat /\ errors \in Nat
    /\ \A f \in DOMAIN groups :
          /\ f.level \in GroupedLevels
          /\ groups[f].count \in Nat \ {0}
          /\ {groups[f].first_seen, groups[f].last_seen}
                \subseteq Stamps \union {NoTime}
    /\ reading \in {"head", "lines", "read", "raised"}

\* What a log is reduced to line by line is what it says as a whole: the groups
\* are those of its errors, each with their number, the earliest and the latest
\* of their times and its first sample lines, and the statistics add up.  A run
\* raises only if a time has no day, or a group mixes times that do not compare.
GroupsMatchLines ==
    LET E(n) == parse_line(parser, lines[n])
        known == {n \in 1 .. Len(lines) : lines[n].shape # "blank"
                                          /\ Understands(parser, lines[n])}
        errs == {n \in known : E(n).level \in GroupedLevels}
        Of(f) == {n \in errs : fingerprint(E(n)) = f}
        stampsOf(f) == {E(n).timestamp : n \in Of(f)} \ {NoTime} IN
    /\ reading = "read" =>
          /\ DOMAIN groups = {fingerprint(E(n)) : n \in errs}
          /\ parsed = Cardinality(known) /\ errors = Cardinality(errs)
          /\ parsed <= total
          /\ \A f \in DOMAIN groups :
                LET g == groups[f] IN
                /\ g.count = Cardinality(Of(f))
                /\ IF stampsOf(f) = {} THEN {g.first_seen, g.last_seen} = {NoTime}
                   ELSE /\ {g.first_seen, g.last_seen} \subseteq stampsOf(f)
                        /\ \A t \in stampsOf(f) : g.first_seen.time <= t.time
                                               /\ t.time <= g.last_seen.time
                /\ \A n \in Of(f) :
                      (\E i \in 1 .. Len(g.samples) : g.samples[i] = n)
                      <=> Cardinality({m \in Of(f) : m < n})
                             < MAX_SAMPLES_PER_GROUP
    /\ reading = "raised" =>
          \/ \E n \in known : lines[n].stamp = BadTime
          \/ \E n, m \in errs : /\ fingerprint(E(n)) = fingerprint(E(m))
                                /\ E(n).timestamp.aware # E(m).timestamp.aware
=============================================================================
