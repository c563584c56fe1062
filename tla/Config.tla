------------------------------- MODULE Config -------------------------------
(***************************************************************************)
(* internal/config: surviva.conf is a sequence of lines, Load turns it     *)
(* into settings or names the directive that is wrong.  Pure definitions;  *)
(* Startup uses them and says what must hold of them.                      *)
(*                                                                         *)
(* Paths, hosts and names are strings that are compared with "" at most.   *)
(* Go's 64-bit int and time.Duration reach up to MaxInt here, and a second *)
(* has Second units, so that the product of the two can overflow.          *)
(***************************************************************************)
EXTENDS Integers, SequencesExt

CONSTANTS
    MaxInt,                 \* the largest int and time.Duration
    Second,                 \* time.Second
    DefaultPollInterval,    \* NewPoller's, in the same units
    NumCPU                  \* runtime.NumCPU()

ASSUME WordAssumption ==
    /\ MaxInt \in Nat \ {0}
    /\ Second \in 1..MaxInt
    /\ DefaultPollInterval \in 1..MaxInt
    /\ NumCPU \in Nat \ {0}

MinInt == -MaxInt - 1

\* Two's complement.
Wrap(n) == ((n - MinInt) % (2 * (MaxInt + 1))) + MinInt

\* strconv.Atoi: the decimal text of an int (files here write no + and no
\* leading zeros); anything else, one that is out of range too, is an error.
IsInt(text) == \E n \in MinInt..MaxInt : ToString(n) = text
Atoi(text) == CHOOSE n \in MinInt..MaxInt : ToString(n) = text

\* strings.ToUpper and strings.ToLower, on the spellings that files use.
Uppercase ==
    [CloudProvider |-> "CLOUDPROVIDER", dbType |-> "DBTYPE"]
Lowercase ==
    [AWS |-> "aws", Azure |-> "azure", MySQL |-> "mysql", Lambda |-> "lambda"]

ToUpper(key) == IF key \in DOMAIN Uppercase THEN Uppercase[key] ELSE key
ToLower(text) == IF text \in DOMAIN Lowercase THEN Lowercase[text] ELSE text

knownCloudProviderNames == {"aws", "azure", "gcp"}
supportedCloudProviders == {"aws"}
supportedDBTypes == {"sqlite", "mysql"}
supportedNotifyTargetTypes == {"lambda", "stepfunction"}

knownKeys ==
    {"CLOUDPROVIDER", "POLLINTERVALSECONDS", "AUDITLOGPATH",
     "CHECKPOINTBASEDIR", "DBPATH", "MAXCONCURRENTCHECKPOINTS", "DBTYPE",
     "DBHOST", "DBPORT", "DBUSER", "DBPASSWORD", "DBNAME",
     "NOTIFYTARGETTYPE", "NOTIFYTARGETARN", "SOCKETGROUP"}

\* A line is a comment or blank, Key=Value, or neither of these.
Line == [kind : {"comment", "directive", "junk"}, key : STRING, value : STRING]

-----------------------------------------------------------------------------
(* validate                                                                 *)

Given(raw, key) == key \in DOMAIN raw

\* A lookup in a Go map: "" for a key that is not there.
Lookup(raw, key) == IF Given(raw, key) THEN raw[key] ELSE ""

PositiveInt(text) == IsInt(text) /\ Atoi(text) > 0

Required(raw, key) == [key |-> key, ok |-> Given(raw, key)]

DBTypeOf(raw) ==
    IF Given(raw, "DBTYPE") THEN ToLower(raw["DBTYPE"]) ELSE "sqlite"

CheckProvider(raw) ==
    [key |-> "CLOUDPROVIDER",
     ok |-> /\ Given(raw, "CLOUDPROVIDER")
            /\ ToLower(raw["CLOUDPROVIDER"]) \in
                    knownCloudProviderNames \cap supportedCloudProviders]

CheckPoll(raw) ==
    [key |-> "POLLINTERVALSECONDS",
     ok |-> /\ Given(raw, "POLLINTERVALSECONDS")
            /\ PositiveInt(raw["POLLINTERVALSECONDS"])]

CheckDatabase(raw) ==
    <<[key |-> "DBTYPE", ok |-> DBTypeOf(raw) \in supportedDBTypes]>> \o
    IF DBTypeOf(raw) = "sqlite" THEN <<Required(raw, "DBPATH")>>
    ELSE <<Required(raw, "DBHOST"),
           [key |-> "DBPORT",
            ok |-> Given(raw, "DBPORT") /\ PositiveInt(raw["DBPORT"])],
           Required(raw, "DBUSER"), Required(raw, "DBNAME")>>

\* Both directives or neither.
CheckNotify(raw) ==
    <<[key |-> "NOTIFYTARGETARN",
       ok |-> Given(raw, "NOTIFYTARGETTYPE") <=> Given(raw, "NOTIFYTARGETARN")],
      [key |-> "NOTIFYTARGETTYPE",
       ok |-> Given(raw, "NOTIFYTARGETTYPE") =>
                ToLower(raw["NOTIFYTARGETTYPE"]) \in supportedNotifyTargetTypes]>>

CheckConcurrency(raw) ==
    [key |-> "MAXCONCURRENTCHECKPOINTS",
     ok |-> Given(raw, "MAXCONCURRENTCHECKPOINTS") =>
                PositiveInt(raw["MAXCONCURRENTCHECKPOINTS"])]

\* In the order in which validate makes them.
Checks(raw) ==
    <<CheckProvider(raw), CheckPoll(raw), Required(raw, "AUDITLOGPATH"),
      Required(raw, "CHECKPOINTBASEDIR")>>
    \o CheckDatabase(raw) \o CheckNotify(raw) \o <<CheckConcurrency(raw)>>

IntOf(raw, key) == IF Given(raw, key) THEN Atoi(raw[key]) ELSE 0

\* Mutant: the port is parsed and never stored.
DBPortOfForgotten(raw) == 0

DBPortOf(raw) == IF DBTypeOf(raw) = "mysql" THEN Atoi(raw["DBPORT"]) ELSE 0

\* The settings of a file that passes.  Each backend reads its own directives.
Settings(raw) ==
    LET db == DBTypeOf(raw)
        Mysql(key) == IF db = "mysql" THEN Lookup(raw, key) ELSE ""
    IN
    [CloudProvider |-> ToLower(raw["CLOUDPROVIDER"]),
     PollInterval |-> Wrap(Atoi(raw["POLLINTERVALSECONDS"]) * Second),
     AuditLogPath |-> raw["AUDITLOGPATH"],
     CheckpointBaseDir |-> raw["CHECKPOINTBASEDIR"],
     MaxConcurrentCheckpoints |-> IntOf(raw, "MAXCONCURRENTCHECKPOINTS"),
     DBType |-> db,
     DBPath |-> IF db = "sqlite" THEN raw["DBPATH"] ELSE "",
     DBHost |-> Mysql("DBHOST"),
     DBPort |-> DBPortOf(raw),
     DBUser |-> Mysql("DBUSER"),
     DBPassword |-> Mysql("DBPASSWORD"),
     DBName |-> Mysql("DBNAME"),
     NotifyTargetType |-> ToLower(Lookup(raw, "NOTIFYTARGETTYPE")),
     NotifyTargetARN |-> Lookup(raw, "NOTIFYTARGETARN"),
     SocketGroup |-> Lookup(raw, "SOCKETGROUP")]

Rejected(key) == [ok |-> FALSE, blame |-> key]

validate(raw) ==
    LET checks == Checks(raw)
        failed == {i \in DOMAIN checks : ~checks[i].ok}
    IN
    IF failed # {} THEN Rejected(checks[Min(failed)].key)
    ELSE [ok |-> TRUE, cfg |-> Settings(raw)]

-----------------------------------------------------------------------------
(* Load                                                                     *)

\* raw[key] = value.
Assign(raw, key, value) ==
    [k \in {key} \cup DOMAIN raw |-> IF k = key THEN value ELSE raw[k]]

\* Mutant: the first line that gives a directive wins.
ReadLineKeepsFirst(raw, line) ==
    IF line.kind = "comment" \/ ToUpper(line.key) \in DOMAIN raw THEN raw
    ELSE Assign(raw, ToUpper(line.key), line.value)

\* A line that gives a known directive.
ReadLine(raw, line) ==
    IF line.kind = "comment" THEN raw
    ELSE Assign(raw, ToUpper(line.key), line.value)

\* A line that makes Load return at once.
Unreadable(line) ==
    \/ line.kind = "junk"
    \/ line.kind = "directive" /\ ToUpper(line.key) \notin knownKeys

\* The directives that a readable file gives, the last line for each.
ReadLines(lines) == FoldLeft(ReadLine, <<>>, lines)

Load(lines) ==
    LET bad == {i \in DOMAIN lines : Unreadable(lines[i])} IN
    IF bad # {} THEN Rejected(lines[Min(bad)].key)
    ELSE validate(ReadLines(lines))

-----------------------------------------------------------------------------
(* What the rest of the program makes of the settings                       *)

\* Mutant: the interval is used as it comes.
PollerIntervalUnchecked(interval) == interval

\* imds.NewPoller; time.NewTicker panics unless the interval is positive.
PollerInterval(interval) ==
    IF interval <= 0 THEN DefaultPollInterval ELSE interval

\* daemon.New.
CheckpointSlots(max) == IF max <= 0 THEN NumCPU ELSE max
=============================================================================
