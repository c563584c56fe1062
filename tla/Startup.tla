------------------------------ MODULE Startup ------------------------------
(***************************************************************************)
(* cmd/surviva/daemon.go and what it calls before the first request is     *)
(* served: config.Load, store.Open with its schema migration, the audit    *)
(* log, the provider and notifier, and Daemon.Run up to its accept loop;   *)
(* under systemd, which starts a daemon again when it fails.               *)
(*                                                                         *)
(* Every host runs one daemon.  Hosts whose DBType is mysql share one      *)
(* database, so their migrations interleave; each sqlite file has one      *)
(* host.  A statement of the schema is atomic, the sequence of them is     *)
(* not, and a daemon may fail or be killed between any two.                *)
(***************************************************************************)
EXTENDS Config

CONSTANTS
    Hosts,         \* the machines that may run a daemon
    Deployments,   \* the files, databases and hosts to start from
    MaxFaults      \* bound: failures of the surroundings, and kills

ASSUME MaxFaultsAssumption == MaxFaults \in Nat

VARIABLES
    dep,       \* the deployment: its file, the version of its databases, the
               \* hosts that run a daemon and the groups they know
    at,        \* by host: where its daemon is
    cfg,       \* by host: the settings that Load returned
    schema,    \* by database: [jobs : its columns, job_history : does it exist]
    sock,      \* by host: the socket's path: "none", "stale" or "bound"
    faults     \* faults so far

startupVars == <<dep, at, cfg, schema, sock, faults>>

\* The columns of jobs, those that came with the first version taken as one.
Columns == {"base", "owner", "tag"}

Schema == [jobs : {{}} \cup {{"base"} \cup c : c \in SUBSET {"owner", "tag"}},
           job_history : BOOLEAN]

ASSUME DeploymentsAssumption ==
    \A d \in Deployments : d.conf \in Seq(Line) /\ d.schema \in Schema

Opening == {"open", "jobs", "job_history", "owner?", "owner", "tag?", "tag"}
Serving == {"audit", "wire", "remove", "listen", "group", "serve"}
Places == Opening \cup Serving \cup {"load", "failed", "stopped"}

\* config.Load of every file that a deployment has.
Loaded == [conf \in {d.conf : d \in Deployments} |-> Load(conf)]

NoCfg == [DBType |-> ""]

\* The database that a host's daemon opens.
DB(h) == IF cfg[h].DBType = "mysql" THEN "shared" ELSE h

StartupInit ==
    /\ dep \in Deployments
    /\ at = [h \in Hosts |-> IF h \in dep.hosts THEN "load" ELSE "stopped"]
    /\ cfg = [h \in Hosts |-> NoCfg]
    /\ schema = [d \in Hosts \cup {"shared"} |-> dep.schema]
    /\ sock = [h \in Hosts |-> "none"]
    /\ faults = 0

Goto(h, place) == at' = [at EXCEPT ![h] = place]
Keep == UNCHANGED <<dep, cfg, schema, sock, faults>>

-----------------------------------------------------------------------------
(* config.Load and store.Open                                               *)

LoadConf(h) ==
    LET loaded == Loaded[dep.conf] IN
    /\ at[h] = "load"
    /\ IF loaded.ok
       THEN /\ cfg' = [cfg EXCEPT ![h] = loaded.cfg]
            /\ Goto(h, "open")
       ELSE /\ Goto(h, "failed")
            /\ UNCHANGED cfg
    /\ UNCHANGED <<dep, schema, sock, faults>>

\* The switch on the driver, and Ping.
OpenDB(h) ==
    /\ at[h] = "open"
    /\ Goto(h, IF cfg[h].DBType \in {"sqlite", "mysql"} THEN "jobs" ELSE "failed")
    /\ Keep

\* CREATE TABLE IF NOT EXISTS, one table after the other.
CreateJobs(h) ==
    /\ at[h] = "jobs"
    /\ schema' = [schema EXCEPT ![DB(h)].jobs = IF @ = {} THEN Columns ELSE @]
    /\ Goto(h, "job_history")
    /\ UNCHANGED <<dep, cfg, sock, faults>>

CreateHistory(h) ==
    /\ at[h] = "job_history"
    /\ schema' = [schema EXCEPT ![DB(h)].job_history = TRUE]
    /\ Goto(h, "owner?")
    /\ UNCHANGED <<dep, cfg, sock, faults>>

\* Mutant: the columns are there if the table is.
hasColumnLooksAtTable(h, check, col, next) ==
    /\ at[h] = check
    /\ Goto(h, IF schema[DB(h)].jobs # {} THEN next ELSE col)
    /\ Keep

\* addColumnIfMissing looks first ...
hasColumn(h, check, col, next) ==
    /\ at[h] = check
    /\ Goto(h, IF col \in schema[DB(h)].jobs THEN next ELSE col)
    /\ Keep

\* ... and alters the table in another statement, which fails when another
\* daemon has added the column in between.
addColumn(h, col, next) ==
    /\ at[h] = col
    /\ IF col \in schema[DB(h)].jobs
       THEN Goto(h, "failed") /\ UNCHANGED schema
       ELSE /\ schema' = [schema EXCEPT ![DB(h)].jobs = @ \cup {col}]
            /\ Goto(h, next)
    /\ UNCHANGED <<dep, cfg, sock, faults>>

OpenStore(h) ==
    \/ OpenDB(h)
    \/ CreateJobs(h)
    \/ CreateHistory(h)
    \/ hasColumn(h, "owner?", "owner", "tag?")
    \/ addColumn(h, "owner", "tag?")
    \/ hasColumn(h, "tag?", "tag", "audit")
    \/ addColumn(h, "tag", "audit")

-----------------------------------------------------------------------------
(* The rest of daemonCmd, and Run                                           *)

\* auditlog.Open: an empty path cannot be opened.
OpenAudit(h) ==
    /\ at[h] = "audit"
    /\ Goto(h, IF cfg[h].AuditLogPath = "" THEN "failed" ELSE "wire")
    /\ Keep

\* The provider's switch; aws.New and New build the poller and the daemon.
Wire(h) ==
    /\ at[h] = "wire"
    /\ Goto(h, IF cfg[h].CloudProvider = "aws" THEN "remove" ELSE "failed")
    /\ Keep

\* Mutant: what an earlier daemon left at the path is not removed.
RemoveSocketNot(h) ==
    /\ at[h] = "remove"
    /\ Goto(h, "listen")
    /\ Keep

RemoveSocket(h) ==
    /\ at[h] = "remove"
    /\ sock' = [sock EXCEPT ![h] = "none"]
    /\ Goto(h, "listen")
    /\ UNCHANGED <<dep, cfg, schema, faults>>

\* net.Listen fails when the path exists.
Listen(h) ==
    /\ at[h] = "listen"
    /\ IF sock[h] = "none"
       THEN sock' = [sock EXCEPT ![h] = "bound"] /\ Goto(h, "group")
       ELSE UNCHANGED sock /\ Goto(h, "failed")
    /\ UNCHANGED <<dep, cfg, schema, faults>>

\* applySocketGroup: the group is looked up; when there is none of that name
\* Run returns, and its deferred Close unlinks the path.
ApplySocketGroup(h) ==
    /\ at[h] = "group"
    /\ IF cfg[h].SocketGroup \in {""} \cup dep.groups
       THEN Goto(h, "serve") /\ UNCHANGED sock
       ELSE Goto(h, "failed") /\ sock' = [sock EXCEPT ![h] = "none"]
    /\ UNCHANGED <<dep, cfg, schema, faults>>

-----------------------------------------------------------------------------
(* The surroundings                                                         *)

Alive(h) == at[h] \notin {"failed", "stopped"}

Fault(h) ==
    /\ Alive(h)
    /\ faults < MaxFaults
    /\ faults' = faults + 1
    /\ Goto(h, "failed")
    /\ UNCHANGED <<dep, cfg, schema>>

\* The file, the database, the log, AWS's configuration or the socket's
\* directory is not available, and the daemon exits with an error.
Unavailable(h) ==
    /\ at[h] \in Places \ {"serve", "remove", "group"}
    /\ Fault(h)
    /\ UNCHANGED sock

\* applySocketGroup finds the group, but its chown or chmod fails.
SocketGroupFails(h) ==
    /\ at[h] = "group"
    /\ cfg[h].SocketGroup \in dep.groups \ {""}
    /\ Fault(h)
    /\ sock' = [sock EXCEPT ![h] = "none"]

\* The daemon is killed, or the host is; its socket stays where it is.
Killed(h) ==
    /\ Fault(h)
    /\ sock' = [sock EXCEPT ![h] = IF @ = "bound" THEN "stale" ELSE @]

\* SIGTERM: by default the end of the process; once there is a context, Run
\* closes the listener, which unlinks the path, and returns nil.  Neither
\* counts as a failure.
Terminated(h) ==
    /\ at[h] \notin {"remove", "listen", "group", "failed", "stopped"}
    /\ sock' = [sock EXCEPT ![h] = IF at[h] = "serve" THEN "none" ELSE @]
    /\ Goto(h, "stopped")
    /\ UNCHANGED <<dep, cfg, schema, faults>>

\* Restart=on-failure, some time after a failure.
Restart(h) ==
    /\ at[h] = "failed"
    /\ Goto(h, "load")
    /\ cfg' = [cfg EXCEPT ![h] = NoCfg]
    /\ UNCHANGED <<dep, schema, sock, faults>>

DaemonCmd(h) ==
    \/ LoadConf(h) \/ OpenStore(h) \/ OpenAudit(h) \/ Wire(h)
    \/ RemoveSocket(h) \/ Listen(h) \/ ApplySocketGroup(h) \/ Restart(h)

StartupNext ==
    \E h \in Hosts :
        \/ DaemonCmd(h)
        \/ Unavailable(h) \/ SocketGroupFails(h) \/ Killed(h) \/ Terminated(h)

StartupSpec == StartupInit /\ [][StartupNext]_startupVars

\* A daemon goes on, and systemd restarts it.
FairStartupSpec ==
    StartupSpec /\ \A h \in Hosts : WF_startupVars(DaemonCmd(h))

-----------------------------------------------------------------------------
(* Properties                                                               *)

\* Every variable has its type; a host whose daemon is past Load has settings
\* with a usable port if and only if it uses mysql.
StartupTypeOK ==
    /\ at \in [Hosts -> Places]
    /\ schema \in [Hosts \cup {"shared"} -> Schema]
    /\ sock \in [Hosts -> {"none", "stale", "bound"}]
    /\ faults \in 0..MaxFaults
    /\ \A h \in Hosts : at[h] \in Opening \cup Serving =>
        (cfg[h].DBPort \in 1..MaxInt) <=> cfg[h].DBType = "mysql"

\* "An in-place upgrade otherwise fails on the very first Insert" (Open's
\* comment): a daemon whose Open has returned finds both tables with every
\* column, whatever version the database had, whoever migrates it at the same
\* time and wherever earlier migrations were cut off.
OpenedIsMigrated ==
    \A h \in Hosts : at[h] \in Serving =>
        schema[DB(h)] = [jobs |-> Columns, job_history |-> TRUE]

\* What the table of directives in docs/specs/config.md asks of a file, by
\* directive and not by the order of checks: `last' has the last value given,
\* and the values are compared as they are written.
Wrong(last) ==
    LET has(k) == k \in DOMAIN last
        mysql == has("DBTYPE") /\ last["DBTYPE"] = "mysql"
        needed == {"CLOUDPROVIDER", "POLLINTERVALSECONDS", "AUDITLOGPATH",
                   "CHECKPOINTBASEDIR"}
                  \cup (IF mysql THEN {"DBHOST", "DBPORT", "DBUSER", "DBNAME"}
                        ELSE {"DBPATH"})
                  \cup {k \in {"NOTIFYTARGETARN"} : has("NOTIFYTARGETTYPE")}
        choices == [CLOUDPROVIDER |-> {"aws"}, DBTYPE |-> {"sqlite", "mysql"},
                    NOTIFYTARGETTYPE |-> {"lambda", "stepfunction"}]
        numbers == {"POLLINTERVALSECONDS", "MAXCONCURRENTCHECKPOINTS"}
                   \cup {k \in {"DBPORT"} : mysql}
    IN
    {k \in needed : ~has(k)}
    \cup {k \in DOMAIN choices : has(k) /\ last[k] \notin choices[k]}
    \cup {k \in numbers : has(k) /\ ~PositiveInt(last[k])}
    \cup {k \in {"NOTIFYTARGETARN"} : has(k) /\ ~has("NOTIFYTARGETTYPE")}

\* validate lower-cases the three values that are names.  The document says
\* "values are left exactly as written (no case-folding on values)".
Folded(last) ==
    LET names == {"CLOUDPROVIDER", "DBTYPE", "NOTIFYTARGETTYPE"} IN
    [k \in DOMAIN last |-> IF k \in names THEN ToLower(last[k]) ELSE last[k]]

\* The lines that give a directive, and the last value that each has.
Directives(lines) == {i \in DOMAIN lines : lines[i].kind = "directive"}
KeyAt(lines, i) == ToUpper(lines[i].key)

LastValues(lines) ==
    LET lastAt(k) == CHOOSE i \in Directives(lines) :
                        /\ KeyAt(lines, i) = k
                        /\ \A j \in Directives(lines) : KeyAt(lines, j) = k => j <= i
    IN
    [k \in {KeyAt(lines, i) : i \in Directives(lines)} |-> lines[lastAt(k)].value]

\* Load accepts every readable file in which, by the document's table, nothing
\* is wrong.  What it accepts beyond these are exactly the files in which only
\* the case of a name differs.  It blames a directive that is wrong whatever
\* its case, and does not depend on the order of lines that give different
\* directives.
LoadAgreesOn(lines) ==
    LET last == LastValues(lines)
        given == Directives(lines)
        readable == \A i \in DOMAIN lines : ~Unreadable(lines[i])
        loaded == Load(lines)
    IN
    /\ readable /\ Wrong(last) = {} => loaded.ok
    /\ loaded.ok <=> readable /\ Wrong(Folded(last)) = {}
    /\ readable /\ ~loaded.ok => loaded.blame \in Wrong(Folded(last))
    /\ readable /\ (\A i, j \in given : KeyAt(lines, i) = KeyAt(lines, j) => i = j)
        => Load(Reverse(lines)) = loaded
    /\ loaded.ok => loaded.cfg.AuditLogPath = last["AUDITLOGPATH"]

\* The same of the file of every deployment.
LoadAgrees == LoadAgreesOn(dep.conf)

\* What a daemon past Load works with is what its file says: names that the
\* later switches know, the number of slots that is asked for, and the interval
\* that is asked for unless so many seconds overflow; then it is some positive
\* interval, which the ticker needs, and nobody is told.  (That a path is not
\* empty is not among it: Load accepts an empty AuditLogPath or DBPath.)
SettingsTakeEffect ==
    \A h \in Hosts : at[h] \in Opening \cup Serving =>
        LET last == LastValues(dep.conf)
            asked == Atoi(last["POLLINTERVALSECONDS"]) * Second
            interval == PollerInterval(cfg[h].PollInterval)
            slots == "MAXCONCURRENTCHECKPOINTS"
        IN
        /\ cfg[h].CloudProvider = "aws"
        /\ cfg[h].DBType \in {"sqlite", "mysql"}
        /\ cfg[h].NotifyTargetType \in {"", "lambda", "stepfunction"}
        /\ interval > 0
        /\ asked <= MaxInt => interval = asked
        /\ CheckpointSlots(cfg[h].MaxConcurrentCheckpoints) =
                IF slots \in DOMAIN last THEN Atoi(last[slots]) ELSE NumCPU

\* A deployment in which nothing is wrong for good.
Servable ==
    /\ Loaded[dep.conf].ok
    /\ Loaded[dep.conf].cfg.AuditLogPath # ""
    /\ Loaded[dep.conf].cfg.SocketGroup \in {""} \cup dep.groups

\* A daemon with a valid file comes to serve, or is stopped: races with other
\* migrations, sockets of killed daemons and failures in the middle of Open
\* are overcome by starting again.
EventuallyServes ==
    \A h \in Hosts :
        Servable ~> (at[h] \in {"serve", "stopped"})
=============================================================================
