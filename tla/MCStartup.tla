----------------------------- MODULE MCStartup -----------------------------
(***************************************************************************)
(* Two valid files; each of them with a line left out and one added; and   *)
(* databases of every version, also shared by two hosts that migrate them. *)
(***************************************************************************)
EXTENDS Startup

MCHosts == {"h1", "h2"}

Directive(key, value) == [kind |-> "directive", key |-> key, value |-> value]
Other(kind, text) == [kind |-> kind, key |-> text, value |-> ""]

CommonLines ==
    <<Directive("CloudProvider", "AWS"), Directive("POLLINTERVALSECONDS", "5"),
      Directive("AUDITLOGPATH", "log"), Directive("CHECKPOINTBASEDIR", "dir")>>

Sqlite == CommonLines \o <<Directive("DBPATH", "path")>>

Mysql ==
    CommonLines \o
    <<Directive("dbType", "MySQL"), Directive("DBHOST", "host"),
      Directive("DBPORT", "3"), Directive("DBUSER", "user"),
      Directive("DBNAME", "name")>>

\* 13 seconds overflow into a negative interval, 26 into a positive one.
Additions ==
    {Other("comment", ""), Other("junk", "text"), Directive("TYPO", "x")}
    \cup {Directive("CLOUDPROVIDER", v) : v \in {"aws", "gcp", "other"}}
    \cup {Directive("POLLINTERVALSECONDS", v) : v \in {"0", "-1", "x", "13", "26", "200"}}
    \cup {Directive("AUDITLOGPATH", ""), Directive("DBPORT", "0"),
          Directive("DBPASSWORD", "secret")}
    \cup {Directive("DBTYPE", v) : v \in {"sqlite", "postgres"}}
    \cup {Directive("NOTIFYTARGETTYPE", "Lambda"), Directive("NOTIFYTARGETARN", "arn")}
    \cup {Directive("MAXCONCURRENTCHECKPOINTS", v) : v \in {"0", "2"}}
    \cup {Directive("SOCKETGROUP", v) : v \in {"users", "typo"}}

\* No line, one line, or the two of a notification target.
Tails ==
    {<<>>} \cup {<<l>> : l \in Additions}
    \cup {<<Directive("NOTIFYTARGETTYPE", v), Directive("NOTIFYTARGETARN", "arn")>> :
            v \in {"stepfunction", "queue"}}

Files ==
    {RemoveAt(Sqlite, i) \o tail : i \in 1..5, tail \in Tails}
    \cup {RemoveAt(Mysql, i) \o tail : i \in 1..9, tail \in Tails}
    \cup {base \o tail : base \in {Sqlite, Mysql}, tail \in Tails}

Complete == [jobs |-> Columns, job_history |-> TRUE]

MCDeployments ==
    [conf : Files, schema : {Complete}, hosts : {{"h1"}}, groups : {{"users"}}]
    \cup [conf : {Sqlite}, schema : Schema, hosts : {{"h1"}}, groups : {{"users"}}]
    \cup [conf : {Mysql}, schema : Schema, hosts : {{"h1", "h2"}}, groups : {{"users"}}]
=============================================================================
