----------------------------- MODULE MCAuditLog -----------------------------
(* Two goroutines of the daemon, and one command of the CLI.               *)
EXTENDS AuditLog

MCProcesses == {"daemon", "cli"}
MCWriters == {"handler", "fanout", "command"}
MCProcessOf ==
    [w \in MCWriters |-> IF w = "command" THEN "cli" ELSE "daemon"]
=============================================================================
