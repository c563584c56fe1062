------------------------------ MODULE MCDaemon ------------------------------
(* The daemon with a few connections, jobs, processes and directories.     *)
EXTENDS Daemon, TLC

CONSTANTS h1, h2

MCOneHandler == {h1}
MCTwoHandlers == {h1, h2}

\* The goroutines that call the store: the handlers, and a worker per job.
MCCallers == Handlers \cup Ids

\* Connections are interchangeable where no liveness property is checked.
MCSymmetry == Permutations(MCTwoHandlers)
=============================================================================
