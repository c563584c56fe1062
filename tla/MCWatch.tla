------------------------------ MODULE MCWatch ------------------------------
(* The daemon process with one connection and the poller.                  *)
EXTENDS Watch

CONSTANT h1

MCHandlers == {h1}
MCCallers == Handlers \cup Ids
=============================================================================
