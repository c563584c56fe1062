---------------------------- MODULE JobLifecycle ----------------------------
(***************************************************************************)
(* What the store promises about one status column, with nothing of how:   *)
(* a job appears in an initial status and afterwards moves only along the  *)
(* edges of the transition table.  The terminal statuses have no outgoing  *)
(* edge, so a job that reaches one stays there.                            *)
(***************************************************************************)
EXTENDS JobStatus

CONSTANT Ids            \* the ids the database may assign

VARIABLE status         \* status[id], ABSENT before the row is inserted

Init == status = [id \in Ids |-> ABSENT]

Create(id) ==
    /\ status[id] = ABSENT
    /\ \E s \in InitialStatuses : status' = [status EXCEPT ![id] = s]

Move(id) ==
    \E to \in Statuses :
        /\ ValidTransition(status[id], to)
        /\ status' = [status EXCEPT ![id] = to]

Next == \E id \in Ids : Create(id) \/ Move(id)

Spec == Init /\ [][Next]_status
=============================================================================
