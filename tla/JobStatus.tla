----------------------------- MODULE JobStatus -----------------------------
(***************************************************************************)
(* The vocabulary of job statuses and the table of status changes that     *)
(* the store enforces (internal/store/store.go, lines 21-92).              *)
(***************************************************************************)

RUNNING == "RUNNING"
CHECKPOINT_IN_PROGRESS == "CHECKPOINT_IN_PROGRESS"
CHECKPOINT_CREATED == "CHECKPOINT_CREATED"
CHECKPOINT_CREATION_FAILED == "CHECKPOINT_CREATION_FAILED"
RESTORE_PENDING == "RESTORE_PENDING"
RESTORE_FAILED == "RESTORE_FAILED"
FAILED == "FAILED"
CANCELED == "CANCELED"
COMPLETED == "COMPLETED"

Statuses ==
    {RUNNING, CHECKPOINT_IN_PROGRESS, CHECKPOINT_CREATED,
     CHECKPOINT_CREATION_FAILED, RESTORE_PENDING, RESTORE_FAILED,
     FAILED, CANCELED, COMPLETED}

\* An id the database has not assigned yet.
ABSENT == "ABSENT"

terminalStatuses == {FAILED, CANCELED, COMPLETED}

IsTerminal(s) == s \in terminalStatuses

\* The statuses Insert is called with: handleRegister and handleAdopt.
InitialStatuses == {RUNNING, CHECKPOINT_CREATED}

\* The statuses that carry a failure reason.
FailureStatuses == {FAILED, CHECKPOINT_CREATION_FAILED, RESTORE_FAILED}

validTransitions ==
    {<<RUNNING, CHECKPOINT_IN_PROGRESS>>,
     <<RUNNING, CANCELED>>,
     <<RUNNING, COMPLETED>>,
     <<RUNNING, FAILED>>,
     <<CHECKPOINT_IN_PROGRESS, CHECKPOINT_CREATED>>,
     <<CHECKPOINT_IN_PROGRESS, CHECKPOINT_CREATION_FAILED>>,
     <<CHECKPOINT_CREATION_FAILED, CHECKPOINT_IN_PROGRESS>>,
     <<CHECKPOINT_CREATION_FAILED, CANCELED>>,
     <<CHECKPOINT_CREATED, RESTORE_PENDING>>,
     <<CHECKPOINT_CREATED, CANCELED>>,
     <<RESTORE_PENDING, RUNNING>>,
     <<RESTORE_PENDING, RESTORE_FAILED>>,
     <<RESTORE_FAILED, RESTORE_PENDING>>,
     <<RESTORE_FAILED, CANCELED>>}

ValidTransition(from, to) == <<from, to>> \in validTransitions
=============================================================================
