------------------------------- MODULE Store -------------------------------
(***************************************************************************)
(* internal/store: the jobs and job_history tables, and the calls that     *)
(* concurrent goroutines of the daemon make on them.                       *)
(*                                                                         *)
(* Every SQL statement is atomic (sqlite is opened with one connection),   *)
(* and so is the transaction that updates a row and appends its history    *)
(* entry.  UpdateStatus and UpdatePID are NOT atomic: they read the row    *)
(* and validate the transition first, and write in a separate transaction  *)
(* whose UPDATE does not look at the status again.  Each is therefore two  *)
(* steps here, and `pending' holds what a caller carries from the first    *)
(* to the second.                                                          *)
(***************************************************************************)
EXTENDS Identifiers, Sequences

CONSTANT Callers     \* the goroutines that call the store

VARIABLES
    jobs,         \* the jobs table, by id
    lastId,       \* the last id the database assigned (AUTOINCREMENT)
    history,      \* the job_history table: the rows of each job, oldest first
    pending       \* by caller: the validated update it has not written yet

storeVars == <<jobs, lastId, history, pending>>

\* The properties tell an empty failure_reason from a non-empty one only.
Reasons == {"", "error"}

Row == [status : Statuses \cup {ABSENT}, pid : Pids \cup {NoPid},
        dir : Dirs \cup {NoDir}, reason : Reasons, hooks : SUBSET Hooks]

NoRow == [status |-> ABSENT, pid |-> NoPid, dir |-> NoDir, reason |-> "",
          hooks |-> {}]

HistoryEntry == [from : Statuses, to : Statuses]

Call == [op : {"none", "UpdateStatus", "UpdatePID"}, id : Ids \cup {0},
         from : Statuses \cup {ABSENT}, to : Statuses \cup {ABSENT},
         reason : Reasons, pid : Pids \cup {NoPid}]

NoCall == [op |-> "none", id |-> 0, from |-> ABSENT, to |-> ABSENT,
           reason |-> "", pid |-> NoPid]

Idle(c) == pending[c].op = "none"

Exists(id) == id \in 1..lastId

-----------------------------------------------------------------------------

Init ==
    /\ jobs = [id \in Ids |-> NoRow]
    /\ lastId = 0
    /\ history = [id \in Ids |-> <<>>]
    /\ pending = [c \in Callers |-> NoCall]

\* Mutant: the row is written under the last id instead of a new one.
InsertReusesId(row) ==
    /\ lastId < MaxJobs
    /\ lastId' = lastId + 1
    /\ jobs' = [jobs EXCEPT ![lastId] = row]
    /\ UNCHANGED <<history, pending>>

\* Insert takes whatever status the caller gives it and no history row is
\* written.
Insert(row) ==
    /\ lastId < MaxJobs
    /\ lastId' = lastId + 1
    /\ jobs' = [jobs EXCEPT ![lastId + 1] = row]
    /\ UNCHANGED <<history, pending>>

\* Mutant: the transition is not validated.
UpdateStatusReadUnchecked(c, id, to, reason) ==
    /\ Idle(c)
    /\ Exists(id)
    /\ pending' = [pending EXCEPT ![c] =
            [op |-> "UpdateStatus", id |-> id, from |-> jobs[id].status,
             to |-> to, reason |-> reason, pid |-> NoPid]]
    /\ UNCHANGED <<jobs, lastId, history>>

\* Mutant: the status recorded as left is assumed to be RUNNING.
UpdateStatusReadAssumesRunning(c, id, to, reason) ==
    /\ Idle(c)
    /\ Exists(id)
    /\ ValidTransition(jobs[id].status, to)
    /\ pending' = [pending EXCEPT ![c] =
            [op |-> "UpdateStatus", id |-> id, from |-> RUNNING,
             to |-> to, reason |-> reason, pid |-> NoPid]]
    /\ UNCHANGED <<jobs, lastId, history>>

\* The first half of UpdateStatus: Get, then ValidTransition.
UpdateStatusRead(c, id, to, reason) ==
    /\ Idle(c)
    /\ Exists(id)
    /\ ValidTransition(jobs[id].status, to)
    /\ pending' = [pending EXCEPT ![c] =
            [op |-> "UpdateStatus", id |-> id, from |-> jobs[id].status,
             to |-> to, reason |-> reason, pid |-> NoPid]]
    /\ UNCHANGED <<jobs, lastId, history>>

\* Mutant: a resumed job becomes RUNNING from whatever status it is in.
UpdatePIDReadUnchecked(c, id, pid) ==
    /\ Idle(c)
    /\ Exists(id)
    /\ pending' = [pending EXCEPT ![c] =
            [op |-> "UpdatePID", id |-> id, from |-> jobs[id].status,
             to |-> RUNNING, reason |-> "", pid |-> pid]]
    /\ UNCHANGED <<jobs, lastId, history>>

\* The first half of UpdatePID, whose target is always RUNNING.
UpdatePIDRead(c, id, pid) ==
    /\ Idle(c)
    /\ Exists(id)
    /\ ValidTransition(jobs[id].status, RUNNING)
    /\ pending' = [pending EXCEPT ![c] =
            [op |-> "UpdatePID", id |-> id, from |-> jobs[id].status,
             to |-> RUNNING, reason |-> "", pid |-> pid]]
    /\ UNCHANGED <<jobs, lastId, history>>

\* The call returns an error after its first half and changes nothing.
UpdateRejected(id, to) ==
    ~Exists(id) \/ ~ValidTransition(jobs[id].status, to)

\* Mutant: an empty reason does not overwrite the one in the row.
UpdatedKeepsReason(row, call) ==
    IF call.op = "UpdatePID" \/ call.reason = ""
    THEN [row EXCEPT !.status = call.to]
    ELSE [row EXCEPT !.status = call.to, !.reason = call.reason]

\* The row a transaction writes.  UpdatePID leaves failure_reason alone.
Updated(row, call) ==
    IF call.op = "UpdatePID"
    THEN [row EXCEPT !.status = call.to, !.pid = call.pid]
    ELSE [row EXCEPT !.status = call.to, !.reason = call.reason]

\* Mutant: from_status and to_status are swapped.
recordHistorySwapped(call) ==
    history' = [history EXCEPT ![call.id] =
                    Append(@, [from |-> call.to, to |-> call.from])]

\* The INSERT INTO job_history of the same transaction as the UPDATE.
recordHistory(call) ==
    history' = [history EXCEPT ![call.id] =
                    Append(@, [from |-> call.from, to |-> call.to])]

\* The second half of UpdateStatus and UpdatePID: one transaction.
UpdateCommit(c) ==
    LET call == pending[c] IN
    /\ ~Idle(c)
    /\ jobs' = [jobs EXCEPT ![call.id] = Updated(@, call)]
    /\ recordHistory(call)
    /\ pending' = [pending EXCEPT ![c] = NoCall]
    /\ UNCHANGED lastId

\* Mutant: the history row is inserted outside the transaction and survives
\* its rollback.
UpdateRollbackLeavesHistory(c) ==
    /\ ~Idle(c)
    /\ recordHistory(pending[c])
    /\ pending' = [pending EXCEPT ![c] = NoCall]
    /\ UNCHANGED <<jobs, lastId>>

\* The transaction fails (Begin, Exec or Commit return an error): it is
\* rolled back as a whole.
UpdateRollback(c) ==
    /\ ~Idle(c)
    /\ pending' = [pending EXCEPT ![c] = NoCall]
    /\ UNCHANGED <<jobs, lastId, history>>

UpdateCheckpointDir(id, dir) ==
    /\ Exists(id)
    /\ jobs' = [jobs EXCEPT ![id].dir = dir]
    /\ UNCHANGED <<lastId, history, pending>>

\* The process that holds the database open dies.  The tables survive, an
\* uncommitted transaction does not.
Crash ==
    /\ pending' = [c \in Callers |-> NoCall]
    /\ UNCHANGED <<jobs, lastId, history>>

-----------------------------------------------------------------------------

\* The caller's side of the contract in UpdateStatus's comment: pass "" when
\* the reason does not apply to the target status.
ReasonFor(to) == IF to \in FailureStatuses THEN "error" ELSE ""

InsertedRows ==
    [status : InitialStatuses, pid : Pids \cup {NoPid}, dir : Dirs \cup {NoDir},
     reason : {""}, hooks : SUBSET Hooks]

InsertSome == \E row \in InsertedRows : Insert(row)

CallUpdateStatus(c) ==
    \E id \in Ids, to \in Statuses : UpdateStatusRead(c, id, to, ReasonFor(to))

CallUpdatePID(c) == \E id \in Ids, pid \in Pids : UpdatePIDRead(c, id, pid)

SetDir == \E id \in Ids, dir \in Dirs : UpdateCheckpointDir(id, dir)

Next ==
    \/ InsertSome
    \/ SetDir
    \/ \E c \in Callers :
        \/ CallUpdateStatus(c)
        \/ CallUpdatePID(c)
        \/ UpdateCommit(c)
        \/ UpdateRollback(c)
    \/ Crash

Spec == Init /\ [][Next]_storeVars

\* No two callers are between the halves of an update of the same job.
NoOverlap ==
    \A c, d \in Callers :
        pending[c].id = pending[d].id /\ ~Idle(c) /\ ~Idle(d) => c = d

\* The store used by callers that never overlap on a job (which is what a
\* lock per job, or one goroutine per job, would give).
SerialNext == Next /\ NoOverlap'

SerialSpec == Init /\ [][SerialNext]_storeVars

-----------------------------------------------------------------------------

\* The columns of both tables hold values of their types, ids are assigned in
\* order without gaps, and a caller holds an update of an existing job only.
TypeOK ==
    /\ jobs \in [Ids -> Row]
    /\ lastId \in 0..MaxJobs
    /\ history \in [Ids -> Seq(HistoryEntry)]
    /\ pending \in [Callers -> Call]
    /\ \A id \in Ids : jobs[id].status = ABSENT <=> id > lastId
    /\ \A c \in Callers :
        pending[c].op # "none" => /\ pending[c].id \in 1..lastId
                                  /\ pending[c].from \in Statuses
                                  /\ pending[c].to \in Statuses

LastEntry(id) == history[id][Len(history[id])]

\* A status change and its history entry land together (recordHistory's
\* comment), under any interleaving, failed transaction or crash: the status
\* of a job is the target of its last history row, and a job without history
\* is in a status it was inserted with.
HistoryAgrees ==
    \A id \in Ids :
        IF history[id] = <<>>
        THEN jobs[id].status \in InitialStatuses \cup {ABSENT}
        ELSE jobs[id].status = LastEntry(id).to

\* Every row of job_history is an edge of the transition table, even when
\* the status it claims to leave was no longer the job's status when the row
\* was written (UpdateStatus records the status it validated).
HistoryEdges ==
    \A id \in Ids : \A k \in 1..Len(history[id]) :
        ValidTransition(history[id][k].from, history[id][k].to)

\* The only way a status changes outside the transition table is the race in
\* UpdateStatus/UpdatePID: the write of a caller whose validated status went
\* stale between Get and the transaction.
OffTableWritesAreStale ==
    [][\A id \in Ids :
        \/ jobs'[id].status = jobs[id].status
        \/ jobs[id].status = ABSENT
        \/ ValidTransition(jobs[id].status, jobs'[id].status)
        \/ \E c \in Callers : /\ ~Idle(c)
                              /\ pending[c].id = id
                              /\ pending[c].from # jobs[id].status]_storeVars

\* With callers that do not overlap on a job, the status a caller validated
\* is still the job's status when it writes.
SnapshotFresh ==
    \A c \in Callers : ~Idle(c) => pending[c].from = jobs[pending[c].id].status

\* With callers that do not overlap on a job, the history that
\* `surviva show -history' prints is a path: each row leaves the status the
\* row before it entered, and the first leaves the status of the insertion.
HistoryChains ==
    \A id \in Ids : \A k \in 1..Len(history[id]) :
        IF k = 1
        THEN history[id][k].from \in InitialStatuses
        ELSE history[id][k].from = history[id][k-1].to

\* failure_reason is "set on FAILED/CHECKPOINT_CREATION_FAILED/RESTORE_FAILED,
\* empty otherwise" (docs/specs/store.md).  UpdatePID does not write the
\* column, so this depends on where a resume starts from.
ReasonAgrees ==
    \A id \in Ids : jobs[id].reason # "" <=> jobs[id].status \in FailureStatuses

\* "FAILED, CANCELED, COMPLETED are terminal -- no transition leaves them"
\* (docs/specs/store.md).
TerminalFinal ==
    [][\A id \in Ids :
        IsTerminal(jobs[id].status) => jobs'[id].status = jobs[id].status]_storeVars

\* With callers that do not overlap on a job, the status column behaves as
\* the abstract lifecycle says: validation followed by a blind UPDATE is as
\* good as one atomic step.
Lifecycle == INSTANCE JobLifecycle WITH status <- [id \in Ids |-> jobs[id].status]

LifecycleSpec == Lifecycle!Spec
=============================================================================
