----------------------------- MODULE JobProofs -----------------------------
(***************************************************************************)
(* What the daemon keeps true of each job while requests, the fan-out and  *)
(* failures overlap: a job in a transient status has a goroutine that will *)
(* take it out of there, a job that criu can resume has an image, and      *)
(* prune removes the images of ended jobs only.                            *)
(***************************************************************************)
EXTENDS DaemonProofs, TLAPS

USE DEF RUNNING, CHECKPOINT_IN_PROGRESS, CHECKPOINT_CREATED,
        CHECKPOINT_CREATION_FAILED, RESTORE_PENDING, RESTORE_FAILED,
        FAILED, CANCELED, COMPLETED, ABSENT

-----------------------------------------------------------------------------
(* Owners                                                                   *)

\* The places where a goroutine owes a job the outcome of its checkpoint or
\* restore, or may.
OwnerPcs ==
    {"dump", "created", "failed", "restore", "pid", "restoreFailed", "commit"}

\* Every action has its place in the code: a goroutine at one of these places
\* takes the action of that place.
LEMMA OwnerActs ==
    ASSUME NEW t, Acts(t), task[t].pc \in OwnerPcs
    PROVE  \/ task[t].pc = "dump" /\ CheckpointDump(t)
           \/ task[t].pc = "created" /\ CheckpointCreated(t)
           \/ task[t].pc = "failed" /\ CheckpointFailed(t)
           \/ task[t].pc = "restore" /\ ResumeRestore(t)
           \/ task[t].pc = "pid" /\ ResumeUpdatePID(t)
           \/ task[t].pc = "restoreFailed" /\ ResumeFailed(t)
           \/ task[t].pc = "commit" /\ Commit(t)
<1>1. ~Arrival(t)
  BY DEF Arrival, AcceptRegister, AcceptAdopt, AcceptPause, AcceptResume,
         AcceptCancel, AcceptShow, AcceptPrune, AcceptOnJob, AcceptPruneAll,
         AcceptComplete, Accept, Busy, OwnerPcs
<1>2. CASE HandlerStep(t)
  BY <1>2 DEF HandlerStep, OwnerPcs, At, Latch, AdoptScan, RegisterInsert,
         SetDefaultDir, PauseGet, ResumeGet, CancelGet, CompleteGet, GetRow,
         CancelKill, Mark, PruneGet, PruneRemove, ResumeBegin, ShowGet,
         ShowHistory, ResumeRestore, ResumeUpdatePID, ResumeFailed
<1>3. CASE CheckpointStep(t)
  BY <1>3 DEF CheckpointStep, OwnerPcs, At, CheckpointBegin, CheckpointDump,
         CheckpointCreated, CheckpointFailed
<1>4. CASE Commit(t)
  BY <1>4 DEF Commit, At
<1>5. QED
  BY <1>1, <1>2, <1>3, <1>4 DEF Acts

\* A goroutine that is elsewhere owes nothing.
LEMMA NotOwner ==
    ASSUME DaemonInv, NEW t \in Callers, task[t].pc # "commit"
    PROVE  Idle(t) /\ pending[t].to = ABSENT
<1>1. Idle(t) /\ pending[t] = NoCall
  BY DEF DaemonInv, DaemonTypeOK, CallInv
<1>2. NoCall.to = ABSENT
  BY DEF NoCall
<1>3. QED
  BY <1>1, <1>2

\* A job that has a status exists.
LEMMA HasRow ==
    ASSUME TypeOK, NEW id \in Ids, jobs[id].status # ABSENT
    PROVE  Exists(id)
  BY MaxJobsAssumption DEF TypeOK, Exists, Ids

\* An update that the table allows is not refused.
LEMMA CallAccepted ==
    ASSUME DaemonInv, NEW t \in Callers, NEW to, NEW then, CallStatus(t, to, then),
           task[t].id \in Ids, jobs[task[t].id].status # ABSENT,
           ValidTransition(jobs[task[t].id].status, to)
    PROVE  task'[t].id = task[t].id /\ pending'[t].to = to
<1>1. Exists(task[t].id)
  BY HasRow DEF DaemonInv, DaemonTypeOK
<1>2. /\ UpdateStatusRead(t, task[t].id, to, ReasonFor(to))
      /\ task' = [task EXCEPT ![t].pc = "commit", ![t].then = then]
  BY <1>1 DEF CallStatus, UpdateRejected
<1>3. task'[t].id = task[t].id
  BY <1>2, Typed DEF Task
<1>4. pending \in [Callers -> Call]
  BY DEF DaemonInv, DaemonTypeOK, TypeOK
<1>5. pending'[t].to = to
  BY <1>2, <1>4 DEF UpdateStatusRead
<1>6. QED
  BY <1>3, <1>5

\* A goroutine that owes the outcome of a checkpoint owes it until the status
\* has changed, unless the write fails or criu hangs.
LEMMA CheckpointingKept ==
    ASSUME Faults \cap {"crash", "db", "hang"} = {},
           DaemonInv, NEW t \in Callers, Acts(t), NEW id \in Ids,
           jobs[id].status = CHECKPOINT_IN_PROGRESS, Checkpointing(t, id)
    PROVE  \/ Checkpointing(t, id)'
           \/ jobs'[id].status # CHECKPOINT_IN_PROGRESS
<1>1. /\ task \in [Callers -> Task]
      /\ task[t] \in Task
      /\ task[t].id = id
      /\ TypeOK
  BY Typed DEF Checkpointing
<1>2. task[t].pc \in {"dump", "created", "failed", "commit"}
  BY NotOwner DEF Checkpointing
<1>3. CASE task[t].pc = "dump"
  <2>1. CheckpointDump(t)
    BY <1>3, OwnerActs DEF OwnerPcs
  <2>2. PICK pc \in {"created", "failed"} : Goto(t, pc)
    BY <2>1 DEF CheckpointDump
  <2>3. task'[t].id = id /\ task'[t].pc \in {"created", "failed"}
    BY <1>1, <2>2 DEF Goto, Task
  <2>4. QED
    BY <2>3 DEF Checkpointing
<1>4. CASE task[t].pc = "created"
  <2>1. CallStatus(t, CHECKPOINT_CREATED, "idle")
    BY <1>4, OwnerActs DEF OwnerPcs, CheckpointCreated
  <2>2. ValidTransition(CHECKPOINT_IN_PROGRESS, CHECKPOINT_CREATED)
    BY DEF ValidTransition, validTransitions
  <2>3. task'[t].id = id /\ pending'[t].to = CHECKPOINT_CREATED
    BY <1>1, <2>1, <2>2, CallAccepted
  <2>4. QED
    BY <2>3 DEF Checkpointing
<1>5. CASE task[t].pc = "failed"
  <2>1. CallStatus(t, CHECKPOINT_CREATION_FAILED, "idle")
    BY <1>5, OwnerActs DEF OwnerPcs, CheckpointFailed
  <2>2. ValidTransition(CHECKPOINT_IN_PROGRESS, CHECKPOINT_CREATION_FAILED)
    BY DEF ValidTransition, validTransitions
  <2>3. task'[t].id = id /\ pending'[t].to = CHECKPOINT_CREATION_FAILED
    BY <1>1, <2>1, <2>2, CallAccepted
  <2>4. QED
    BY <2>3 DEF Checkpointing
<1>6. CASE task[t].pc = "commit"
  <2>1. Commit(t)
    BY <1>6, OwnerActs DEF OwnerPcs
  <2>2. UpdateCommit(t)
    BY <2>1 DEF Commit
  <2>3. pending[t].id = id
    BY <1>1, <1>6 DEF DaemonInv, DaemonTypeOK, CallInv
  <2>4. jobs'[id].status = pending[t].to
    BY <1>1, <2>2, <2>3, CommitEffect
  <2>5. pending[t].to # CHECKPOINT_IN_PROGRESS
    BY <1>6 DEF Checkpointing
  <2>6. QED
    BY <2>4, <2>5
<1>7. QED
  BY <1>2, <1>3, <1>4, <1>5, <1>6

\* The same for a restore.
LEMMA RestoringKept ==
    ASSUME Faults \cap {"crash", "db", "hang"} = {},
           DaemonInv, NEW t \in Callers, Acts(t), NEW id \in Ids,
           jobs[id].status = RESTORE_PENDING, Restoring(t, id)
    PROVE  \/ Restoring(t, id)'
           \/ jobs'[id].status # RESTORE_PENDING
<1>1. /\ task \in [Callers -> Task]
      /\ task[t] \in Task
      /\ task[t].id = id
      /\ TypeOK
  BY Typed DEF Restoring
<1>2. task[t].pc \in {"restore", "pid", "restoreFailed", "commit"}
  BY NotOwner DEF Restoring
<1>3. CASE task[t].pc = "restore"
  <2>1. ResumeRestore(t)
    BY <1>3, OwnerActs DEF OwnerPcs
  <2>2. CASE Goto(t, "restoreFailed")
    <3>1. task'[t].id = id /\ task'[t].pc = "restoreFailed"
      BY <1>1, <2>2 DEF Goto, Task
    <3>2. QED
      BY <3>1 DEF Restoring
  <2>3. CASE \E pid \in Pids : task' = [task EXCEPT ![t].pc = "pid", ![t].pid = pid]
    <3>1. task'[t].id = id /\ task'[t].pc = "pid"
      BY <1>1, <2>3 DEF Task
    <3>2. QED
      BY <3>1 DEF Restoring
  <2>4. QED
    BY <2>1, <2>2, <2>3 DEF ResumeRestore
<1>4. CASE task[t].pc = "pid"
  <2>1. ResumeUpdatePID(t)
    BY <1>4, OwnerActs DEF OwnerPcs
  <2>2. ValidTransition(RESTORE_PENDING, RUNNING)
    BY DEF ValidTransition, validTransitions
  <2>3. Exists(id)
    BY <1>1, HasRow
  <2>4. UpdatePIDRead(t, id, task[t].pid) /\ Goto(t, "commit")
    BY <1>1, <2>1, <2>2, <2>3 DEF ResumeUpdatePID, UpdateRejected
  <2>5. task'[t].id = id
    BY <1>1, <2>4 DEF Goto, Task
  <2>6. pending'[t].to = RUNNING
    BY <1>1, <2>4 DEF UpdatePIDRead, TypeOK
  <2>7. QED
    BY <2>5, <2>6 DEF Restoring
<1>5. CASE task[t].pc = "restoreFailed"
  <2>1. CallStatus(t, RESTORE_FAILED, "idle")
    BY <1>5, OwnerActs DEF OwnerPcs, ResumeFailed
  <2>2. ValidTransition(RESTORE_PENDING, RESTORE_FAILED)
    BY DEF ValidTransition, validTransitions
  <2>3. task'[t].id = id /\ pending'[t].to = RESTORE_FAILED
    BY <1>1, <2>1, <2>2, CallAccepted
  <2>4. QED
    BY <2>3 DEF Restoring
<1>6. CASE task[t].pc = "commit"
  <2>1. Commit(t)
    BY <1>6, OwnerActs DEF OwnerPcs
  <2>2. UpdateCommit(t)
    BY <2>1 DEF Commit
  <2>3. pending[t].id = id
    BY <1>1, <1>6 DEF DaemonInv, DaemonTypeOK, CallInv
  <2>4. jobs'[id].status = pending[t].to
    BY <1>1, <2>2, <2>3, CommitEffect
  <2>5. pending[t].to # RESTORE_PENDING
    BY <1>6 DEF Restoring
  <2>6. QED
    BY <2>4, <2>5
<1>7. QED
  BY <1>2, <1>3, <1>4, <1>5, <1>6

\* A goroutine's step leaves the others and their calls alone.
LEMMA OthersKept ==
    ASSUME DaemonInv, NEW t \in Callers, Acts(t), NEW u \in Callers, u # t
    PROVE  task'[u] = task[u] /\ pending'[u] = pending[u]
<1>1. PICK r : GoesTo(t, r)
  BY ActsSteps
<1>2. task \in [Callers -> Task] /\ pending \in [Callers -> Call]
  BY DEF DaemonInv, DaemonTypeOK, TypeOK
<1>3. task'[u] = task[u]
  BY <1>1, <1>2 DEF GoesTo
<1>4. pending'[u] = pending[u]
  <2>1. CASE Moves(t, r)
    BY <2>1 DEF Moves
  <2>2. CASE Begins(t, r)
    BY <1>2, <2>2 DEF Begins
  <2>3. CASE Completes(t, r)
    BY <1>2, <2>3 DEF Completes
  <2>4. QED
    BY <1>1, <2>1, <2>2, <2>3 DEF GoesTo
<1>5. QED
  BY <1>3, <1>4

\* Only the commit of its own goroutine moves a job into a status that was not
\* there when the row was inserted.
LEMMA CommitEnters ==
    ASSUME DaemonInv, HistoryInv, NEW t \in Callers, Acts(t), NEW id \in Ids,
           jobs'[id].status # jobs[id].status,
           jobs'[id].status \notin InitialStatuses
    PROVE  /\ Commit(t)
           /\ UpdateCommit(t)
           /\ pending[t].id = id
           /\ task[t].id = id
           /\ jobs'[id].status = pending[t].to
<1>1. TypeOK /\ PendingValid
  BY DEF DaemonInv, DaemonTypeOK, HistoryInv
<1>2. [Next]_storeVars
  BY ActsSteps DEF GoesTo
<1>3. PICK c \in Callers : UpdateCommit(c) /\ pending[c].id = id
  BY <1>1, <1>2, StatusSteps DEF StatusStep
<1>4. pending'[c] = NoCall /\ ~Idle(c)
  BY <1>1, <1>3 DEF UpdateCommit, TypeOK
<1>5. pending'[c] # pending[c]
  <2>1. NoCall.op = "none"
    BY DEF NoCall
  <2>2. QED
    BY <1>4, <2>1 DEF Idle
<1>6. c = t
  BY <1>5, OthersKept
<1>7. task[t].pc = "commit" /\ pending[t].id = task[t].id
  BY <1>4, <1>6 DEF DaemonInv, DaemonTypeOK, CallInv
<1>8. Commit(t)
  BY <1>7, OwnerActs DEF OwnerPcs
<1>9. jobs'[id].status = pending[t].to
  BY <1>1, <1>3, <1>6, CommitEffect
<1>10. QED
  BY <1>3, <1>6, <1>7, <1>8, <1>9

\* The goroutine that moves a job into a transient status goes on to the work.
LEMMA TransientEntered ==
    ASSUME DaemonInv, HistoryInv, NEW t \in Callers, Acts(t), NEW id \in Ids,
           jobs'[id].status # jobs[id].status,
           jobs'[id].status \in {CHECKPOINT_IN_PROGRESS, RESTORE_PENDING}
    PROVE  /\ jobs'[id].status = CHECKPOINT_IN_PROGRESS => Checkpointing(t, id)'
           /\ jobs'[id].status = RESTORE_PENDING => Restoring(t, id)'
<1>1. /\ Commit(t)
      /\ UpdateCommit(t)
      /\ task[t].id = id
      /\ jobs'[id].status = pending[t].to
  BY CommitEnters DEF InitialStatuses
<1>2. /\ pending[t].to = CHECKPOINT_IN_PROGRESS => task[t].then = "dump"
      /\ pending[t].to = RESTORE_PENDING => task[t].then = "restore"
  BY <1>1 DEF DaemonInv, CallInv, UpdateCommit
<1>3. task[t].then # "idle"
  BY <1>1, <1>2
<1>4. task' = [task EXCEPT ![t].pc = task[t].then, ![t].then = "idle"]
  BY <1>1, <1>3 DEF Commit
<1>5. task'[t].pc = task[t].then /\ task'[t].id = id
  BY <1>1, <1>4, Typed DEF Task
<1>6. QED
  BY <1>1, <1>2, <1>5 DEF Checkpointing, Restoring

\* An owner keeps its job through every step that leaves goroutines and store
\* alone, and through the start of another job's worker.
LEMMA OwnersUntouched ==
    ASSUME DaemonInv, NEW t \in Callers, NEW id \in Ids,
           FanList \/ FanSpawn \/ Aside \/ Interrupt \/ UNCHANGED vars
    PROVE  /\ jobs' = jobs
           /\ Checkpointing(t, id) => Checkpointing(t, id)'
           /\ Restoring(t, id) => Restoring(t, id)'
<1>1. CASE jobs' = jobs /\ pending' = pending /\ task' = task
  BY <1>1 DEF Checkpointing, Restoring
<1>2. CASE FanList \/ Interrupt
  BY <1>1, <1>2 DEF FanList, Interrupt, KeepStore, KeepTasks, storeVars
<1>3. CASE Aside
  BY <1>1, <1>3, AsideInv DEF storeVars
<1>4. CASE UNCHANGED vars
  BY <1>1, <1>4 DEF vars, storeVars, daemonVars
<1>5. CASE FanSpawn
  <2>1. storeVars' = storeVars
    BY <1>5, FanSpawnInv
  <2>2. PICK w \in Ids, r \in Task : ~Busy(w) /\ task' = [task EXCEPT ![w] = r]
    BY <1>5, FanSpawnInv
  <2>3. task \in [Callers -> Task] /\ w \in Callers
    BY <2>2, CallerKinds DEF DaemonInv, DaemonTypeOK
  <2>4. CASE t # w
    BY <2>1, <2>2, <2>3, <2>4 DEF Checkpointing, Restoring, storeVars
  <2>5. CASE t = w
    <3>1. task[t].pc = "idle" /\ pending[t].to = ABSENT
      BY <2>2, <2>3, <2>5, NotOwner DEF Busy
    <3>2. QED
      BY <2>1, <3>1 DEF Checkpointing, Restoring, storeVars
  <2>6. QED
    BY <2>4, <2>5
<1>6. QED
  BY <1>2, <1>3, <1>4, <1>5

\* Every job in a transient status keeps an owner.
LEMMA NextMidway ==
    ASSUME Faults \cap {"crash", "db", "hang"} = {},
           DaemonInv, HistoryInv, MidwayHasOwner, [DaemonNext]_vars
    PROVE  MidwayHasOwner'
<1>1. ASSUME NEW t \in Callers, Acts(t)
      PROVE  MidwayHasOwner'
  <2> SUFFICES ASSUME NEW id \in Ids
               PROVE  /\ jobs'[id].status = CHECKPOINT_IN_PROGRESS
                            => \E u \in Callers : Checkpointing(u, id)'
                      /\ jobs'[id].status = RESTORE_PENDING
                            => \E u \in Callers : Restoring(u, id)'
    BY DEF MidwayHasOwner
  <2>1. CASE jobs'[id].status # jobs[id].status
    BY <1>1, <2>1, TransientEntered
  <2>2. CASE /\ jobs'[id].status = jobs[id].status
             /\ jobs[id].status = CHECKPOINT_IN_PROGRESS
    <3>1. PICK u \in Callers : Checkpointing(u, id)
      BY <2>2 DEF MidwayHasOwner
    <3>2. CASE u = t
      BY <1>1, <2>2, <3>1, <3>2, CheckpointingKept
    <3>3. CASE u # t
      BY <1>1, <2>2, <3>1, <3>3, OthersKept DEF Checkpointing
    <3>4. QED
      BY <3>2, <3>3
  <2>3. CASE /\ jobs'[id].status = jobs[id].status
             /\ jobs[id].status = RESTORE_PENDING
    <3>1. PICK u \in Callers : Restoring(u, id)
      BY <2>3 DEF MidwayHasOwner
    <3>2. CASE u = t
      BY <1>1, <2>3, <3>1, <3>2, RestoringKept
    <3>3. CASE u # t
      BY <1>1, <2>3, <3>1, <3>3, OthersKept DEF Restoring
    <3>4. QED
      BY <3>2, <3>3
  <2>4. QED
    BY <2>1, <2>2, <2>3
<1>2. CASE FanList \/ FanSpawn \/ Aside \/ Interrupt \/ UNCHANGED vars
  <2> SUFFICES ASSUME NEW id \in Ids
               PROVE  /\ jobs'[id].status = CHECKPOINT_IN_PROGRESS
                            => \E u \in Callers : Checkpointing(u, id)'
                      /\ jobs'[id].status = RESTORE_PENDING
                            => \E u \in Callers : Restoring(u, id)'
    BY DEF MidwayHasOwner
  <2>0. jobs' = jobs
    <3>1. id \in Callers
      BY CallerKinds
    <3>2. QED
      BY <1>2, <3>1, OwnersUntouched
  <2>1. jobs'[id].status = CHECKPOINT_IN_PROGRESS
          => \E u \in Callers : Checkpointing(u, id)'
    <3> SUFFICES ASSUME jobs'[id].status = CHECKPOINT_IN_PROGRESS
                 PROVE  \E u \in Callers : Checkpointing(u, id)'
      OBVIOUS
    <3>1. PICK c \in Callers : Checkpointing(c, id)
      BY <2>0 DEF MidwayHasOwner
    <3>2. QED
      BY <1>2, <3>1, OwnersUntouched
  <2>2. jobs'[id].status = RESTORE_PENDING
          => \E u \in Callers : Restoring(u, id)'
    <3> SUFFICES ASSUME jobs'[id].status = RESTORE_PENDING
                 PROVE  \E u \in Callers : Restoring(u, id)'
      OBVIOUS
    <3>1. PICK c \in Callers : Restoring(c, id)
      BY <2>0 DEF MidwayHasOwner
    <3>2. QED
      BY <1>2, <3>1, OwnersUntouched
  <2>3. QED
    BY <2>1, <2>2
<1>3. QED
  BY <1>1, <1>2, ServeKinds DEF DaemonNext, DaemonCrash, Aside

\* A job that is being checkpointed or restored always has a goroutine that
\* will write the outcome, for any number of connections, workers and jobs, as
\* long as the daemon is not stopped, the database writes and criu returns.
THEOREM DaemonMidwayHasOwner ==
    ASSUME Faults \cap {"crash", "db", "hang"} = {}
    PROVE  DaemonSpec => []MidwayHasOwner
<1>1. DaemonInit => HistoryInv /\ MidwayHasOwner
  <2>1. DaemonInit => MidwayHasOwner
    <3>1. NoRow.status = ABSENT
      BY DEF NoRow
    <3>2. DaemonInit => \A id \in Ids : jobs[id].status = ABSENT
      BY <3>1 DEF DaemonInit, Init
    <3>3. QED
      BY <3>2 DEF MidwayHasOwner
  <2>2. QED
    BY <2>1, InitHistoryInv DEF DaemonInit
<1>2. DaemonInv /\ HistoryInv /\ MidwayHasOwner /\ [DaemonNext]_vars
        => HistoryInv' /\ MidwayHasOwner'
  BY NextMidway, AnyStepUsesStore, NextHistoryInv, DaemonNextIsAny
<1>3. QED
  BY <1>1, <1>2, DaemonInvariant, PTL DEF DaemonSpec

-----------------------------------------------------------------------------
(* Images                                                                   *)

\* The statuses of a job that handleResume accepts, or has accepted.
Resumable == {CHECKPOINT_CREATED, RESTORE_PENDING, RESTORE_FAILED}

\* Job id has no hooks, so criu does its checkpoints and restores.
Plain(id) == jobs[id].hooks = {}

\* A call in flight that makes such a job resumable finds an image under its
\* name.
CallDirs ==
    \A t \in Callers :
        ~Idle(t) /\ pending[t].to \in Resumable /\ Plain(pending[t].id)
            => jobs[pending[t].id].dir \in images

\* A goroutine that will dump has the directory of the row, or the empty one
\* that the row had before SetDefaultDir; one that has dumped without a hook has
\* put an image where the row says; handleAdopt has seen the image that it will
\* store without a hook; and handleRegister completes a row that has no
\* directory yet.
DirOK(t) ==
    /\ task[t].pc \in {"begin", "dump"} \/ task[t].then = "dump" =>
        /\ task[t].id \in 1..lastId
        /\ task[t].dir \in {NoDir, jobs[task[t].id].dir}
    /\ task[t].pc = "created" =>
        /\ task[t].id \in 1..lastId
        /\ Plain(task[t].id) => jobs[task[t].id].dir \in images
    /\ task[t].op = "adopt" /\ task[t].pc = "insert" /\ task[t].hooks = {}
        => task[t].dir \in images
    /\ task[t].pc = "setdir" =>
        /\ task[t].id \in 1..lastId
        /\ jobs[task[t].id].dir = NoDir

TaskDirs == \A t \in Callers : DirOK(t)

\* The same of the rows that the fan-out has listed.
FanDirs ==
    \A s \in fan.todo :
        s.id \in 1..lastId /\ s.dir \in {NoDir, jobs[s.id].dir}

\* One handler completes a row.
OneSetter ==
    \A t, u \in Callers :
        /\ task[t].pc = "setdir" /\ task[u].pc = "setdir"
        /\ task[t].id = task[u].id
        => t = u

\* The parts that do not depend on what users ask for.
SetterInv ==
    /\ OneSetter
    /\ \A t \in Callers : task[t].pc = "setdir" =>
        task[t].id \in 1..lastId /\ jobs[task[t].id].dir = NoDir

ImageInv == ResumableHasImage /\ CallDirs /\ TaskDirs /\ FanDirs /\ OneSetter

\* The actions that write a row, and where they are in the code.
LEMMA RowWrites ==
    ASSUME NEW t, Acts(t)
    PROVE  \/ jobs' = jobs /\ lastId' = lastId
           \/ task[t].pc = "insert" /\ Insert(InsertedRow(t))
           \/ /\ task[t].pc = "setdir"
              /\ UpdateCheckpointDir(task[t].id, DefaultDir(task[t].id))
           \/ task[t].pc = "commit" /\ UpdateCommit(t)
<1>1. CASE Arrival(t)
  BY <1>1 DEF Arrival, AcceptRegister, AcceptAdopt, AcceptPause, AcceptResume,
         AcceptCancel, AcceptShow, AcceptPrune, AcceptOnJob, AcceptPruneAll,
         AcceptComplete, Accept, KeepStore, storeVars
<1>2. ASSUME NEW to, NEW then, CallStatus(t, to, then)
      PROVE  jobs' = jobs /\ lastId' = lastId
  BY <1>2 DEF CallStatus, UpdateStatusRead, KeepStore, storeVars
<1>3. CASE HandlerStep(t)
  <2>1. CASE Latch(t) \/ AdoptScan(t)
    BY <2>1 DEF Latch, AdoptScan, Refuse, KeepStore, storeVars
  <2>2. CASE RegisterInsert(t)
    BY <2>2 DEF RegisterInsert, At, Refuse, KeepStore, storeVars
  <2>3. CASE SetDefaultDir(t)
    BY <2>3 DEF SetDefaultDir, At, KeepStore, storeVars
  <2>4. CASE PauseGet(t) \/ ResumeGet(t) \/ CancelGet(t) \/ CompleteGet(t)
    BY <2>4 DEF PauseGet, ResumeGet, CancelGet, CompleteGet, GetRow, KeepStore, storeVars
  <2>5. CASE Mark(t) \/ ResumeBegin(t) \/ ResumeFailed(t)
    BY <1>2, <2>5 DEF Mark, ResumeBegin, ResumeFailed
  <2>6. CASE CancelKill(t) \/ PruneGet(t) \/ PruneRemove(t) \/ ResumeRestore(t)
             \/ ShowGet(t) \/ ShowHistory(t)
    BY <2>6 DEF CancelKill, PruneGet, PruneRemove, ResumeRestore, ShowGet,
           ShowHistory, KeepStore, storeVars
  <2>7. CASE ResumeUpdatePID(t)
    BY <2>7 DEF ResumeUpdatePID, UpdatePIDRead, KeepStore, storeVars
  <2>8. QED
    BY <1>3, <2>1, <2>2, <2>3, <2>4, <2>5, <2>6, <2>7 DEF HandlerStep
<1>4. CASE CheckpointStep(t)
  <2>1. CASE CheckpointDump(t)
    BY <2>1 DEF CheckpointDump, KeepStore, storeVars
  <2>2. CASE CheckpointBegin(t) \/ CheckpointCreated(t) \/ CheckpointFailed(t)
    BY <1>2, <2>2 DEF CheckpointBegin, CheckpointCreated, CheckpointFailed
  <2>3. QED
    BY <1>4, <2>1, <2>2 DEF CheckpointStep
<1>5. CASE Commit(t)
  BY <1>5 DEF Commit, At, UpdateRollback
<1>6. QED
  BY <1>1, <1>3, <1>4, <1>5 DEF Acts

\* Only prune takes an image away.
LEMMA ImagesKept ==
    ASSUME NEW t, Acts(t), task[t].pc # "remove"
    PROVE  images \subseteq images'
<1>1. CASE Arrival(t)
  BY <1>1 DEF Arrival, AcceptRegister, AcceptAdopt, AcceptPause, AcceptResume,
         AcceptCancel, AcceptShow, AcceptPrune, AcceptOnJob, AcceptPruneAll,
         AcceptComplete, StartRun, StartJoin, KeepHost, hostVars
<1>2. CASE HandlerStep(t)
  BY <1>2 DEF HandlerStep, Latch, AdoptScan, Refuse, RegisterInsert, SetDefaultDir,
         PauseGet, ResumeGet, CancelGet, CompleteGet, GetRow, CancelKill, KillGroup,
         Mark, CallStatus, PruneGet, PruneRemove, At, ResumeBegin, ResumeRestore,
         ResumeRuns, HookResumes, RestoreSucceeds, Starts, ResumeUpdatePID,
         ResumeFailed, ShowGet, ShowHistory, KeepHost, hostVars
<1>3. CASE CheckpointStep(t)
  BY <1>3 DEF CheckpointStep, CheckpointBegin, CheckpointDump, CheckpointCreated,
         CheckpointFailed, CallStatus, CheckpointRuns, HookCheckpoints,
         DumpSucceeds, KeepHost, hostVars
<1>4. CASE Commit(t)
  BY <1>4 DEF Commit, KeepHost, hostVars
<1>5. QED
  BY <1>1, <1>2, <1>3, <1>4 DEF Acts

\* What a step does to the rows: they stay, only SetDefaultDir gives one
\* another directory, and nothing changes the hooks.
RowsGrow(t) ==
    /\ lastId' \in lastId..MaxJobs
    /\ \A id \in 1..lastId :
        /\ jobs'[id].hooks = jobs[id].hooks
        /\ \/ jobs'[id].dir = jobs[id].dir
           \/ task[t].pc = "setdir" /\ task[t].id = id

\* The images stay, too.
DirsGrow(t) == RowsGrow(t) /\ images \subseteq images'

\* The directory and the hooks of a row that a commit writes are those it had.
LEMMA CommitKeepsDir ==
    ASSUME TypeOK, NEW t \in Callers, UpdateCommit(t), NEW id \in Ids
    PROVE  jobs'[id].dir = jobs[id].dir /\ jobs'[id].hooks = jobs[id].hooks
<1>1. pending[t] \in Call /\ pending[t].id \in Ids
  BY CommitEffect DEF TypeOK
<1>2. jobs[pending[t].id] \in Row
  BY <1>1 DEF TypeOK
<1>3. /\ Updated(jobs[pending[t].id], pending[t]).dir = jobs[pending[t].id].dir
      /\ Updated(jobs[pending[t].id], pending[t]).hooks = jobs[pending[t].id].hooks
  BY <1>1, <1>2 DEF Updated, Row
<1>4. jobs' = [jobs EXCEPT ![pending[t].id] = Updated(jobs[pending[t].id], pending[t])]
  BY DEF UpdateCommit
<1>5. CASE id = pending[t].id
  BY <1>1, <1>3, <1>4, <1>5 DEF TypeOK
<1>6. CASE id # pending[t].id
  BY <1>4, <1>6 DEF TypeOK
<1>7. QED
  BY <1>5, <1>6

\* Every step of a goroutine is like that.
LEMMA ActsRowsGrow ==
    ASSUME DaemonInv, NEW t \in Callers, Acts(t)
    PROVE  RowsGrow(t)
<1>1. /\ TypeOK
      /\ lastId \in 0..MaxJobs
      /\ lastId' \in 0..MaxJobs
      /\ MaxJobs \in Nat
      /\ jobs \in [Ids -> Row]
  <2>1. DaemonInv'
    BY ActsSteps, GoesToInv
  <2>2. QED
    BY <2>1, MaxJobsAssumption DEF DaemonInv, DaemonTypeOK, TypeOK
<1>2. CASE jobs' = jobs /\ lastId' = lastId
  BY <1>1, <1>2 DEF RowsGrow
<1>3. CASE Insert(InsertedRow(t))
  <2>1. /\ lastId' = lastId + 1
        /\ jobs' = [jobs EXCEPT ![lastId + 1] = InsertedRow(t)]
    BY <1>3 DEF Insert
  <2>2. \A id \in 1..lastId : id \in Ids /\ id # lastId + 1
    BY <1>1 DEF Ids
  <2>3. \A id \in 1..lastId : jobs'[id] = jobs[id]
    BY <1>1, <2>1, <2>2
  <2>4. QED
    BY <1>1, <2>1, <2>3 DEF RowsGrow
<1>4. CASE /\ task[t].pc = "setdir"
           /\ UpdateCheckpointDir(task[t].id, DefaultDir(task[t].id))
  <2>1. /\ lastId' = lastId
        /\ jobs' = [jobs EXCEPT ![task[t].id].dir = DefaultDir(task[t].id)]
    BY <1>4 DEF UpdateCheckpointDir
  <2>2. \A id \in 1..lastId : id \in Ids
    BY <1>1 DEF Ids
  <2>3. \A id \in 1..lastId : id # task[t].id => jobs'[id] = jobs[id]
    BY <1>1, <2>1, <2>2
  <2>4. \A id \in Ids : jobs'[id].hooks = jobs[id].hooks
    BY <1>1, <2>1 DEF Row
  <2>5. QED
    BY <1>1, <1>4, <2>1, <2>2, <2>3, <2>4 DEF RowsGrow
<1>5. CASE UpdateCommit(t)
  <2>1. lastId' = lastId
    BY <1>5 DEF UpdateCommit
  <2>2. \A id \in 1..lastId : id \in Ids
    BY <1>1 DEF Ids
  <2>3. \A id \in 1..lastId :
          jobs'[id].dir = jobs[id].dir /\ jobs'[id].hooks = jobs[id].hooks
    BY <1>1, <1>5, <2>2, CommitKeepsDir
  <2>4. QED
    BY <1>1, <2>1, <2>3 DEF RowsGrow
<1>6. QED
  BY <1>2, <1>3, <1>4, <1>5, RowWrites

\* So the images stay if nobody prunes.
LEMMA ActsDirsGrow ==
    ASSUME DaemonInv, Ops \cap {"prune", "pruneAll"} = {},
           NEW t \in Callers, Acts(t)
    PROVE  DirsGrow(t)
<1>1. task[t].pc # "remove"
  BY Typed DEF LocalOK
<1>2. QED
  BY <1>1, ActsRowsGrow, ImagesKept DEF DirsGrow

\* A row with an image keeps its directory and its image.
LEMMA ImageStays ==
    ASSUME DaemonInv, ImageInv, NEW t \in Callers, DirsGrow(t),
           NEW id \in 1..lastId, jobs[id].dir \in images
    PROVE  jobs'[id].dir = jobs[id].dir /\ jobs'[id].dir \in images'
<1>1. jobs[id].dir # NoDir
  BY NoDirAssumption DEF DaemonInv, DaemonTypeOK, HostTypeOK
<1>2. ~(task[t].pc = "setdir" /\ task[t].id = id)
  BY <1>1 DEF ImageInv, TaskDirs, DirOK
<1>3. QED
  BY <1>2 DEF DirsGrow, RowsGrow

\* A directory that was read from a row is the row's, or was empty.
LEMMA ReadDirStays ==
    ASSUME DaemonInv, ImageInv, NEW t \in Callers, DirsGrow(t),
           NEW id \in 1..lastId, NEW dir \in {NoDir, jobs[id].dir}
    PROVE  id \in 1..lastId' /\ dir \in {NoDir, jobs'[id].dir}
<1>1. id \in 1..lastId'
  BY MaxJobsAssumption DEF DirsGrow, RowsGrow, DaemonInv, DaemonTypeOK, TypeOK
<1>2. CASE jobs'[id].dir = jobs[id].dir
  BY <1>1, <1>2
<1>3. CASE task[t].pc = "setdir" /\ task[t].id = id
  BY <1>1, <1>3 DEF ImageInv, TaskDirs, DirOK
<1>4. QED
  BY <1>2, <1>3 DEF DirsGrow, RowsGrow

\* The other goroutines' directories stay right.
LEMMA OthersDirOK ==
    ASSUME DaemonInv, ImageInv, NEW t \in Callers, Acts(t), DirsGrow(t),
           NEW u \in Callers, u # t
    PROVE  DirOK(u)'
<1>1. task'[u] = task[u]
  BY OthersKept
<1>2. DirOK(u)
  BY DEF ImageInv, TaskDirs
<1>3. task[u].pc \in {"begin", "dump"} \/ task[u].then = "dump" =>
        /\ task[u].id \in 1..lastId'
        /\ task[u].dir \in {NoDir, jobs'[task[u].id].dir}
  BY <1>2, ReadDirStays DEF DirOK
<1>4. \A id \in 1..lastId : id \in 1..lastId'
  BY MaxJobsAssumption DEF DirsGrow, RowsGrow, DaemonInv, DaemonTypeOK, TypeOK
<1>5. task[u].pc = "created" =>
        /\ task[u].id \in 1..lastId'
        /\ jobs'[task[u].id].hooks = {} => jobs'[task[u].id].dir \in images'
  BY <1>2, <1>4, ImageStays DEF DirOK, DirsGrow, RowsGrow, Plain
<1>6. task[u].op = "adopt" /\ task[u].pc = "insert" /\ task[u].hooks = {}
        => task[u].dir \in images'
  BY <1>2 DEF DirOK, DirsGrow
<1>7. ASSUME task[u].pc = "setdir"
      PROVE  /\ task[u].id \in 1..lastId'
             /\ jobs'[task[u].id].dir = NoDir
  <2>1. task[u].id \in 1..lastId /\ jobs[task[u].id].dir = NoDir
    BY <1>2, <1>7 DEF DirOK
  <2>2. ~(task[t].pc = "setdir" /\ task[t].id = task[u].id)
    BY <1>7 DEF ImageInv, OneSetter
  <2>3. QED
    BY <1>4, <2>1, <2>2 DEF DirsGrow, RowsGrow
<1>8. QED
  BY <1>1, <1>3, <1>5, <1>6, <1>7 DEF DirOK, Plain

\* Where a goroutine is after CallStatus.
LEMMA AfterCall ==
    ASSUME DaemonInv, NEW t \in Callers, task[t].pc # "commit", NEW to,
           NEW then \in {"idle", "dump", "restore"}, CallStatus(t, to, then)
    PROVE  /\ task'[t].pc \in {"commit", "idle", then}
           /\ task'[t].then \in {"idle", then}
           /\ then # "idle" =>
                task'[t].id = task[t].id /\ task'[t].dir = task[t].dir
<1>1. task \in [Callers -> Task] /\ task[t] \in Task /\ task[t].then = "idle"
  BY Typed DEF LocalOK
<1>2. CASE task' = [task EXCEPT ![t].pc = "commit", ![t].then = then]
  BY <1>1, <1>2 DEF Task
<1>3. CASE Continue(t, then)
  <2>1. CASE then = "idle"
    <3>1. task'[t] = NoTask
      BY <1>1, <1>3, <2>1 DEF Continue, Finish, Become
    <3>2. NoTask.pc = "idle" /\ NoTask.then = "idle"
      BY DEF NoTask
    <3>3. QED
      BY <2>1, <3>1, <3>2
  <2>2. CASE then # "idle"
    BY <1>1, <1>3, <2>2 DEF Continue, Goto, Task
  <2>3. QED
    BY <2>1, <2>2
<1>4. QED
  BY <1>2, <1>3 DEF CallStatus

\* What a step other than prune's has to leave behind: directories that are
\* right, a row to complete only when it is the one just inserted, and nothing
\* to remove.
DirStep(t) ==
    /\ DirOK(t)'
    /\ task'[t].pc = "setdir" => task'[t].id \notin 1..lastId
    /\ task'[t].pc # "remove"

\* The places that DirStep says something about.
DirPcs == {"begin", "dump", "created", "insert", "setdir", "remove"}

\* A goroutine that is somewhere else.
LEMMA ElsewhereDirOK ==
    ASSUME NEW t, task'[t].pc \notin DirPcs, task'[t].then # "dump"
    PROVE  DirStep(t)
  BY DEF DirStep, DirOK, DirPcs

\* A handler that has ended.
LEMMA FinishedDirOK ==
    ASSUME DaemonInv, NEW t \in Callers, Finish(t)
    PROVE  DirStep(t)
<1>1. task'[t] = NoTask
  BY Typed DEF Finish, Become
<1>2. NoTask.pc = "idle" /\ NoTask.then = "idle"
  BY DEF NoTask
<1>3. QED
  BY <1>1, <1>2, ElsewhereDirOK DEF DirPcs

\* A goroutine that has gone to a place of no concern.
LEMMA GoneDirOK ==
    ASSUME DaemonInv, NEW t \in Callers, task[t].pc # "commit", NEW pc,
           pc \notin DirPcs, Goto(t, pc)
    PROVE  DirStep(t)
<1>1. /\ task \in [Callers -> Task]
      /\ task[t] \in Task
      /\ task[t].then = "idle"
  BY Typed DEF LocalOK
<1>2. task'[t].pc = pc /\ task'[t].then = "idle"
  BY <1>1 DEF Goto, Task
<1>3. QED
  BY <1>2, ElsewhereDirOK

\* A row that a pause handler has read.
LEMMA GetRowDirOK ==
    ASSUME DaemonInv, NEW t \in Callers, NEW op, NEW ok,
           NEW pc \in {"begin", "pend", "kill", "mark"}, GetRow(t, op, ok, pc)
    PROVE  DirStep(t)
<1>1. /\ task \in [Callers -> Task]
      /\ task[t] \in Task
      /\ task[t].pc = "get"
      /\ task[t].then = "idle"
      /\ jobs' = jobs /\ lastId' = lastId
  BY Typed DEF GetRow, At, LocalOK, KeepStore, storeVars
<1>2. CASE Exists(task[t].id) /\ ok
  <2> DEFINE row == jobs[task[t].id]
  <2>1. task' = [task EXCEPT ![t].pc = pc, ![t].pid = row.pid, ![t].dir = row.dir]
    BY <1>2 DEF GetRow
  <2>2. row.dir = jobs[task[t].id].dir
    OBVIOUS
  <2> HIDE DEF row
  <2>3. /\ task'[t].pc = pc
        /\ task'[t].then = "idle"
        /\ task'[t].id = task[t].id
        /\ task'[t].dir = row.dir
    BY <1>1, <2>1 DEF Task
  <2>4. QED
    BY <1>1, <1>2, <2>2, <2>3 DEF DirStep, DirOK, Exists
<1>3. CASE ~(Exists(task[t].id) /\ ok)
  BY <1>3, FinishedDirOK DEF GetRow
<1>4. QED
  BY <1>2, <1>3

\* A request that has just arrived has read nothing yet.
LEMMA ArrivalDirOK ==
    ASSUME DaemonInv, NEW t \in Callers, Arrival(t)
    PROVE  DirStep(t)
<1>1. task \in [Callers -> Task]
  BY Typed
<1>2. ASSUME NEW r, task' = [task EXCEPT ![t] = r], r.pc \in {"latch", "get"},
             r.then = "idle"
      PROVE  DirStep(t)
  <2>1. task'[t] = r
    BY <1>1, <1>2
  <2>2. QED
    BY <1>2, <2>1, ElsewhereDirOK DEF DirPcs
<1>3. CASE AcceptRegister(t)
  <2>1. PICK op \in RegisterOps, p \in Pids, dir \in UserDirs \cup {NoDir},
             hooks \in SUBSET Hooks :
          task' = [task EXCEPT ![t] = [NoTask EXCEPT !.op = op, !.pc = "latch",
                                         !.pid = p, !.dir = dir, !.hooks = hooks]]
    BY <1>3 DEF AcceptRegister, Accept, Become
  <2> DEFINE r == [NoTask EXCEPT !.op = op, !.pc = "latch", !.pid = p, !.dir = dir,
                                 !.hooks = hooks]
  <2>2. r.pc = "latch" /\ r.then = "idle"
    BY DEF NoTask
  <2>3. QED
    BY <1>2, <2>1, <2>2
<1>4. CASE AcceptAdopt(t)
  <2>1. PICK op \in AdoptOps, dir \in Dirs, hooks \in SUBSET Hooks :
          task' = [task EXCEPT ![t] = [NoTask EXCEPT !.op = op, !.pc = "latch",
                                                     !.dir = dir, !.hooks = hooks]]
    BY <1>4 DEF AcceptAdopt, Accept, Become
  <2> DEFINE r == [NoTask EXCEPT !.op = op, !.pc = "latch", !.dir = dir,
                                 !.hooks = hooks]
  <2>2. r.pc = "latch" /\ r.then = "idle"
    BY DEF NoTask
  <2>3. QED
    BY <1>2, <2>1, <2>2
<1>5. ASSUME NEW op, NEW pc \in {"latch", "get"}, AcceptOnJob(t, op, pc)
      PROVE  DirStep(t)
  <2>1. PICK id \in Ids :
          task' = [task EXCEPT ![t] = [NoTask EXCEPT !.op = op, !.id = id, !.pc = pc]]
    BY <1>5 DEF AcceptOnJob, Accept, Become
  <2> DEFINE r == [NoTask EXCEPT !.op = op, !.id = id, !.pc = pc]
  <2>2. r.pc = pc /\ r.then = "idle"
    BY DEF NoTask
  <2>3. QED
    BY <1>2, <2>1, <2>2
<1>6. CASE AcceptPruneAll(t)
  <2>1. task' = [task EXCEPT ![t] = [NoTask EXCEPT !.op = "pruneAll", !.pc = "get"]]
    BY <1>6 DEF AcceptPruneAll, Accept, Become
  <2> DEFINE r == [NoTask EXCEPT !.op = "pruneAll", !.pc = "get"]
  <2>2. r.pc = "get" /\ r.then = "idle"
    BY DEF NoTask
  <2>3. QED
    BY <1>2, <2>1, <2>2
<1>7. CASE AcceptComplete(t)
  <2>1. PICK p \in Pids :
          task' = [task EXCEPT ![t] =
                     [NoTask EXCEPT !.op = "complete", !.pc = "get", !.id = cli[p].id,
                        !.to = IF cli[p].st = "exit0" THEN COMPLETED ELSE FAILED]]
    BY <1>7 DEF AcceptComplete, Accept, Become
  <2> DEFINE to == IF cli[p].st = "exit0" THEN COMPLETED ELSE FAILED
             r == [NoTask EXCEPT !.op = "complete", !.pc = "get", !.id = cli[p].id,
                                 !.to = to]
  <2>2. task' = [task EXCEPT ![t] = r]
    BY <2>1
  <2> HIDE DEF to
  <2>3. r.pc = "get" /\ r.then = "idle"
    BY DEF NoTask
  <2>4. QED
    BY <1>2, <2>2, <2>3
<1>8. QED
  BY <1>3, <1>4, <1>5, <1>6, <1>7
     DEF Arrival, AcceptPause, AcceptResume, AcceptCancel, AcceptShow, AcceptPrune

\* handleRegister and handleAdopt: the image is there when the row is inserted,
\* and a row that was inserted without a directory has none.
LEMMA RegisterDirOK ==
    ASSUME DaemonInv, NEW t \in Handlers,
           Latch(t) \/ AdoptScan(t) \/ RegisterInsert(t) \/ SetDefaultDir(t)
    PROVE  DirStep(t)
<1>1. /\ t \in Callers
      /\ task \in [Callers -> Task]
      /\ task[t] \in Task
      /\ TypeOK
      /\ LocalOK(task[t])
  BY CallerKinds, Typed
<1>2. ASSUME NEW pc, Goto(t, pc), task[t].pc # "commit"
      PROVE  /\ task'[t].pc = pc
             /\ task'[t].then = "idle"
             /\ task'[t].op = task[t].op
             /\ task'[t].dir = task[t].dir
             /\ task'[t].hooks = task[t].hooks
  BY <1>1, <1>2 DEF Goto, Task, LocalOK
<1>3. CASE Refuse(t)
  BY <1>1, <1>3, FinishedDirOK DEF Refuse
<1>4. CASE Latch(t)
  <2>1. /\ task[t].pc = "latch"
        /\ task[t].op \in RegisterOps \cup AdoptOps \cup {"pause"}
    BY <1>1, <1>4 DEF Latch, At, LocalOK
  <2>2. CASE Goto(t, CASE task[t].op \in RegisterOps -> "insert"
                       [] task[t].op \in AdoptOps -> "scan"
                       [] task[t].op = "pause" -> "get")
    <3>1. CASE task[t].op \in RegisterOps
      <4>1. Goto(t, "insert") /\ task[t].op # "adopt"
        BY <2>2, <3>1 DEF RegisterOps, AdoptOps
      <4>2. QED
        BY <1>2, <2>1, <4>1 DEF DirStep, DirOK
    <3>2. CASE task[t].op \in AdoptOps
      <4>1. Goto(t, "scan")
        BY <2>2, <3>2 DEF RegisterOps, AdoptOps
      <4>2. QED
        BY <1>2, <2>1, <4>1 DEF DirStep, DirOK
    <3>3. CASE task[t].op = "pause"
      <4>1. Goto(t, "get")
        BY <2>2, <3>3 DEF RegisterOps, AdoptOps
      <4>2. QED
        BY <1>2, <2>1, <4>1 DEF DirStep, DirOK
    <3>4. QED
      BY <2>1, <3>1, <3>2, <3>3
  <2>3. QED
    BY <1>3, <1>4, <2>2 DEF Latch
<1>5. CASE AdoptScan(t)
  <2>1. task[t].pc = "scan"
    BY <1>5 DEF AdoptScan, At
  <2>2. CASE /\ task[t].dir \in images \/ "resume" \in task[t].hooks
             /\ Goto(t, "insert")
             /\ KeepHost
    BY <1>2, <2>1, <2>2 DEF DirStep, DirOK, KeepHost, hostVars
  <2>3. QED
    BY <1>3, <1>5, <2>2 DEF AdoptScan
<1>6. CASE RegisterInsert(t)
  <2>1. task[t].pc = "insert"
    BY <1>6 DEF RegisterInsert, At
  <2>2. CASE Acknowledge(t, lastId + 1)
    BY <1>1, <2>2, FinishedDirOK DEF Acknowledge
  <2>3. CASE /\ Insert(InsertedRow(t))
             /\ task[t].dir = NoDir
             /\ task' = [task EXCEPT ![t].pc = "setdir", ![t].id = lastId + 1]
    <3>1. /\ lastId' = lastId + 1
          /\ lastId + 1 \in Ids
          /\ lastId \in Nat
          /\ jobs' = [jobs EXCEPT ![lastId + 1] = InsertedRow(t)]
      BY <1>1, <2>3, MaxJobsAssumption DEF Insert, TypeOK, Ids
    <3>2. InsertedRow(t).dir = NoDir
      BY <2>3 DEF InsertedRow
    <3>3. jobs'[lastId + 1].dir = NoDir
      BY <1>1, <3>1, <3>2 DEF TypeOK
    <3>4. /\ task'[t].pc = "setdir"
          /\ task'[t].id = lastId + 1
          /\ task'[t].then = "idle"
      BY <1>1, <2>1, <2>3 DEF Task, LocalOK
    <3>5. QED
      BY <3>1, <3>3, <3>4 DEF DirStep, DirOK
  <2>4. QED
    BY <1>3, <1>6, <2>2, <2>3 DEF RegisterInsert
<1>7. CASE SetDefaultDir(t)
  BY <1>1, <1>7, FinishedDirOK DEF SetDefaultDir, Acknowledge
<1>8. QED
  BY <1>4, <1>5, <1>6, <1>7

\* A goroutine after CallStatus that does not go on to a dump.
LEMMA CallDirOK ==
    ASSUME DaemonInv, NEW t \in Callers, task[t].pc # "commit", NEW to,
           NEW then \in {"idle", "restore"}, CallStatus(t, to, then)
    PROVE  DirStep(t)
<1>1. /\ task'[t].pc \in {"commit", "idle", then}
      /\ task'[t].then \in {"idle", then}
  BY AfterCall
<1>2. task'[t].pc \notin DirPcs /\ task'[t].then # "dump"
  BY <1>1 DEF DirPcs
<1>3. QED
  BY <1>2, ElsewhereDirOK

\* handlePause, handleResume, handleCancel, handleComplete and handleShow.
LEMMA RequestDirOK ==
    ASSUME DaemonInv, NEW t \in Callers,
           \/ PauseGet(t) \/ ResumeGet(t) \/ CancelGet(t) \/ CompleteGet(t)
           \/ CancelKill(t) \/ Mark(t) \/ ShowGet(t) \/ ShowHistory(t)
    PROVE  DirStep(t)
<1>1. CASE PauseGet(t) \/ ResumeGet(t) \/ CompleteGet(t)
  BY <1>1, GetRowDirOK DEF PauseGet, ResumeGet, CompleteGet
<1>2. CASE CancelGet(t)
  <2>1. CASE StatusIn(t, {RUNNING})
    <3>1. GetRow(t, "cancel", TRUE, "kill")
      BY <1>2, <2>1 DEF CancelGet
    <3>2. QED
      BY <3>1, GetRowDirOK
  <2>2. CASE ~StatusIn(t, {RUNNING})
    <3>1. GetRow(t, "cancel", TRUE, "mark")
      BY <1>2, <2>2 DEF CancelGet
    <3>2. QED
      BY <3>1, GetRowDirOK
  <2>3. QED
    BY <2>1, <2>2
<1>3. CASE CancelKill(t)
  <2>1. task[t].pc # "commit"
    BY <1>3 DEF CancelKill, At
  <2>2. Goto(t, "mark") \/ Finish(t)
    BY <1>3 DEF CancelKill
  <2>3. QED
    BY <2>1, <2>2, GoneDirOK, FinishedDirOK DEF DirPcs
<1>4. CASE Mark(t)
  <2>1. PICK to : task[t].pc # "commit" /\ CallStatus(t, to, "idle")
    BY <1>4 DEF Mark, At
  <2>2. QED
    BY <2>1, CallDirOK
<1>5. CASE ShowGet(t)
  <2>1. /\ task \in [Callers -> Task]
        /\ task[t] \in Task
        /\ task[t].then = "idle"
    BY <1>5, Typed DEF ShowGet, At, LocalOK
  <2>2. CASE task' = [task EXCEPT ![t].pc = "history",
                                  ![t].to = jobs[task[t].id].status]
    <3>1. task'[t].pc = "history" /\ task'[t].then = "idle"
      BY <2>1, <2>2 DEF Task
    <3>2. QED
      BY <3>1, ElsewhereDirOK DEF DirPcs
  <2>3. QED
    BY <1>5, <2>2, FinishedDirOK DEF ShowGet
<1>6. CASE ShowHistory(t)
  BY <1>6, FinishedDirOK DEF ShowHistory
<1>7. QED
  BY <1>1, <1>2, <1>3, <1>4, <1>5, <1>6

\* resumeJob.
LEMMA ResumeDirOK ==
    ASSUME DaemonInv, NEW t \in Callers,
           \/ ResumeBegin(t) \/ ResumeRestore(t) \/ ResumeUpdatePID(t)
           \/ ResumeFailed(t)
    PROVE  DirStep(t)
<1>1. CASE ResumeBegin(t) \/ ResumeFailed(t)
  <2>1. task[t].pc # "commit"
    BY <1>1 DEF ResumeBegin, ResumeFailed, At
  <2>2. QED
    BY <1>1, <2>1, CallDirOK DEF ResumeBegin, ResumeFailed
<1>2. CASE ResumeRestore(t)
  <2>1. /\ task \in [Callers -> Task]
        /\ task[t] \in Task
        /\ task[t].pc = "restore"
        /\ task[t].then = "idle"
    BY <1>2, Typed DEF ResumeRestore, At, LocalOK
  <2>2. CASE \E pid \in Pids : task' = [task EXCEPT ![t].pc = "pid", ![t].pid = pid]
    <3>1. task'[t].pc = "pid" /\ task'[t].then = "idle"
      BY <2>1, <2>2 DEF Task
    <3>2. QED
      BY <3>1, ElsewhereDirOK DEF DirPcs
  <2>3. CASE Goto(t, "restoreFailed") \/ Goto(t, "hung")
    BY <2>1, <2>3, GoneDirOK DEF DirPcs
  <2>4. QED
    BY <1>2, <2>2, <2>3 DEF ResumeRestore
<1>3. CASE ResumeUpdatePID(t)
  <2>1. task[t].pc # "commit" /\ (Goto(t, "commit") \/ Finish(t))
    BY <1>3 DEF ResumeUpdatePID, At
  <2>2. QED
    BY <2>1, GoneDirOK, FinishedDirOK DEF DirPcs
<1>4. QED
  BY <1>1, <1>2, <1>3

\* handlePrune.
LEMMA PruneDirOK ==
    ASSUME DaemonInv, Ops \cap {"prune", "pruneAll"} = {},
           NEW t \in Callers
    PROVE  ~PruneGet(t) /\ ~PruneRemove(t)
<1>1. task[t].op \notin {"prune", "pruneAll"}
  BY Typed DEF LocalOK
<1>2. task[t].pc # "remove"
  BY <1>1, Typed DEF LocalOK
<1>3. QED
  BY <1>1, <1>2 DEF PruneGet, PruneRemove, At

\* checkpointJob: it dumps to the directory of the row.
LEMMA CheckpointDirOK ==
    ASSUME DaemonInv, ImageInv, NEW t \in Callers, CheckpointStep(t)
    PROVE  DirStep(t)
<1>1. /\ task \in [Callers -> Task]
      /\ task[t] \in Task
      /\ DirOK(t)
  BY Typed DEF ImageInv, TaskDirs
<1>2. CASE CheckpointBegin(t)
  <2>1. task[t].pc = "begin" /\ CallStatus(t, CHECKPOINT_IN_PROGRESS, "dump")
    BY <1>2 DEF CheckpointBegin, At
  <2>2. /\ task'[t].pc \in {"commit", "idle", "dump"}
        /\ task'[t].id = task[t].id
        /\ task'[t].dir = task[t].dir
    BY <2>1, AfterCall
  <2>3. jobs' = jobs /\ lastId' = lastId
    BY <2>1 DEF CallStatus, UpdateStatusRead, KeepStore, storeVars
  <2>4. QED
    BY <1>1, <2>1, <2>2, <2>3 DEF DirStep, DirOK
<1>3. CASE CheckpointDump(t)
  <2>1. task[t].pc = "dump" /\ task[t].then = "idle" /\ jobs' = jobs /\ lastId' = lastId
    BY <1>3, Typed DEF CheckpointDump, At, LocalOK, KeepStore, storeVars
  <2>2. CASE CheckpointRuns(t) /\ Goto(t, "created")
    <3>1. task[t].id \in 1..lastId
      BY <1>1, <2>1 DEF DirOK
    <3>2. Plain(task[t].id) => jobs[task[t].id].dir \in images'
      <4> SUFFICES ASSUME Plain(task[t].id)
                   PROVE  jobs[task[t].id].dir \in images'
        OBVIOUS
      <4>1. DumpSucceeds(task[t].pid, task[t].dir)
        BY <2>2 DEF CheckpointRuns, HooksOf, Plain
      <4>2. task[t].dir # NoDir /\ task[t].dir \in images'
        BY <4>1 DEF DumpSucceeds
      <4>3. QED
        BY <1>1, <2>1, <4>2 DEF DirOK
    <3>3. /\ task'[t].pc = "created"
          /\ task'[t].then = "idle"
          /\ task'[t].id = task[t].id
      BY <1>1, <2>1, <2>2 DEF Goto, Task
    <3>4. QED
      BY <2>1, <3>1, <3>2, <3>3 DEF DirStep, DirOK, Plain
  <2>3. CASE Goto(t, "failed") \/ Goto(t, "hung")
    BY <2>1, <2>3, GoneDirOK DEF DirPcs
  <2>4. QED
    BY <1>3, <2>2, <2>3 DEF CheckpointDump
<1>4. CASE CheckpointCreated(t) \/ CheckpointFailed(t)
  <2>1. task[t].pc # "commit"
    BY <1>4 DEF CheckpointCreated, CheckpointFailed, At
  <2>2. QED
    BY <1>4, <2>1, CallDirOK DEF CheckpointCreated, CheckpointFailed
<1>5. QED
  BY <1>2, <1>3, <1>4 DEF CheckpointStep

\* The end of a store update.
LEMMA CommitDirOK ==
    ASSUME DaemonInv, ImageInv, NEW t \in Callers, Commit(t), DirsGrow(t)
    PROVE  DirStep(t)
<1>1. /\ task \in [Callers -> Task]
      /\ task[t] \in Task
      /\ task[t].pc = "commit"
      /\ task[t].then \in {"idle", "dump", "restore"}
      /\ DirOK(t)
  BY Typed DEF Commit, At, LocalOK, ImageInv, TaskDirs
<1>2. CASE task[t].then = "idle"
  BY <1>2, FinishedDirOK DEF Commit
<1>3. CASE task[t].then # "idle"
  <2>1. task' = [task EXCEPT ![t].pc = task[t].then, ![t].then = "idle"]
    BY <1>3 DEF Commit
  <2>2. /\ task'[t].pc = task[t].then
        /\ task'[t].then = "idle"
        /\ task'[t].id = task[t].id
        /\ task'[t].dir = task[t].dir
    BY <1>1, <2>1 DEF Task
  <2>3. CASE task[t].then = "dump"
    <3>1. task[t].id \in 1..lastId /\ task[t].dir \in {NoDir, jobs[task[t].id].dir}
      BY <1>1, <2>3 DEF DirOK
    <3>2. /\ task[t].id \in 1..lastId'
          /\ task[t].dir \in {NoDir, jobs'[task[t].id].dir}
      BY <3>1, ReadDirStays
    <3>3. QED
      BY <2>2, <2>3, <3>2 DEF DirStep, DirOK
  <2>4. CASE task[t].then = "restore"
    BY <2>2, <2>4, ElsewhereDirOK DEF DirPcs
  <2>5. QED
    BY <1>1, <1>3, <2>3, <2>4
<1>4. QED
  BY <1>2, <1>3

\* Every step of a goroutine keeps its directories right.
LEMMA ActsDirOK ==
    ASSUME DaemonInv, ImageInv, Ops \cap {"prune", "pruneAll"} = {},
           NEW t \in Callers, Acts(t), DirsGrow(t)
    PROVE  DirStep(t)
<1>1. CASE t \in Handlers /\ Arrival(t)
  BY <1>1, ArrivalDirOK
<1>2. CASE t \in Handlers /\ HandlerStep(t)
  BY <1>2, RegisterDirOK, RequestDirOK, ResumeDirOK, PruneDirOK DEF HandlerStep
<1>3. CASE CheckpointStep(t) \/ Commit(t)
  BY <1>3, CheckpointDirOK, CommitDirOK
<1>4. QED
  BY <1>1, <1>2, <1>3 DEF Acts

\* checkpointJob and the end of a store update lead neither to SetDefaultDir
\* nor to PruneRemove.
LEMMA LaterPcs ==
    ASSUME DaemonInv, NEW t \in Callers, CheckpointStep(t) \/ Commit(t)
    PROVE  task'[t].pc \notin {"setdir", "remove"}
<1>1. /\ task \in [Callers -> Task]
      /\ task[t] \in Task
      /\ task[t].then \in {"idle", "dump", "restore"}
  BY Typed DEF LocalOK
<1>2. ASSUME NEW to, NEW then \in {"idle", "dump"}, task[t].pc # "commit",
             CallStatus(t, to, then)
      PROVE  task'[t].pc \notin {"setdir", "remove"}
  <2>1. task'[t].pc \in {"commit", "idle", then}
    BY <1>2, AfterCall
  <2>2. QED
    BY <2>1
<1>3. CASE CheckpointBegin(t) \/ CheckpointCreated(t) \/ CheckpointFailed(t)
  BY <1>2, <1>3 DEF CheckpointBegin, CheckpointCreated, CheckpointFailed, At
<1>4. CASE CheckpointDump(t)
  <2>1. PICK pc \in {"created", "failed", "hung"} : Goto(t, pc)
    BY <1>4 DEF CheckpointDump
  <2>2. task'[t].pc = pc
    BY <1>1, <2>1 DEF Goto, Task
  <2>3. QED
    BY <2>2
<1>5. CASE Commit(t)
  <2>1. CASE task[t].then = "idle"
    <3>1. task'[t] = NoTask
      BY <1>1, <1>5, <2>1 DEF Commit, Finish, Become
    <3>2. QED
      BY <3>1, NoTaskOK
  <2>2. CASE task[t].then # "idle"
    <3>1. task' = [task EXCEPT ![t].pc = task[t].then, ![t].then = "idle"]
      BY <1>5, <2>2 DEF Commit
    <3>2. task'[t].pc = task[t].then
      BY <1>1, <3>1 DEF Task
    <3>3. QED
      BY <1>1, <3>2
  <2>3. QED
    BY <2>1, <2>2
<1>6. QED
  BY <1>3, <1>4, <1>5 DEF CheckpointStep

\* What a goroutine of prune holds next.
LEMMA PruneNext ==
    ASSUME DaemonInv, NEW t \in Callers, PruneGet(t) \/ PruneRemove(t)
    PROVE  \/ task'[t].pc = "idle"
           \/ /\ task'[t].pc = "remove"
              /\ \A dir \in task'[t].dirs :
                    \/ task[t].pc = "remove" /\ dir \in task[t].dirs
                    \/ \E id \in 1..lastId :
                          jobs[id].dir = dir /\ IsTerminal(jobs[id].status)
<1>1. task \in [Callers -> Task] /\ task[t] \in Task
  BY Typed
<1>2. CASE Finish(t)
  <2>1. task'[t] = NoTask
    BY <1>1, <1>2 DEF Finish, Become
  <2>2. QED
    BY <2>1, NoTaskOK
<1>3. CASE PruneGet(t)
  <2> DEFINE terminal == {id \in 1..lastId : IsTerminal(jobs[id].status)}
             asked == IF task[t].op = "prune" THEN {task[t].id} ELSE Ids
             dirs == {jobs[id].dir : id \in terminal \cap asked}
  <2>1. Finish(t) \/ task' = [task EXCEPT ![t].pc = "remove", ![t].dirs = dirs]
    BY <1>3 DEF PruneGet
  <2>2. \A dir \in dirs : \E id \in 1..lastId :
          jobs[id].dir = dir /\ IsTerminal(jobs[id].status)
    OBVIOUS
  <2> HIDE DEF dirs
  <2>3. CASE task' = [task EXCEPT ![t].pc = "remove", ![t].dirs = dirs]
    <3>1. task'[t].pc = "remove" /\ task'[t].dirs = dirs
      BY <1>1, <2>3 DEF Task
    <3>2. QED
      BY <2>2, <3>1
  <2>4. QED
    BY <1>2, <2>1, <2>3
<1>4. CASE PruneRemove(t)
  <2>1. task[t].pc = "remove"
    BY <1>4 DEF PruneRemove, At
  <2>2. PICK dir \in task[t].dirs :
          Finish(t) \/ task' = [task EXCEPT ![t].dirs = @ \ {dir}]
    BY <1>4 DEF PruneRemove
  <2>3. CASE task' = [task EXCEPT ![t].dirs = @ \ {dir}]
    <3>1. task'[t].pc = "remove" /\ task'[t].dirs = task[t].dirs \ {dir}
      BY <1>1, <2>1, <2>3 DEF Task
    <3>2. QED
      BY <2>1, <3>1
  <2>4. QED
    BY <1>2, <2>2, <2>3
<1>5. QED
  BY <1>3, <1>4

\* The row that a goroutine has to complete is the one it has just inserted.
LEMMA SetterArises ==
    ASSUME DaemonInv, NEW t \in Callers, Acts(t), task'[t].pc = "setdir"
    PROVE  /\ task'[t].id \in (1..lastId') \ (1..lastId)
           /\ jobs'[task'[t].id].dir = NoDir
<1>1. CASE DirStep(t)
  BY <1>1 DEF DirStep, DirOK
<1>2. CASE t \in Handlers /\ Arrival(t)
  BY <1>1, <1>2, ArrivalDirOK
<1>3. CASE t \in Handlers /\ HandlerStep(t)
  <2>1. ~PruneGet(t) /\ ~PruneRemove(t)
    BY PruneNext
  <2>2. QED
    BY <1>1, <1>3, <2>1, RegisterDirOK, RequestDirOK, ResumeDirOK DEF HandlerStep
<1>4. ~CheckpointStep(t) /\ ~Commit(t)
  BY LaterPcs
<1>5. QED
  BY <1>2, <1>3, <1>4 DEF Acts

\* Rows are completed once.
LEMMA ActsSetterInv ==
    ASSUME DaemonInv, SetterInv, NEW t \in Callers, Acts(t)
    PROVE  SetterInv'
<1>1. RowsGrow(t)
  BY ActsRowsGrow
<1>2. \A id \in 1..lastId : id \in 1..lastId'
  BY <1>1, MaxJobsAssumption DEF RowsGrow, DaemonInv, DaemonTypeOK, TypeOK
<1>3. ASSUME NEW w \in Callers, w # t, task'[w].pc = "setdir"
      PROVE  /\ task[w].pc = "setdir"
             /\ task'[w].id = task[w].id
             /\ task'[w].id \in 1..lastId
             /\ jobs[task[w].id].dir = NoDir
  BY <1>3, OthersKept DEF SetterInv
<1>4. OneSetter'
  <2> SUFFICES ASSUME NEW u \in Callers, NEW v \in Callers,
                      task'[u].pc = "setdir", task'[v].pc = "setdir",
                      task'[u].id = task'[v].id, u # v
               PROVE  FALSE
    BY DEF OneSetter
  <2>1. CASE u # t /\ v # t
    BY <1>3, <2>1 DEF SetterInv, OneSetter
  <2>2. CASE u = t \/ v = t
    BY <1>3, <2>2, SetterArises
  <2>3. QED
    BY <2>1, <2>2
<1>5. ASSUME NEW w \in Callers, task'[w].pc = "setdir"
      PROVE  task'[w].id \in 1..lastId' /\ jobs'[task'[w].id].dir = NoDir
  <2>1. CASE w = t
    BY <1>5, <2>1, SetterArises
  <2>2. CASE w # t
    <3>1. ~(task[t].pc = "setdir" /\ task[t].id = task[w].id)
      BY <1>3, <1>5, <2>2 DEF SetterInv, OneSetter
    <3>2. QED
      BY <1>1, <1>2, <1>3, <1>5, <2>2, <3>1 DEF RowsGrow
  <2>3. QED
    BY <2>1, <2>2
<1>6. QED
  BY <1>4, <1>5 DEF SetterInv

\* The calls that CallStatus and UpdatePID begin.
LEMMA CallBegun ==
    ASSUME DaemonInv, NEW t \in Callers, task[t].pc # "commit",
           NEW to, NEW then, CallStatus(t, to, then), pending'[t].op # "none"
    PROVE  /\ jobs' = jobs
           /\ pending'[t].id = task[t].id
           /\ Exists(task[t].id)
           /\ pending'[t].to = to
           /\ ValidTransition(jobs[task[t].id].status, to)
<1>1. pending \in [Callers -> Call] /\ pending[t].op = "none"
  BY DEF DaemonInv, DaemonTypeOK, TypeOK, Idle
<1>2. UpdateStatusRead(t, task[t].id, to, ReasonFor(to))
  BY <1>1 DEF CallStatus, KeepStore, storeVars
<1>3. QED
  BY <1>1, <1>2 DEF UpdateStatusRead

\* Where a call that a goroutine begins comes from: only the end of a dump asks
\* for CHECKPOINT_CREATED, and every other target is entered from a status that
\* the table allows.
LEMMA CallsBegun ==
    ASSUME DaemonInv, NEW t \in Callers, Acts(t), task[t].pc # "commit",
           pending'[t].op # "none"
    PROVE  /\ jobs' = jobs
           /\ pending'[t].id = task[t].id
           /\ Exists(task[t].id)
           /\ ValidTransition(jobs[task[t].id].status, pending'[t].to)
           /\ pending'[t].to = CHECKPOINT_CREATED => task[t].pc = "created"
<1>1. pending \in [Callers -> Call] /\ pending[t].op = "none" /\ LocalOK(task[t])
  BY Typed DEF DaemonInv, DaemonTypeOK, TypeOK, Idle
<1>2. pending' # pending
  BY <1>1
<1>3. ~Arrival(t)
  BY <1>2 DEF Arrival, AcceptRegister, AcceptAdopt, AcceptPause, AcceptResume,
         AcceptCancel, AcceptShow, AcceptPrune, AcceptOnJob, AcceptPruneAll,
         AcceptComplete, Accept, KeepStore, storeVars
<1>4. CASE HandlerStep(t)
  <2>1. Mark(t) \/ ResumeBegin(t) \/ ResumeFailed(t) \/ ResumeUpdatePID(t)
    <3>1. ~Latch(t) /\ ~AdoptScan(t) /\ ~RegisterInsert(t) /\ ~SetDefaultDir(t)
      BY <1>2 DEF Latch, AdoptScan, RegisterInsert, SetDefaultDir, Refuse, Insert,
             UpdateCheckpointDir, KeepStore, storeVars
    <3>2. ~PauseGet(t) /\ ~ResumeGet(t) /\ ~CancelGet(t) /\ ~CompleteGet(t)
      BY <1>2 DEF PauseGet, ResumeGet, CancelGet, CompleteGet, GetRow, KeepStore,
             storeVars
    <3>3. /\ ~CancelKill(t) /\ ~PruneGet(t) /\ ~PruneRemove(t)
          /\ ~ResumeRestore(t) /\ ~ShowGet(t) /\ ~ShowHistory(t)
      BY <1>2 DEF CancelKill, PruneGet, PruneRemove, ResumeRestore, ShowGet,
             ShowHistory, KeepStore, storeVars
    <3>4. QED
      BY <1>4, <3>1, <3>2, <3>3 DEF HandlerStep
  <2>2. CASE Mark(t)
    <3> DEFINE to == IF task[t].op = "cancel" THEN CANCELED ELSE task[t].to
    <3>1. task[t].pc = "mark" /\ CallStatus(t, to, "idle")
      BY <2>2 DEF Mark, At
    <3>2. to # CHECKPOINT_CREATED
      BY <1>1, <3>1 DEF LocalOK
    <3> HIDE DEF to
    <3>3. QED
      BY <3>1, <3>2, CallBegun
  <2>3. CASE ResumeBegin(t) \/ ResumeFailed(t)
    BY <2>3, CallBegun DEF ResumeBegin, ResumeFailed
  <2>4. CASE ResumeUpdatePID(t)
    <3>1. UpdatePIDRead(t, task[t].id, task[t].pid)
      BY <1>2, <2>4 DEF ResumeUpdatePID, KeepStore, storeVars
    <3>2. QED
      BY <1>1, <3>1 DEF UpdatePIDRead
  <2>5. QED
    BY <2>1, <2>2, <2>3, <2>4
<1>5. CASE CheckpointStep(t)
  <2>1. ~CheckpointDump(t)
    BY <1>2 DEF CheckpointDump, KeepStore, storeVars
  <2>2. CASE CheckpointBegin(t) \/ CheckpointFailed(t)
    BY <2>2, CallBegun DEF CheckpointBegin, CheckpointFailed
  <2>3. CASE CheckpointCreated(t)
    BY <2>3, CallBegun DEF CheckpointCreated, At
  <2>4. QED
    BY <1>5, <2>1, <2>2, <2>3 DEF CheckpointStep
<1>6. ~Commit(t)
  BY DEF Commit, At
<1>7. QED
  BY <1>3, <1>4, <1>5, <1>6 DEF Acts

\* A job whose row gets a resumable status has its image by then.
LEMMA ActsCallDirs ==
    ASSUME DaemonInv, ImageInv, NEW t \in Callers, Acts(t), DirsGrow(t)
    PROVE  CallDirs'
<1> SUFFICES ASSUME NEW u \in Callers, pending'[u].op # "none",
                    pending'[u].to \in Resumable, jobs'[pending'[u].id].hooks = {}
             PROVE  jobs'[pending'[u].id].dir \in images'
  BY DEF CallDirs, Idle, Plain
<1>1. /\ TypeOK
      /\ \A id \in 1..lastId : id \in Ids
  BY MaxJobsAssumption DEF DaemonInv, DaemonTypeOK, TypeOK, Ids
<1>2. CASE u # t
  <2>1. pending'[u] = pending[u]
    BY <1>2, OthersKept
  <2>2. pending[u].id \in 1..lastId
    BY <1>1, <2>1 DEF TypeOK, Idle
  <2>3. jobs[pending[u].id].hooks = {}
    BY <2>1, <2>2 DEF DirsGrow, RowsGrow
  <2>4. jobs[pending[u].id].dir \in images
    BY <2>1, <2>3 DEF ImageInv, CallDirs, Idle, Plain
  <2>5. QED
    BY <2>1, <2>2, <2>4, ImageStays
<1>3. CASE u = t
  <2>1. task[t].pc # "commit"
    <3> SUFFICES ASSUME task[t].pc = "commit" PROVE FALSE
      OBVIOUS
    <3>1. Commit(t)
      BY OwnerActs DEF OwnerPcs
    <3>2. pending'[t] = NoCall
      BY <1>1, <3>1 DEF Commit, UpdateCommit, UpdateRollback, TypeOK
    <3>3. NoCall.op = "none"
      BY DEF NoCall
    <3>4. QED
      BY <1>3, <3>2, <3>3
  <2>2. /\ pending'[t].id = task[t].id
        /\ Exists(task[t].id)
        /\ ValidTransition(jobs[task[t].id].status, pending'[t].to)
        /\ pending'[t].to = CHECKPOINT_CREATED => task[t].pc = "created"
    BY <1>3, <2>1, CallsBegun
  <2>3. task[t].id \in 1..lastId /\ jobs[task[t].id].hooks = {}
    BY <1>3, <2>2 DEF Exists, DirsGrow, RowsGrow
  <2>4. jobs[task[t].id].dir \in images
    <3>1. CASE pending'[t].to = CHECKPOINT_CREATED
      BY <2>2, <2>3, <3>1 DEF ImageInv, TaskDirs, DirOK, Plain
    <3>2. CASE pending'[t].to \in {RESTORE_PENDING, RESTORE_FAILED}
      <4>1. jobs[task[t].id].status \in Resumable
        BY <2>2, <3>2 DEF ValidTransition, validTransitions, Resumable
      <4>2. QED
        BY <1>1, <2>3, <4>1 DEF ImageInv, ResumableHasImage, Resumable
    <3>3. QED
      BY <1>3, <3>1, <3>2 DEF Resumable
  <2>5. QED
    BY <1>3, <2>2, <2>3, <2>4, ImageStays
<1>4. QED
  BY <1>2, <1>3

\* A step of a goroutine leaves every resumable job an image.
LEMMA ActsResumable ==
    ASSUME DaemonInv, ImageInv, Ops \cap {"prune", "pruneAll"} = {},
           NEW t \in Callers, Acts(t), DirsGrow(t)
    PROVE  ResumableHasImage'
<1> SUFFICES ASSUME NEW id \in Ids, jobs'[id].status \in Resumable,
                    jobs'[id].hooks = {}
             PROVE  jobs'[id].dir \in images'
  BY DEF ResumableHasImage, Resumable
<1>1. /\ TypeOK
      /\ jobs \in [Ids -> Row]
      /\ lastId \in Nat
      /\ LocalOK(task[t])
  BY Typed, MaxJobsAssumption DEF TypeOK
<1>2. CASE jobs[id].status \in Resumable
  <2>1. id \in 1..lastId /\ jobs[id].dir \in images
    <3>1. Exists(id)
      BY <1>1, <1>2, HasRow DEF Resumable
    <3>2. jobs[id].hooks = {}
      BY <3>1 DEF Exists, DirsGrow, RowsGrow
    <3>3. QED
      BY <1>2, <3>1, <3>2 DEF Exists, ImageInv, ResumableHasImage, Resumable
  <2>2. QED
    BY <2>1, ImageStays
<1>3. CASE jobs[id].status \notin Resumable
  <2>1. CASE jobs' = jobs
    BY <1>3, <2>1
  <2>2. CASE task[t].pc = "insert" /\ Insert(InsertedRow(t))
    <3>1. jobs' = [jobs EXCEPT ![lastId + 1] = InsertedRow(t)]
      BY <2>2 DEF Insert
    <3>2. id = lastId + 1
      BY <1>1, <1>3, <3>1
    <3>3. jobs'[id] = InsertedRow(t)
      BY <1>1, <3>1, <3>2
    <3>4. task[t].op \in AdoptOps
      <4>1. InsertedRow(t).status =
              IF task[t].op \in AdoptOps THEN CHECKPOINT_CREATED ELSE RUNNING
        BY DEF InsertedRow
      <4>2. QED
        BY <3>3, <4>1 DEF Resumable
    <3>5. task[t].op = "adopt"
      BY <1>1, <3>4 DEF AdoptOps, LocalOK
    <3>6. jobs'[id].dir = task[t].dir /\ task[t].hooks = {}
      <4>1. InsertedRow(t).dir = task[t].dir /\ InsertedRow(t).hooks = task[t].hooks
        BY DEF InsertedRow
      <4>2. QED
        BY <3>3, <4>1
    <3>7. task[t].dir \in images
      BY <2>2, <3>5, <3>6 DEF ImageInv, TaskDirs, DirOK
    <3>8. QED
      BY <3>6, <3>7 DEF DirsGrow
  <2>3. CASE UpdateCheckpointDir(task[t].id, DefaultDir(task[t].id))
    <3>1. jobs' = [jobs EXCEPT ![task[t].id].dir = DefaultDir(task[t].id)]
      BY <2>3 DEF UpdateCheckpointDir
    <3>2. jobs'[id].status = jobs[id].status
      BY <1>1, <3>1 DEF Row
    <3>3. QED
      BY <1>3, <3>2
  <2>4. CASE UpdateCommit(t)
    <3>1. pending[t].id = id /\ pending[t].to \in Resumable
      BY <1>1, <1>3, <2>4, CommitEffect
    <3>2. id \in 1..lastId
      BY <1>1, <2>4, <3>1 DEF UpdateCommit, TypeOK, Idle
    <3>3. jobs[id].hooks = {}
      BY <3>2 DEF DirsGrow, RowsGrow
    <3>4. jobs[id].dir \in images
      BY <2>4, <3>1, <3>3 DEF UpdateCommit, Idle, ImageInv, CallDirs, Plain
    <3>5. QED
      BY <3>2, <3>4, ImageStays
  <2>5. QED
    BY <2>1, <2>2, <2>3, <2>4, RowWrites
<1>4. QED
  BY <1>2, <1>3

\* A step of a goroutine keeps the whole invariant.
LEMMA ActsImageInv ==
    ASSUME DaemonInv, ImageInv, Ops \cap {"prune", "pruneAll"} = {},
           NEW t \in Callers, Acts(t)
    PROVE  ImageInv'
<1>1. DirsGrow(t)
  BY ActsDirsGrow
<1>2. DirStep(t)
  BY <1>1, ActsDirOK
<1>3. TaskDirs'
  BY <1>1, <1>2, OthersDirOK DEF TaskDirs, DirStep
<1>4. OneSetter'
  <2>1. SetterInv
    BY DEF SetterInv, ImageInv, TaskDirs, DirOK
  <2>2. QED
    BY <2>1, ActsSetterInv DEF SetterInv
<1>5. FanDirs'
  <2>1. fan' = fan
    BY ActsSteps DEF GoesTo
  <2>2. \A s \in fan.todo : s.id \in 1..lastId /\ s.dir \in {NoDir, jobs[s.id].dir}
    BY DEF ImageInv, FanDirs
  <2>3. \A s \in fan.todo : s.id \in 1..lastId' /\ s.dir \in {NoDir, jobs'[s.id].dir}
    BY <1>1, <2>2, ReadDirStays
  <2>4. QED
    BY <2>1, <2>3 DEF FanDirs
<1>6. QED
  BY <1>1, <1>3, <1>4, <1>5, ActsCallDirs, ActsResumable DEF ImageInv

\* The steps that touch neither a row, nor an image, nor a goroutine.
LEMMA UntouchedImageInv ==
    ASSUME ImageInv,
           UNCHANGED <<jobs, lastId, pending, task, images>>,
           fan'.todo \subseteq fan.todo
    PROVE  ImageInv'
<1>1. ResumableHasImage' /\ CallDirs' /\ OneSetter'
  BY DEF ImageInv, ResumableHasImage, CallDirs, Plain, OneSetter, Idle
<1>2. TaskDirs'
  BY DEF ImageInv, TaskDirs, DirOK, Plain
<1>3. FanDirs'
  BY DEF ImageInv, FanDirs
<1>4. QED
  BY <1>1, <1>2, <1>3 DEF ImageInv

\* List gives the fan-out the directories of the rows.
LEMMA FanListImageInv ==
    ASSUME DaemonInv, ImageInv, FanList
    PROVE  ImageInv'
<1>1. UNCHANGED <<jobs, lastId, pending, task, images>>
  BY DEF FanList, KeepStore, KeepHost, KeepTasks, storeVars, hostVars
<1>2. CASE fan' = [fan EXCEPT !.pc = "idle"]
  <2>1. fan'.todo = fan.todo
    BY <1>2 DEF DaemonInv, DaemonTypeOK
  <2>2. QED
    BY <1>1, <2>1, UntouchedImageInv
<1>3. CASE fan' = [pc |-> "spawn",
                   todo |-> {[id |-> id, pid |-> jobs[id].pid, dir |-> jobs[id].dir] :
                             id \in Runnable}]
  <2>1. \A s \in fan'.todo : \E id \in 1..lastId : s.id = id /\ s.dir = jobs[id].dir
    BY <1>3 DEF Runnable
  <2>2. FanDirs'
    BY <1>1, <2>1 DEF FanDirs
  <2>3. ResumableHasImage' /\ CallDirs' /\ OneSetter'
    BY <1>1 DEF ImageInv, ResumableHasImage, CallDirs, Plain, OneSetter, Idle
  <2>4. TaskDirs'
    BY <1>1 DEF ImageInv, TaskDirs, DirOK, Plain
  <2>5. QED
    BY <2>2, <2>3, <2>4 DEF ImageInv
<1>4. QED
  BY <1>2, <1>3 DEF FanList

\* A worker starts with the directory that was listed.
LEMMA FanSpawnImageInv ==
    ASSUME DaemonInv, ImageInv, FanSpawn
    PROVE  ImageInv'
<1>1. /\ UNCHANGED <<jobs, lastId, pending, images>>
      /\ fan'.todo \subseteq fan.todo
  BY FanSpawnInv DEF storeVars
<1>2. PICK s \in fan.todo, r \in Task :
        /\ s.id \in Ids
        /\ r.pc = "begin"
        /\ r.then = "idle"
        /\ r.id = s.id
        /\ r.dir = s.dir
        /\ task' = [task EXCEPT ![s.id] = r]
  BY FanSpawnInv
<1>3. /\ task'[s.id] = r
      /\ \A u \in Callers : u # s.id => task'[u] = task[u]
  BY <1>2, CallerKinds DEF DaemonInv, DaemonTypeOK
<1>4. ResumableHasImage' /\ CallDirs'
  BY <1>1 DEF ImageInv, ResumableHasImage, CallDirs, Plain, Idle
<1>5. s.id \in 1..lastId /\ s.dir \in {NoDir, jobs[s.id].dir}
  BY DEF ImageInv, FanDirs
<1>6. DirOK(s.id)'
  BY <1>1, <1>2, <1>3, <1>5 DEF DirOK
<1>7. ASSUME NEW u \in Callers, u # s.id
      PROVE  DirOK(u)'
  <2>1. DirOK(u)
    BY DEF ImageInv, TaskDirs
  <2>2. QED
    BY <1>1, <1>3, <1>7, <2>1 DEF DirOK, Plain
<1>8. TaskDirs'
  BY <1>6, <1>7 DEF TaskDirs
<1>9. OneSetter'
  BY <1>2, <1>3 DEF ImageInv, OneSetter
<1>10. FanDirs'
  BY <1>1 DEF ImageInv, FanDirs
<1>11. QED
  BY <1>4, <1>8, <1>9, <1>10 DEF ImageInv

\* The daemon dies: rows and images stay.
LEMMA ProcessEndsImageInv ==
    ASSUME ImageInv, ProcessEnds
    PROVE  ImageInv'
<1>1. /\ task' = [t \in Callers |-> NoTask]
      /\ pending' = [t \in Callers |-> NoCall]
      /\ fan' = [pc |-> "idle", todo |-> {}]
      /\ UNCHANGED <<jobs, lastId, images>>
  BY DEF ProcessEnds, Crash
<1>2. NoTask.pc = "idle" /\ NoTask.then = "idle" /\ NoCall.op = "none"
  BY DEF NoTask, NoCall
<1>3. \A t \in Callers : task'[t] = NoTask /\ pending'[t] = NoCall
  BY <1>1
<1>4. CallDirs' /\ OneSetter'
  BY <1>2, <1>3 DEF CallDirs, OneSetter, Idle
<1>5. TaskDirs'
  BY <1>2, <1>3 DEF TaskDirs, DirOK
<1>6. FanDirs'
  BY <1>1 DEF FanDirs
<1>7. ResumableHasImage'
  BY <1>1 DEF ImageInv, ResumableHasImage
<1>8. QED
  BY <1>4, <1>5, <1>6, <1>7 DEF ImageInv

\* Every step keeps the invariant.
LEMMA NextImageInv ==
    ASSUME Ops \cap {"prune", "pruneAll"} = {},
           DaemonInv, ImageInv, [DaemonNext]_vars
    PROVE  ImageInv'
<1>1. CASE \E t \in Callers : Acts(t)
  BY <1>1, ActsImageInv
<1>2. CASE FanList \/ FanSpawn
  BY <1>2, FanListImageInv, FanSpawnImageInv
<1>3. CASE Aside
  <2>1. UNCHANGED <<jobs, lastId, pending, task, images>>
    BY <1>3, AsideInv DEF storeVars
  <2>2. fan'.todo \subseteq fan.todo
    BY <1>3, AsideInv
  <2>3. QED
    BY <2>1, <2>2, UntouchedImageInv
<1>4. CASE Interrupt
  <2>1. fan'.todo = fan.todo
    BY <1>4 DEF Interrupt, DaemonInv, DaemonTypeOK
  <2>2. UNCHANGED <<jobs, lastId, pending, task, images>>
    BY <1>4 DEF Interrupt, KeepStore, KeepHost, KeepTasks, storeVars, hostVars
  <2>3. QED
    BY <2>1, <2>2, UntouchedImageInv
<1>5. CASE ProcessEnds
  BY <1>5, ProcessEndsImageInv
<1>6. CASE UNCHANGED vars
  BY <1>6, UntouchedImageInv DEF vars, storeVars, hostVars, daemonVars
<1>7. QED
  BY <1>1, <1>2, <1>3, <1>4, <1>5, <1>6, ServeKinds
     DEF DaemonNext, DaemonCrash, Aside

\* A job without hooks that handleResume accepts has an image for criu to
\* restore, for any number of connections, workers and jobs and whatever
\* fails, a crash between the dump and the status included, as long as users
\* do not prune.  The jobs with hooks beside it do it no harm.
THEOREM DaemonResumableHasImage ==
    ASSUME Ops \cap {"prune", "pruneAll"} = {}
    PROVE  DaemonSpec => []ResumableHasImage
<1>1. DaemonInit => ImageInv
  <2> SUFFICES ASSUME DaemonInit PROVE ImageInv
    OBVIOUS
  <2>1. NoRow.status = ABSENT
    BY DEF NoRow
  <2>2. \A id \in Ids : jobs[id].status = ABSENT
    BY <2>1 DEF DaemonInit, Init
  <2>3. ResumableHasImage
    BY <2>2 DEF ResumableHasImage
  <2>4. NoTask.pc = "idle" /\ NoTask.then = "idle" /\ NoCall.op = "none"
    BY DEF NoTask, NoCall
  <2>5. \A t \in Callers : task[t] = NoTask /\ pending[t] = NoCall
    BY DEF DaemonInit, Init
  <2>6. CallDirs /\ OneSetter
    BY <2>4, <2>5 DEF CallDirs, OneSetter, Idle
  <2>7. TaskDirs
    BY <2>4, <2>5 DEF TaskDirs, DirOK
  <2>8. FanDirs
    BY DEF DaemonInit, FanDirs
  <2>9. QED
    BY <2>3, <2>6, <2>7, <2>8 DEF ImageInv
<1>2. DaemonInv /\ ImageInv /\ [DaemonNext]_vars => ImageInv'
  BY NextImageInv
<1>3. ImageInv => ResumableHasImage
  BY DEF ImageInv
<1>4. QED
  BY <1>1, <1>2, <1>3, DaemonInvariant, PTL DEF DaemonSpec

-----------------------------------------------------------------------------
(* What prune removes                                                       *)

\* A directory of a job that has ended.
EndedIn(dir) == \E id \in 1..lastId : jobs[id].dir = dir /\ Ended(id)

\* What a prune handler still has to remove was such a directory when it was
\* listed, and still is: rows keep the directory they have got, and history
\* forgets nothing.
PruneInv ==
    \A t \in Callers : task[t].pc = "remove" =>
        \A dir \in task[t].dirs : dir # NoDir => EndedIn(dir)

\* A terminal status is in the job's history.
LEMMA TerminalEnded ==
    ASSUME HistoryInv, NEW id \in 1..lastId, IsTerminal(jobs[id].status)
    PROVE  Ended(id)
<1>1. Covered(id, jobs[id].status)
  BY StatusCovered DEF Exists
<1>2. jobs[id].status \notin InitialStatuses
  BY DEF IsTerminal, terminalStatuses, InitialStatuses
<1>3. QED
  BY <1>1, <1>2 DEF Covered, Ended

\* The directory of a job that has ended stays one, whatever is written.
LEMMA EndedInStays ==
    ASSUME DaemonInv, SetterInv, [Next]_storeVars, NEW t \in Callers, RowsGrow(t),
           NEW dir, dir # NoDir, EndedIn(dir)
    PROVE  \E id \in 1..lastId' :
             /\ jobs'[id].dir = dir
             /\ \E k \in DOMAIN history'[id] : IsTerminal(history'[id][k].to)
<1>1. PICK id \in 1..lastId : jobs[id].dir = dir /\ Ended(id)
  BY DEF EndedIn
<1>2. PICK k \in DOMAIN history[id] : IsTerminal(history[id][k].to)
  BY <1>1 DEF Ended
<1>3. /\ TypeOK
      /\ id \in Ids
      /\ id \in 1..lastId'
  BY MaxJobsAssumption DEF DaemonInv, DaemonTypeOK, TypeOK, Ids, RowsGrow
<1>4. k \in DOMAIN history'[id] /\ history'[id][k] = history[id][k]
  BY <1>3, HistoryGrows
<1>5. jobs'[id].dir = dir
  BY <1>1 DEF RowsGrow, SetterInv
<1>6. QED
  BY <1>2, <1>3, <1>4, <1>5

\* A step of a goroutine keeps PruneInv.
LEMMA ActsPruneInv ==
    ASSUME DaemonInv, HistoryInv, SetterInv, PruneInv, [Next]_storeVars,
           NEW t \in Callers, Acts(t)
    PROVE  PruneInv'
<1> SUFFICES ASSUME NEW u \in Callers, task'[u].pc = "remove",
                    NEW dir \in task'[u].dirs, dir # NoDir
             PROVE  EndedIn(dir)'
  BY DEF PruneInv
<1>1. RowsGrow(t)
  BY ActsRowsGrow
<1>2. EndedIn(dir)
  <2>1. CASE u # t
    BY <2>1, OthersKept DEF PruneInv
  <2>2. CASE u = t
    <3>1. ~DirStep(t)
      BY <2>2 DEF DirStep
    <3>2. PruneGet(t) \/ PruneRemove(t)
      BY <2>2, <3>1, ArrivalDirOK, RegisterDirOK, RequestDirOK, ResumeDirOK, LaterPcs
         DEF Acts, HandlerStep
    <3>3. \/ task[t].pc = "remove" /\ dir \in task[t].dirs
          \/ \E id \in 1..lastId :
                jobs[id].dir = dir /\ IsTerminal(jobs[id].status)
      BY <2>2, <3>2, PruneNext
    <3>4. QED
      BY <3>3, TerminalEnded DEF PruneInv, EndedIn
  <2>3. QED
    BY <2>1, <2>2
<1>3. QED
  BY <1>1, <1>2, EndedInStays DEF EndedIn, Ended

\* An image goes only in PruneRemove, from a directory that it holds.
LEMMA RemovedByPrune ==
    ASSUME DaemonInv, [DaemonNext]_vars, NEW dir \in images \ images'
    PROVE  \E t \in Callers : task[t].pc = "remove" /\ dir \in task[t].dirs
<1>1. PICK t \in Callers : Acts(t)
  <2>1. ~Aside
    BY AsideInv
  <2>2. ~FanList /\ ~FanSpawn /\ ~Interrupt /\ ~ProcessEnds /\ ~UNCHANGED vars
    BY DEF FanList, FanSpawn, Interrupt, ProcessEnds, KeepHost, vars, hostVars
  <2>3. QED
    BY <2>1, <2>2, ServeKinds DEF DaemonNext, DaemonCrash, Aside
<1>2. task[t].pc = "remove"
  BY <1>1, ImagesKept
<1>3. PruneRemove(t)
  <2>1. ~Arrival(t)
    BY <1>2 DEF Arrival, AcceptRegister, AcceptAdopt, AcceptPause, AcceptResume,
           AcceptCancel, AcceptShow, AcceptPrune, AcceptOnJob, AcceptPruneAll,
           AcceptComplete, Accept, Busy
  <2>2. CASE HandlerStep(t)
    BY <1>2, <2>2 DEF HandlerStep, At, Latch, AdoptScan, RegisterInsert,
           SetDefaultDir, PauseGet, ResumeGet, CancelGet, CompleteGet, GetRow,
           CancelKill, Mark, PruneGet, ResumeBegin, ShowGet, ShowHistory,
           ResumeRestore, ResumeUpdatePID, ResumeFailed
  <2>3. ~CheckpointStep(t) /\ ~Commit(t)
    BY <1>2 DEF CheckpointStep, Commit, At, CheckpointBegin, CheckpointDump,
           CheckpointCreated, CheckpointFailed
  <2>4. QED
    BY <1>1, <2>1, <2>2, <2>3 DEF Acts
<1>4. dir \in task[t].dirs
  BY <1>3 DEF PruneRemove, RemoveAll, KeepHost, hostVars
<1>5. QED
  BY <1>2, <1>4

\* Every step keeps the invariants.
LEMMA NextPruneInv ==
    ASSUME DaemonInv, HistoryInv, SetterInv, PruneInv, [DaemonNext]_vars
    PROVE  SetterInv' /\ PruneInv'
<1>1. [Next]_storeVars
  BY AnyStepUsesStore, DaemonNextIsAny
<1>2. CASE \E t \in Callers : Acts(t)
  BY <1>1, <1>2, ActsSetterInv, ActsPruneInv
<1>3. ASSUME UNCHANGED <<jobs, lastId, history>>,
             \A u \in Callers : task'[u].pc \in {"setdir", "remove"}
                                  => task'[u] = task[u]
      PROVE  SetterInv' /\ PruneInv'
  <2>1. SetterInv'
    BY <1>3 DEF SetterInv, OneSetter
  <2>2. PruneInv'
    BY <1>3 DEF PruneInv, EndedIn, Ended
  <2>3. QED
    BY <2>1, <2>2
<1>4. CASE FanSpawn
  <2>1. /\ UNCHANGED <<jobs, lastId, history>>
        /\ \E s \in fan.todo, r \in Task :
              r.pc = "begin" /\ s.id \in Ids /\ task' = [task EXCEPT ![s.id] = r]
    BY <1>4, FanSpawnInv DEF storeVars
  <2>2. task \in [Callers -> Task] /\ \A id \in Ids : id \in Callers
    BY CallerKinds DEF DaemonInv, DaemonTypeOK
  <2>3. QED
    BY <1>3, <2>1, <2>2
<1>5. CASE FanList \/ Aside \/ Interrupt \/ UNCHANGED vars
  <2>1. UNCHANGED <<jobs, lastId, history, task>>
    BY <1>5, AsideInv DEF FanList, Interrupt, KeepStore, KeepTasks, storeVars,
           vars, daemonVars
  <2>2. QED
    BY <1>3, <2>1
<1>6. CASE ProcessEnds
  <2>1. /\ UNCHANGED <<jobs, lastId, history>>
        /\ task' = [t \in Callers |-> NoTask]
    BY <1>6 DEF ProcessEnds, Crash
  <2>2. QED
    BY <1>3, <2>1, NoTaskOK
<1>7. QED
  BY <1>2, <1>4, <1>5, <1>6, ServeKinds DEF DaemonNext, DaemonCrash, Aside

\* However requests, signals, crashes and failures overlap, for any number of
\* connections, jobs and directories, the files that handlePrune removes are
\* in the directory of a job that has ended.
THEOREM DaemonPruneTakesEnded == DaemonSpec => PruneTakesEnded
<1> DEFINE Taken == \A dir \in images \ images' :
                      \E id \in Ids : jobs[id].dir = dir /\ Ended(id)
<1>1. DaemonInit => HistoryInv /\ SetterInv /\ PruneInv
  <2> SUFFICES ASSUME DaemonInit PROVE HistoryInv /\ SetterInv /\ PruneInv
    OBVIOUS
  <2>1. \A t \in Callers : task[t].pc = "idle"
    BY NoTaskOK DEF DaemonInit
  <2>2. SetterInv /\ PruneInv
    BY <2>1 DEF SetterInv, OneSetter, PruneInv
  <2>3. QED
    BY <2>2, InitHistoryInv DEF DaemonInit
<1>2. DaemonInv /\ HistoryInv /\ SetterInv /\ PruneInv /\ [DaemonNext]_vars
        => HistoryInv' /\ SetterInv' /\ PruneInv'
  BY NextPruneInv, AnyStepUsesStore, NextHistoryInv, DaemonNextIsAny
<1>3. DaemonInv /\ PruneInv /\ [DaemonNext]_vars => [Taken]_vars
  <2> SUFFICES ASSUME DaemonInv, PruneInv, [DaemonNext]_vars,
                      NEW dir \in images \ images'
               PROVE  \E id \in Ids : jobs[id].dir = dir /\ Ended(id)
    OBVIOUS
  <2>1. PICK t \in Callers : task[t].pc = "remove" /\ dir \in task[t].dirs
    BY RemovedByPrune
  <2>2. dir # NoDir
    BY NoDirAssumption DEF DaemonInv, DaemonTypeOK, HostTypeOK
  <2>3. PICK id \in 1..lastId : jobs[id].dir = dir /\ Ended(id)
    BY <2>1, <2>2 DEF PruneInv, EndedIn
  <2>4. id \in Ids
    BY MaxJobsAssumption DEF DaemonInv, DaemonTypeOK, TypeOK, Ids
  <2>5. QED
    BY <2>3, <2>4
<1> HIDE DEF Taken
<1>4. DaemonSpec => [][Taken]_vars
  BY <1>1, <1>2, <1>3, DaemonInvariant, PTL DEF DaemonSpec
<1>5. QED
  BY <1>4 DEF PruneTakesEnded, Taken

=============================================================================
