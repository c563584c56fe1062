------------------------------- MODULE Daemon -------------------------------
(***************************************************************************)
(* internal/daemon: one goroutine per client connection (a handler), the   *)
(* interruption fan-out with one worker goroutine per job, and the         *)
(* in-memory interruption latch, on top of the store and the host.         *)
(*                                                                         *)
(* A goroutine is a record whose pc names its next step.  Steps are split  *)
(* where other goroutines can run in between: at each store call (and      *)
(* inside UpdateStatus/UpdatePID, see Store), at the atomic load of the    *)
(* latch, and around criu, hooks, signals and file removal.                *)
(*                                                                         *)
(* ping and list read at most once and are not modelled; show reads twice. *)
(* A payload that is missing or whose hook paths are invalid is answered   *)
(* in Refuse.                                                              *)
(***************************************************************************)
EXTENDS Store, Host, FiniteSets

CONSTANTS
    Handlers,                  \* connections served at the same time
    MaxRequests,               \* bound: requests that users send
    MaxSignals,                \* bound: provider signals (rebalance, notice)
    MaxConcurrentCheckpoints,  \* after New: at least 1
    Ops,                       \* the kinds of request that users send
    Notifier,                  \* is a notification target configured?
    Faults                     \* what may go wrong: a subset of AllFaults

ASSUME CallersAssumption == Callers = Handlers \cup Ids
ASSUME HandlersAssumption == Handlers \cap Ids = {}
ASSUME ConcurrencyAssumption == MaxConcurrentCheckpoints \in Nat \ {0}
ASSUME BoundsAssumption == MaxRequests \in Nat /\ MaxSignals \in Nat

\* crash: the daemon dies or is stopped.  db: the database fails a write or
\* List.  pidfile: a restore succeeds but its pid cannot be read, or the hook
\* prints none.  hang: criu or a hook never returns; it has no deadline.
AllFaults == {"crash", "db", "pidfile", "hang"}

ASSUME FaultsAssumption == Faults \subseteq AllFaults
ASSUME NotifierAssumption == Notifier \in BOOLEAN

VARIABLES
    task,          \* by goroutine (handler, or worker named by its job's id)
    interrupted,   \* the latch, in memory only
    fan,           \* handleInterruption: its step and the jobs to start
    notes,         \* the goroutines that notify started, oldest first
    requests,      \* requests accepted so far
    signals,       \* signals received so far
    up             \* is the daemon process alive?

daemonVars == <<task, interrupted, fan, notes, requests, signals, up>>
vars == <<storeVars, hostVars, daemonVars>>

\* The fan-out's workers, one per job id.
Workers == Ids

\* op: what the goroutine serves.  pc: its next step.  then: where it goes
\* after a store update, whether that succeeds or not.  id, pid, dir: the
\* request's, or those of the row it has read.  to: the status that complete
\* writes, or that show has read.  dirs: what prune still has to remove.
\* hooks: those that the request registers.
NoTask == [op |-> "none", pc |-> "idle", then |-> "idle", id |-> 0,
           pid |-> NoPid, dir |-> NoDir, to |-> ABSENT, dirs |-> {}, hooks |-> {}]

RegisterOps == {"run", "join"}
JobOps == {"pause", "resume", "cancel", "prune", "show"}

AdoptOps == {"adopt"}

UserOps == RegisterOps \cup JobOps \cup AdoptOps \cup {"pruneAll"}
TaskOps == UserOps \cup {"none", "complete", "worker"}

Pcs == {"idle", "latch", "scan", "insert", "setdir", "get", "kill", "mark",
        "remove", "begin", "dump", "created", "failed", "pend", "restore",
        "pid", "restoreFailed", "commit", "history", "hung"}

Task == [op : TaskOps, pc : Pcs, then : Pcs, id : Ids \cup {0},
         pid : Pids \cup {NoPid}, dir : Dirs \cup {NoDir},
         to : Statuses \cup {ABSENT},
         dirs : SUBSET (Dirs \cup {NoDir}), hooks : SUBSET Hooks]

\* A job as List returned it to the fan-out.
Snapshot == [id : Ids, pid : Pids \cup {NoPid}, dir : Dirs \cup {NoDir}]

\* A notification: the jobs that its payload names, and whether the call of
\* the target is still under way.
Note == [jobs : SUBSET Ids, st : {"sending", "returned"}]

ASSUME OpsAssumption == Ops \subseteq UserOps

Busy(t) == task[t].pc # "idle"
Hung(t) == task[t].pc = "hung"

\* A request that has not inserted its row yet: it uses up one id.
Registering ==
    {h \in Handlers : task[h].op \in RegisterOps \cup AdoptOps
                      /\ task[h].pc \in {"latch", "scan", "insert"}}

-----------------------------------------------------------------------------
(* Helpers                                                                  *)

Become(t, r) == task' = [task EXCEPT ![t] = r]
Goto(t, pc) == task' = [task EXCEPT ![t].pc = pc]
Finish(t) == Become(t, NoTask)

\* Go to pc, or end there.
Continue(t, pc) == IF pc = "idle" THEN Finish(t) ELSE Goto(t, pc)

KeepRest == UNCHANGED <<interrupted, fan, notes, requests, signals, up>>
KeepHost == UNCHANGED hostVars
KeepStore == UNCHANGED storeVars

At(t, pc) == up /\ task[t].pc = pc

\* Mutant: the transaction is run although the transition was refused.
CallStatusIgnoresRefusal(t, to, then) ==
    /\ \/ /\ UpdateStatusRead(t, task[t].id, to, ReasonFor(to))
          /\ task' = [task EXCEPT ![t].pc = "commit", ![t].then = then]
       \/ /\ UpdateRejected(task[t].id, to)
          /\ task' = [task EXCEPT ![t].pc = "commit", ![t].then = then]
          /\ KeepStore
    /\ KeepHost /\ KeepRest

\* Call UpdateStatus.  Every caller in the daemon goes on at the same place
\* whether the call succeeds or returns an error: cancel and complete answer,
\* checkpointJob and resumeJob log the error and carry on.
CallStatus(t, to, then) ==
    /\ \/ /\ UpdateStatusRead(t, task[t].id, to, ReasonFor(to))
          /\ task' = [task EXCEPT ![t].pc = "commit", ![t].then = then]
       \/ /\ UpdateRejected(task[t].id, to)
          /\ Continue(t, then)
          /\ KeepStore
    /\ KeepHost /\ KeepRest

\* The transaction of the call, which the database may fail.
Commit(t) ==
    /\ At(t, "commit")
    /\ UpdateCommit(t) \/ ("db" \in Faults /\ UpdateRollback(t))
    /\ IF task[t].then = "idle" THEN Finish(t)
       ELSE task' = [task EXCEPT ![t].pc = task[t].then, ![t].then = "idle"]
    /\ KeepHost /\ KeepRest

-----------------------------------------------------------------------------
(* Requests arrive                                                          *)

Accept(h, r) ==
    /\ up
    /\ ~Busy(h)
    /\ Become(h, r)
    /\ KeepStore
    /\ UNCHANGED <<interrupted, fan, notes, signals, up>>

UserRequest == requests < MaxRequests /\ requests' = requests + 1

\* run and join both send Register.
AcceptRegister(h) ==
    \E op \in RegisterOps \cap Ops, p \in Pids, dir \in UserDirs \cup {NoDir},
       hooks \in SUBSET Hooks :
        /\ lastId + Cardinality(Registering) < MaxJobs
        /\ UserRequest
        /\ Accept(h, [NoTask EXCEPT !.op = op, !.pc = "latch",
                                    !.pid = p, !.dir = dir, !.hooks = hooks])
        /\ IF op = "run" THEN StartRun(p) ELSE StartJoin(p)

AcceptAdopt(h) ==
    \E op \in AdoptOps \cap Ops, dir \in Dirs, hooks \in SUBSET Hooks :
        /\ lastId + Cardinality(Registering) < MaxJobs
        /\ UserRequest
        /\ Accept(h, [NoTask EXCEPT !.op = op, !.pc = "latch",
                                    !.dir = dir, !.hooks = hooks])
        /\ KeepHost

\* A request that names a job.
AcceptOnJob(h, op, pc) ==
    /\ op \in Ops
    /\ UserRequest
    /\ \E id \in Ids : Accept(h, [NoTask EXCEPT !.op = op, !.id = id, !.pc = pc])
    /\ KeepHost

\* handlePause looks at the latch first.
AcceptPause(h) == AcceptOnJob(h, "pause", "latch")
AcceptResume(h) == AcceptOnJob(h, "resume", "get")
AcceptCancel(h) == AcceptOnJob(h, "cancel", "get")
AcceptShow(h) == AcceptOnJob(h, "show", "get")
AcceptPrune(h) == AcceptOnJob(h, "prune", "get")

AcceptPruneAll(h) ==
    /\ "pruneAll" \in Ops
    /\ UserRequest
    /\ Accept(h, [NoTask EXCEPT !.op = "pruneAll", !.pc = "get"])
    /\ KeepHost

\* Mutant: runCmd returns the error of a failed child before it reports.
AcceptCompleteOnlySuccess(h) ==
    \E p \in Pids :
        /\ cli[p].st = "exit0"
        /\ cli[p].id # 0
        /\ Accept(h, [NoTask EXCEPT !.op = "complete", !.pc = "get",
                        !.id = cli[p].id, !.to = COMPLETED])
        /\ cli' = [cli EXCEPT ![p] = NoRun]
        /\ UNCHANGED <<live, work, images, requests>>

\* runCmd reports the exit of its child, some time after it happened.
AcceptComplete(h) ==
    \E p \in Pids :
        /\ cli[p].st \in {"exit0", "exit1"}
        /\ cli[p].id # 0
        /\ Accept(h, [NoTask EXCEPT !.op = "complete", !.pc = "get",
                        !.id = cli[p].id,
                        !.to = IF cli[p].st = "exit0" THEN COMPLETED ELSE FAILED])
        /\ cli' = [cli EXCEPT ![p] = NoRun]
        /\ UNCHANGED <<live, work, images, requests>>

-----------------------------------------------------------------------------
(* handleRegister and handleAdopt                                           *)

\* Answer with an error before anything was stored.  A run command that is
\* refused goes on without protection and will not report.
Refuse(h) ==
    /\ Finish(h)
    /\ cli' = IF task[h].op = "run" THEN [cli EXCEPT ![task[h].pid] = NoRun]
              ELSE cli
    /\ UNCHANGED <<live, work, images>>
    /\ KeepStore /\ KeepRest

\* Answer OK with the job's id.
Acknowledge(h, id) ==
    /\ Finish(h)
    /\ cli' = IF task[h].op = "run" THEN [cli EXCEPT ![task[h].pid].id = id]
              ELSE cli

\* The atomic load of the latch, and the checks of the request itself.
Latch(h) ==
    /\ At(h, "latch")
    /\ \/ Refuse(h)
       \/ /\ ~interrupted
          /\ Goto(h, CASE task[h].op \in RegisterOps -> "insert"
                       [] task[h].op \in AdoptOps -> "scan"
                       [] task[h].op = "pause" -> "get")
          /\ KeepStore /\ KeepHost /\ KeepRest

\* validateCheckpointDir, which looks for an image only if no hook restores
\* it, and the scan of the active jobs for a duplicate.
AdoptScan(h) ==
    /\ At(h, "scan")
    /\ IF /\ task[h].dir \in images \/ "resume" \in task[h].hooks
          /\ \A id \in 1..lastId :
                ~IsTerminal(jobs[id].status) => jobs[id].dir # task[h].dir
       THEN /\ Goto(h, "insert")
            /\ KeepStore /\ KeepHost /\ KeepRest
       ELSE Refuse(h)

InsertedRow(h) ==
    [status |-> IF task[h].op \in AdoptOps THEN CHECKPOINT_CREATED ELSE RUNNING,
     pid |-> task[h].pid, dir |-> task[h].dir, reason |-> "",
     hooks |-> task[h].hooks]

\* store.Insert.  The row is visible, without a directory when the request
\* named none, before SetDefaultDir completes it.
RegisterInsert(h) ==
    /\ At(h, "insert")
    /\ \/ /\ Insert(InsertedRow(h))
          /\ work' = [p \in Pids |->
                        IF p = task[h].pid /\ p \in live THEN lastId + 1
                        ELSE work[p]]
          /\ IF task[h].dir = NoDir
             THEN /\ task' = [task EXCEPT ![h].pc = "setdir",
                                          ![h].id = lastId + 1]
                  /\ UNCHANGED cli
             ELSE Acknowledge(h, lastId + 1)
          /\ UNCHANGED <<live, images>>
          /\ KeepRest
       \/ "db" \in Faults /\ Refuse(h)

\* Mutant: the whole row is saved again, over what others wrote meanwhile.
SetDefaultDirSavesRow(h) ==
    /\ At(h, "setdir")
    /\ jobs' = [jobs EXCEPT ![task[h].id] =
                  [InsertedRow(h) EXCEPT !.dir = DefaultDir(task[h].id)]]
    /\ UNCHANGED <<lastId, history, pending>>
    /\ Acknowledge(h, task[h].id)
    /\ UNCHANGED <<live, work, images>>
    /\ KeepRest

\* The follow-up UpdateCheckpointDir, whose error is only logged.
SetDefaultDir(h) ==
    /\ At(h, "setdir")
    /\ \/ UpdateCheckpointDir(task[h].id, DefaultDir(task[h].id))
       \/ "db" \in Faults /\ KeepStore
    /\ Acknowledge(h, task[h].id)
    /\ UNCHANGED <<live, work, images>>
    /\ KeepRest

-----------------------------------------------------------------------------
(* The handlers that start with store.Get: handlePause, handleResume,       *)
(* handleCancel, handleComplete and handlePrune                             *)

\* Mutant: no answer is sent when the job is not in a suitable status.
GetRowNeverRefuses(h, op, ok, pc) ==
    /\ At(h, "get")
    /\ task[h].op = op
    /\ Exists(task[h].id) /\ ok
    /\ task' = [task EXCEPT ![h].pc = pc,
                            ![h].pid = jobs[task[h].id].pid,
                            ![h].dir = jobs[task[h].id].dir]
    /\ KeepStore /\ KeepHost /\ KeepRest

\* Take the row as it is now, or answer at once when `ok' does not hold.
GetRow(h, op, ok, pc) ==
    /\ At(h, "get")
    /\ task[h].op = op
    /\ IF Exists(task[h].id) /\ ok
       THEN task' = [task EXCEPT ![h].pc = pc,
                                 ![h].pid = jobs[task[h].id].pid,
                                 ![h].dir = jobs[task[h].id].dir]
       ELSE Finish(h)
    /\ KeepStore /\ KeepHost /\ KeepRest

StatusIn(h, statuses) == jobs[task[h].id].status \in statuses

PauseGet(h) == GetRow(h, "pause", StatusIn(h, {RUNNING}), "begin")

ResumeGet(h) ==
    GetRow(h, "resume", StatusIn(h, {CHECKPOINT_CREATED, RESTORE_FAILED}), "pend")

CancelGet(h) ==
    GetRow(h, "cancel", TRUE, IF StatusIn(h, {RUNNING}) THEN "kill" ELSE "mark")

\* A report for a job that is not RUNNING is ignored.
CompleteGet(h) == GetRow(h, "complete", StatusIn(h, {RUNNING}), "mark")

\* SIGTERM to the group of the row that was read, or an error and no update.
CancelKill(h) ==
    /\ At(h, "kill")
    /\ \/ KillGroup(task[h].pid) /\ Goto(h, "mark")
       \/ KeepHost /\ Finish(h)
    /\ KeepStore /\ KeepRest

\* The status that cancel or complete writes.
Mark(h) ==
    /\ At(h, "mark")
    /\ CallStatus(h, IF task[h].op = "cancel" THEN CANCELED ELSE task[h].to,
                  "idle")

\* Mutant: List in place of ListTerminal, and no check of a single job.
PruneGetAnyStatus(h) ==
    LET asked == IF task[h].op = "prune" THEN {task[h].id} ELSE Ids
        dirs == {jobs[id].dir : id \in (1..lastId) \cap asked}
    IN
    /\ At(h, "get")
    /\ task[h].op \in {"prune", "pruneAll"}
    /\ IF dirs = {} THEN Finish(h)
       ELSE task' = [task EXCEPT ![h].pc = "remove", ![h].dirs = dirs]
    /\ KeepStore /\ KeepHost /\ KeepRest

\* One terminal job, or every job that ListTerminal returns.
PruneGet(h) ==
    LET terminal == {id \in 1..lastId : IsTerminal(jobs[id].status)}
        asked == IF task[h].op = "prune" THEN {task[h].id} ELSE Ids
        dirs == {jobs[id].dir : id \in terminal \cap asked}
    IN
    /\ At(h, "get")
    /\ task[h].op \in {"prune", "pruneAll"}
    /\ IF dirs = {} THEN Finish(h)
       ELSE task' = [task EXCEPT ![h].pc = "remove", ![h].dirs = dirs]
    /\ KeepStore /\ KeepHost /\ KeepRest

\* Remove one directory after the other; a failure is collected, not fatal.
PruneRemove(h) ==
    /\ At(h, "remove")
    /\ \E dir \in task[h].dirs :
        /\ RemoveAll(dir) \/ KeepHost
        /\ IF task[h].dirs = {dir} THEN Finish(h)
           ELSE task' = [task EXCEPT ![h].dirs = @ \ {dir}]
    /\ KeepStore /\ KeepRest

\* The first read of handleShow, and the answer if there is no such job or its
\* history is not asked for.
ShowGet(h) ==
    /\ At(h, "get")
    /\ task[h].op = "show"
    /\ \/ /\ Exists(task[h].id)
          /\ task' = [task EXCEPT ![h].pc = "history",
                                  ![h].to = jobs[task[h].id].status]
       \/ Finish(h)
    /\ KeepStore /\ KeepHost /\ KeepRest

\* The second one: store.History as it is now, and the answer.
ShowHistory(h) ==
    /\ At(h, "history")
    /\ Finish(h)
    /\ KeepStore /\ KeepHost /\ KeepRest

-----------------------------------------------------------------------------
(* checkpointJob, for a pause handler or a fan-out worker, and resumeJob    *)

\* The hooks in the row that was read; only Insert writes them.
HooksOf(t) == jobs[task[t].id].hooks

\* checkpoint.Run, with the pid and the directory of the row read earlier: the
\* job's hook if it has one, otherwise criu.
CheckpointRuns(t) ==
    IF "checkpoint" \in HooksOf(t) THEN HookCheckpoints(task[t].dir)
    ELSE DumpSucceeds(task[t].pid, task[t].dir)

\* resume.Run, likewise.
ResumeRuns(t, pid) ==
    IF "resume" \in HooksOf(t) THEN HookResumes(task[t].id, pid)
    ELSE RestoreSucceeds(task[t].dir, task[t].id, pid)

CheckpointBegin(t) ==
    /\ At(t, "begin")
    /\ CallStatus(t, CHECKPOINT_IN_PROGRESS, "dump")

\* Mutant: a failed dump returns before CHECKPOINT_CREATION_FAILED is written.
CheckpointDumpForgetsFailure(t) ==
    /\ At(t, "dump")
    /\ \/ CheckpointRuns(t) /\ Goto(t, "created")
       \/ KeepHost /\ Finish(t)
    /\ KeepStore /\ KeepRest

\* Mutant: the error of checkpoint.Run is overwritten by a later call's.
CheckpointDumpLosesError(t) ==
    /\ At(t, "dump")
    /\ CheckpointRuns(t) \/ KeepHost
    /\ Goto(t, "created")
    /\ KeepStore /\ KeepRest

CheckpointDump(t) ==
    /\ At(t, "dump")
    /\ \/ CheckpointRuns(t) /\ Goto(t, "created")
       \/ KeepHost /\ Goto(t, "failed")
       \/ "hang" \in Faults /\ KeepHost /\ Goto(t, "hung")
    /\ KeepStore /\ KeepRest

CheckpointCreated(t) ==
    /\ At(t, "created")
    /\ CallStatus(t, CHECKPOINT_CREATED, "idle")

CheckpointFailed(t) ==
    /\ At(t, "failed")
    /\ CallStatus(t, CHECKPOINT_CREATION_FAILED, "idle")

ResumeBegin(t) ==
    /\ At(t, "pend")
    /\ CallStatus(t, RESTORE_PENDING, "restore")

\* Mutant: a failed restore returns before RESTORE_FAILED is written.
ResumeRestoreForgetsFailure(t) ==
    /\ At(t, "restore")
    /\ \/ \E pid \in Pids :
            /\ ResumeRuns(t, pid)
            /\ task' = [task EXCEPT ![t].pc = "pid", ![t].pid = pid]
       \/ KeepHost /\ Finish(t)
    /\ KeepStore /\ KeepRest

\* An error does not mean that nothing was started: the pid is read after the
\* restore, or from what the hook prints.
ResumeRestore(t) ==
    /\ At(t, "restore")
    /\ \/ \E pid \in Pids :
            /\ ResumeRuns(t, pid)
            /\ \/ task' = [task EXCEPT ![t].pc = "pid", ![t].pid = pid]
               \/ "pidfile" \in Faults /\ Goto(t, "restoreFailed")
       \/ KeepHost /\ Goto(t, "restoreFailed")
       \/ "hang" \in Faults /\ KeepHost /\ Goto(t, "hung")
    /\ KeepStore /\ KeepRest

\* UpdatePID, whose error is only logged; then handleResume answers.
ResumeUpdatePID(t) ==
    /\ At(t, "pid")
    /\ \/ /\ UpdatePIDRead(t, task[t].id, task[t].pid)
          /\ Goto(t, "commit")
       \/ /\ UpdateRejected(task[t].id, RUNNING)
          /\ Finish(t)
          /\ KeepStore
    /\ KeepHost /\ KeepRest

ResumeFailed(t) ==
    /\ At(t, "restoreFailed")
    /\ CallStatus(t, RESTORE_FAILED, "idle")

-----------------------------------------------------------------------------
(* handleInterruption                                                       *)

KeepTasks == UNCHANGED <<task, requests, up>>

\* The provider calls back; the latch is set before anything else.
Interrupt ==
    /\ up
    /\ signals < MaxSignals
    /\ signals' = signals + 1
    /\ interrupted' = TRUE
    /\ fan' = [fan EXCEPT !.pc = "list"]
    /\ UNCHANGED notes
    /\ KeepStore /\ KeepHost /\ KeepTasks

Runnable == {id \in 1..lastId : jobs[id].status = RUNNING}

\* notify: a goroutine of its own, even if no job is RUNNING.
notify(ids) ==
    notes' = IF Notifier THEN Append(notes, [jobs |-> ids, st |-> "sending"])
             ELSE notes

\* Mutant: the target is notified of what is left after the fan-out.
FanListNotifiesLater ==
    /\ up
    /\ fan.pc = "list"
    /\ fan' = [pc |-> "spawn",
               todo |-> {[id |-> id, pid |-> jobs[id].pid, dir |-> jobs[id].dir] :
                         id \in Runnable}]
    /\ notify({})
    /\ KeepStore /\ KeepHost /\ KeepTasks
    /\ UNCHANGED <<interrupted, signals>>

\* List, keep the RUNNING ones and notify; if List fails nobody is notified
\* and nothing is checkpointed.
FanList ==
    /\ up
    /\ fan.pc = "list"
    /\ \/ /\ fan' = [pc |-> "spawn",
                     todo |-> {[id |-> id, pid |-> jobs[id].pid, dir |-> jobs[id].dir] :
                               id \in Runnable}]
          /\ notify(Runnable)
       \/ /\ "db" \in Faults
          /\ fan' = [fan EXCEPT !.pc = "idle"]
          /\ UNCHANGED notes
    /\ KeepStore /\ KeepHost /\ KeepTasks
    /\ UNCHANGED <<interrupted, signals>>

BusyWorkers == {w \in Workers : Busy(w)}

\* Mutant: one worker more than the semaphore has slots.
FanSpawnOffByOne ==
    /\ up
    /\ Cardinality(BusyWorkers) <= MaxConcurrentCheckpoints
    /\ \E s \in fan.todo :
        /\ Become(s.id, [NoTask EXCEPT !.op = "worker", !.pc = "begin",
                            !.id = s.id, !.pid = s.pid, !.dir = s.dir])
        /\ fan' = [fan EXCEPT !.todo = @ \ {s}]
    /\ KeepStore /\ KeepHost
    /\ UNCHANGED <<interrupted, notes, requests, signals, up>>

\* Mutant: a job that finds the semaphore full is skipped.
FanSpawnSkipsWhenFull ==
    /\ up
    /\ \E s \in fan.todo :
        /\ IF Cardinality(BusyWorkers) < MaxConcurrentCheckpoints
           THEN Become(s.id, [NoTask EXCEPT !.op = "worker", !.pc = "begin",
                                !.id = s.id, !.pid = s.pid, !.dir = s.dir])
           ELSE UNCHANGED task
        /\ fan' = [fan EXCEPT !.todo = @ \ {s}]
    /\ KeepStore /\ KeepHost
    /\ UNCHANGED <<interrupted, notes, requests, signals, up>>

\* Mutant: the fan-out waits for the target's answer.
FanSpawnAwaitsTarget ==
    /\ up
    /\ \A n \in DOMAIN notes : notes[n].st = "returned"
    /\ Cardinality(BusyWorkers) < MaxConcurrentCheckpoints
    /\ \E s \in fan.todo :
        /\ Become(s.id, [NoTask EXCEPT !.op = "worker", !.pc = "begin",
                            !.id = s.id, !.pid = s.pid, !.dir = s.dir])
        /\ fan' = [fan EXCEPT !.todo = @ \ {s}]
    /\ KeepStore /\ KeepHost
    /\ UNCHANGED <<interrupted, notes, requests, signals, up>>

\* Take a slot of the semaphore and start a worker with the listed row.  Each
\* call of handleInterruption has a semaphore of its own; fan-outs do not
\* overlap (DaemonNext, and OneFanOut in Watch), so the workers of this one
\* are all there are.
FanSpawn ==
    /\ up
    /\ Cardinality(BusyWorkers) < MaxConcurrentCheckpoints
    /\ \E s \in fan.todo :
        /\ Become(s.id, [NoTask EXCEPT !.op = "worker", !.pc = "begin",
                            !.id = s.id, !.pid = s.pid, !.dir = s.dir])
        /\ fan' = [fan EXCEPT !.todo = @ \ {s}]
    /\ KeepStore /\ KeepHost
    /\ UNCHANGED <<interrupted, notes, requests, signals, up>>

\* wg.Wait returns once every worker is done.
FanDone ==
    /\ up
    /\ fan.pc = "spawn"
    /\ fan.todo = {}
    /\ BusyWorkers = {}
    /\ fan' = [fan EXCEPT !.pc = "idle"]
    /\ KeepStore /\ KeepHost /\ KeepTasks
    /\ UNCHANGED <<interrupted, notes, signals>>

\* Notifier.Notify returns, delivered or not: the outcome is only logged.
NotifyReturns(n) ==
    /\ up
    /\ notes[n].st = "sending"
    /\ notes' = [notes EXCEPT ![n].st = "returned"]
    /\ KeepStore /\ KeepHost /\ KeepTasks
    /\ UNCHANGED <<interrupted, fan, signals>>

-----------------------------------------------------------------------------
(* The daemon process dies, or is stopped (Run returns without waiting for  *)
(* its goroutines), and is started again                                    *)

\* Goroutines, fan-out and latch are gone; a run command whose Register was
\* not answered takes that as a refusal.
ProcessEnds ==
    /\ up
    /\ Crash
    /\ task' = [t \in Callers |-> NoTask]
    /\ interrupted' = FALSE
    /\ fan' = [pc |-> "idle", todo |-> {}]
    /\ notes' = <<>>
    /\ up' = FALSE
    /\ cli' = [p \in Pids |-> IF cli[p].id = 0 THEN NoRun ELSE cli[p]]
    /\ UNCHANGED <<live, work, images, requests, signals>>

DaemonCrash == "crash" \in Faults /\ ProcessEnds

\* New and Run: the store is opened, nothing in it is looked at.
DaemonStart ==
    /\ ~up
    /\ up' = TRUE
    /\ UNCHANGED <<storeVars, hostVars, task, interrupted, fan, notes, requests, signals>>

\* A completion report finds no daemon; runCmd only warns.
ReportLost(p) ==
    /\ ~up
    /\ cli[p].st \in {"exit0", "exit1"}
    /\ cli' = [cli EXCEPT ![p] = NoRun]
    /\ UNCHANGED <<storeVars, live, work, images, daemonVars>>

ProcessExit(p) ==
    /\ Exit(p)
    /\ UNCHANGED <<storeVars, daemonVars>>

-----------------------------------------------------------------------------

DaemonInit ==
    /\ Init
    /\ HostInit
    /\ task = [t \in Callers |-> NoTask]
    /\ interrupted = FALSE
    /\ fan = [pc |-> "idle", todo |-> {}]
    /\ notes = <<>>
    /\ requests = 0
    /\ signals = 0
    /\ up = TRUE

Arrival(h) ==
    \/ AcceptRegister(h) \/ AcceptAdopt(h) \/ AcceptPause(h) \/ AcceptResume(h)
    \/ AcceptCancel(h) \/ AcceptShow(h) \/ AcceptPrune(h) \/ AcceptPruneAll(h)
    \/ AcceptComplete(h)

HandlerStep(h) ==
    \/ Latch(h) \/ AdoptScan(h) \/ RegisterInsert(h) \/ SetDefaultDir(h)
    \/ PauseGet(h) \/ ResumeGet(h) \/ CancelGet(h) \/ CompleteGet(h)
    \/ CancelKill(h) \/ Mark(h) \/ PruneGet(h) \/ PruneRemove(h)
    \/ ResumeBegin(h) \/ ResumeRestore(h) \/ ResumeUpdatePID(h)
    \/ ResumeFailed(h) \/ ShowGet(h) \/ ShowHistory(h)

CheckpointStep(t) ==
    \/ CheckpointBegin(t) \/ CheckpointDump(t)
    \/ CheckpointCreated(t) \/ CheckpointFailed(t)

FanStep == FanList \/ FanSpawn \/ FanDone

\* What the goroutines of a running daemon do, and what users, processes and
\* the notification target do to it.
ServeStep ==
    \/ \E h \in Handlers : Arrival(h) \/ HandlerStep(h)
    \/ \E t \in Callers : CheckpointStep(t) \/ Commit(t)
    \/ FanStep
    \/ \E n \in DOMAIN notes : NotifyReturns(n)
    \/ \E p \in Pids : ProcessExit(p) \/ ReportLost(p)

\* The provider calls back from one goroutine, one signal after the other.
DaemonNext ==
    \/ ServeStep
    \/ fan.pc = "idle" /\ Interrupt
    \/ DaemonCrash
    \/ DaemonStart

DaemonSpec == DaemonInit /\ [][DaemonNext]_vars

\* Go runs every goroutine that can run; criu and the hooks return unless the
\* hang fault makes them hang.  A run command whose child has exited reports
\* it.  Nothing makes users send requests, processes exit, signals come or the
\* notification target answer.
Fairness ==
    /\ \A h \in Handlers : WF_vars(HandlerStep(h)) /\ WF_vars(AcceptComplete(h))
    /\ \A t \in Callers : WF_vars(CheckpointStep(t)) /\ WF_vars(Commit(t))
    /\ WF_vars(FanStep)
    /\ WF_vars(DaemonStart)

FairDaemonSpec == DaemonSpec /\ Fairness

-----------------------------------------------------------------------------
(* Properties                                                               *)

\* Every variable has its type, and a goroutine is between the halves of a
\* store update exactly when the store holds its validated call.
DaemonTypeOK ==
    /\ TypeOK
    /\ HostTypeOK
    /\ task \in [Callers -> Task]
    /\ interrupted \in BOOLEAN
    /\ fan \in [pc : {"idle", "list", "spawn"}, todo : SUBSET Snapshot]
    /\ notes \in Seq(Note)
    /\ requests \in 0..MaxRequests
    /\ signals \in 0..MaxSignals
    /\ up \in BOOLEAN
    /\ \A t \in Callers : task[t].pc = "commit" <=> ~Idle(t)

\* Every step of the daemon uses the store's tables through the store's calls
\* only, so what is proved of the store holds of the daemon's database.
UsesStore == Spec

\* t will still write the outcome of a checkpoint of job id.
Checkpointing(t, id) ==
    /\ task[t].id = id
    /\ \/ task[t].pc \in {"dump", "created", "failed"}
       \/ pending[t].to \in {CHECKPOINT_CREATED, CHECKPOINT_CREATION_FAILED}

\* t will still write the outcome of a restore of job id.
Restoring(t, id) ==
    /\ task[t].id = id
    /\ \/ task[t].pc \in {"restore", "pid", "restoreFailed"}
       \/ pending[t].to \in {RUNNING, RESTORE_FAILED}

\* A job in CHECKPOINT_IN_PROGRESS or RESTORE_PENDING, which no request can
\* cancel, has a goroutine that will take it out of there, however pauses,
\* resumes, cancels, reports and the fan-out overlap (checkpointJob and
\* resumeJob carry on when a status update is rejected).
MidwayHasOwner ==
    \A id \in Ids :
        /\ jobs[id].status = CHECKPOINT_IN_PROGRESS
            => \E t \in Callers : Checkpointing(t, id)
        /\ jobs[id].status = RESTORE_PENDING
            => \E t \in Callers : Restoring(t, id)

\* A job without hooks that handleResume accepts has an image for criu to
\* restore: checkpointJob writes CHECKPOINT_CREATED only after the dump, a
\* crash in between included, and handleAdopt looks at the directory first.
\* (What a hook leaves is its own; a job with a checkpoint hook and no resume
\* hook is accepted and has nothing that criu could restore.)
ResumableHasImage ==
    \A id \in Ids :
        /\ jobs[id].status \in {CHECKPOINT_CREATED, RESTORE_PENDING, RESTORE_FAILED}
        /\ jobs[id].hooks = {}
        => jobs[id].dir \in images

\* handleInterruption's semaphore: no more than MaxConcurrentCheckpoints
\* workers dump at the same time, over both signals.
WorkersBounded == Cardinality(BusyWorkers) <= MaxConcurrentCheckpoints

\* The row of a job that criu checkpoints tells the truth about its processes:
\* none while it is checkpointed, only the tracked one while it is RUNNING,
\* never two, be it restored by criu or by a hook.  (Nothing makes a
\* checkpoint hook stop its process, so with one a resume may start a second.)
StatusMatchesProcess ==
    \A id \in Ids : "checkpoint" \notin jobs[id].hooks =>
        /\ jobs[id].status \in {CHECKPOINT_CREATED, RESTORE_FAILED}
            => ProcessesOf(id) = {}
        /\ jobs[id].status = RUNNING => ProcessesOf(id) \subseteq {jobs[id].pid}
        /\ Cardinality(ProcessesOf(id)) <= 1

\* Job id has been in a terminal status, whatever came after.
Ended(id) == \E k \in DOMAIN history[id] : IsTerminal(history[id][k].to)

\* handlePrune removes files long after it has read a status: however requests
\* and signals overlap and the daemon dies, an image goes only from the
\* directory of a job that has ended.  So an active job loses its image in two
\* ways only: a job that has ended shares its directory (-checkpoint-dir and
\* adopt let it), or a stale update took the job itself out of a terminal
\* status after prune had listed it.
PruneTakesEnded ==
    [][\A dir \in images \ images' :
        \E id \in Ids : jobs[id].dir = dir /\ Ended(id)]_vars

\* A status change of the daemon is one of the lifecycle's.
DaemonLifecycle == LifecycleSpec

\* handleShow reads the row and the history one after the other: the history
\* of the answer, read last, has the change that led to the status in it,
\* whatever is written in between.
HistoryCoversRow ==
    \A h \in Handlers :
        task[h].pc = "history" =>
            \/ task[h].to \in InitialStatuses
            \/ \E k \in DOMAIN history[task[h].id] :
                    history[task[h].id][k].to = task[h].to

\* The notification of a signal is under way before the first checkpoint of
\* its fan-out, and names every job that the fan-out works on.
WorkersAnnounced ==
    Notifier /\ BusyWorkers # {} =>
        notes # <<>> /\ BusyWorkers \subseteq notes[Len(notes)].jobs

\* A connection is answered: no handler waits for ever, whatever the other
\* goroutines do, unless criu or a hook never returns to this one.
EveryRequestAnswered ==
    \A h \in Handlers : Busy(h) ~> (~Busy(h) \/ Hung(h))

\* Some goroutine waits for ever for criu or a hook, on behalf of job id.
HungOn(id) == \E t \in Callers : Hung(t) /\ task[t].id = id

\* CHECKPOINT_IN_PROGRESS and RESTORE_PENDING are transient; a cancel refused
\* because of them may "try again once it settles" (docs/specs/daemon.md).
\* Only a criu or hook of the same job that hangs keeps it there.
Settles ==
    \A id \in Ids :
        /\ (jobs[id].status = CHECKPOINT_IN_PROGRESS)
            ~> (jobs[id].status # CHECKPOINT_IN_PROGRESS \/ HungOn(id))
        /\ (jobs[id].status = RESTORE_PENDING)
            ~> (jobs[id].status # RESTORE_PENDING \/ HungOn(id))

\* A job that is RUNNING when handleInterruption has set the latch is not left
\* RUNNING: the fan-out reaches it, or something else moved it on.  Neither a
\* notification target that never answers nor a hung checkpoint keeps it from
\* that, short of one hung checkpoint for every slot of the semaphore, or of
\* the daemon's end.
InterruptionSweeps ==
    \A id \in Ids :
        (fan.pc = "list" /\ jobs[id].status = RUNNING)
            ~> \/ jobs[id].status # RUNNING
               \/ ~up
               \/ Cardinality({w \in Workers : Hung(w)}) = MaxConcurrentCheckpoints

\* The report of a child that has exited is not lost while the daemon runs: a
\* job whose run command knows its id does not stay RUNNING.
CompletionLands ==
    \A p \in Pids, id \in Ids :
        (cli[p].st \in {"exit0", "exit1"} /\ cli[p].id = id)
            ~> (jobs[id].status # RUNNING \/ \A h \in Handlers : Hung(h))

\* A completion report that the checkpoint path has overtaken "is a no-op"
\* (docs/specs/daemon.md): a job is not COMPLETED or FAILED while its process
\* lives.
CompletionNotStale ==
    \A id \in Ids :
        jobs[id].status \in {COMPLETED, FAILED} => ProcessesOf(id) = {}
=============================================================================
