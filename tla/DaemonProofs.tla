---------------------------- MODULE DaemonProofs ----------------------------
(***************************************************************************)
(* What holds of the daemon for any number of connections, jobs, processes *)
(* and slots, any mix of requests and, where nothing else is said, any     *)
(* faults.                                                                 *)
(*                                                                         *)
(* The steps are first sorted into a few kinds by what they do to the      *)
(* goroutines and to the store (module part "Kinds of steps"); every       *)
(* invariant is then shown for the kinds that can disturb it.              *)
(***************************************************************************)
EXTENDS Daemon, StoreProofs, FiniteSetTheorems, SequenceTheorems, TLAPS

USE DEF RUNNING, CHECKPOINT_IN_PROGRESS, CHECKPOINT_CREATED,
        CHECKPOINT_CREATION_FAILED, RESTORE_PENDING, RESTORE_FAILED,
        FAILED, CANCELED, COMPLETED, ABSENT

-----------------------------------------------------------------------------
(* The inductive invariant                                                  *)

\* What the code of a goroutine guarantees of its own variables.
LocalOK(r) ==
    /\ r.op \in Ops \cup {"none", "complete", "worker"}
    /\ r.then \in {"idle", "dump", "restore"}
    /\ r.pc # "commit" => r.then = "idle"
    /\ r.pc \in {"latch", "scan", "insert"} =>
        r.op \in RegisterOps \cup AdoptOps \cup {"pause"}
    /\ r.pc = "pid" => r.pid \in Pids
    /\ r.pc = "kill" => r.op = "cancel"
    /\ r.pc = "mark" => r.op = "cancel" \/ r.to \in {COMPLETED, FAILED}
    /\ r.op = "complete" => r.to \in {COMPLETED, FAILED}
    /\ r.op = "run" => r.pid \in Pids
    /\ r.pc = "remove" => r.op \in {"prune", "pruneAll"}

LocalInv == \A t \in Callers : LocalOK(task[t])

\* A call in flight is about the goroutine's own job, and a goroutine that is
\* moving a job into a transient status goes on to the work it stands for.
CallInv ==
    \A t \in Callers :
        IF Idle(t)
        THEN pending[t] = NoCall
        ELSE /\ pending[t].id = task[t].id
             /\ pending[t].to = CHECKPOINT_IN_PROGRESS => task[t].then = "dump"
             /\ pending[t].to = RESTORE_PENDING => task[t].then = "restore"

\* Workers exist during a fan-out only, and a job to start has none yet: the
\* rows of one List have different ids, and the last fan-out was waited for.
FanInv ==
    /\ fan.pc # "spawn" => fan.todo = {} /\ BusyWorkers = {}
    /\ \A s \in fan.todo : ~Busy(s.id)
    /\ \A s1, s2 \in fan.todo : s1.id = s2.id => s1 = s2

DaemonInv == DaemonTypeOK /\ LocalInv /\ CallInv /\ FanInv

-----------------------------------------------------------------------------
(* What one goroutine does in one step                                      *)

\* Goroutine t goes to r and neither begins nor ends a store update.
Moves(t, r) ==
    /\ task[t].pc # "commit"
    /\ r.pc # "commit"
    /\ pending' = pending

\* Goroutine t is through the first half of a store update.
Begins(t, r) ==
    /\ task[t].pc # "commit"
    /\ r.pc = "commit"
    /\ \E call \in Call :
        /\ call.op # "none"
        /\ call.id = r.id
        /\ call.to = CHECKPOINT_IN_PROGRESS => r.then = "dump"
        /\ call.to = RESTORE_PENDING => r.then = "restore"
        /\ pending' = [pending EXCEPT ![t] = call]

\* Goroutine t is through the second half.
Completes(t, r) ==
    /\ task[t].pc = "commit"
    /\ r.pc # "commit"
    /\ pending' = [pending EXCEPT ![t] = NoCall]

\* A step of goroutine t to r: it is a handler or a worker that was started,
\* and touches the database through the calls of the store.
GoesTo(t, r) ==
    /\ r \in Task
    /\ LocalOK(r)
    /\ r.pc = "history" => Exists(r.id) /\ r.to = jobs[r.id].status
    /\ t \in Handlers \/ Busy(t)
    /\ task' = [task EXCEPT ![t] = r]
    /\ Moves(t, r) \/ Begins(t, r) \/ Completes(t, r)
    /\ [Next]_storeVars
    /\ HostTypeOK'
    /\ requests' \in 0..MaxRequests
    /\ UNCHANGED <<interrupted, fan, notes, signals, up>>

\* The goroutines that the daemon can have.
LEMMA CallerKinds ==
    /\ \A h \in Handlers : h \in Callers /\ h \notin Ids
    /\ \A id \in Ids : id \in Callers /\ id \notin Handlers
  BY CallersAssumption, HandlersAssumption

\* A step of one goroutine keeps the inductive invariant.
LEMMA GoesToInv ==
    ASSUME DaemonInv, NEW t \in Callers, NEW r, GoesTo(t, r)
    PROVE  DaemonInv' /\ BusyWorkers' \subseteq BusyWorkers
<1>1. TypeOK'
  BY NextTypeOK DEF DaemonInv, DaemonTypeOK, GoesTo
<1>2. /\ task \in [Callers -> Task]
      /\ pending \in [Callers -> Call]
      /\ r \in Task
      /\ task' = [task EXCEPT ![t] = r]
  BY DEF DaemonInv, DaemonTypeOK, TypeOK, GoesTo
<1>3. /\ task' \in [Callers -> Task]
      /\ task'[t] = r
      /\ \A u \in Callers : u # t => task'[u] = task[u]
  BY <1>2
<1>4. \A u \in Callers : u # t => pending'[u] = pending[u]
  <2>1. CASE Moves(t, r)
    BY <2>1 DEF Moves
  <2>2. CASE Begins(t, r)
    BY <2>2, <1>2 DEF Begins
  <2>3. CASE Completes(t, r)
    BY <2>3, <1>2 DEF Completes
  <2>4. QED
    BY <2>1, <2>2, <2>3 DEF GoesTo
<1>5. LocalInv'
  BY <1>2, <1>3 DEF DaemonInv, LocalInv, GoesTo
<1>6. /\ r.pc = "commit" <=> pending'[t].op # "none"
      /\ IF pending'[t].op = "none"
         THEN pending'[t] = NoCall
         ELSE /\ pending'[t].id = r.id
              /\ pending'[t].to = CHECKPOINT_IN_PROGRESS => r.then = "dump"
              /\ pending'[t].to = RESTORE_PENDING => r.then = "restore"
  <2>1. CASE Moves(t, r)
    BY <2>1, <1>2 DEF Moves, DaemonInv, DaemonTypeOK, CallInv, Idle
  <2>2. CASE Begins(t, r)
    BY <2>2, <1>2 DEF Begins
  <2>3. CASE Completes(t, r)
    BY <2>3, <1>2 DEF Completes, NoCall
  <2>4. QED
    BY <2>1, <2>2, <2>3 DEF GoesTo
<1>7. \A u \in Callers : task'[u].pc = "commit" <=> ~(Idle(u)')
  BY <1>3, <1>4, <1>6 DEF DaemonInv, DaemonTypeOK, Idle
<1>8. CallInv'
  BY <1>3, <1>4, <1>6 DEF DaemonInv, CallInv, Idle
<1>9. BusyWorkers' \subseteq BusyWorkers
  <2> SUFFICES ASSUME NEW w \in Ids, task'[w].pc # "idle"
               PROVE  task[w].pc # "idle"
    BY DEF BusyWorkers, Busy, Workers
  <2>1. CASE w = t
    BY <2>1, CallerKinds DEF GoesTo, Busy
  <2>2. CASE w # t
    BY <2>2, <1>3, CallerKinds
  <2>3. QED
    BY <2>1, <2>2
<1>10. FanInv'
  <2>1. fan' = fan
    BY DEF GoesTo
  <2>2. \A s \in fan.todo : s.id \in Ids /\ ~Busy(s.id)
    BY DEF DaemonInv, DaemonTypeOK, FanInv, Snapshot
  <2>3. \A s \in fan.todo : ~(Busy(s.id)')
    BY <2>2, <1>9 DEF BusyWorkers, Busy, Workers
  <2>4. QED
    BY <2>1, <2>3, <1>9 DEF DaemonInv, FanInv
<1>11. DaemonTypeOK'
  BY <1>1, <1>3, <1>7 DEF DaemonInv, DaemonTypeOK, GoesTo
<1>12. QED
  BY <1>5, <1>8, <1>9, <1>10, <1>11 DEF DaemonInv

-----------------------------------------------------------------------------
(* The host keeps its types                                                 *)

\* A process that ends.
LEMMA EndsType ==
    ASSUME HostTypeOK, NEW p, NEW code \in {"exit0", "exit1"}, Ends(p, code)
    PROVE  /\ live' \subseteq Pids
           /\ work' \in [Pids -> Ids \cup {0}]
           /\ cli' \in [Pids -> RunCommand]
<1>1. live' \subseteq Pids
  BY DEF Ends, HostTypeOK
<1>2. work' \in [Pids -> Ids \cup {0}]
  BY DEF Ends, HostTypeOK
<1>3. ASSUME NEW q \in Pids
      PROVE  [cli[q] EXCEPT !.st = code] \in RunCommand /\ cli[q] \in RunCommand
  BY <1>3 DEF HostTypeOK, RunCommand
<1>4. cli' \in [Pids -> RunCommand]
  BY <1>3 DEF Ends
<1>5. QED
  BY <1>1, <1>2, <1>4

\* A run command's child, and a process that is joined.
LEMMA StartType ==
    ASSUME HostTypeOK, NEW p \in Pids, StartRun(p) \/ StartJoin(p)
    PROVE  HostTypeOK'
<1>1. [cli[p] EXCEPT !.st = "wait"] \in RunCommand
  BY DEF HostTypeOK, RunCommand
<1>2. [cli EXCEPT ![p].st = "wait"] \in [Pids -> RunCommand]
  BY <1>1 DEF HostTypeOK
<1>3. CASE StartRun(p)
  BY <1>2, <1>3 DEF StartRun, HostTypeOK
<1>4. CASE StartJoin(p)
  BY <1>4 DEF StartJoin, HostTypeOK
<1>5. QED
  BY <1>3, <1>4

\* What checkpoint, resume, cancel and prune do outside the daemon.
LEMMA WorkType ==
    ASSUME HostTypeOK, NEW pid, NEW dir \in Dirs \cup {NoDir},
           NEW id \in Ids \cup {0},
           \/ KillGroup(pid)
           \/ DumpSucceeds(pid, dir)
           \/ pid \in Pids /\ RestoreSucceeds(dir, id, pid)
           \/ pid \in Pids /\ HookResumes(id, pid)
           \/ RemoveAll(dir)
           \/ KeepHost
    PROVE  HostTypeOK'
<1>1. CASE KillGroup(pid)
  <2>1. CASE Ends(pid, "exit1")
    BY <1>1, <2>1, EndsType DEF KillGroup, HostTypeOK
  <2>2. CASE UNCHANGED <<live, work, cli>>
    BY <1>1, <2>2 DEF KillGroup, HostTypeOK
  <2>3. QED
    BY <1>1, <2>1, <2>2 DEF KillGroup
<1>2. CASE DumpSucceeds(pid, dir)
  <2>1. Ends(pid, "exit1") /\ images' = images \cup {dir} /\ dir # NoDir
    BY <1>2 DEF DumpSucceeds
  <2>2. QED
    BY <2>1, EndsType DEF HostTypeOK
<1>3. CASE pid \in Pids /\ (RestoreSucceeds(dir, id, pid) \/ HookResumes(id, pid))
  <2>1. CASE Starts(id, pid)
    BY <1>3, <2>1 DEF Starts, HostTypeOK
  <2>2. CASE UNCHANGED hostVars
    BY <2>2 DEF hostVars, HostTypeOK
  <2>3. QED
    BY <1>3, <2>1, <2>2 DEF RestoreSucceeds, HookResumes
<1>4. CASE RemoveAll(dir)
  BY <1>4 DEF RemoveAll, HostTypeOK
<1>5. CASE KeepHost
  BY <1>5 DEF KeepHost, hostVars, HostTypeOK
<1>6. QED
  BY <1>1, <1>2, <1>3, <1>4, <1>5

\* A run command that learns something: its job's id, or that nobody waits.
LEMMA CliType ==
    ASSUME HostTypeOK, NEW p \in Pids, NEW id \in Ids \cup {0}
    PROVE  /\ [cli EXCEPT ![p] = NoRun] \in [Pids -> RunCommand]
           /\ [cli EXCEPT ![p].id = id] \in [Pids -> RunCommand]
<1>1. [cli[p] EXCEPT !.id = id] \in RunCommand
  BY DEF HostTypeOK, RunCommand
<1>2. NoRun \in RunCommand
  BY DEF NoRun, RunCommand
<1>3. QED
  BY <1>1, <1>2 DEF HostTypeOK

-----------------------------------------------------------------------------
(* Goroutine records                                                        *)

\* A goroutine that is not there.
LEMMA NoTaskOK == NoTask \in Task /\ LocalOK(NoTask) /\ NoTask.pc = "idle"
  BY DEF NoTask, Task, LocalOK, TaskOps, Pcs

\* The fields of a goroutine that is somewhere else in the same code.
LEMMA PcFields ==
    ASSUME NEW r \in Task, NEW pc \in Pcs
    PROVE  LET q == [r EXCEPT !.pc = pc]
           IN  /\ q \in Task
               /\ q.op = r.op
               /\ q.pc = pc
               /\ q.then = r.then
               /\ q.id = r.id
               /\ q.pid = r.pid
               /\ q.dir = r.dir
               /\ q.to = r.to
               /\ q.dirs = r.dirs
  BY DEF Task

\* A goroutine that moves on without having to know anything.
LEMMA PcOK ==
    ASSUME NEW r \in Task, LocalOK(r), NEW pc \in Pcs, r.pc # "commit",
           pc \notin {"commit", "latch", "scan", "insert", "pid",
                      "kill", "mark", "remove"}
    PROVE  LocalOK([r EXCEPT !.pc = pc])
  BY PcFields DEF LocalOK

\* A step without a store call: what has to be shown of it.
LEMMA MovesStep ==
    ASSUME NEW t \in Callers, NEW r \in Task, LocalOK(r),
           r.pc \notin {"commit", "history"},
           task[t].pc # "commit", t \in Handlers \/ Busy(t),
           task' = [task EXCEPT ![t] = r],
           KeepStore, HostTypeOK', requests' \in 0..MaxRequests,
           UNCHANGED <<interrupted, fan, notes, signals, up>>
    PROVE  GoesTo(t, r)
  BY DEF GoesTo, Moves, KeepStore, storeVars

-----------------------------------------------------------------------------
(* Every action of a goroutine is such a step                               *)

Steps(t) == \E r : GoesTo(t, r)

\* The parts of the invariant that the actions below rely on.
LEMMA Typed ==
    ASSUME DaemonInv, NEW t \in Callers
    PROVE  /\ TypeOK
           /\ HostTypeOK
           /\ task \in [Callers -> Task]
           /\ task[t] \in Task
           /\ LocalOK(task[t])
           /\ requests \in 0..MaxRequests
           /\ task[t].pc = "commit" <=> ~Idle(t)
  BY DEF DaemonInv, DaemonTypeOK, LocalInv

\* A handler that answers and ends.
LEMMA FinishSteps ==
    ASSUME DaemonInv, NEW t \in Callers, task[t].pc # "commit",
           t \in Handlers \/ Busy(t), Finish(t),
           KeepStore, HostTypeOK', requests' \in 0..MaxRequests,
           UNCHANGED <<interrupted, fan, notes, signals, up>>
    PROVE  Steps(t)
<1>1. GoesTo(t, NoTask)
  BY NoTaskOK, MovesStep DEF Finish, Become
<1>2. QED
  BY <1>1 DEF Steps

\* A goroutine that goes on to a place that asks for nothing.
LEMMA GotoSteps ==
    ASSUME DaemonInv, NEW t \in Callers, task[t].pc # "commit",
           t \in Handlers \/ Busy(t), NEW pc \in Pcs, Goto(t, pc),
           pc \notin {"commit", "history", "latch", "scan", "insert", "pid",
                      "kill", "mark", "remove"},
           KeepStore, HostTypeOK', requests' \in 0..MaxRequests,
           UNCHANGED <<interrupted, fan, notes, signals, up>>
    PROVE  Steps(t)
<1> DEFINE r == [task[t] EXCEPT !.pc = pc]
<1>1. r \in Task /\ LocalOK(r) /\ r.pc = pc
  BY Typed, PcFields, PcOK
<1>2. task' = [task EXCEPT ![t] = r]
  BY Typed DEF Goto
<1>3. GoesTo(t, r)
  BY <1>1, <1>2, MovesStep
<1>4. QED
  BY <1>3 DEF Steps

\* A request that a connection brings.
LEMMA AcceptSteps ==
    ASSUME DaemonInv, NEW h \in Handlers, NEW r \in Task, LocalOK(r),
           r.pc \in {"latch", "get"}, Accept(h, r), HostTypeOK',
           requests' \in 0..MaxRequests
    PROVE  Steps(h)
<1>1. task[h].pc # "commit"
  BY DEF Accept, Busy
<1>2. GoesTo(h, r)
  BY <1>1, MovesStep, CallerKinds DEF Accept, Become
<1>3. QED
  BY <1>2 DEF Steps

\* UserRequest counts up to its bound.
LEMMA UserRequestCounts ==
    ASSUME DaemonInv, UserRequest
    PROVE  requests' \in 0..MaxRequests
  BY BoundsAssumption DEF DaemonInv, DaemonTypeOK, UserRequest

\* The request of a user or of a run command, whatever it asks for.
LEMMA ArrivalSteps ==
    ASSUME DaemonInv, NEW h \in Handlers, Arrival(h)
    PROVE  Steps(h)
<1>1. CASE AcceptRegister(h)
  <2>1. PICK op \in RegisterOps \cap Ops, p \in Pids, dir \in UserDirs \cup {NoDir},
             hooks \in SUBSET Hooks :
          /\ UserRequest
          /\ Accept(h, [NoTask EXCEPT !.op = op, !.pc = "latch",
                                      !.pid = p, !.dir = dir, !.hooks = hooks])
          /\ IF op = "run" THEN StartRun(p) ELSE StartJoin(p)
    BY <1>1 DEF AcceptRegister
  <2> DEFINE r == [NoTask EXCEPT !.op = op, !.pc = "latch", !.pid = p, !.dir = dir,
                                 !.hooks = hooks]
  <2>2. r \in Task /\ r.op = op /\ r.pc = "latch" /\ r.then = "idle" /\ r.pid = p
    BY DEF NoTask, Task, TaskOps, UserOps, Pcs, Dirs
  <2>3. LocalOK(r)
    BY <2>2 DEF LocalOK, RegisterOps
  <2>4. HostTypeOK'
    BY <2>1, StartType DEF DaemonInv, DaemonTypeOK
  <2>5. QED
    BY <2>1, <2>2, <2>3, <2>4, UserRequestCounts, AcceptSteps
<1>2. CASE AcceptAdopt(h)
  <2>1. PICK op \in AdoptOps \cap Ops, dir \in Dirs, hooks \in SUBSET Hooks :
          /\ UserRequest
          /\ Accept(h, [NoTask EXCEPT !.op = op, !.pc = "latch",
                                      !.dir = dir, !.hooks = hooks])
          /\ KeepHost
    BY <1>2 DEF AcceptAdopt
  <2> DEFINE r == [NoTask EXCEPT !.op = op, !.pc = "latch", !.dir = dir,
                                 !.hooks = hooks]
  <2>2. r \in Task /\ r.op = op /\ r.pc = "latch" /\ r.then = "idle"
    BY DEF NoTask, Task, TaskOps, UserOps, Pcs
  <2>3. LocalOK(r)
    BY <2>2 DEF LocalOK, AdoptOps
  <2>4. HostTypeOK'
    BY <2>1 DEF DaemonInv, DaemonTypeOK, HostTypeOK, KeepHost, hostVars
  <2>5. QED
    BY <2>1, <2>2, <2>3, <2>4, UserRequestCounts, AcceptSteps
<1>3. ASSUME NEW op \in JobOps, NEW pc \in {"latch", "get"},
             pc = "latch" => op = "pause", AcceptOnJob(h, op, pc)
      PROVE  Steps(h)
  <2>1. PICK id \in Ids :
          /\ op \in Ops
          /\ UserRequest
          /\ Accept(h, [NoTask EXCEPT !.op = op, !.id = id, !.pc = pc])
          /\ KeepHost
    BY <1>3 DEF AcceptOnJob
  <2> DEFINE r == [NoTask EXCEPT !.op = op, !.id = id, !.pc = pc]
  <2>2. r \in Task /\ r.op = op /\ r.pc = pc /\ r.then = "idle"
    BY DEF NoTask, Task, TaskOps, UserOps, Pcs
  <2>3. LocalOK(r)
    BY <1>3, <2>1, <2>2 DEF LocalOK, JobOps
  <2>4. HostTypeOK'
    BY <2>1 DEF DaemonInv, DaemonTypeOK, HostTypeOK, KeepHost, hostVars
  <2>5. QED
    BY <2>1, <2>2, <2>3, <2>4, UserRequestCounts, AcceptSteps
<1>4. CASE AcceptPruneAll(h)
  <2>1. /\ "pruneAll" \in Ops
        /\ UserRequest
        /\ Accept(h, [NoTask EXCEPT !.op = "pruneAll", !.pc = "get"])
        /\ KeepHost
    BY <1>4 DEF AcceptPruneAll
  <2> DEFINE r == [NoTask EXCEPT !.op = "pruneAll", !.pc = "get"]
  <2>2. r \in Task /\ r.op = "pruneAll" /\ r.pc = "get" /\ r.then = "idle"
    BY DEF NoTask, Task, TaskOps, UserOps, Pcs
  <2>3. LocalOK(r)
    BY <2>1, <2>2 DEF LocalOK
  <2>4. HostTypeOK'
    BY <2>1 DEF DaemonInv, DaemonTypeOK, HostTypeOK, KeepHost, hostVars
  <2>5. QED
    BY <2>1, <2>2, <2>3, <2>4, UserRequestCounts, AcceptSteps
<1>5. CASE AcceptComplete(h)
  <2>1. PICK p \in Pids :
          /\ Accept(h, [NoTask EXCEPT !.op = "complete", !.pc = "get",
                          !.id = cli[p].id,
                          !.to = IF cli[p].st = "exit0" THEN COMPLETED ELSE FAILED])
          /\ cli' = [cli EXCEPT ![p] = NoRun]
          /\ UNCHANGED <<live, work, images, requests>>
    BY <1>5 DEF AcceptComplete
  <2> DEFINE to == IF cli[p].st = "exit0" THEN COMPLETED ELSE FAILED
             r == [NoTask EXCEPT !.op = "complete", !.pc = "get",
                                 !.id = cli[p].id, !.to = to]
  <2>2. cli[p].id \in Ids \cup {0}
    BY DEF DaemonInv, DaemonTypeOK, HostTypeOK, RunCommand
  <2>3. to \in {COMPLETED, FAILED} /\ to \in Statuses
    BY DEF Statuses
  <2> HIDE DEF to
  <2>4. r \in Task /\ r.op = "complete" /\ r.pc = "get" /\ r.then = "idle" /\ r.to = to
    BY <2>2, <2>3 DEF NoTask, Task, TaskOps, Pcs
  <2>5. LocalOK(r)
    BY <2>3, <2>4 DEF LocalOK
  <2>6. HostTypeOK'
    BY <2>1, CliType DEF DaemonInv, DaemonTypeOK, HostTypeOK
  <2>7. requests' \in 0..MaxRequests
    BY <2>1 DEF DaemonInv, DaemonTypeOK
  <2>8. Accept(h, r)
    BY <2>1 DEF to
  <2>9. QED
    BY <2>4, <2>5, <2>6, <2>7, <2>8, AcceptSteps
<1>6. QED
  BY <1>1, <1>2, <1>3, <1>4, <1>5
     DEF Arrival, AcceptPause, AcceptResume, AcceptCancel, AcceptShow, AcceptPrune, JobOps

\* An update of a status that the store accepts is one of the store's calls.
LEMMA StatusCallIsNext ==
    ASSUME TypeOK, NEW t \in Callers, NEW id, NEW to,
           UpdateStatusRead(t, id, to, ReasonFor(to))
    PROVE  Next /\ id \in Ids /\ to \in Statuses
<1>1. id \in Ids
  BY MaxJobsAssumption DEF UpdateStatusRead, Exists, TypeOK, Ids
<1>2. to \in Statuses
  BY TransitionTypes DEF UpdateStatusRead
<1>3. QED
  BY <1>1, <1>2 DEF Next, CallUpdateStatus

\* The first half of UpdateStatus, or its refusal.
LEMMA CallStatusSteps ==
    ASSUME DaemonInv, NEW t \in Callers, task[t].pc # "commit", Busy(t),
           NEW to, NEW then \in {"idle", "dump", "restore"},
           to = CHECKPOINT_IN_PROGRESS => then = "dump",
           to = RESTORE_PENDING => then = "restore",
           CallStatus(t, to, then)
    PROVE  Steps(t)
<1>1. /\ HostTypeOK'
      /\ requests' \in 0..MaxRequests
      /\ UNCHANGED <<interrupted, fan, notes, signals, up>>
  BY Typed DEF CallStatus, KeepHost, KeepRest, hostVars, HostTypeOK
<1>2. CASE /\ UpdateStatusRead(t, task[t].id, to, ReasonFor(to))
           /\ task' = [task EXCEPT ![t].pc = "commit", ![t].then = then]
  <2> DEFINE r == [task[t] EXCEPT !.pc = "commit", !.then = then]
             call == [op |-> "UpdateStatus", id |-> task[t].id,
                      from |-> jobs[task[t].id].status, to |-> to,
                      reason |-> ReasonFor(to), pid |-> NoPid]
  <2>1. /\ r \in Task
        /\ r.op = task[t].op
        /\ r.pc = "commit"
        /\ r.then = then
        /\ r.id = task[t].id
        /\ r.pid = task[t].pid
        /\ r.to = task[t].to
    <3>1. task[t] \in Task /\ "commit" \in Pcs /\ then \in Pcs
      BY Typed DEF Pcs
    <3>2. QED
      BY <3>1 DEF Task
  <2>2. task' = [task EXCEPT ![t] = r]
    BY <1>2, Typed
  <2>3. /\ Next
        /\ task[t].id \in Ids
        /\ to \in Statuses
        /\ jobs[task[t].id].status \in Statuses
    BY <1>2, Typed, StatusCallIsNext, TransitionTypes DEF UpdateStatusRead
  <2>4. /\ call \in Call
        /\ call.op = "UpdateStatus"
        /\ call.id = task[t].id
        /\ call.to = to
    BY <2>3 DEF Call, ReasonFor, Reasons
  <2>5. pending' = [pending EXCEPT ![t] = call]
    BY <1>2 DEF UpdateStatusRead
  <2> HIDE DEF r, call
  <2>6. LocalOK(r)
    BY <2>1, Typed DEF LocalOK
  <2>7. Begins(t, r)
    BY <2>1, <2>4, <2>5 DEF Begins
  <2>8. GoesTo(t, r)
    BY <1>1, <2>1, <2>2, <2>3, <2>6, <2>7 DEF GoesTo
  <2>9. QED
    BY <2>8 DEF Steps
<1>3. CASE Continue(t, then) /\ KeepStore
  <2>1. CASE then = "idle"
    BY <1>1, <1>3, <2>1, FinishSteps DEF Continue
  <2>2. CASE then # "idle"
    BY <1>1, <1>3, <2>2, GotoSteps DEF Continue, Pcs
  <2>3. QED
    BY <2>1, <2>2
<1>4. QED
  BY <1>2, <1>3 DEF CallStatus

\* The second half of an update, or its failure.
LEMMA CommitSteps ==
    ASSUME DaemonInv, NEW t \in Callers, Commit(t)
    PROVE  Steps(t)
<1>1. /\ HostTypeOK'
      /\ requests' \in 0..MaxRequests
      /\ UNCHANGED <<interrupted, fan, notes, signals, up>>
      /\ task[t].pc = "commit"
      /\ Busy(t)
  BY Typed DEF Commit, KeepHost, KeepRest, hostVars, HostTypeOK, At, Busy
<1>2. pending' = [pending EXCEPT ![t] = NoCall] /\ Next
  BY DEF Commit, UpdateCommit, UpdateRollback, Next
<1>3. ASSUME NEW r \in Task, LocalOK(r), task' = [task EXCEPT ![t] = r],
             r.pc \notin {"commit", "history"}
      PROVE  Steps(t)
  BY <1>1, <1>2, <1>3 DEF GoesTo, Completes, Steps
<1>4. CASE task[t].then = "idle"
  BY <1>3, <1>4, NoTaskOK DEF Commit, Finish, Become
<1>5. CASE task[t].then # "idle"
  <2> DEFINE r == [task[t] EXCEPT !.pc = task[t].then, !.then = "idle"]
  <2>1. task[t].then \in {"dump", "restore"}
    BY <1>5, Typed DEF LocalOK
  <2>2. /\ r \in Task
        /\ r.op = task[t].op
        /\ r.pc = task[t].then
        /\ r.then = "idle"
        /\ r.pid = task[t].pid
        /\ r.to = task[t].to
    <3>1. task[t] \in Task /\ "idle" \in Pcs /\ task[t].then \in Pcs
      BY <2>1, Typed DEF Pcs
    <3>2. QED
      BY <3>1 DEF Task
  <2>3. task' = [task EXCEPT ![t] = r]
    BY <1>5, Typed DEF Commit
  <2> HIDE DEF r
  <2>4. LocalOK(r)
    BY <2>1, <2>2, Typed DEF LocalOK
  <2>5. QED
    BY <1>3, <2>1, <2>2, <2>3, <2>4
<1>6. QED
  BY <1>4, <1>5

\* A handler that refuses: the run command behind it will not report.
LEMMA RefuseSteps ==
    ASSUME DaemonInv, NEW h \in Handlers, task[h].pc # "commit", Refuse(h)
    PROVE  Steps(h)
<1>1. h \in Callers
  BY CallerKinds
<1>2. cli' \in [Pids -> RunCommand]
  <2>1. CASE task[h].op = "run"
    <3>1. task[h].pid \in Pids
      BY <1>1, <2>1, Typed DEF LocalOK
    <3>2. QED
      BY <1>1, <2>1, <3>1, CliType, Typed DEF Refuse
  <2>2. CASE task[h].op # "run"
    BY <1>1, <2>2, Typed DEF Refuse, HostTypeOK
  <2>3. QED
    BY <2>1, <2>2
<1>3. HostTypeOK'
  BY <1>1, <1>2, Typed DEF Refuse, HostTypeOK
<1>4. QED
  BY <1>1, <1>3, Typed, FinishSteps DEF Refuse, KeepRest

\* A handler that has passed the latch or the scan of the active jobs.
LEMMA AdmittedSteps ==
    ASSUME DaemonInv, NEW h \in Handlers,
           task[h].pc \in {"latch", "scan"},
           NEW pc \in {"insert", "scan", "get"}, Goto(h, pc),
           KeepStore, KeepHost, KeepRest
    PROVE  Steps(h)
<1> DEFINE r == [task[h] EXCEPT !.pc = pc]
<1>1. h \in Callers
  BY CallerKinds
<1>2. /\ r \in Task
      /\ r.op = task[h].op
      /\ r.pc = pc
      /\ r.then = task[h].then
      /\ r.pid = task[h].pid
      /\ r.to = task[h].to
  <2>1. task[h] \in Task /\ pc \in Pcs
    BY <1>1, Typed DEF Pcs
  <2>2. QED
    BY <2>1 DEF Task
<1>3. task' = [task EXCEPT ![h] = r]
  BY <1>1, Typed DEF Goto
<1> HIDE DEF r
<1>4. LocalOK(r)
  BY <1>1, <1>2, Typed DEF LocalOK
<1>5. HostTypeOK'
  BY <1>1, Typed DEF KeepHost, hostVars, HostTypeOK
<1>6. GoesTo(h, r)
  BY <1>1, <1>2, <1>3, <1>4, <1>5, Typed, MovesStep DEF KeepRest
<1>7. QED
  BY <1>6 DEF Steps

\* The latch, and the scan of handleAdopt.
LEMMA LatchSteps ==
    ASSUME DaemonInv, NEW h \in Handlers, Latch(h) \/ AdoptScan(h)
    PROVE  Steps(h)
<1>1. h \in Callers
  BY CallerKinds
<1>2. CASE Latch(h)
  <2>1. task[h].pc = "latch"
    BY <1>2 DEF Latch, At
  <2>2. task[h].op \in RegisterOps \cup AdoptOps \cup {"pause"}
    BY <1>1, <2>1, Typed DEF LocalOK
  <2>3. CASE Refuse(h)
    BY <2>1, <2>3, RefuseSteps
  <2>4. CASE /\ Goto(h, CASE task[h].op \in RegisterOps -> "insert"
                          [] task[h].op \in AdoptOps -> "scan"
                          [] task[h].op = "pause" -> "get")
             /\ KeepStore /\ KeepHost /\ KeepRest
    <3>1. CASE task[h].op \in RegisterOps
      BY <2>1, <2>4, <3>1, AdmittedSteps DEF RegisterOps, AdoptOps
    <3>2. CASE task[h].op \in AdoptOps
      BY <2>1, <2>4, <3>2, AdmittedSteps DEF RegisterOps, AdoptOps
    <3>3. CASE task[h].op = "pause"
      BY <2>1, <2>4, <3>3, AdmittedSteps DEF RegisterOps, AdoptOps
    <3>4. QED
      BY <2>2, <3>1, <3>2, <3>3
  <2>5. QED
    BY <1>2, <2>3, <2>4 DEF Latch
<1>3. CASE AdoptScan(h)
  <2>1. task[h].pc = "scan"
    BY <1>3 DEF AdoptScan, At
  <2>2. QED
    BY <1>3, <2>1, AdmittedSteps, RefuseSteps DEF AdoptScan
<1>4. QED
  BY <1>2, <1>3

\* An answer with the job's id, which a run command keeps.
LEMMA AcknowledgeType ==
    ASSUME DaemonInv, NEW h \in Handlers, NEW id \in Ids, Acknowledge(h, id)
    PROVE  cli' \in [Pids -> RunCommand]
<1>1. h \in Callers
  BY CallerKinds
<1>2. CASE task[h].op = "run"
  <2>1. task[h].pid \in Pids
    BY <1>1, <1>2, Typed DEF LocalOK
  <2>2. QED
    BY <1>1, <1>2, <2>1, CliType, Typed DEF Acknowledge
<1>3. CASE task[h].op # "run"
  BY <1>1, <1>3, Typed DEF Acknowledge, HostTypeOK
<1>4. QED
  BY <1>2, <1>3

\* store.Insert for Register and Adopt, with the row it writes.
LEMMA InsertedRowOK ==
    ASSUME DaemonInv, NEW h \in Handlers
    PROVE  InsertedRow(h) \in InsertedRows
<1>1. task[h] \in Task
  BY CallerKinds, Typed
<1>2. /\ task[h].pid \in Pids \cup {NoPid}
      /\ task[h].dir \in Dirs \cup {NoDir}
      /\ task[h].hooks \in SUBSET Hooks
  BY <1>1 DEF Task
<1>3. QED
  BY <1>2 DEF InsertedRow, InsertedRows, Row, Reasons, InitialStatuses, Statuses

\* RegisterInsert is a call of Insert, and the row that follows it a call of
\* UpdateCheckpointDir.
LEMMA RegisterSteps ==
    ASSUME DaemonInv, NEW h \in Handlers, RegisterInsert(h) \/ SetDefaultDir(h)
    PROVE  Steps(h)
<1>1. h \in Callers
  BY CallerKinds
<1>2. CASE RegisterInsert(h)
  <2>1. task[h].pc = "insert"
    BY <1>2 DEF RegisterInsert, At
  <2>2. CASE Refuse(h)
    BY <2>1, <2>2, RefuseSteps
  <2>3. CASE /\ Insert(InsertedRow(h))
             /\ work' = [p \in Pids |->
                           IF p = task[h].pid /\ p \in live THEN lastId + 1
                           ELSE work[p]]
             /\ IF task[h].dir = NoDir
                THEN /\ task' = [task EXCEPT ![h].pc = "setdir",
                                             ![h].id = lastId + 1]
                     /\ UNCHANGED cli
                ELSE Acknowledge(h, lastId + 1)
             /\ UNCHANGED <<live, images>>
             /\ KeepRest
    <3>1. Next /\ pending' = pending
      BY <2>3, InsertedRowOK DEF Next, InsertSome, Insert
    <3>2. lastId + 1 \in Ids
      BY <1>1, <2>3, Typed, MaxJobsAssumption DEF Insert, TypeOK, Ids
    <3>3. work' \in [Pids -> Ids \cup {0}]
      BY <1>1, <2>3, <3>2, Typed DEF HostTypeOK
    <3>4. CASE task[h].dir = NoDir
      <4> DEFINE r == [task[h] EXCEPT !.pc = "setdir", !.id = lastId + 1]
      <4>1. /\ r \in Task
            /\ r.op = task[h].op
            /\ r.pc = "setdir"
            /\ r.then = task[h].then
            /\ r.pid = task[h].pid
            /\ r.to = task[h].to
        <5>1. task[h] \in Task /\ "setdir" \in Pcs
          BY <1>1, Typed DEF Pcs
        <5>2. QED
          BY <3>2, <5>1 DEF Task
      <4>2. task' = [task EXCEPT ![h] = r]
        BY <1>1, <2>3, <3>4, Typed
      <4> HIDE DEF r
      <4>3. LocalOK(r)
        BY <1>1, <2>1, <4>1, Typed DEF LocalOK
      <4>4. HostTypeOK'
        BY <1>1, <2>3, <3>3, <3>4, Typed DEF HostTypeOK
      <4>5. GoesTo(h, r)
        BY <1>1, <2>1, <2>3, <3>1, <4>1, <4>2, <4>3, <4>4, Typed
           DEF GoesTo, Moves, KeepRest
      <4>6. QED
        BY <4>5 DEF Steps
    <3>5. CASE task[h].dir # NoDir
      <4>1. Acknowledge(h, lastId + 1)
        BY <2>3, <3>5
      <4>2. HostTypeOK'
        BY <1>1, <2>3, <3>2, <3>3, <4>1, AcknowledgeType, Typed DEF HostTypeOK
      <4>3. GoesTo(h, NoTask)
        BY <1>1, <2>1, <2>3, <3>1, <4>1, <4>2, NoTaskOK, Typed
           DEF GoesTo, Moves, KeepRest, Acknowledge, Finish, Become
      <4>4. QED
        BY <4>3 DEF Steps
    <3>6. QED
      BY <3>4, <3>5
  <2>4. QED
    BY <1>2, <2>2, <2>3 DEF RegisterInsert
<1>3. CASE SetDefaultDir(h)
  <2>1. task[h].pc = "setdir" /\ task[h].id \in Ids \cup {0}
    BY <1>1, <1>3, Typed DEF SetDefaultDir, At, Task
  <2>2. [Next]_storeVars /\ pending' = pending
    <3>1. CASE UpdateCheckpointDir(task[h].id, DefaultDir(task[h].id))
      <4>1. task[h].id \in Ids
        BY <1>1, <3>1, Typed, MaxJobsAssumption
           DEF UpdateCheckpointDir, Exists, TypeOK, Ids
      <4>2. DefaultDir(task[h].id) \in Dirs
        BY <4>1 DEF Dirs
      <4>3. QED
        BY <3>1, <4>1, <4>2 DEF Next, SetDir, UpdateCheckpointDir
    <3>2. CASE KeepStore
      BY <3>2 DEF KeepStore, storeVars
    <3>3. QED
      BY <1>3, <3>1, <3>2 DEF SetDefaultDir
  <2>3. cli' \in [Pids -> RunCommand]
    <3>1. CASE task[h].op = "run"
      <4>1. task[h].pid \in Pids
        BY <1>1, <3>1, Typed DEF LocalOK
      <4>2. QED
        BY <1>1, <1>3, <2>1, <3>1, <4>1, CliType, Typed DEF SetDefaultDir, Acknowledge
    <3>2. CASE task[h].op # "run"
      BY <1>1, <1>3, <3>2, Typed DEF SetDefaultDir, Acknowledge, HostTypeOK
    <3>3. QED
      BY <3>1, <3>2
  <2>4. HostTypeOK'
    BY <1>1, <1>3, <2>3, Typed DEF SetDefaultDir, HostTypeOK
  <2>5. GoesTo(h, NoTask)
    BY <1>1, <1>3, <2>1, <2>2, <2>4, NoTaskOK, Typed
       DEF GoesTo, Moves, KeepRest, SetDefaultDir, Acknowledge, Finish, Become
  <2>6. QED
    BY <2>5 DEF Steps
<1>4. QED
  BY <1>2, <1>3

\* A handler that reads the row of its job, or answers at once.
LEMMA GetRowSteps ==
    ASSUME DaemonInv, NEW h \in Handlers, NEW ok,
           NEW op \in {"pause", "resume", "cancel", "complete"},
           NEW pc \in {"begin", "pend", "kill", "mark"},
           pc = "kill" => op = "cancel",
           pc = "mark" => op \in {"cancel", "complete"},
           GetRow(h, op, ok, pc)
    PROVE  Steps(h)
<1>1. h \in Callers
  BY CallerKinds
<1>2. /\ task[h].pc = "get"
      /\ task[h].op = op
      /\ KeepStore /\ KeepHost /\ KeepRest
  BY DEF GetRow, At
<1>3. HostTypeOK'
  BY <1>1, <1>2, Typed DEF KeepHost, hostVars, HostTypeOK
<1>4. CASE Exists(task[h].id) /\ ok
  <2> DEFINE row == jobs[task[h].id]
             r == [task[h] EXCEPT !.pc = pc, !.pid = row.pid, !.dir = row.dir]
  <2>1. row.pid \in Pids \cup {NoPid} /\ row.dir \in Dirs \cup {NoDir}
    <3>1. task[h].id \in Ids
      BY <1>1, <1>4, Typed, MaxJobsAssumption DEF Exists, TypeOK, Ids
    <3>2. row \in Row
      BY <1>1, <3>1, Typed DEF TypeOK
    <3>3. QED
      BY <3>2 DEF Row
  <2>2. task' = [task EXCEPT ![h] = r]
    BY <1>1, <1>4, Typed DEF GetRow
  <2> HIDE DEF row
  <2>3. /\ r \in Task
        /\ r.op = op
        /\ r.pc = pc
        /\ r.then = task[h].then
        /\ r.pid = row.pid
        /\ r.to = task[h].to
    <3>1. task[h] \in Task /\ pc \in Pcs
      BY <1>1, Typed DEF Pcs
    <3>2. QED
      BY <1>2, <2>1, <3>1 DEF Task
  <2> HIDE DEF r
  <2>4. LocalOK(r)
    BY <1>1, <1>2, <2>3, Typed DEF LocalOK
  <2>5. GoesTo(h, r)
    BY <1>1, <1>2, <1>3, <2>2, <2>3, <2>4, Typed, MovesStep DEF KeepRest
  <2>6. QED
    BY <2>5 DEF Steps
<1>5. CASE ~(Exists(task[h].id) /\ ok)
  <2>1. Finish(h)
    BY <1>5 DEF GetRow
  <2>2. QED
    BY <1>1, <1>2, <1>3, <2>1, Typed, FinishSteps DEF KeepRest
<1>6. QED
  BY <1>4, <1>5

\* cancel and complete: the signal and the status that they write.
LEMMA CancelSteps ==
    ASSUME DaemonInv, NEW h \in Handlers, CancelKill(h) \/ Mark(h)
    PROVE  Steps(h)
<1>1. h \in Callers
  BY CallerKinds
<1>2. CASE CancelKill(h)
  <2>1. task[h].pc = "kill" /\ KeepStore /\ KeepRest
    BY <1>2 DEF CancelKill, At
  <2>2. CASE KillGroup(task[h].pid) /\ Goto(h, "mark")
    <3> DEFINE r == [task[h] EXCEPT !.pc = "mark"]
    <3>1. /\ r \in Task
          /\ r.op = task[h].op
          /\ r.pc = "mark"
          /\ r.then = task[h].then
          /\ r.pid = task[h].pid
          /\ r.to = task[h].to
      <4>1. task[h] \in Task /\ "mark" \in Pcs
        BY <1>1, Typed DEF Pcs
      <4>2. QED
        BY <4>1 DEF Task
    <3>2. task' = [task EXCEPT ![h] = r]
      BY <1>1, <2>2, Typed DEF Goto
    <3> HIDE DEF r
    <3>3. LocalOK(r)
      BY <1>1, <2>1, <3>1, Typed DEF LocalOK
    <3>4. HostTypeOK'
      BY <1>1, <2>2, WorkType, Typed
    <3>5. GoesTo(h, r)
      BY <1>1, <2>1, <3>1, <3>2, <3>3, <3>4, Typed, MovesStep DEF KeepRest
    <3>6. QED
      BY <3>5 DEF Steps
  <2>3. CASE KeepHost /\ Finish(h)
    <3>1. HostTypeOK'
      BY <1>1, <2>3, Typed DEF KeepHost, hostVars, HostTypeOK
    <3>2. QED
      BY <1>1, <2>1, <2>3, <3>1, Typed, FinishSteps DEF KeepRest
  <2>4. QED
    BY <1>2, <2>2, <2>3 DEF CancelKill
<1>3. CASE Mark(h)
  <2>1. task[h].pc = "mark" /\ Busy(h)
    BY <1>3 DEF Mark, At, Busy
  <2>2. CASE task[h].op = "cancel"
    BY <1>1, <1>3, <2>1, <2>2, CallStatusSteps DEF Mark
  <2>3. CASE task[h].op # "cancel"
    <3>1. task[h].to \in {COMPLETED, FAILED}
      BY <1>1, <2>1, <2>3, Typed DEF LocalOK
    <3>2. QED
      BY <1>1, <1>3, <2>1, <2>3, <3>1, CallStatusSteps DEF Mark
  <2>4. QED
    BY <2>2, <2>3
<1>4. QED
  BY <1>2, <1>3

\* prune: the directories are those of rows, and go one after the other.
LEMMA PruneSteps ==
    ASSUME DaemonInv, NEW h \in Handlers, PruneGet(h) \/ PruneRemove(h)
    PROVE  Steps(h)
<1>1. h \in Callers
  BY CallerKinds
<1>2. CASE PruneGet(h)
  <2> DEFINE terminal == {id \in 1..lastId : IsTerminal(jobs[id].status)}
             asked == IF task[h].op = "prune" THEN {task[h].id} ELSE Ids
             dirs == {jobs[id].dir : id \in terminal \cap asked}
             r == [task[h] EXCEPT !.pc = "remove", !.dirs = dirs]
  <2>1. /\ task[h].pc = "get"
        /\ task[h].op \in {"prune", "pruneAll"}
        /\ IF dirs = {} THEN Finish(h)
           ELSE task' = [task EXCEPT ![h].pc = "remove", ![h].dirs = dirs]
        /\ KeepStore /\ KeepHost /\ KeepRest
    BY <1>2 DEF PruneGet, At
  <2>2. dirs \subseteq Dirs \cup {NoDir}
    <3>1. \A id \in terminal : id \in Ids
      BY <1>1, Typed, MaxJobsAssumption DEF TypeOK, Ids
    <3>2. \A id \in Ids : jobs[id].dir \in Dirs \cup {NoDir}
      BY <1>1, Typed DEF TypeOK, Row
    <3>3. QED
      BY <3>1, <3>2
  <2> HIDE DEF dirs
  <2>3. HostTypeOK'
    BY <1>1, <2>1, Typed DEF KeepHost, hostVars, HostTypeOK
  <2>4. CASE dirs = {}
    BY <1>1, <2>1, <2>3, <2>4, Typed, FinishSteps DEF KeepRest
  <2>5. CASE dirs # {}
    <3>1. /\ r \in Task
          /\ r.op = task[h].op
          /\ r.pc = "remove"
          /\ r.then = task[h].then
          /\ r.pid = task[h].pid
          /\ r.to = task[h].to
      <4>1. task[h] \in Task /\ "remove" \in Pcs
        BY <1>1, Typed DEF Pcs
      <4>2. QED
        BY <2>2, <4>1 DEF Task
    <3>2. task' = [task EXCEPT ![h] = r]
      BY <1>1, <2>1, <2>5, Typed
    <3> HIDE DEF r
    <3>3. LocalOK(r)
      BY <1>1, <2>1, <3>1, Typed DEF LocalOK
    <3>4. GoesTo(h, r)
      BY <1>1, <2>1, <2>3, <3>1, <3>2, <3>3, Typed, MovesStep DEF KeepRest
    <3>5. QED
      BY <3>4 DEF Steps
  <2>6. QED
    BY <2>4, <2>5
<1>3. CASE PruneRemove(h)
  <2>1. task[h].pc = "remove" /\ KeepStore /\ KeepRest
    BY <1>3 DEF PruneRemove, At
  <2>2. PICK dir \in task[h].dirs :
          /\ RemoveAll(dir) \/ KeepHost
          /\ IF task[h].dirs = {dir} THEN Finish(h)
             ELSE task' = [task EXCEPT ![h].dirs = @ \ {dir}]
    BY <1>3 DEF PruneRemove
  <2>3. task[h] \in Task /\ task[h].dirs \subseteq Dirs \cup {NoDir}
    BY <1>1, Typed DEF Task
  <2>4. HostTypeOK'
    BY <1>1, <2>2, <2>3, WorkType, Typed
  <2>5. CASE task[h].dirs = {dir}
    BY <1>1, <2>1, <2>2, <2>4, <2>5, Typed, FinishSteps DEF KeepRest
  <2>6. CASE task[h].dirs # {dir}
    <3> DEFINE left == task[h].dirs \ {dir}
               r == [task[h] EXCEPT !.dirs = left]
    <3>1. task' = [task EXCEPT ![h] = r]
      BY <1>1, <2>2, <2>6, Typed
    <3>2. left \subseteq Dirs \cup {NoDir}
      BY <2>3
    <3> HIDE DEF left
    <3>3. /\ r \in Task
          /\ r.op = task[h].op
          /\ r.pc = "remove"
          /\ r.then = task[h].then
          /\ r.pid = task[h].pid
          /\ r.to = task[h].to
      BY <2>1, <2>3, <3>2 DEF Task
    <3> HIDE DEF r
    <3>4. LocalOK(r)
      BY <1>1, <2>1, <3>3, Typed DEF LocalOK
    <3>5. GoesTo(h, r)
      BY <1>1, <2>1, <2>4, <3>1, <3>3, <3>4, Typed, MovesStep DEF KeepRest
    <3>6. QED
      BY <3>5 DEF Steps
  <2>7. QED
    BY <2>5, <2>6
<1>4. QED
  BY <1>2, <1>3

\* show: the status that the first read returns is the one that it keeps.
LEMMA ShowSteps ==
    ASSUME DaemonInv, NEW h \in Handlers, ShowGet(h) \/ ShowHistory(h)
    PROVE  Steps(h)
<1>1. h \in Callers
  BY CallerKinds
<1>2. /\ task[h].pc \in {"get", "history"}
      /\ KeepStore /\ KeepHost /\ KeepRest
  BY DEF ShowGet, ShowHistory, At
<1>3. HostTypeOK'
  BY <1>1, <1>2, Typed DEF KeepHost, hostVars, HostTypeOK
<1>4. CASE Finish(h)
  BY <1>1, <1>2, <1>3, <1>4, Typed, FinishSteps DEF KeepRest
<1>5. CASE /\ task[h].op = "show"
           /\ task[h].pc = "get"
           /\ Exists(task[h].id)
           /\ task' = [task EXCEPT ![h].pc = "history",
                                   ![h].to = jobs[task[h].id].status]
  <2> DEFINE status == jobs[task[h].id].status
             r == [task[h] EXCEPT !.pc = "history", !.to = status]
  <2>1. status \in Statuses \cup {ABSENT}
    <3>1. task[h].id \in Ids
      BY <1>1, <1>5, Typed, MaxJobsAssumption DEF Exists, TypeOK, Ids
    <3>2. jobs[task[h].id] \in Row
      BY <1>1, <3>1, Typed DEF TypeOK
    <3>3. QED
      BY <3>2 DEF Row
  <2>2. task' = [task EXCEPT ![h] = r]
    BY <1>1, <1>5, Typed
  <2>3. status = jobs[task[h].id].status
    OBVIOUS
  <2> HIDE DEF status
  <2>4. /\ r \in Task
        /\ r.op = task[h].op
        /\ r.pc = "history"
        /\ r.then = task[h].then
        /\ r.id = task[h].id
        /\ r.pid = task[h].pid
        /\ r.to = status
    <3>1. task[h] \in Task /\ "history" \in Pcs
      BY <1>1, Typed DEF Pcs
    <3>2. QED
      BY <2>1, <3>1 DEF Task
  <2> HIDE DEF r
  <2>5. LocalOK(r)
    BY <1>1, <1>5, <2>4, Typed DEF LocalOK
  <2>6. GoesTo(h, r)
    BY <1>1, <1>2, <1>3, <1>5, <2>2, <2>3, <2>4, <2>5, Typed
       DEF GoesTo, Moves, KeepStore, storeVars, KeepRest
  <2>7. QED
    BY <2>6 DEF Steps
<1>6. QED
  BY <1>4, <1>5 DEF ShowGet, ShowHistory, At

\* The handlers that start with a read of the row.
LEMMA GetSteps ==
    ASSUME DaemonInv, NEW h \in Handlers,
           PauseGet(h) \/ ResumeGet(h) \/ CancelGet(h) \/ CompleteGet(h)
    PROVE  Steps(h)
<1>1. CASE PauseGet(h)
  BY <1>1, GetRowSteps DEF PauseGet
<1>2. CASE ResumeGet(h)
  BY <1>2, GetRowSteps DEF ResumeGet
<1>3. CASE CancelGet(h)
  <2>1. CASE StatusIn(h, {RUNNING})
    BY <1>3, <2>1, GetRowSteps DEF CancelGet
  <2>2. CASE ~StatusIn(h, {RUNNING})
    BY <1>3, <2>2, GetRowSteps DEF CancelGet
  <2>3. QED
    BY <2>1, <2>2
<1>4. CASE CompleteGet(h)
  BY <1>4, GetRowSteps DEF CompleteGet
<1>5. QED
  BY <1>1, <1>2, <1>3, <1>4

\* checkpointJob.
LEMMA CheckpointSteps ==
    ASSUME DaemonInv, NEW t \in Callers, CheckpointStep(t)
    PROVE  Steps(t)
<1>1. CASE CheckpointBegin(t)
  BY <1>1, CallStatusSteps DEF CheckpointBegin, At, Busy
<1>2. CASE CheckpointDump(t)
  <2>1. task[t].pc = "dump" /\ Busy(t) /\ KeepStore /\ KeepRest
    BY <1>2 DEF CheckpointDump, At, Busy
  <2>2. task[t].dir \in Dirs \cup {NoDir}
    BY Typed DEF Task
  <2>3. \/ DumpSucceeds(task[t].pid, task[t].dir) \/ KeepHost
        \/ HookCheckpoints(task[t].dir)
    BY <1>2 DEF CheckpointDump, CheckpointRuns
  <2>4. HostTypeOK'
    <3>1. CASE HookCheckpoints(task[t].dir)
      <4>1. HostTypeOK
        BY Typed
      <4>2. images' \subseteq Dirs
        BY <2>2, <3>1, <4>1 DEF HookCheckpoints, HostTypeOK
      <4>3. QED
        BY <3>1, <4>1, <4>2 DEF HookCheckpoints, HostTypeOK
    <3>2. QED
      BY <2>2, <2>3, <3>1, WorkType, Typed
  <2>5. PICK pc \in {"created", "failed", "hung"} : Goto(t, pc)
    BY <1>2 DEF CheckpointDump
  <2>6. QED
    BY <2>1, <2>4, <2>5, Typed, GotoSteps DEF KeepRest, Pcs
<1>3. CASE CheckpointCreated(t)
  BY <1>3, CallStatusSteps DEF CheckpointCreated, At, Busy
<1>4. CASE CheckpointFailed(t)
  BY <1>4, CallStatusSteps DEF CheckpointFailed, At, Busy
<1>5. QED
  BY <1>1, <1>2, <1>3, <1>4 DEF CheckpointStep

\* resumeJob.
LEMMA ResumeSteps ==
    ASSUME DaemonInv, NEW t \in Handlers,
           ResumeBegin(t) \/ ResumeRestore(t) \/ ResumeUpdatePID(t) \/ ResumeFailed(t)
    PROVE  Steps(t)
<1>1. t \in Callers
  BY CallerKinds
<1>2. CASE ResumeBegin(t)
  BY <1>1, <1>2, CallStatusSteps DEF ResumeBegin, At, Busy
<1>3. CASE ResumeFailed(t)
  BY <1>1, <1>3, CallStatusSteps DEF ResumeFailed, At, Busy
<1>4. CASE ResumeRestore(t)
  <2>1. task[t].pc = "restore" /\ Busy(t) /\ KeepStore /\ KeepRest
    BY <1>4 DEF ResumeRestore, At, Busy
  <2>2. task[t] \in Task /\ task[t].dir \in Dirs \cup {NoDir} /\ task[t].id \in Ids \cup {0}
    BY <1>1, Typed DEF Task
  <2>3. ASSUME NEW pid \in Pids, ResumeRuns(t, pid),
               task' = [task EXCEPT ![t].pc = "pid", ![t].pid = pid]
        PROVE  Steps(t)
    <3> DEFINE r == [task[t] EXCEPT !.pc = "pid", !.pid = pid]
    <3>1. /\ r \in Task
          /\ r.op = task[t].op
          /\ r.pc = "pid"
          /\ r.then = task[t].then
          /\ r.pid = pid
          /\ r.to = task[t].to
      <4>1. "pid" \in Pcs
        BY DEF Pcs
      <4>2. QED
        BY <2>2, <4>1 DEF Task
    <3>2. task' = [task EXCEPT ![t] = r]
      BY <1>1, <2>3, Typed
    <3> HIDE DEF r
    <3>3. LocalOK(r)
      BY <1>1, <2>1, <3>1, Typed DEF LocalOK
    <3>4. HostTypeOK'
      BY <1>1, <2>2, <2>3, WorkType, Typed DEF ResumeRuns
    <3>5. GoesTo(t, r)
      BY <1>1, <2>1, <3>1, <3>2, <3>3, <3>4, Typed, MovesStep DEF KeepRest
    <3>6. QED
      BY <3>5 DEF Steps
  <2>4. ASSUME NEW pc \in {"restoreFailed", "hung"}, Goto(t, pc),
               \/ KeepHost
               \/ \E pid \in Pids : ResumeRuns(t, pid)
        PROVE  Steps(t)
    <3>1. HostTypeOK'
      BY <1>1, <2>2, <2>4, WorkType, Typed DEF ResumeRuns
    <3>2. QED
      BY <1>1, <2>1, <2>4, <3>1, Typed, GotoSteps DEF KeepRest, Pcs
  <2>5. QED
    BY <1>4, <2>3, <2>4 DEF ResumeRestore
<1>5. CASE ResumeUpdatePID(t)
  <2>1. /\ task[t].pc = "pid" /\ Busy(t)
        /\ task[t] \in Task /\ task[t].pid \in Pids
        /\ KeepHost /\ KeepRest
    BY <1>1, <1>5, Typed DEF ResumeUpdatePID, At, Busy, LocalOK
  <2>2. HostTypeOK'
    BY <1>1, <2>1, Typed DEF KeepHost, hostVars, HostTypeOK
  <2>3. CASE UpdatePIDRead(t, task[t].id, task[t].pid) /\ Goto(t, "commit")
    <3> DEFINE r == [task[t] EXCEPT !.pc = "commit"]
               call == [op |-> "UpdatePID", id |-> task[t].id,
                        from |-> jobs[task[t].id].status, to |-> RUNNING,
                        reason |-> "", pid |-> task[t].pid]
    <3>1. task[t].id \in Ids
      <4>1. task[t].id \in 1..lastId
        BY <2>3 DEF UpdatePIDRead, Exists
      <4>2. lastId \in 0..MaxJobs
        BY <1>1, Typed DEF TypeOK
      <4>3. QED
        BY <4>1, <4>2, MaxJobsAssumption DEF Ids
    <3>2. Next
      BY <1>1, <2>1, <2>3, <3>1 DEF Next, CallUpdatePID
    <3>3. jobs[task[t].id].status \in Statuses
      BY <2>3, TransitionTypes DEF UpdatePIDRead
    <3>4. /\ call \in Call
          /\ call.op = "UpdatePID"
          /\ call.id = task[t].id
          /\ call.to = RUNNING
      BY <2>1, <3>1, <3>3 DEF Call, Reasons, Statuses
    <3>5. pending' = [pending EXCEPT ![t] = call]
      BY <2>3 DEF UpdatePIDRead
    <3>6. /\ r \in Task
          /\ r.op = task[t].op
          /\ r.pc = "commit"
          /\ r.then = task[t].then
          /\ r.id = task[t].id
          /\ r.pid = task[t].pid
          /\ r.to = task[t].to
      <4>1. "commit" \in Pcs
        BY DEF Pcs
      <4>2. QED
        BY <2>1, <4>1 DEF Task
    <3>7. task' = [task EXCEPT ![t] = r]
      BY <1>1, <2>3, Typed DEF Goto
    <3> HIDE DEF r, call
    <3>8. LocalOK(r)
      BY <1>1, <2>1, <3>6, Typed DEF LocalOK
    <3>9. Begins(t, r)
      BY <2>1, <3>4, <3>5, <3>6 DEF Begins
    <3>10. GoesTo(t, r)
      BY <1>1, <2>1, <2>2, <3>2, <3>6, <3>7, <3>8, <3>9, Typed DEF GoesTo, KeepRest
    <3>11. QED
      BY <3>10 DEF Steps
  <2>4. CASE Finish(t) /\ KeepStore
    BY <1>1, <2>1, <2>2, <2>4, Typed, FinishSteps DEF KeepRest
  <2>5. QED
    BY <1>5, <2>3, <2>4 DEF ResumeUpdatePID
<1>6. QED
  BY <1>2, <1>3, <1>4, <1>5

\* Every step of a handler.
LEMMA HandlerSteps ==
    ASSUME DaemonInv, NEW h \in Handlers, HandlerStep(h)
    PROVE  Steps(h)
  BY LatchSteps, RegisterSteps, GetSteps, CancelSteps, PruneSteps, ResumeSteps,
     ShowSteps DEF HandlerStep

-----------------------------------------------------------------------------
(* The fan-out, the notifications and the life of the process               *)

\* A signal arrives while no fan-out is in progress.
LEMMA InterruptInv ==
    ASSUME DaemonInv, fan.pc = "idle", Interrupt
    PROVE  DaemonInv'
<1>1. /\ UNCHANGED <<jobs, lastId, history, pending, live, work, cli, images,
                     task, requests, up, notes>>
      /\ fan' = [fan EXCEPT !.pc = "list"]
      /\ signals' = signals + 1 /\ signals < MaxSignals
      /\ interrupted' = TRUE
  BY DEF Interrupt, KeepStore, KeepHost, KeepTasks, storeVars, hostVars
<1>2. fan.todo = {} /\ BusyWorkers = {}
  BY DEF DaemonInv, FanInv
<1>3. /\ fan' \in [pc : {"idle", "list", "spawn"}, todo : SUBSET Snapshot]
      /\ fan'.todo = {}
  BY <1>1, <1>2 DEF DaemonInv, DaemonTypeOK
<1>4. signals' \in 0..MaxSignals
  BY <1>1, BoundsAssumption DEF DaemonInv, DaemonTypeOK
<1>5. TypeOK' /\ HostTypeOK'
  BY <1>1 DEF DaemonInv, DaemonTypeOK, TypeOK, HostTypeOK
<1>6. DaemonTypeOK'
  BY <1>1, <1>3, <1>4, <1>5 DEF DaemonInv, DaemonTypeOK, Idle
<1>7. LocalInv' /\ CallInv'
  BY <1>1 DEF DaemonInv, LocalInv, CallInv, Idle
<1>8. BusyWorkers' = {}
  BY <1>1, <1>2 DEF BusyWorkers, Busy
<1>9. FanInv'
  BY <1>3, <1>8 DEF FanInv
<1>10. QED
  BY <1>6, <1>7, <1>9 DEF DaemonInv

\* List for the fan-out, and its failure.
LEMMA FanListInv ==
    ASSUME DaemonInv, FanList
    PROVE  /\ DaemonInv'
           /\ BusyWorkers' = {}
           /\ Notifier /\ fan'.pc = "spawn" =>
                /\ notes' # <<>>
                /\ \A s \in fan'.todo : s.id \in notes'[Len(notes')].jobs
<1>1. /\ UNCHANGED <<jobs, lastId, history, pending, live, work, cli, images,
                     task, requests, up, interrupted, signals>>
      /\ fan.pc = "list"
  BY DEF FanList, KeepStore, KeepHost, KeepTasks, storeVars, hostVars
<1>2. fan.todo = {} /\ BusyWorkers = {}
  BY <1>1 DEF DaemonInv, FanInv
<1>3. BusyWorkers' = {}
  BY <1>1, <1>2 DEF BusyWorkers, Busy
<1>4. TypeOK' /\ HostTypeOK'
  BY <1>1 DEF DaemonInv, DaemonTypeOK, TypeOK, HostTypeOK
<1>5. LocalInv' /\ CallInv'
  BY <1>1 DEF DaemonInv, LocalInv, CallInv, Idle
<1>6. ASSUME fan' \in [pc : {"idle", "list", "spawn"}, todo : SUBSET Snapshot],
             notes' \in Seq(Note),
             fan'.pc # "spawn" => fan'.todo = {},
             \A s1, s2 \in fan'.todo : s1.id = s2.id => s1 = s2
      PROVE  DaemonInv'
  <2>1. DaemonTypeOK'
    BY <1>1, <1>4, <1>6 DEF DaemonInv, DaemonTypeOK, Idle
  <2>2. \A s \in fan'.todo : s.id \in Ids
    BY <1>6 DEF Snapshot
  <2>3. FanInv'
    BY <1>3, <1>6, <2>2 DEF FanInv, BusyWorkers, Busy, Workers
  <2>4. QED
    BY <1>5, <2>1, <2>3 DEF DaemonInv
<1>7. CASE /\ fan' = [pc |-> "spawn",
                      todo |-> {[id |-> id, pid |-> jobs[id].pid, dir |-> jobs[id].dir] :
                                id \in Runnable}]
           /\ notify(Runnable)
  <2>1. Runnable \subseteq Ids
    BY MaxJobsAssumption DEF Runnable, DaemonInv, DaemonTypeOK, TypeOK, Ids
  <2>2. \A id \in Ids : /\ jobs[id].pid \in Pids \cup {NoPid}
                        /\ jobs[id].dir \in Dirs \cup {NoDir}
    BY DEF DaemonInv, DaemonTypeOK, TypeOK, Row
  <2>3. /\ fan'.pc = "spawn"
        /\ fan' \in [pc : {"idle", "list", "spawn"}, todo : SUBSET Snapshot]
    BY <1>7, <2>1, <2>2 DEF Snapshot
  <2>4. \A s \in fan'.todo :
            \E id \in Runnable :
                s = [id |-> id, pid |-> jobs[id].pid, dir |-> jobs[id].dir]
    BY <1>7
  <2>5. /\ \A s \in fan'.todo : s.id \in Runnable
        /\ \A s1, s2 \in fan'.todo : s1.id = s2.id => s1 = s2
    BY <2>4
  <2> DEFINE note == [jobs |-> Runnable, st |-> "sending"]
  <2>6. note \in Note /\ note.jobs = Runnable
    BY <2>1 DEF Note
  <2>7. notes \in Seq(Note)
    BY DEF DaemonInv, DaemonTypeOK
  <2>8. notes' = IF Notifier THEN Append(notes, note) ELSE notes
    BY <1>7 DEF notify
  <2> HIDE DEF note
  <2>9. /\ Append(notes, note) \in Seq(Note)
        /\ Len(Append(notes, note)) = Len(notes) + 1
        /\ Append(notes, note)[Len(notes) + 1] = note
        /\ Len(notes) \in Nat
    BY <2>6, <2>7
  <2>10. Append(notes, note) # <<>>
    BY <2>9
  <2>11. notes' \in Seq(Note)
    BY <2>7, <2>8, <2>9
  <2>12. QED
    BY <1>3, <1>6, <2>3, <2>5, <2>6, <2>8, <2>9, <2>10, <2>11
<1>8. CASE fan' = [fan EXCEPT !.pc = "idle"] /\ notes' = notes
  <2>1. /\ fan' \in [pc : {"idle", "list", "spawn"}, todo : SUBSET Snapshot]
        /\ fan'.pc = "idle"
        /\ fan'.todo = {}
    BY <1>2, <1>8 DEF DaemonInv, DaemonTypeOK
  <2>2. notes' \in Seq(Note)
    BY <1>8 DEF DaemonInv, DaemonTypeOK
  <2>3. QED
    BY <1>3, <1>6, <2>1, <2>2
<1>9. QED
  BY <1>7, <1>8 DEF FanList

\* A worker is started for a listed job, in a free slot of the semaphore.
LEMMA FanSpawnInv ==
    ASSUME DaemonInv, FanSpawn
    PROVE  /\ DaemonInv'
           /\ Cardinality(BusyWorkers) < MaxConcurrentCheckpoints
           /\ notes' = notes /\ fan'.pc = fan.pc
           /\ fan'.todo \subseteq fan.todo
           /\ storeVars' = storeVars /\ images' = images
           /\ \E s \in fan.todo :
                /\ s.id \in Ids
                /\ ~Busy(s.id)
                /\ BusyWorkers' \subseteq BusyWorkers \cup {s.id}
                /\ \E r \in Task : /\ r.op = "worker"
                                   /\ r.pc = "begin"
                                   /\ r.then = "idle"
                                   /\ r.id = s.id
                                   /\ r.dir = s.dir
                                   /\ task' = [task EXCEPT ![s.id] = r]
<1>1. /\ UNCHANGED <<jobs, lastId, history, pending, live, work, cli, images,
                     requests, up, interrupted, signals, notes>>
      /\ storeVars' = storeVars
      /\ Cardinality(BusyWorkers) < MaxConcurrentCheckpoints
  BY DEF FanSpawn, KeepStore, KeepHost, storeVars, hostVars
<1>2. PICK s \in fan.todo :
        /\ Become(s.id, [NoTask EXCEPT !.op = "worker", !.pc = "begin",
                            !.id = s.id, !.pid = s.pid, !.dir = s.dir])
        /\ fan' = [fan EXCEPT !.todo = @ \ {s}]
  BY DEF FanSpawn
<1> DEFINE r == [NoTask EXCEPT !.op = "worker", !.pc = "begin",
                    !.id = s.id, !.pid = s.pid, !.dir = s.dir]
<1>3. /\ s.id \in Ids
      /\ s.pid \in Pids \cup {NoPid}
      /\ s.dir \in Dirs \cup {NoDir}
      /\ ~Busy(s.id)
      /\ s.id \in Callers
      /\ s.id \notin Handlers
  BY CallerKinds DEF DaemonInv, DaemonTypeOK, FanInv, Snapshot
<1>4. /\ r \in Task
      /\ r.op = "worker"
      /\ r.pc = "begin"
      /\ r.then = "idle"
      /\ r.id = s.id
      /\ r.dir = s.dir
  BY <1>3 DEF NoTask, Task, TaskOps, Pcs
<1>5. task' = [task EXCEPT ![s.id] = r]
  BY <1>2 DEF Become
<1> HIDE DEF r
<1>6. LocalOK(r)
  BY <1>4 DEF LocalOK, RegisterOps, AdoptOps
<1>7. /\ task' \in [Callers -> Task]
      /\ task'[s.id] = r
      /\ \A u \in Callers : u # s.id => task'[u] = task[u]
  BY <1>3, <1>4, <1>5 DEF DaemonInv, DaemonTypeOK
<1>8. task[s.id].pc = "idle"
  BY <1>3 DEF Busy
<1>9. LocalInv'
  BY <1>6, <1>7 DEF DaemonInv, LocalInv
<1>10. Idle(s.id) /\ pending[s.id] = NoCall
  BY <1>3, <1>8 DEF DaemonInv, DaemonTypeOK, CallInv
<1>11. CallInv'
  BY <1>1, <1>7, <1>10 DEF DaemonInv, CallInv, Idle
<1>12. \A u \in Callers : task'[u].pc = "commit" <=> ~(Idle(u)')
  BY <1>1, <1>4, <1>7, <1>10 DEF DaemonInv, DaemonTypeOK, Idle
<1>13. /\ fan' \in [pc : {"idle", "list", "spawn"}, todo : SUBSET Snapshot]
       /\ fan'.pc = fan.pc
       /\ fan'.todo = fan.todo \ {s}
  BY <1>2 DEF DaemonInv, DaemonTypeOK
<1>14. TypeOK' /\ HostTypeOK'
  BY <1>1 DEF DaemonInv, DaemonTypeOK, TypeOK, HostTypeOK
<1>15. DaemonTypeOK'
  BY <1>1, <1>7, <1>12, <1>13, <1>14 DEF DaemonInv, DaemonTypeOK
<1>16. BusyWorkers' \subseteq BusyWorkers \cup {s.id}
  BY <1>7, CallerKinds DEF BusyWorkers, Busy, Workers
<1>17. FanInv'
  <2>1. fan.pc = "spawn"
    BY DEF DaemonInv, FanInv
  <2>2. \A u \in fan'.todo : u \in fan.todo /\ u.id \in Ids /\ u.id # s.id
    BY <1>13 DEF DaemonInv, DaemonTypeOK, FanInv, Snapshot
  <2>3. \A u \in fan'.todo : ~(Busy(u.id)')
    BY <1>7, <2>2, CallerKinds DEF DaemonInv, FanInv, Busy
  <2>4. QED
    BY <1>13, <2>1, <2>2, <2>3 DEF DaemonInv, FanInv
<1>18. QED
  BY <1>1, <1>3, <1>4, <1>5, <1>9, <1>11, <1>13, <1>15, <1>16, <1>17 DEF DaemonInv

\* The steps that touch neither the store nor a goroutine that serves a job:
\* the fan-out ends, the target answers, a process exits, a report is lost,
\* the daemon starts.
Aside ==
    \/ FanDone
    \/ \E n \in DOMAIN notes : NotifyReturns(n)
    \/ \E p \in Pids : ProcessExit(p) \/ ReportLost(p)
    \/ DaemonStart

\* They keep the invariant, and the notifications name the jobs they named.
LEMMA AsideInv ==
    ASSUME DaemonInv, Aside
    PROVE  /\ DaemonInv'
           /\ UNCHANGED <<storeVars, task, images>>
           /\ fan'.pc # "idle" => fan' = fan
           /\ fan'.todo \subseteq fan.todo
           /\ Len(notes') = Len(notes)
           /\ Len(notes) > 0 => notes'[Len(notes')].jobs = notes[Len(notes)].jobs
<1>1. UNCHANGED <<storeVars, task, images>>
  BY DEF Aside, FanDone, NotifyReturns, ProcessExit, ReportLost, DaemonStart,
         KeepStore, KeepHost, KeepTasks, hostVars, daemonVars, Exit
<1>2. UNCHANGED <<jobs, lastId, history, pending, task, images>>
  BY <1>1 DEF storeVars
<1>3. TypeOK'
  BY <1>2 DEF DaemonInv, DaemonTypeOK, TypeOK
<1>4. LocalInv' /\ CallInv' /\ BusyWorkers' = BusyWorkers
  BY <1>2 DEF DaemonInv, LocalInv, CallInv, Idle, BusyWorkers, Busy
<1>5. ASSUME HostTypeOK', fan' = fan, notes' = notes,
             UNCHANGED <<requests, signals, interrupted>>, up' \in BOOLEAN
      PROVE  /\ DaemonInv'
             /\ fan'.pc # "idle" => fan' = fan
             /\ fan'.todo \subseteq fan.todo
             /\ Len(notes') = Len(notes)
             /\ Len(notes) > 0 => notes'[Len(notes')].jobs = notes[Len(notes)].jobs
  <2>1. DaemonTypeOK'
    BY <1>2, <1>3, <1>5 DEF DaemonInv, DaemonTypeOK, Idle
  <2>2. FanInv'
    BY <1>2, <1>4, <1>5 DEF DaemonInv, FanInv, Busy
  <2>3. QED
    BY <1>4, <1>5, <2>1, <2>2 DEF DaemonInv
<1>6. CASE FanDone
  <2>1. /\ fan.pc = "spawn" /\ fan.todo = {} /\ BusyWorkers = {}
        /\ fan' = [fan EXCEPT !.pc = "idle"]
        /\ UNCHANGED <<live, work, cli, images, requests, up, notes, interrupted, signals>>
    BY <1>6 DEF FanDone, KeepHost, KeepTasks, hostVars
  <2>2. /\ fan' \in [pc : {"idle", "list", "spawn"}, todo : SUBSET Snapshot]
        /\ fan'.pc = "idle"
        /\ fan'.todo = {}
    BY <2>1 DEF DaemonInv, DaemonTypeOK
  <2>3. HostTypeOK'
    BY <2>1 DEF DaemonInv, DaemonTypeOK, HostTypeOK
  <2>4. DaemonTypeOK'
    BY <1>2, <1>3, <2>1, <2>2, <2>3 DEF DaemonInv, DaemonTypeOK, Idle
  <2>5. FanInv'
    BY <1>4, <2>1, <2>2 DEF FanInv
  <2>6. QED
    BY <1>1, <1>4, <2>1, <2>2, <2>4, <2>5 DEF DaemonInv
<1>7. CASE \E n \in DOMAIN notes : NotifyReturns(n)
  <2>1. PICK n \in DOMAIN notes : NotifyReturns(n)
    BY <1>7
  <2>2. /\ notes' = [notes EXCEPT ![n].st = "returned"]
        /\ UNCHANGED <<live, work, cli, images, requests, up, fan, interrupted, signals>>
    BY <2>1 DEF NotifyReturns, KeepHost, KeepTasks, hostVars
  <2>3. notes \in Seq(Note)
    BY DEF DaemonInv, DaemonTypeOK
  <2>4. /\ notes[n] \in Note
        /\ n \in 1..Len(notes)
        /\ Len(notes) \in Nat
    BY <2>1, <2>3
  <2> DEFINE note == [notes[n] EXCEPT !.st = "returned"]
  <2>5. note \in Note /\ note.jobs = notes[n].jobs
    BY <2>4 DEF Note
  <2>6. notes' = [notes EXCEPT ![n] = note]
    BY <2>2, <2>3
  <2> HIDE DEF note
  <2>7. /\ notes' \in Seq(Note)
        /\ Len(notes') = Len(notes)
        /\ \A k \in 1..Len(notes) : notes'[k] = IF k = n THEN note ELSE notes[k]
    BY <2>3, <2>4, <2>5, <2>6
  <2>8. HostTypeOK'
    BY <2>2 DEF DaemonInv, DaemonTypeOK, HostTypeOK
  <2>9. DaemonTypeOK'
    BY <1>2, <1>3, <2>2, <2>7, <2>8 DEF DaemonInv, DaemonTypeOK, Idle
  <2>10. FanInv'
    BY <1>2, <1>4, <2>2 DEF DaemonInv, FanInv, Busy
  <2>11. Len(notes) > 0 => notes'[Len(notes')].jobs = notes[Len(notes)].jobs
    BY <2>4, <2>5, <2>7
  <2>12. QED
    BY <1>1, <1>4, <2>2, <2>7, <2>9, <2>10, <2>11 DEF DaemonInv
<1>8. ASSUME NEW p \in Pids, ProcessExit(p)
      PROVE  HostTypeOK' /\ UNCHANGED <<fan, notes, requests, signals, interrupted, up>>
  <2>1. PICK code \in {"exit0", "exit1"} : Ends(p, code)
    BY <1>8 DEF ProcessExit, Exit
  <2>2. QED
    BY <1>2, <1>8, <2>1, EndsType
       DEF DaemonInv, DaemonTypeOK, HostTypeOK, ProcessExit, daemonVars
<1>9. ASSUME NEW p \in Pids, ReportLost(p)
      PROVE  HostTypeOK' /\ UNCHANGED <<fan, notes, requests, signals, interrupted, up>>
  <2>1. cli' \in [Pids -> RunCommand]
    BY <1>9, CliType DEF ReportLost, DaemonInv, DaemonTypeOK
  <2>2. QED
    BY <1>9, <2>1 DEF DaemonInv, DaemonTypeOK, HostTypeOK, ReportLost, daemonVars
<1>10. CASE DaemonStart
  <2>1. HostTypeOK' /\ UNCHANGED <<fan, notes, requests, signals, interrupted>>
    BY <1>10 DEF DaemonInv, DaemonTypeOK, HostTypeOK, DaemonStart, hostVars
  <2>2. up' \in BOOLEAN
    BY <1>10 DEF DaemonStart
  <2>3. QED
    BY <1>1, <1>5, <2>1, <2>2
<1>11. up \in BOOLEAN
  BY DEF DaemonInv, DaemonTypeOK
<1>12. QED
  BY <1>1, <1>5, <1>6, <1>7, <1>8, <1>9, <1>10, <1>11 DEF Aside

\* The process ends: nothing in memory is left.
LEMMA ProcessEndsInv ==
    ASSUME DaemonInv, ProcessEnds
    PROVE  DaemonInv' /\ Next /\ BusyWorkers' = {}
<1>1. /\ pending' = [c \in Callers |-> NoCall]
      /\ task' = [t \in Callers |-> NoTask]
      /\ fan' = [pc |-> "idle", todo |-> {}]
      /\ notes' = <<>>
      /\ interrupted' = FALSE
      /\ up' = FALSE
      /\ UNCHANGED <<live, work, images, requests, signals>>
      /\ cli' = [p \in Pids |-> IF cli[p].id = 0 THEN NoRun ELSE cli[p]]
      /\ Next
  BY DEF ProcessEnds, Crash, Next
<1>2. TypeOK'
  BY <1>1, NextTypeOK DEF DaemonInv, DaemonTypeOK
<1>3. HostTypeOK'
  <2>1. NoRun \in RunCommand
    BY DEF NoRun, RunCommand
  <2>2. cli' \in [Pids -> RunCommand]
    BY <1>1, <2>1 DEF DaemonInv, DaemonTypeOK, HostTypeOK
  <2>3. QED
    BY <1>1, <2>2 DEF DaemonInv, DaemonTypeOK, HostTypeOK
<1>4. \A t \in Callers : task'[t] = NoTask /\ pending'[t] = NoCall
  BY <1>1
<1>5. LocalInv' /\ CallInv' /\ \A t \in Callers : Idle(t)'
  <2>1. LocalInv'
    BY <1>4, NoTaskOK DEF LocalInv
  <2>2. NoCall.op = "none"
    BY DEF NoCall
  <2>3. QED
    BY <1>4, <2>1, <2>2 DEF CallInv, Idle
<1>6. BusyWorkers' = {}
  BY <1>4, CallerKinds, NoTaskOK DEF BusyWorkers, Busy, Workers
<1>7. FanInv'
  BY <1>1, <1>6 DEF FanInv
<1>8. \A t \in Callers : task'[t].pc = "commit" <=> ~(Idle(t)')
  BY <1>4, <1>5, NoTaskOK
<1>9. fan' \in [pc : {"idle", "list", "spawn"}, todo : SUBSET Snapshot]
  BY <1>1
<1>10. task' \in [Callers -> Task] /\ notes' \in Seq(Note)
  BY <1>1, NoTaskOK
<1>11. interrupted' \in BOOLEAN /\ up' \in BOOLEAN
  BY <1>1
<1>12. DaemonTypeOK'
  BY <1>1, <1>2, <1>3, <1>8, <1>9, <1>10, <1>11 DEF DaemonInv, DaemonTypeOK
<1>13. QED
  BY <1>1, <1>5, <1>6, <1>7, <1>12 DEF DaemonInv

-----------------------------------------------------------------------------
(* Every step of the daemon                                                 *)

\* The steps of the daemon's specifications, here and under the provider's
\* goroutine (Watch): a signal only comes when the last fan-out is over.
AnyStep ==
    \/ ServeStep
    \/ fan.pc = "idle" /\ Interrupt
    \/ ProcessEnds
    \/ DaemonStart

\* A step of the daemon's own specification is one of them.
LEMMA DaemonNextIsAny == DaemonNext => AnyStep
  BY DEF DaemonNext, AnyStep, DaemonCrash

\* A step of the code that goroutine t runs.
Acts(t) ==
    \/ t \in Handlers /\ (Arrival(t) \/ HandlerStep(t))
    \/ CheckpointStep(t)
    \/ Commit(t)

\* Every one of them is a step of the kind described above.
LEMMA ActsSteps ==
    ASSUME DaemonInv, NEW t \in Callers, Acts(t)
    PROVE  \E r : GoesTo(t, r)
<1>1. Steps(t)
  BY ArrivalSteps, HandlerSteps, CheckpointSteps, CommitSteps DEF Acts
<1>2. QED
  BY <1>1 DEF Steps

\* The kinds of steps of a running daemon, by what they do to goroutines and
\* store.
LEMMA ServeKinds ==
    ASSUME ServeStep
    PROVE  \/ \E t \in Callers : Acts(t)
           \/ FanList
           \/ FanSpawn
           \/ Aside
<1>1. CASE \E h \in Handlers : Arrival(h) \/ HandlerStep(h)
  BY <1>1, CallerKinds DEF Acts
<1>2. CASE \E t \in Callers : CheckpointStep(t) \/ Commit(t)
  BY <1>2 DEF Acts
<1>3. CASE FanStep \/ (\E n \in DOMAIN notes : NotifyReturns(n))
           \/ \E p \in Pids : ProcessExit(p) \/ ReportLost(p)
  BY <1>3 DEF FanStep, Aside
<1>4. QED
  BY <1>1, <1>2, <1>3 DEF ServeStep

\* The kinds of all steps.
LEMMA StepKinds ==
    ASSUME DaemonInv, [AnyStep]_vars
    PROVE  \/ \E t \in Callers : \E r : GoesTo(t, r)
           \/ FanList
           \/ FanSpawn
           \/ Aside
           \/ fan.pc = "idle" /\ Interrupt
           \/ ProcessEnds
           \/ UNCHANGED vars
  BY ServeKinds, ActsSteps DEF AnyStep, Aside

\* A step that changes nothing keeps the invariant.
LEMMA StutterInv ==
    ASSUME DaemonInv, UNCHANGED vars
    PROVE  DaemonInv'
<1>1. UNCHANGED <<jobs, lastId, history, pending, live, work, cli, images,
                  task, interrupted, fan, notes, requests, signals, up>>
  BY DEF vars, storeVars, hostVars, daemonVars
<1>2. TypeOK' /\ HostTypeOK'
  BY <1>1 DEF DaemonInv, DaemonTypeOK, TypeOK, HostTypeOK
<1>3. DaemonTypeOK'
  BY <1>1, <1>2 DEF DaemonInv, DaemonTypeOK, Idle
<1>4. QED
  BY <1>1, <1>3 DEF DaemonInv, LocalInv, CallInv, FanInv, Idle, Busy, BusyWorkers

\* The inductive invariant is inductive.
LEMMA AnyStepInv ==
    ASSUME DaemonInv, [AnyStep]_vars
    PROVE  DaemonInv'
  BY StepKinds, GoesToInv, FanListInv, FanSpawnInv, AsideInv, InterruptInv,
     ProcessEndsInv, StutterInv

\* It holds when the daemon has just been started on an empty database.
LEMMA InitDaemonInv == DaemonInit => DaemonInv
<1> SUFFICES ASSUME DaemonInit PROVE DaemonInv
  OBVIOUS
<1>1. /\ Init
      /\ HostInit
      /\ task = [t \in Callers |-> NoTask]
      /\ interrupted = FALSE
      /\ fan = [pc |-> "idle", todo |-> {}]
      /\ notes = <<>>
      /\ requests = 0
      /\ signals = 0
      /\ up = TRUE
  BY DEF DaemonInit
<1>2. TypeOK
  BY <1>1, InitTypeOK
<1>3. HostTypeOK
  <2>1. NoRun \in RunCommand
    BY DEF NoRun, RunCommand
  <2>2. QED
    BY <1>1, <2>1 DEF HostInit, HostTypeOK, Dirs
<1>4. \A t \in Callers : task[t] = NoTask /\ pending[t] = NoCall
  BY <1>1 DEF Init
<1>5. \A t \in Callers : Idle(t)
  <2>1. NoCall.op = "none"
    BY DEF NoCall
  <2>2. QED
    BY <1>4, <2>1 DEF Idle
<1>6. LocalInv
  BY <1>4, NoTaskOK DEF LocalInv
<1>7. CallInv
  BY <1>4, <1>5 DEF CallInv
<1>8. BusyWorkers = {}
  BY <1>4, CallerKinds, NoTaskOK DEF BusyWorkers, Busy, Workers
<1>9. FanInv
  BY <1>1, <1>8 DEF FanInv
<1>10. \A t \in Callers : task[t].pc = "commit" <=> ~Idle(t)
  BY <1>4, <1>5, NoTaskOK
<1>11. fan \in [pc : {"idle", "list", "spawn"}, todo : SUBSET Snapshot]
  BY <1>1
<1>12. task \in [Callers -> Task] /\ notes \in Seq(Note)
  BY <1>1, NoTaskOK
<1>13. interrupted \in BOOLEAN /\ up \in BOOLEAN
  BY <1>1
<1>14. requests \in 0..MaxRequests /\ signals \in 0..MaxSignals
  BY <1>1, BoundsAssumption
<1>15. DaemonTypeOK
  BY <1>2, <1>3, <1>10, <1>11, <1>12, <1>13, <1>14 DEF DaemonTypeOK
<1>16. QED
  BY <1>6, <1>7, <1>9, <1>15 DEF DaemonInv

\* The daemon's data stays well typed, and a goroutine is between the halves of
\* a store update exactly when the store holds its call, for every number of
\* connections and jobs, crashes and failing writes included.
THEOREM DaemonInvariant == DaemonSpec => []DaemonInv
<1>1. DaemonInit => DaemonInv
  BY InitDaemonInv
<1>2. DaemonInv /\ [DaemonNext]_vars => DaemonInv'
  BY AnyStepInv, DaemonNextIsAny
<1>3. QED
  BY <1>1, <1>2, PTL DEF DaemonSpec

\* DaemonTypeOK is the part of the invariant that the runs check.
THEOREM DaemonTypeCorrect == DaemonSpec => []DaemonTypeOK
<1>1. DaemonInv => DaemonTypeOK
  BY DEF DaemonInv
<1>2. QED
  BY <1>1, DaemonInvariant, PTL

-----------------------------------------------------------------------------
(* The daemon uses the store through its calls only                         *)

\* Whatever a step of the daemon does to the tables is one call of the store.
LEMMA AnyStepUsesStore ==
    ASSUME DaemonInv, [AnyStep]_vars
    PROVE  [Next]_storeVars
<1>1. CASE \E t \in Callers : \E r : GoesTo(t, r)
  BY <1>1 DEF GoesTo
<1>2. CASE FanList \/ FanSpawn \/ Interrupt
  BY <1>2 DEF FanList, FanSpawn, Interrupt, KeepStore
<1>3. CASE Aside
  BY <1>3, AsideInv
<1>4. CASE ProcessEnds
  BY <1>4, ProcessEndsInv
<1>5. CASE UNCHANGED vars
  BY <1>5 DEF vars
<1>6. QED
  BY <1>1, <1>2, <1>3, <1>4, <1>5, StepKinds

\* The daemon's handlers, fan-out and crashes implement the store's
\* specification: what is proved of the store holds of the daemon's database.
THEOREM DaemonUsesStore == DaemonSpec => UsesStore
<1>1. DaemonInit => Init
  BY DEF DaemonInit
<1>2. DaemonInv /\ [DaemonNext]_vars => [Next]_storeVars
  BY AnyStepUsesStore, DaemonNextIsAny
<1>3. QED
  BY <1>1, <1>2, DaemonInvariant, PTL DEF DaemonSpec, UsesStore, Spec

\* So the status of a job is that of its last history row, however requests
\* and interruptions overlap and wherever the daemon dies.
THEOREM DaemonHistoryAgrees == DaemonSpec => []HistoryAgrees
  BY DaemonUsesStore, StoreHistoryAgrees, PTL DEF UsesStore

\* And a status only leaves the table by the race inside UpdateStatus.
THEOREM DaemonOffTableWritesAreStale == DaemonSpec => OffTableWritesAreStale
  BY DaemonUsesStore, StoreOffTableWritesAreStale, PTL DEF UsesStore

-----------------------------------------------------------------------------
(* The fan-out: its semaphore and its notification                          *)

\* Only the start of a worker makes one more of them busy.
LEMMA BusyWorkersGrow ==
    ASSUME DaemonInv, [AnyStep]_vars
    PROVE  FanSpawn \/ BusyWorkers' \subseteq BusyWorkers
<1>1. CASE \E t \in Callers : \E r : GoesTo(t, r)
  BY <1>1, GoesToInv
<1>2. CASE FanList
  BY <1>2, FanListInv
<1>3. CASE Aside
  BY <1>3, AsideInv DEF BusyWorkers, Busy
<1>4. CASE Interrupt
  BY <1>4 DEF Interrupt, KeepTasks, BusyWorkers, Busy
<1>5. CASE ProcessEnds
  BY <1>5, ProcessEndsInv
<1>6. CASE UNCHANGED vars
  BY <1>6 DEF vars, daemonVars, BusyWorkers, Busy
<1>7. QED
  BY <1>1, <1>2, <1>3, <1>4, <1>5, <1>6, StepKinds

\* The workers can be counted.
LEMMA WorkersFinite ==
    ASSUME NEW S, S \subseteq Ids
    PROVE  IsFiniteSet(S) /\ Cardinality(S) \in Nat
<1>1. IsFiniteSet(Ids)
  BY FS_Interval, MaxJobsAssumption DEF Ids
<1>2. IsFiniteSet(S)
  BY <1>1, FS_Subset
<1>3. QED
  BY <1>2, FS_CardinalityType

\* Every step keeps within the slots of the semaphore.
LEMMA AnyStepBounded ==
    ASSUME DaemonInv, WorkersBounded, [AnyStep]_vars
    PROVE  WorkersBounded'
<1>1. BusyWorkers \subseteq Ids /\ BusyWorkers' \subseteq Ids
  BY DEF BusyWorkers, Workers
<1>2. /\ IsFiniteSet(BusyWorkers)
      /\ Cardinality(BusyWorkers) \in Nat
      /\ Cardinality(BusyWorkers') \in Nat
  BY <1>1, WorkersFinite
<1>3. MaxConcurrentCheckpoints \in Nat
  BY ConcurrencyAssumption
<1>4. CASE FanSpawn
  <2>1. Cardinality(BusyWorkers) < MaxConcurrentCheckpoints
    BY <1>4, FanSpawnInv
  <2>2. PICK w : BusyWorkers' \subseteq BusyWorkers \cup {w}
    BY <1>4, FanSpawnInv
  <2> DEFINE S == BusyWorkers \cup {w}
  <2>3. /\ IsFiniteSet(S)
        /\ Cardinality(S) = IF w \in BusyWorkers THEN Cardinality(BusyWorkers)
                            ELSE Cardinality(BusyWorkers) + 1
    BY <1>2, FS_AddElement
  <2>4. Cardinality(BusyWorkers') <= Cardinality(S)
    BY <2>2, <2>3, FS_Subset
  <2> HIDE DEF S
  <2>5. QED
    BY <1>2, <1>3, <2>1, <2>3, <2>4 DEF WorkersBounded
<1>5. CASE BusyWorkers' \subseteq BusyWorkers
  <2>1. Cardinality(BusyWorkers') <= Cardinality(BusyWorkers)
    BY <1>2, <1>5, FS_Subset
  <2>2. QED
    BY <1>2, <1>3, <2>1 DEF WorkersBounded
<1>6. QED
  BY <1>4, <1>5, BusyWorkersGrow

\* No worker runs at the start.
LEMMA InitBounded == DaemonInit => WorkersBounded
<1> SUFFICES ASSUME DaemonInit PROVE WorkersBounded
  OBVIOUS
<1>1. BusyWorkers = {}
  BY InitDaemonInv DEF DaemonInit, DaemonInv, FanInv
<1>2. QED
  BY <1>1, FS_EmptySet, ConcurrencyAssumption DEF WorkersBounded

\* handleInterruption never runs more checkpoints at once than its semaphore
\* has slots, for every number of jobs and of slots, over several signals.
THEOREM DaemonWorkersBounded == DaemonSpec => []WorkersBounded
<1>1. DaemonInit => WorkersBounded
  BY InitBounded
<1>2. DaemonInv /\ WorkersBounded /\ [DaemonNext]_vars => WorkersBounded'
  BY AnyStepBounded, DaemonNextIsAny
<1>3. QED
  BY <1>1, <1>2, DaemonInvariant, PTL DEF DaemonSpec

\* What the notification has to do with the fan-out while it starts workers:
\* the last one names the jobs that are still to be started, too.
AnnouncedInv ==
    Notifier /\ fan.pc = "spawn" =>
        /\ notes # <<>>
        /\ \A s \in fan.todo : s.id \in notes[Len(notes)].jobs
        /\ BusyWorkers \subseteq notes[Len(notes)].jobs

\* The notification comes with List, before the first worker, and every later
\* step works on the jobs it named.
LEMMA AnyStepAnnounced ==
    ASSUME DaemonInv, AnnouncedInv, [AnyStep]_vars
    PROVE  AnnouncedInv'
<1>1. CASE \E t \in Callers : \E r : GoesTo(t, r)
  <2>1. BusyWorkers' \subseteq BusyWorkers
    BY <1>1, GoesToInv
  <2>2. fan' = fan /\ notes' = notes
    BY <1>1 DEF GoesTo
  <2>3. QED
    BY <2>1, <2>2 DEF AnnouncedInv
<1>2. CASE FanList
  BY <1>2, FanListInv DEF AnnouncedInv
<1>3. CASE FanSpawn
  <2>1. PICK s \in fan.todo : BusyWorkers' \subseteq BusyWorkers \cup {s.id}
    BY <1>3, FanSpawnInv
  <2>2. notes' = notes /\ fan'.pc = fan.pc /\ fan'.todo \subseteq fan.todo
    BY <1>3, FanSpawnInv
  <2>3. QED
    BY <2>1, <2>2 DEF AnnouncedInv
<1>4. CASE Aside
  <2>1. BusyWorkers' = BusyWorkers
    BY <1>4, AsideInv DEF BusyWorkers, Busy
  <2>2. notes \in Seq(Note) /\ notes' \in Seq(Note)
    BY <1>4, AsideInv DEF DaemonInv, DaemonTypeOK
  <2>3. /\ notes # <<>> <=> Len(notes) > 0
        /\ notes' # <<>> <=> Len(notes') > 0
    BY <2>2, EmptySeq
  <2>4. QED
    BY <1>4, <2>1, <2>3, AsideInv DEF AnnouncedInv
<1>5. CASE Interrupt
  <2>1. fan' = [fan EXCEPT !.pc = "list"]
    BY <1>5 DEF Interrupt
  <2>2. fan'.pc # "spawn"
    BY <2>1 DEF DaemonInv, DaemonTypeOK
  <2>3. QED
    BY <2>2 DEF AnnouncedInv
<1>6. CASE ProcessEnds
  BY <1>6 DEF ProcessEnds, AnnouncedInv
<1>7. CASE UNCHANGED vars
  BY <1>7 DEF vars, daemonVars, AnnouncedInv, BusyWorkers, Busy
<1>8. QED
  BY <1>1, <1>2, <1>3, <1>4, <1>5, <1>6, <1>7, StepKinds

\* A notification that names every job of the fan-out is under way before the
\* first checkpoint begins, for every number of jobs and signals.
THEOREM DaemonWorkersAnnounced == DaemonSpec => []WorkersAnnounced
<1>1. DaemonInit => AnnouncedInv
  BY DEF DaemonInit, AnnouncedInv
<1>2. DaemonInv /\ AnnouncedInv /\ [DaemonNext]_vars => AnnouncedInv'
  BY AnyStepAnnounced, DaemonNextIsAny
<1>3. DaemonInv /\ AnnouncedInv => WorkersAnnounced
  BY DEF DaemonInv, FanInv, AnnouncedInv, WorkersAnnounced
<1>4. QED
  BY <1>1, <1>2, <1>3, DaemonInvariant, PTL DEF DaemonSpec

-----------------------------------------------------------------------------
(* show: two reads of the database                                          *)

\* No call of the store takes a history row back or changes one.
LEMMA HistoryGrows ==
    ASSUME TypeOK, [Next]_storeVars, NEW id \in Ids, NEW k \in DOMAIN history[id]
    PROVE  k \in DOMAIN history'[id] /\ history'[id][k] = history[id][k]
<1>1. CASE history' = history
  BY <1>1
<1>2. CASE \E c \in Callers : UpdateCommit(c)
  <2>1. PICK c \in Callers : UpdateCommit(c)
    BY <1>2
  <2>2. history[id] \in Seq(HistoryEntry)
    BY DEF TypeOK
  <2>3. CASE id = pending[c].id
    <3> DEFINE entry == [from |-> pending[c].from, to |-> pending[c].to]
    <3>1. history'[id] = Append(history[id], entry)
      BY <2>1, <2>3, CommitEffect
    <3> HIDE DEF entry
    <3>2. /\ Len(history[id]) \in Nat
          /\ DOMAIN history[id] = 1..Len(history[id])
      BY <2>2
    <3>3. QED
      BY <2>2, <3>1, <3>2
  <2>4. CASE id # pending[c].id
    BY <2>1, <2>4, CommitEffect
  <2>5. QED
    BY <2>3, <2>4
<1>3. QED
  BY <1>1, <1>2
     DEF Next, storeVars, InsertSome, Insert, SetDir, UpdateCheckpointDir,
         CallUpdateStatus, UpdateStatusRead, CallUpdatePID, UpdatePIDRead,
         UpdateRollback, Crash

\* Status `to' of job id is one it was inserted with, or in its history.
Covered(id, to) ==
    \/ to \in InitialStatuses
    \/ \E k \in DOMAIN history[id] : history[id][k].to = to

\* The present status of a job is covered by its history.
LEMMA StatusCovered ==
    ASSUME HistoryInv, NEW id, Exists(id)
    PROVE  id \in Ids /\ Covered(id, jobs[id].status)
<1>1. id \in 1..lastId /\ lastId \in 0..MaxJobs
  BY DEF HistoryInv, TypeOK, Exists
<1>2. id \in Ids /\ ~(id > lastId)
  BY <1>1, MaxJobsAssumption DEF Ids
<1>3. jobs[id].status # ABSENT
  BY <1>2 DEF HistoryInv, TypeOK
<1>4. CASE history[id] = <<>>
  BY <1>2, <1>3, <1>4 DEF HistoryInv, HistoryAgrees, Covered
<1>5. CASE history[id] # <<>>
  <2>1. jobs[id].status = history[id][Len(history[id])].to
    BY <1>2, <1>5 DEF HistoryInv, HistoryAgrees, LastEntry
  <2>2. history[id] \in Seq(HistoryEntry)
    BY <1>2 DEF HistoryInv, TypeOK
  <2>3. Len(history[id]) \in DOMAIN history[id]
    BY <1>5, <2>2, EmptySeq
  <2>4. QED
    BY <1>2, <2>1, <2>3 DEF Covered
<1>6. QED
  BY <1>4, <1>5

\* What is covered stays covered.
LEMMA CoveredStays ==
    ASSUME TypeOK, [Next]_storeVars, NEW id \in Ids, NEW to, Covered(id, to)
    PROVE  \/ to \in InitialStatuses
           \/ \E k \in DOMAIN history'[id] : history'[id][k].to = to
<1>1. CASE to \in InitialStatuses
  BY <1>1
<1>2. CASE \E k \in DOMAIN history[id] : history[id][k].to = to
  <2>1. PICK k \in DOMAIN history[id] : history[id][k].to = to
    BY <1>2
  <2>2. k \in DOMAIN history'[id] /\ history'[id][k] = history[id][k]
    BY HistoryGrows
  <2>3. QED
    BY <2>1, <2>2
<1>3. QED
  BY <1>1, <1>2 DEF Covered

\* The handlers between the two reads hold a covered status of a job.
ShowInv ==
    \A h \in Handlers :
        task[h].pc = "history" => task[h].id \in Ids /\ Covered(task[h].id, task[h].to)

\* Whatever else happens between the two reads.
LEMMA AnyStepShow ==
    ASSUME DaemonInv, HistoryInv, ShowInv, [AnyStep]_vars
    PROVE  ShowInv'
<1> DEFINE Shown(q) ==
             /\ q.id \in Ids
             /\ \/ q.to \in InitialStatuses
                \/ \E k \in DOMAIN history'[q.id] : history'[q.id][k].to = q.to
<1> SUFFICES ASSUME NEW h \in Handlers, task'[h].pc = "history"
             PROVE  Shown(task'[h])
  BY DEF ShowInv, Covered
<1>1. TypeOK /\ [Next]_storeVars
  BY AnyStepUsesStore DEF DaemonInv, DaemonTypeOK
<1>2. h \in Callers /\ h \notin Ids
  BY CallerKinds
<1>3. task \in [Callers -> Task]
  BY DEF DaemonInv, DaemonTypeOK
<1>4. CASE task'[h] = task[h]
  <2>1. task[h].id \in Ids /\ Covered(task[h].id, task[h].to)
    BY <1>4 DEF ShowInv
  <2>2. QED
    BY <1>1, <1>4, <2>1, CoveredStays
<1>5. ASSUME NEW t \in Callers, NEW r, GoesTo(t, r)
      PROVE  Shown(task'[h])
  <2>1. task' = [task EXCEPT ![t] = r]
    BY <1>5 DEF GoesTo
  <2>2. CASE t # h
    BY <1>2, <1>3, <1>4, <2>1, <2>2
  <2>3. CASE t = h
    <3>1. task'[h] = r
      BY <1>2, <1>3, <2>1, <2>3
    <3>2. Exists(r.id) /\ r.to = jobs[r.id].status
      BY <1>5, <3>1 DEF GoesTo
    <3>3. r.id \in Ids /\ Covered(r.id, r.to)
      BY <3>2, StatusCovered
    <3>4. QED
      BY <1>1, <3>1, <3>3, CoveredStays
  <2>4. QED
    BY <2>2, <2>3
<1>6. CASE FanSpawn
  <2>1. PICK w \in Ids, r \in Task : task' = [task EXCEPT ![w] = r]
    BY <1>6, FanSpawnInv
  <2>2. QED
    BY <1>2, <1>3, <1>4, <2>1
<1>7. CASE FanList \/ Interrupt
  BY <1>4, <1>7 DEF FanList, Interrupt, KeepTasks
<1>8. CASE Aside
  BY <1>4, <1>8, AsideInv
<1>9. CASE ProcessEnds
  BY <1>2, <1>9, NoTaskOK DEF ProcessEnds
<1>10. CASE UNCHANGED vars
  BY <1>4, <1>10 DEF vars, daemonVars
<1>11. QED
  BY <1>5, <1>6, <1>7, <1>8, <1>9, <1>10, StepKinds

\* The history that show reads second has the status that it read first,
\* whatever is written in between, for any mix of requests.
THEOREM DaemonHistoryCoversRow == DaemonSpec => []HistoryCoversRow
<1>1. DaemonInit => HistoryInv /\ ShowInv
  <2>1. DaemonInit => ShowInv
    BY CallerKinds, NoTaskOK DEF DaemonInit, ShowInv
  <2>2. QED
    BY <2>1, InitHistoryInv DEF DaemonInit
<1>2. DaemonInv /\ HistoryInv /\ ShowInv /\ [DaemonNext]_vars
        => HistoryInv' /\ ShowInv'
  BY AnyStepShow, AnyStepUsesStore, NextHistoryInv, DaemonNextIsAny
<1>3. ShowInv => HistoryCoversRow
  BY DEF ShowInv, Covered, HistoryCoversRow
<1>4. QED
  BY <1>1, <1>2, <1>3, DaemonInvariant, PTL DEF DaemonSpec

=============================================================================
