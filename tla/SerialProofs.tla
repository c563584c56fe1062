---------------------------- MODULE SerialProofs ----------------------------
(***************************************************************************)
(* What the daemon guarantees of a job that one goroutine at a time works  *)
(* on, as a lock per job would have it, for any number of connections,     *)
(* jobs, requests and signals, and failures and restarts at any step; and  *)
(* what it therefore guarantees to a single client without such a lock.    *)
(***************************************************************************)
EXTENDS JobProofs, TLAPS

USE DEF RUNNING, CHECKPOINT_IN_PROGRESS, CHECKPOINT_CREATED,
        CHECKPOINT_CREATION_FAILED, RESTORE_PENDING, RESTORE_FAILED,
        FAILED, CANCELED, COMPLETED, ABSENT

-----------------------------------------------------------------------------
(* Turns                                                                    *)

\* The places of checkpointJob and resumeJob, and of a validated store update
\* that is not written yet.
WorkPcs == {"begin", "dump", "created", "failed", "pend", "restore", "pid",
            "restoreFailed", "commit"}

AtWork(t, id) == task[t].id = id /\ task[t].pc \in WorkPcs

\* No two goroutines work on a job at the same time, and nobody works on a job
\* that the fan-out has listed before its worker does.  The code does not see
\* to this.
JobsTakeTurns ==
    /\ \A t, u \in Callers : \A id \in Ids : AtWork(t, id) /\ AtWork(u, id) => t = u
    /\ \A s \in fan.todo : \A t \in Callers : ~AtWork(t, s.id)

\* Store updates that take turns do not overlap.
LEMMA TurnsNoOverlap ==
    ASSUME DaemonInv, JobsTakeTurns
    PROVE  NoOverlap
<1> SUFFICES ASSUME NEW c \in Callers, NEW d \in Callers, ~Idle(c), ~Idle(d),
                    pending[c].id = pending[d].id
             PROVE  c = d
  BY DEF NoOverlap
<1>1. task[c].pc = "commit" /\ task[d].pc = "commit"
  BY DEF DaemonInv, DaemonTypeOK
<1>2. pending[c].id = task[c].id /\ pending[d].id = task[d].id
  BY DEF DaemonInv, CallInv
<1>3. pending[c].id \in Ids
  BY BusyCall DEF DaemonInv, DaemonTypeOK
<1>4. AtWork(c, pending[c].id) /\ AtWork(d, pending[c].id)
  BY <1>1, <1>2 DEF AtWork, WorkPcs
<1>5. QED
  BY <1>3, <1>4 DEF JobsTakeTurns

\* Goroutines that take turns on each job use the store as a single caller per
\* job would, through crashes and failing transactions.
THEOREM TurnsMakeSerial == DaemonSpec /\ []JobsTakeTurns => SerialSpec
<1>1. DaemonInit => Init
  BY DEF DaemonInit
<1>2. DaemonInv /\ JobsTakeTurns => NoOverlap
  BY TurnsNoOverlap
<1>3. DaemonInv /\ [DaemonNext]_vars /\ NoOverlap' => [SerialNext]_storeVars
  <2>1. DaemonInv /\ [DaemonNext]_vars => [Next]_storeVars
    BY AnyStepUsesStore, DaemonNextIsAny
  <2>2. QED
    BY <2>1 DEF SerialNext
<1>4. QED
  BY <1>1, <1>2, <1>3, DaemonInvariant, PTL DEF DaemonSpec, SerialSpec

\* So the status column implements the abstract lifecycle: every change is in
\* the transition table and terminal statuses are final.
THEOREM TurnsLifecycle == DaemonSpec /\ []JobsTakeTurns => DaemonLifecycle
  BY TurnsMakeSerial, SerialStoreRefines, PTL DEF DaemonLifecycle

\* The history that show prints is a path: each row leaves the status that the
\* row before it entered.
THEOREM TurnsHistoryChains == DaemonSpec /\ []JobsTakeTurns => []HistoryChains
  BY TurnsMakeSerial, SerialStoreHistoryChains, PTL

\* And a row carries a failure reason exactly in the statuses that have one,
\* although UpdatePID never clears it.
THEOREM TurnsReasonAgrees == DaemonSpec /\ []JobsTakeTurns => []ReasonAgrees
  BY TurnsMakeSerial, SerialStoreReasonAgrees, PTL

\* What holds of the store of such a daemon in every state.
LEMMA TurnsSerialInv == DaemonSpec /\ []JobsTakeTurns => []SerialInv
<1>1. Init => SerialInv
  BY InitSerialInv
<1>2. SerialInv /\ [SerialNext]_storeVars => SerialInv'
  BY NextSerialInv
<1>3. SerialSpec => []SerialInv
  BY <1>1, <1>2, PTL DEF SerialSpec
<1>4. QED
  BY <1>3, TurnsMakeSerial, PTL

-----------------------------------------------------------------------------
(* One connection at a time                                                 *)

\* One client and no signals: turns are taken without a lock.
OneAtATime == MaxSignals = 0 /\ \A g, h \in Handlers : g = h

\* Without signals there is no fan-out.
LEMMA NextQuiet ==
    ASSUME OneAtATime, DaemonInv, fan.pc = "idle", [DaemonNext]_vars
    PROVE  fan'.pc = "idle"
<1>1. /\ ~FanList
      /\ ~FanSpawn
      /\ ~Interrupt
  <2>1. fan.todo = {} /\ signals \in 0..0
    BY DEF OneAtATime, DaemonInv, DaemonTypeOK, FanInv
  <2>2. QED
    BY <2>1 DEF OneAtATime, FanList, FanSpawn, Interrupt
<1>2. CASE \E t \in Callers : \E r : GoesTo(t, r)
  BY <1>2 DEF GoesTo
<1>3. CASE Aside
  BY <1>3, AsideInv
<1>4. CASE ProcessEnds
  BY <1>4 DEF ProcessEnds
<1>5. CASE UNCHANGED vars
  BY <1>5 DEF vars, daemonVars
<1>6. QED
  BY <1>1, <1>2, <1>3, <1>4, <1>5, StepKinds, DaemonNextIsAny

\* Then the single connection never overlaps with anybody.
LEMMA QuietTurns ==
    ASSUME OneAtATime, DaemonInv, fan.pc = "idle"
    PROVE  JobsTakeTurns
<1>1. BusyWorkers = {} /\ fan.todo = {}
  BY DEF DaemonInv, FanInv
<1> SUFFICES ASSUME NEW t \in Callers, NEW u \in Callers, NEW id \in Ids,
                    AtWork(t, id), AtWork(u, id)
             PROVE  t = u
  BY <1>1 DEF JobsTakeTurns
<1>2. Busy(t) /\ Busy(u)
  BY DEF AtWork, WorkPcs, Busy
<1>3. t \notin Ids /\ u \notin Ids
  BY <1>1, <1>2 DEF BusyWorkers, Workers
<1>4. t \in Handlers /\ u \in Handlers
  BY <1>3, CallersAssumption
<1>5. QED
  BY <1>4 DEF OneAtATime

\* A daemon that serves one connection at a time and gets no signals takes
\* turns, through crashes, hangs and failing transactions.
THEOREM QuietDaemonTakesTurns ==
    ASSUME OneAtATime
    PROVE  DaemonSpec => []JobsTakeTurns
<1>1. DaemonInit => fan.pc = "idle"
  BY DEF DaemonInit
<1>2. DaemonInv /\ fan.pc = "idle" /\ [DaemonNext]_vars => (fan.pc = "idle")'
  BY NextQuiet
<1>3. DaemonInv /\ fan.pc = "idle" => JobsTakeTurns
  BY QuietTurns
<1>4. QED
  BY <1>1, <1>2, <1>3, DaemonInvariant, PTL DEF DaemonSpec

\* So its jobs follow the lifecycle, for any number of them.
THEOREM QuietDaemonLifecycle ==
    ASSUME OneAtATime
    PROVE  DaemonSpec => DaemonLifecycle
  BY QuietDaemonTakesTurns, TurnsLifecycle, PTL

-----------------------------------------------------------------------------
(* Processes                                                                *)

\* The faults that leave a process whose row says otherwise: a status that is
\* not written, and a restore whose pid is lost.
OutcomesWritten == Faults \cap {"db", "pidfile"} = {}

\* A process carries the work of a job that exists, and nothing once it ended.
WorkOK ==
    \A p \in Pids : work[p] \in 0..lastId /\ (p \notin live => work[p] = 0)

\* The processes of a job that criu checkpoints.  Those of a job with a
\* checkpoint hook are not accounted for.
Tracked(id) ==
    IF "checkpoint" \in jobs[id].hooks THEN {} ELSE ProcessesOf(id)

\* The part of StatusMatchesProcess that each job's status promises, and that
\* it has one process.
RowOK(id) ==
    /\ jobs[id].status \in {CHECKPOINT_CREATED, RESTORE_FAILED}
        => Tracked(id) = {}
    /\ jobs[id].status = RUNNING => Tracked(id) \subseteq {jobs[id].pid}
    /\ \A p, q \in Tracked(id) : p = q

\* What a goroutine at work knows of its job: while it has yet to dump the job
\* or to store its new pid, there is no process but the one it holds; once it
\* has dumped the job and until it has restored it, there is none.
HoldsProcess(t) ==
    /\ task[t].pc \in WorkPcs => task[t].id \in 1..lastId
    /\ task[t].pc \in {"begin", "dump", "pid"} \/ task[t].then = "dump"
        => Tracked(task[t].id) \subseteq {task[t].pid}
    /\ task[t].pc \in {"created", "pend", "restore", "restoreFailed"}
            \/ task[t].then = "restore"
        => Tracked(task[t].id) = {}

\* A resume finds the job in a status from which it can start, and restores it
\* in RESTORE_PENDING only: the one before is not lost.
ResumeOK(t) ==
    /\ task[t].pc = "pend"
        => jobs[task[t].id].status \in {CHECKPOINT_CREATED, RESTORE_FAILED}
    /\ task[t].pc = "restore" => jobs[task[t].id].status = RESTORE_PENDING
    /\ task[t].then = "restore" => pending[t].to = RESTORE_PENDING

\* A call in flight will tell the truth.
CallOK(t) ==
    ~Idle(t) =>
        /\ pending[t].to = RUNNING =>
            /\ pending[t].op = "UpdatePID"
            /\ Tracked(pending[t].id) \subseteq {pending[t].pid}
        /\ pending[t].to \in {CHECKPOINT_CREATED, RESTORE_FAILED}
            => Tracked(pending[t].id) = {}

\* The places of a request before its row is inserted.
NamedPcs == {"latch", "scan", "insert"}

\* A job to adopt comes without a process.
AdoptOK(t) ==
    task[t].pc \in NamedPcs /\ task[t].op \in AdoptOps => task[t].pid = NoPid

ProcessOK(t) == HoldsProcess(t) /\ ResumeOK(t) /\ CallOK(t) /\ AdoptOK(t)

\* The rows that the fan-out has listed.
ListedOK ==
    \A s \in fan.todo : s.id \in 1..lastId /\ Tracked(s.id) \subseteq {s.pid}

ProcessInv ==
    /\ WorkOK
    /\ \A id \in Ids : RowOK(id)
    /\ \A t \in Callers : ProcessOK(t)
    /\ ListedOK

\* A goroutine that has ended.
LEMMA FinishedPc ==
    ASSUME DaemonInv, NEW t \in Callers, Finish(t)
    PROVE  task'[t].pc = "idle"
<1>1. task'[t] = NoTask
  BY Typed DEF Finish, Become
<1>2. QED
  BY <1>1, NoTaskOK

\* A goroutine that has gone on.
LEMMA GonePc ==
    ASSUME DaemonInv, NEW t \in Callers, NEW pc, Goto(t, pc)
    PROVE  task'[t].pc = pc
  BY Typed DEF Goto, Task

\* The admission of a request keeps what it came with.
LEMMA AdmissionKeeps ==
    ASSUME DaemonInv, NEW t \in Callers, Latch(t) \/ AdoptScan(t),
           task'[t].pc \in NamedPcs
    PROVE  /\ task[t].pc \in NamedPcs
           /\ task'[t].op = task[t].op /\ task'[t].pid = task[t].pid
<1>1. task \in [Callers -> Task] /\ task[t] \in Task
  BY Typed
<1>2. ~Finish(t)
  BY FinishedPc DEF NamedPcs
<1>3. PICK pc \in {"insert", "scan", "get"} : Goto(t, pc)
  <2>1. CASE Latch(t)
    <3>1. task[t].op \in RegisterOps \cup AdoptOps \cup {"pause"}
      BY <2>1, Typed DEF Latch, At, LocalOK
    <3>2. Goto(t, CASE task[t].op \in RegisterOps -> "insert"
                    [] task[t].op \in AdoptOps -> "scan"
                    [] task[t].op = "pause" -> "get")
      BY <1>2, <2>1 DEF Latch, Refuse
    <3>3. QED
      BY <3>1, <3>2 DEF RegisterOps, AdoptOps
  <2>2. CASE AdoptScan(t)
    BY <1>2, <2>2 DEF AdoptScan, Refuse
  <2>3. QED
    BY <2>1, <2>2
<1>4. /\ task'[t].op = task[t].op /\ task'[t].pid = task[t].pid
  BY <1>1, <1>3 DEF Goto, Task
<1>5. task[t].pc \in NamedPcs
  BY DEF Latch, AdoptScan, At, NamedPcs
<1>6. QED
  BY <1>3, <1>4, <1>5

\* What a step of a goroutine does to the processes.
LEMMA HostWrites ==
    ASSUME NEW t, Acts(t)
    PROVE  \/ UNCHANGED <<live, work>>
           \/ \E p : /\ live' = live \ {p}
                     /\ work' = [q \in Pids |-> IF q = p THEN 0 ELSE work[q]]
           \/ \E p \in Pids : FreePid(p) /\ live' = live \cup {p} /\ work' = work
           \/ /\ task[t].pc = "insert"
              /\ Insert(InsertedRow(t))
              /\ live' = live
              /\ work' = [p \in Pids |->
                            IF p = task[t].pid /\ p \in live THEN lastId + 1
                            ELSE work[p]]
           \/ /\ task[t].pc = "restore"
              /\ ResumeRestore(t)
              /\ \E p \in Pids : ResumeRuns(t, p)
<1>1. CASE Arrival(t)
  BY <1>1 DEF Arrival, AcceptRegister, AcceptAdopt, AcceptPause, AcceptResume,
         AcceptCancel, AcceptShow, AcceptPrune, AcceptOnJob, AcceptPruneAll,
         AcceptComplete, StartRun, StartJoin, KeepHost, hostVars
<1>2. ASSUME NEW to, NEW then, CallStatus(t, to, then)
      PROVE  UNCHANGED <<live, work>>
  BY <1>2 DEF CallStatus, KeepHost, hostVars
<1>3. CASE HandlerStep(t)
  <2>1. CASE Latch(t) \/ AdoptScan(t) \/ SetDefaultDir(t)
    BY <2>1 DEF Latch, AdoptScan, SetDefaultDir, Refuse, KeepHost, hostVars
  <2>2. CASE RegisterInsert(t)
    BY <2>2 DEF RegisterInsert, At, Refuse
  <2>3. CASE PauseGet(t) \/ ResumeGet(t) \/ CancelGet(t) \/ CompleteGet(t)
    BY <2>3 DEF PauseGet, ResumeGet, CancelGet, CompleteGet, GetRow, KeepHost, hostVars
  <2>4. CASE Mark(t) \/ ResumeBegin(t) \/ ResumeFailed(t)
    BY <1>2, <2>4 DEF Mark, ResumeBegin, ResumeFailed
  <2>5. CASE PruneGet(t) \/ PruneRemove(t) \/ ShowGet(t) \/ ShowHistory(t)
             \/ ResumeUpdatePID(t)
    BY <2>5 DEF PruneGet, PruneRemove, RemoveAll, ShowGet, ShowHistory,
           ResumeUpdatePID, KeepHost, hostVars
  <2>6. CASE CancelKill(t)
    BY <2>6 DEF CancelKill, KillGroup, Ends, KeepHost, hostVars
  <2>7. CASE ResumeRestore(t)
    BY <2>7 DEF ResumeRestore, At, KeepHost, hostVars
  <2>8. QED
    BY <1>3, <2>1, <2>2, <2>3, <2>4, <2>5, <2>6, <2>7 DEF HandlerStep
<1>4. CASE CheckpointStep(t)
  <2>1. CASE CheckpointDump(t)
    BY <2>1 DEF CheckpointDump, CheckpointRuns, HookCheckpoints, DumpSucceeds,
           Ends, KeepHost, hostVars
  <2>2. CASE CheckpointBegin(t) \/ CheckpointCreated(t) \/ CheckpointFailed(t)
    BY <1>2, <2>2 DEF CheckpointBegin, CheckpointCreated, CheckpointFailed
  <2>3. QED
    BY <1>4, <2>1, <2>2 DEF CheckpointStep
<1>5. CASE Commit(t)
  BY <1>5 DEF Commit, KeepHost, hostVars
<1>6. QED
  BY <1>1, <1>3, <1>4, <1>5 DEF Acts

\* A process that ends carries nothing, and takes nothing but itself away.
LEMMA EndsShrinks ==
    ASSUME HostTypeOK, WorkOK, TypeOK, NEW p, live' = live \ {p},
           work' = [q \in Pids |-> IF q = p THEN 0 ELSE work[q]], lastId' = lastId
    PROVE  /\ WorkOK'
           /\ \A id \in Ids : ProcessesOf(id)' = ProcessesOf(id) \ {p}
<1>1. live \subseteq Pids /\ lastId \in Nat
  BY MaxJobsAssumption DEF HostTypeOK, TypeOK
<1>2. WorkOK'
  BY <1>1 DEF WorkOK
<1>3. \A id \in Ids : ProcessesOf(id)' = ProcessesOf(id) \ {p}
  BY <1>1 DEF ProcessesOf
<1>4. QED
  BY <1>2, <1>3

\* Ids are assigned and never taken back.
LEMMA ActsLastId ==
    ASSUME DaemonInv, NEW t \in Callers, Acts(t)
    PROVE  /\ lastId \in 0..MaxJobs /\ MaxJobs \in Nat
           /\ lastId' = lastId \/ (task[t].pc = "insert" /\ Insert(InsertedRow(t)))
           /\ lastId' \in {lastId, lastId + 1}
           /\ 1..lastId \subseteq Ids
<1>1. lastId \in 0..MaxJobs /\ MaxJobs \in Nat
  BY MaxJobsAssumption DEF DaemonInv, DaemonTypeOK, TypeOK
<1>2. lastId' = lastId \/ (task[t].pc = "insert" /\ Insert(InsertedRow(t)))
  BY RowWrites DEF UpdateCheckpointDir, UpdateCommit
<1>3. QED
  BY <1>1, <1>2 DEF Insert, Ids

\* A new id is assigned by the insertion of its row, which marks the process.
LEMMA InsertWrites ==
    ASSUME DaemonInv, NEW t \in Callers, Acts(t), lastId' # lastId
    PROVE  /\ task[t].pc = "insert"
           /\ Insert(InsertedRow(t))
           /\ live' = live
           /\ work' = [p \in Pids |->
                         IF p = task[t].pid /\ p \in live THEN lastId + 1
                         ELSE work[p]]
<1>1. task[t].pc = "insert"
  BY ActsLastId
<1>2. ~Arrival(t)
  BY <1>1 DEF Arrival, AcceptRegister, AcceptAdopt, AcceptPause, AcceptResume,
         AcceptCancel, AcceptShow, AcceptPrune, AcceptOnJob, AcceptPruneAll,
         AcceptComplete, Accept, Busy
<1>3. ~CheckpointStep(t) /\ ~Commit(t)
  BY <1>1 DEF CheckpointStep, At, CheckpointBegin, CheckpointDump,
         CheckpointCreated, CheckpointFailed, Commit
<1>4. RegisterInsert(t)
  BY <1>1, <1>2, <1>3 DEF Acts, HandlerStep, At, Latch, AdoptScan,
         SetDefaultDir, PauseGet, ResumeGet, CancelGet, CompleteGet, GetRow,
         CancelKill, Mark, PruneGet, PruneRemove, ResumeBegin, ShowGet,
         ShowHistory, ResumeRestore, ResumeUpdatePID, ResumeFailed
<1>5. QED
  BY <1>1, <1>4 DEF RegisterInsert, Refuse, KeepStore, storeVars

\* The processes of a job become fewer, but for the restore of that job; and
\* the first process of a new job is the one that it was registered with.
LEMMA ActsProcesses ==
    ASSUME DaemonInv, ProcessInv, NEW t \in Callers, Acts(t)
    PROVE  /\ WorkOK'
           /\ \A id \in 1..lastId :
                \/ ProcessesOf(id)' \subseteq ProcessesOf(id)
                \/ task[t].pc = "restore" /\ task[t].id = id
           /\ \A id \in Ids : id = lastId + 1 /\ lastId' # lastId
                => ProcessesOf(id)' \subseteq {task[t].pid}
<1>1. /\ TypeOK /\ HostTypeOK /\ WorkOK
      /\ live \subseteq Pids /\ work \in [Pids -> Ids \cup {0}]
      /\ lastId \in Nat /\ 1..lastId \subseteq Ids
      /\ lastId' \in {lastId, lastId + 1}
  BY Typed, ActsLastId DEF HostTypeOK, ProcessInv
<1>2. CASE UNCHANGED <<live, work>> /\ lastId' = lastId
  BY <1>1, <1>2 DEF WorkOK, ProcessesOf
<1>3. CASE /\ \E p : /\ live' = live \ {p}
                     /\ work' = [q \in Pids |-> IF q = p THEN 0 ELSE work[q]]
           /\ lastId' = lastId
  BY <1>1, <1>3, EndsShrinks
<1>4. CASE /\ \E p \in Pids : FreePid(p) /\ live' = live \cup {p} /\ work' = work
           /\ lastId' = lastId
  <2>1. PICK p \in Pids : p \notin live /\ live' = live \cup {p} /\ work' = work
    BY <1>4 DEF FreePid
  <2>2. work[p] = 0
    BY <1>1, <2>1 DEF WorkOK
  <2>3. WorkOK'
    BY <1>1, <1>4, <2>1 DEF WorkOK
  <2>4. \A id \in 1..lastId : ProcessesOf(id)' \subseteq ProcessesOf(id)
    BY <1>1, <2>1, <2>2 DEF ProcessesOf
  <2>5. QED
    BY <1>4, <2>3, <2>4
<1>5. CASE /\ Insert(InsertedRow(t))
           /\ live' = live
           /\ work' = [p \in Pids |->
                         IF p = task[t].pid /\ p \in live THEN lastId + 1
                         ELSE work[p]]
  <2>1. lastId' = lastId + 1
    BY <1>5 DEF Insert
  <2>2. WorkOK'
    BY <1>1, <1>5, <2>1 DEF WorkOK
  <2>3. \A id \in 1..lastId : ProcessesOf(id)' \subseteq ProcessesOf(id)
    BY <1>1, <1>5 DEF ProcessesOf
  <2>4. \A id \in Ids : id = lastId + 1 => ProcessesOf(id)' \subseteq {task[t].pid}
    BY <1>1, <1>5 DEF ProcessesOf, WorkOK
  <2>5. QED
    BY <2>2, <2>3, <2>4
<1>6. CASE /\ task[t].pc = "restore"
           /\ \E p \in Pids : ResumeRuns(t, p)
           /\ lastId' = lastId
           /\ ~UNCHANGED <<live, work>>
  <2>1. PICK p \in Pids : /\ live' = live \cup {p}
                          /\ work' = [work EXCEPT ![p] = task[t].id]
    BY <1>2, <1>6 DEF ResumeRuns, HookResumes, RestoreSucceeds, Starts, hostVars
  <2>2. task[t].id \in 1..lastId
    BY <1>6 DEF ProcessInv, ProcessOK, HoldsProcess, WorkPcs
  <2>3. WorkOK'
    BY <1>1, <1>6, <2>1, <2>2 DEF WorkOK
  <2>4. \A id \in 1..lastId : id # task[t].id => ProcessesOf(id)' \subseteq ProcessesOf(id)
    BY <1>1, <2>1 DEF ProcessesOf
  <2>5. QED
    BY <1>6, <2>3, <2>4
<1>7. CASE lastId' # lastId
  BY <1>5, <1>7, InsertWrites
<1>8. CASE lastId' = lastId
  BY <1>2, <1>3, <1>4, <1>5, <1>6, <1>8, HostWrites
<1>9. QED
  BY <1>7, <1>8

\* The same of the processes that are accounted for: hooks do not change.
LEMMA ActsTracked ==
    ASSUME DaemonInv, ProcessInv, NEW t \in Callers, Acts(t)
    PROVE  /\ \A id \in 1..lastId :
                \/ Tracked(id)' \subseteq Tracked(id)
                \/ task[t].pc = "restore" /\ task[t].id = id
           /\ \A id \in Ids : id = lastId + 1 /\ lastId' # lastId
                => Tracked(id)' \subseteq {task[t].pid}
<1>1. \A id \in 1..lastId : jobs'[id].hooks = jobs[id].hooks
  BY ActsRowsGrow DEF RowsGrow
<1>2. ASSUME NEW id \in 1..lastId, ~(task[t].pc = "restore" /\ task[t].id = id)
      PROVE  Tracked(id)' \subseteq Tracked(id)
  BY <1>1, <1>2, ActsProcesses DEF Tracked
<1>3. ASSUME NEW id \in Ids, id = lastId + 1, lastId' # lastId
      PROVE  Tracked(id)' \subseteq {task[t].pid}
  BY <1>3, ActsProcesses DEF Tracked
<1>4. QED
  BY <1>2, <1>3

\* Only the commit of a goroutine at work on it changes the status and the pid
\* of a row that is there.
LEMMA ActsRows ==
    ASSUME DaemonInv, NEW t \in Callers, Acts(t), NEW id \in 1..lastId
    PROVE  \/ jobs'[id].status = jobs[id].status /\ jobs'[id].pid = jobs[id].pid
           \/ /\ task[t].pc = "commit"
              /\ UpdateCommit(t)
              /\ task[t].id = id /\ pending[t].id = id
<1>1. id \in Ids
  BY ActsLastId
<1>2. lastId \in Nat
  BY ActsLastId
<1>3. TypeOK /\ jobs \in [Ids -> Row] /\ id \in Ids /\ lastId \in Nat
  BY <1>1, <1>2, Typed DEF TypeOK
<1>4. CASE task[t].pc = "insert" /\ Insert(InsertedRow(t))
  <2>1. jobs' = [jobs EXCEPT ![lastId + 1] = InsertedRow(t)] /\ id # lastId + 1
    BY <1>3, <1>4 DEF Insert
  <2> HIDE DEF InsertedRow
  <2>2. jobs'[id] = jobs[id]
    BY <1>3, <2>1
  <2>3. QED
    BY <2>2
<1>5. CASE UpdateCheckpointDir(task[t].id, DefaultDir(task[t].id))
  <2> DEFINE i == task[t].id
             d == DefaultDir(i)
  <2>1. jobs' = [jobs EXCEPT ![i].dir = d]
    BY <1>5 DEF UpdateCheckpointDir
  <2> HIDE DEF i, d
  <2>2. jobs[id] \in Row
    BY <1>3
  <2>3. QED
    BY <1>3, <2>1, <2>2 DEF Row
<1>6. CASE task[t].pc = "commit" /\ UpdateCommit(t)
  <2>1. pending[t].id = task[t].id
    BY <1>6 DEF DaemonInv, CallInv, UpdateCommit
  <2>2. id # pending[t].id => jobs'[id] = jobs[id]
    BY <1>3, <1>6, CommitEffect
  <2>3. QED
    BY <1>6, <2>1, <2>2
<1>7. QED
  BY <1>4, <1>5, <1>6, RowWrites

\* UpdatePID stores the pid that it was called with.
LEMMA CommitPid ==
    ASSUME TypeOK, NEW t \in Callers, UpdateCommit(t), pending[t].op = "UpdatePID"
    PROVE  jobs'[pending[t].id].pid = pending[t].pid
<1>1. pending[t].id \in Ids /\ jobs \in [Ids -> Row]
  BY CommitEffect DEF TypeOK
<1>2. jobs[pending[t].id] \in Row
  BY <1>1
<1>3. Updated(jobs[pending[t].id], pending[t]).pid = pending[t].pid
  BY <1>2 DEF Updated, Row
<1>4. jobs' = [jobs EXCEPT ![pending[t].id] = Updated(jobs[pending[t].id], pending[t])]
  BY DEF UpdateCommit
<1>5. QED
  BY <1>1, <1>3, <1>4

\* What a goroutine knows of its job stays true while others take their steps.
LEMMA OthersProcessOK ==
    ASSUME DaemonInv, JobsTakeTurns, ProcessInv, NEW t \in Callers, Acts(t),
           NEW u \in Callers, u # t
    PROVE  ProcessOK(u)'
<1>1. task'[u] = task[u] /\ pending'[u] = pending[u]
  BY OthersKept
<1>2. ProcessOK(u)
  BY DEF ProcessInv
<1>3. /\ task[u].then # "idle" => task[u].pc = "commit"
      /\ ~Idle(u) => task[u].pc = "commit" /\ pending[u].id = task[u].id
  BY Typed DEF LocalOK, DaemonInv, CallInv
<1>4. AdoptOK(u)'
  BY <1>1, <1>2 DEF ProcessOK, AdoptOK
<1>5. CASE task[u].pc \notin WorkPcs
  <2>1. task[u].pc \notin {"begin", "dump", "pid", "created", "pend", "restore",
                           "restoreFailed", "commit"}
    BY <1>5 DEF WorkPcs
  <2>2. task[u].then = "idle" /\ Idle(u)
    BY <1>3, <2>1
  <2>3. HoldsProcess(u)' /\ ResumeOK(u)' /\ CallOK(u)'
    BY <1>1, <1>5, <2>1, <2>2 DEF HoldsProcess, ResumeOK, CallOK, Idle
  <2>4. QED
    BY <1>4, <2>3 DEF ProcessOK
<1>6. CASE task[u].pc \in WorkPcs
  <2>1. PICK id \in 1..lastId : id = task[u].id
    BY <1>2, <1>6 DEF ProcessOK, HoldsProcess
  <2>2. id \in Ids /\ id \in 1..lastId'
    BY ActsLastId
  <2>3. ~AtWork(t, id)
    BY <1>6, <2>1, <2>2 DEF JobsTakeTurns, AtWork
  <2>4. Tracked(id)' \subseteq Tracked(id)
    BY <2>3, ActsTracked DEF AtWork, WorkPcs
  <2>5. jobs'[id].status = jobs[id].status
    BY <2>3, ActsRows DEF AtWork, WorkPcs
  <2>6. HoldsProcess(u)'
    BY <1>1, <1>2, <2>1, <2>2, <2>4 DEF ProcessOK, HoldsProcess
  <2>7. ResumeOK(u)'
    BY <1>1, <1>2, <2>1, <2>5 DEF ProcessOK, ResumeOK
  <2>8. CallOK(u)'
    BY <1>1, <1>2, <1>3, <2>1, <2>4 DEF ProcessOK, CallOK, Idle
  <2>9. QED
    BY <1>4, <2>6, <2>7, <2>8 DEF ProcessOK
<1>7. QED
  BY <1>5, <1>6

\* So does what the fan-out has listed.
LEMMA ListedStays ==
    ASSUME DaemonInv, JobsTakeTurns, ProcessInv, NEW t \in Callers, Acts(t)
    PROVE  ListedOK'
<1>1. fan' = fan
  BY ActsSteps DEF GoesTo
<1> SUFFICES ASSUME NEW s \in fan.todo
             PROVE  s.id \in 1..lastId' /\ Tracked(s.id)' \subseteq {s.pid}
  BY <1>1 DEF ListedOK
<1>2. s.id \in 1..lastId /\ Tracked(s.id) \subseteq {s.pid}
  BY DEF ProcessInv, ListedOK
<1>3. ~AtWork(t, s.id)
  BY DEF JobsTakeTurns
<1>4. Tracked(s.id)' \subseteq Tracked(s.id)
  BY <1>2, <1>3, ActsTracked DEF AtWork, WorkPcs
<1>5. QED
  BY <1>2, <1>4, ActsLastId

\* A restore that fails leaves none that is accounted for.
LEMMA RestoreKeepsNone ==
    ASSUME NEW t, ResumeRestore(t), KeepHost, NEW id, Tracked(id) = {}
    PROVE  Tracked(id)' = {}
  BY DEF ResumeRestore, KeepStore, storeVars, KeepHost, hostVars, Tracked, ProcessesOf

\* One that succeeds starts one: a hook finds no process of a job that criu has
\* dumped.
LEMMA RestoreStartsOne ==
    ASSUME HostTypeOK, NEW t, ResumeRestore(t), NEW p \in Pids, ResumeRuns(t, p),
           NEW id, task[t].id = id, Tracked(id) = {}
    PROVE  Tracked(id)' \subseteq {p}
<1>1. jobs' = jobs
  BY DEF ResumeRestore, KeepStore, storeVars
<1>2. CASE "checkpoint" \in jobs[id].hooks
  BY <1>1, <1>2 DEF Tracked
<1>3. CASE "checkpoint" \notin jobs[id].hooks
  <2>1. ProcessesOf(id) = {}
    BY <1>3 DEF Tracked
  <2>2. live' = live \cup {p} /\ work' = [work EXCEPT ![p] = id]
    BY <2>1 DEF ResumeRuns, HookResumes, RestoreSucceeds, Starts
  <2>3. ProcessesOf(id)' \subseteq {p}
    BY <2>1, <2>2 DEF ProcessesOf, HostTypeOK
  <2>4. QED
    BY <1>1, <1>3, <2>3 DEF Tracked
<1>4. QED
  BY <1>2, <1>3

\* Each row keeps its promise.
LEMMA ActsRowOK ==
    ASSUME OutcomesWritten, DaemonInv, ProcessInv, NEW t \in Callers, Acts(t),
           NEW id \in Ids
    PROVE  RowOK(id)'
<1>1. /\ TypeOK /\ HostTypeOK /\ RowOK(id) /\ ProcessOK(t)
      /\ jobs \in [Ids -> Row] /\ lastId \in Nat
      /\ lastId' \in {lastId, lastId + 1} /\ id \in Nat /\ id >= 1
  <2>1. TypeOK /\ HostTypeOK
    BY Typed
  <2>2. RowOK(id) /\ ProcessOK(t)
    BY DEF ProcessInv
  <2>3. jobs \in [Ids -> Row] /\ lastId \in Nat
    BY <2>1 DEF TypeOK
  <2>4. lastId' \in {lastId, lastId + 1}
    BY ActsLastId
  <2>5. id \in Nat /\ id >= 1
    BY MaxJobsAssumption DEF Ids
  <2>6. QED
    BY <2>1, <2>2, <2>3, <2>4, <2>5
<1>2. CASE id \in 1..lastId /\ ~(task[t].pc = "restore" /\ task[t].id = id)
  <2>1. Tracked(id)' \subseteq Tracked(id)
    BY <1>2, ActsTracked
  <2>2. CASE jobs'[id].status = jobs[id].status /\ jobs'[id].pid = jobs[id].pid
    BY <1>1, <2>1, <2>2 DEF RowOK
  <2>3. CASE UpdateCommit(t) /\ pending[t].id = id
    <3>1. ~Idle(t) /\ jobs'[id].status = pending[t].to
      BY <1>1, <2>3, CommitEffect DEF UpdateCommit
    <3>2. pending[t].to = RUNNING =>
            Tracked(id) \subseteq {pending[t].pid} /\ jobs'[id].pid = pending[t].pid
      BY <1>1, <2>3, <3>1, CommitPid DEF ProcessOK, CallOK
    <3>3. pending[t].to \in {CHECKPOINT_CREATED, RESTORE_FAILED} => Tracked(id) = {}
      BY <1>1, <2>3, <3>1 DEF ProcessOK, CallOK
    <3>4. QED
      BY <1>1, <2>1, <3>1, <3>2, <3>3 DEF RowOK
  <2>4. QED
    BY <1>2, <2>2, <2>3, ActsRows
<1>3. CASE task[t].pc = "restore" /\ task[t].id = id
  <2>1. /\ id \in 1..lastId
        /\ jobs[id].status = RESTORE_PENDING
        /\ Tracked(id) = {}
    <3>1. HoldsProcess(t) /\ ResumeOK(t) /\ task[t].pc \in WorkPcs
      BY <1>1, <1>3 DEF ProcessOK, WorkPcs
    <3>2. task[t].id \in 1..lastId /\ Tracked(task[t].id) = {}
      BY <1>3, <3>1 DEF HoldsProcess
    <3>3. jobs[id].status = RESTORE_PENDING
      BY <1>3, <3>1 DEF ResumeOK
    <3>4. QED
      BY <1>3, <3>2, <3>3
  <2>2. jobs'[id].status = RESTORE_PENDING
    BY <1>3, <2>1, ActsRows
  <2>3. \A p, q \in Tracked(id)' : p = q
    <3>1. ResumeRestore(t)
      BY <1>3, OwnerActs DEF OwnerPcs
    <3>2. CASE KeepHost
      BY <2>1, <3>1, <3>2, RestoreKeepsNone
    <3>3. CASE \E p \in Pids : ResumeRuns(t, p)
      <4>1. PICK p \in Pids : ResumeRuns(t, p)
        BY <3>3
      <4>2. Tracked(id)' \subseteq {p}
        BY <1>3, <2>1, <3>1, <4>1, RestoreStartsOne, Typed
      <4>3. QED
        BY <4>2
    <3>4. QED
      BY <3>1, <3>2, <3>3 DEF ResumeRestore
  <2>4. QED
    BY <2>2, <2>3 DEF RowOK
<1>4. CASE id = lastId + 1 /\ lastId' # lastId
  <2>1. /\ task[t].pc = "insert"
        /\ jobs' = [jobs EXCEPT ![lastId + 1] = InsertedRow(t)]
    BY <1>4, InsertWrites DEF Insert
  <2>2. jobs'[id] = InsertedRow(t)
    BY <1>1, <1>4, <2>1
  <2>3. Tracked(id)' \subseteq {task[t].pid}
    BY <1>4, ActsTracked
  <2>4. /\ InsertedRow(t).pid = task[t].pid
        /\ InsertedRow(t).status =
            IF task[t].op \in AdoptOps THEN CHECKPOINT_CREATED ELSE RUNNING
    BY DEF InsertedRow
  <2>5. task[t].op \in AdoptOps => task[t].pid \notin Pids
    BY <1>1, <2>1, PidsAssumption DEF ProcessOK, AdoptOK, NamedPcs, NoPid
  <2>6. Tracked(id)' \subseteq Pids
    <3>1. HostTypeOK'
      BY ActsSteps DEF GoesTo
    <3>2. QED
      BY <3>1 DEF HostTypeOK, Tracked, ProcessesOf
  <2>7. QED
    BY <2>2, <2>3, <2>4, <2>5, <2>6 DEF RowOK
<1>5. CASE id > lastId'
  <2>1. WorkOK' /\ HostTypeOK'
    BY ActsProcesses, ActsSteps DEF GoesTo
  <2>2. Tracked(id)' = {}
    BY <1>1, <1>5, <2>1 DEF WorkOK, Tracked, ProcessesOf, HostTypeOK
  <2>3. QED
    BY <2>2 DEF RowOK
<1>6. QED
  BY <1>1, <1>2, <1>3, <1>4, <1>5

\* Nothing is asked of a goroutine that is elsewhere.
LEMMA ElsewhereProcessOK ==
    ASSUME DaemonInv', NEW t \in Callers, task'[t].pc \notin WorkPcs, AdoptOK(t)'
    PROVE  ProcessOK(t)'
<1>1. /\ task'[t].pc # "commit" => task'[t].then = "idle"
      /\ task'[t].pc # "commit" => Idle(t)'
  BY DEF DaemonInv, DaemonTypeOK, LocalInv, LocalOK
<1>2. /\ task'[t].pc \notin {"begin", "dump", "pid", "created", "pend", "restore",
                             "restoreFailed", "commit"}
  BY DEF WorkPcs
<1>3. HoldsProcess(t)' /\ ResumeOK(t)' /\ CallOK(t)'
  BY <1>1, <1>2 DEF HoldsProcess, ResumeOK, CallOK
<1>4. QED
  BY <1>3 DEF ProcessOK

\* A goroutine that has ended, or gone to a place of no concern.
LEMMA GoneProcessOK ==
    ASSUME DaemonInv, DaemonInv', NEW t \in Callers,
           Finish(t) \/ \E pc : pc \notin WorkPcs \cup NamedPcs /\ Goto(t, pc)
    PROVE  ProcessOK(t)'
<1>1. task'[t].pc \notin WorkPcs \cup NamedPcs
  BY FinishedPc, GonePc DEF WorkPcs, NamedPcs
<1>2. QED
  BY <1>1, ElsewhereProcessOK DEF AdoptOK

\* A request to adopt comes without a process.
LEMMA ArrivalProcessOK ==
    ASSUME DaemonInv, DaemonInv', NEW t \in Callers, Arrival(t)
    PROVE  ProcessOK(t)'
<1>1. task \in [Callers -> Task]
  BY Typed
<1>2. ASSUME NEW r, task' = [task EXCEPT ![t] = r], r.pc \in {"latch", "get"},
             r.op \in AdoptOps => r.pid = NoPid
      PROVE  ProcessOK(t)'
  <2>1. task'[t] = r
    BY <1>1, <1>2
  <2>2. QED
    BY <1>2, <2>1, ElsewhereProcessOK DEF AdoptOK, WorkPcs
<1>3. CASE AcceptRegister(t)
  <2>1. PICK op \in RegisterOps, p \in Pids, dir \in UserDirs \cup {NoDir},
             hooks \in SUBSET Hooks :
          task' = [task EXCEPT ![t] = [NoTask EXCEPT !.op = op, !.pc = "latch",
                                         !.pid = p, !.dir = dir, !.hooks = hooks]]
    BY <1>3 DEF AcceptRegister, Accept, Become
  <2> DEFINE r == [NoTask EXCEPT !.op = op, !.pc = "latch",
                                 !.pid = p, !.dir = dir, !.hooks = hooks]
  <2>2. r.op = op /\ r.pc = "latch"
    BY DEF NoTask
  <2>3. op \notin AdoptOps
    BY DEF RegisterOps, AdoptOps
  <2> HIDE DEF r
  <2>4. QED
    BY <1>2, <2>1, <2>2, <2>3 DEF r
<1>4. CASE AcceptAdopt(t)
  <2>1. PICK op, dir, hooks :
          task' = [task EXCEPT ![t] = [NoTask EXCEPT !.op = op, !.pc = "latch",
                                         !.dir = dir, !.hooks = hooks]]
    BY <1>4 DEF AcceptAdopt, Accept, Become
  <2> DEFINE r == [NoTask EXCEPT !.op = op, !.pc = "latch",
                                 !.dir = dir, !.hooks = hooks]
  <2>2. r.pid = NoPid /\ r.pc = "latch"
    BY DEF NoTask
  <2>3. QED
    BY <1>2, <2>1, <2>2
<1>5. ASSUME NEW op, NEW pc \in {"latch", "get"}, AcceptOnJob(t, op, pc)
      PROVE  ProcessOK(t)'
  <2>1. PICK id \in Ids :
          task' = [task EXCEPT ![t] = [NoTask EXCEPT !.op = op, !.id = id, !.pc = pc]]
    BY <1>5 DEF AcceptOnJob, Accept, Become
  <2> DEFINE r == [NoTask EXCEPT !.op = op, !.id = id, !.pc = pc]
  <2>2. r.pid = NoPid /\ r.pc = pc
    BY DEF NoTask
  <2>3. QED
    BY <1>2, <2>1, <2>2
<1>6. CASE AcceptPruneAll(t)
  <2>1. task' = [task EXCEPT ![t] = [NoTask EXCEPT !.op = "pruneAll", !.pc = "get"]]
    BY <1>6 DEF AcceptPruneAll, Accept, Become
  <2> DEFINE r == [NoTask EXCEPT !.op = "pruneAll", !.pc = "get"]
  <2>2. r.pid = NoPid /\ r.pc = "get"
    BY DEF NoTask
  <2>3. QED
    BY <1>2, <2>1, <2>2
<1>7. CASE AcceptComplete(t)
  <2>1. PICK id, to :
          task' = [task EXCEPT ![t] = [NoTask EXCEPT !.op = "complete", !.pc = "get",
                                                     !.id = id, !.to = to]]
    BY <1>7 DEF AcceptComplete, Accept, Become
  <2> DEFINE r == [NoTask EXCEPT !.op = "complete", !.pc = "get", !.id = id, !.to = to]
  <2>2. r.pid = NoPid /\ r.pc = "get"
    BY DEF NoTask
  <2>3. QED
    BY <1>2, <2>1, <2>2
<1>8. QED
  BY <1>3, <1>4, <1>5, <1>6, <1>7
     DEF Arrival, AcceptPause, AcceptResume, AcceptCancel, AcceptShow, AcceptPrune

\* So does its admission.
LEMMA AdmissionProcessOK ==
    ASSUME DaemonInv, DaemonInv', ProcessInv, NEW t \in Callers,
           Latch(t) \/ AdoptScan(t)
    PROVE  ProcessOK(t)'
<1>1. CASE task'[t].pc \in NamedPcs
  <2>1. /\ task[t].pc \in NamedPcs
        /\ task'[t].op = task[t].op /\ task'[t].pid = task[t].pid
    BY <1>1, AdmissionKeeps
  <2>2. AdoptOK(t)
    BY DEF ProcessInv, ProcessOK
  <2>3. AdoptOK(t)'
    BY <2>1, <2>2 DEF AdoptOK
  <2>4. task'[t].pc \notin WorkPcs
    BY <1>1 DEF NamedPcs, WorkPcs
  <2>5. QED
    BY <2>3, <2>4, ElsewhereProcessOK
<1>2. CASE task'[t].pc \notin NamedPcs
  <2>1. CASE Finish(t)
    BY <2>1, GoneProcessOK
  <2>2. CASE ~Finish(t)
    <3>1. \E pc \in NamedPcs \cup {"get"} : Goto(t, pc)
      <4>1. CASE Latch(t)
        <5>1. task[t].op \in RegisterOps \cup AdoptOps \cup {"pause"}
          BY <4>1, Typed DEF Latch, At, LocalOK
        <5>2. Goto(t, CASE task[t].op \in RegisterOps -> "insert"
                        [] task[t].op \in AdoptOps -> "scan"
                        [] task[t].op = "pause" -> "get")
          BY <2>2, <4>1 DEF Latch, Refuse
        <5>3. QED
          BY <5>1, <5>2 DEF RegisterOps, AdoptOps, NamedPcs
      <4>2. CASE AdoptScan(t)
        BY <2>2, <4>2 DEF AdoptScan, Refuse, NamedPcs
      <4>3. QED
        BY <4>1, <4>2
    <3>2. Goto(t, "get")
      BY <1>2, <3>1, GonePc
    <3>3. QED
      BY <3>2, GoneProcessOK DEF WorkPcs, NamedPcs
  <2>3. QED
    BY <2>1, <2>2
<1>3. QED
  BY <1>1, <1>2

\* A handler that has read a row.
LEMMA GetRowProcessOK ==
    ASSUME DaemonInv, DaemonInv', ProcessInv, NEW t \in Callers, NEW op, NEW ok,
           NEW pc \in {"begin", "pend", "kill", "mark"}, GetRow(t, op, ok, pc),
           pc = "begin" /\ ok => jobs[task[t].id].status = RUNNING,
           pc = "pend" /\ ok =>
             jobs[task[t].id].status \in {CHECKPOINT_CREATED, RESTORE_FAILED}
    PROVE  ProcessOK(t)'
<1>1. CASE Finish(t)
  BY <1>1, GoneProcessOK
<1>2. CASE ~Finish(t)
  <2> DEFINE pid == jobs[task[t].id].pid
             dir == jobs[task[t].id].dir
  <2>1. /\ task' = [task EXCEPT ![t].pc = pc, ![t].pid = pid, ![t].dir = dir]
        /\ Exists(task[t].id) /\ ok
        /\ task[t].pc = "get" /\ task[t].then = "idle"
        /\ UNCHANGED <<jobs, lastId, live, work, pending>>
    <3>1. task[t].pc = "get" /\ task[t].then = "idle"
      BY Typed DEF GetRow, At, LocalOK
    <3>2. QED
      BY <1>2, <3>1 DEF GetRow, KeepStore, KeepHost, storeVars, hostVars
  <2>2. PICK id \in 1..lastId : id = task[t].id
    BY <2>1 DEF Exists
  <2>3. pid = jobs[id].pid
    BY <2>2
  <2> HIDE DEF pid, dir
  <2>4. /\ task'[t].pc = pc /\ task'[t].pid = jobs[id].pid
        /\ task'[t].id = id /\ task'[t].then = "idle"
    BY <2>1, <2>2, <2>3, Typed DEF Task
  <2>5. CASE pc \in {"kill", "mark"}
    BY <2>4, <2>5, ElsewhereProcessOK DEF WorkPcs, NamedPcs, AdoptOK
  <2>6. CASE pc \in {"begin", "pend"}
    <3>1. id \in Ids
      BY <2>2, Typed, MaxJobsAssumption DEF TypeOK, Ids
    <3>2. RowOK(id) /\ Tracked(id)' = Tracked(id)
      BY <2>1, <3>1 DEF ProcessInv, Tracked, ProcessesOf
    <3>3. pc = "begin" => Tracked(id) \subseteq {jobs[id].pid}
      BY <2>1, <2>2, <3>2 DEF RowOK
    <3>4. pc = "pend" => Tracked(id) = {}
      BY <2>1, <2>2, <3>2 DEF RowOK
    <3>5. HoldsProcess(t)'
      BY <2>1, <2>2, <2>4, <2>6, <3>2, <3>3, <3>4 DEF HoldsProcess
    <3>6. ResumeOK(t)'
      BY <2>1, <2>2, <2>4, <2>6 DEF ResumeOK
    <3>7. Idle(t)'
      BY <2>1, Typed DEF Idle
    <3>8. CallOK(t)' /\ AdoptOK(t)'
      BY <2>4, <2>6, <3>7 DEF CallOK, AdoptOK, NamedPcs
    <3>9. QED
      BY <3>5, <3>6, <3>8 DEF ProcessOK
  <2>7. QED
    BY <2>5, <2>6
<1>3. QED
  BY <1>1, <1>2

\* A call of UpdateStatus is accepted and in flight, or refused.
LEMMA CallSplit ==
    ASSUME DaemonInv, NEW t \in Callers, task[t].pc # "commit", NEW to,
           NEW then \in {"idle", "dump", "restore"}, CallStatus(t, to, then)
    PROVE  /\ UNCHANGED <<jobs, lastId, live, work>>
           /\ \/ /\ task'[t].pc = "commit" /\ task'[t].then = then
                 /\ task'[t].id = task[t].id /\ task'[t].pid = task[t].pid
                 /\ pending'[t].to = to
                 /\ Exists(task[t].id)
              \/ /\ UpdateRejected(task[t].id, to)
                 /\ then = "idle" => Finish(t)
                 /\ then # "idle" =>
                        /\ task'[t].pc = then /\ task'[t].then = "idle"
                        /\ task'[t].id = task[t].id /\ task'[t].pid = task[t].pid
<1>1. task \in [Callers -> Task] /\ task[t] \in Task /\ task[t].then = "idle"
  BY Typed DEF LocalOK
<1>2. pending \in [Callers -> Call]
  BY Typed DEF TypeOK
<1>3. CASE /\ UpdateStatusRead(t, task[t].id, to, ReasonFor(to))
           /\ task' = [task EXCEPT ![t].pc = "commit", ![t].then = then]
  <2>1. /\ task'[t].pc = "commit" /\ task'[t].then = then
        /\ task'[t].id = task[t].id /\ task'[t].pid = task[t].pid
    BY <1>1, <1>3 DEF Task
  <2>2. pending'[t].to = to /\ Exists(task[t].id)
    BY <1>2, <1>3 DEF UpdateStatusRead
  <2>3. UNCHANGED <<jobs, lastId, live, work>>
    BY <1>3 DEF UpdateStatusRead, CallStatus, KeepHost, hostVars
  <2>4. QED
    BY <2>1, <2>2, <2>3
<1>4. CASE /\ UpdateRejected(task[t].id, to)
           /\ Continue(t, then)
           /\ KeepStore
  <2>1. UNCHANGED <<jobs, lastId, live, work>>
    BY <1>4 DEF KeepStore, storeVars, CallStatus, KeepHost, hostVars
  <2>2. then = "idle" => Finish(t)
    BY <1>4 DEF Continue
  <2>3. then # "idle" => /\ task'[t].pc = then /\ task'[t].then = "idle"
                         /\ task'[t].id = task[t].id /\ task'[t].pid = task[t].pid
    BY <1>1, <1>4 DEF Continue, Goto, Task
  <2>4. QED
    BY <1>4, <2>1, <2>2, <2>3
<1>5. QED
  BY <1>3, <1>4 DEF CallStatus

\* A goroutine that has called UpdateStatus with a status that is true by now,
\* and still knows what it needs for its next step.
LEMMA CallProcessOK ==
    ASSUME DaemonInv, DaemonInv', NEW t \in Callers, task[t].pc # "commit", NEW to,
           NEW then \in {"idle", "dump", "restore"}, CallStatus(t, to, then),
           to # RUNNING,
           then # "idle" => task[t].id \in 1..lastId,
           then = "dump" => Tracked(task[t].id) \subseteq {task[t].pid},
           then = "restore" => /\ to = RESTORE_PENDING
                               /\ ~UpdateRejected(task[t].id, to)
                               /\ Tracked(task[t].id) = {},
           to \in {CHECKPOINT_CREATED, RESTORE_FAILED} =>
             Tracked(task[t].id) = {}
    PROVE  ProcessOK(t)'
<1> PICK id : id = task[t].id
  OBVIOUS
<1>1. UNCHANGED <<jobs, lastId, live, work>>
  BY CallSplit
<1>2. Tracked(id)' = Tracked(id)
  BY <1>1 DEF Tracked, ProcessesOf
<1>3. CASE /\ task'[t].pc = "commit" /\ task'[t].then = then
           /\ task'[t].id = id /\ task'[t].pid = task[t].pid
           /\ pending'[t].to = to
           /\ Exists(id)
  <2>1. id \in 1..lastId'
    BY <1>1, <1>3 DEF Exists
  <2>2. HoldsProcess(t)'
    BY <1>2, <1>3, <2>1 DEF HoldsProcess
  <2>3. ResumeOK(t)'
    BY <1>3 DEF ResumeOK
  <2>4. pending'[t].id = id
    BY <1>3 DEF DaemonInv, DaemonTypeOK, CallInv
  <2>5. CallOK(t)'
    BY <1>2, <1>3, <2>4 DEF CallOK
  <2>6. AdoptOK(t)'
    BY <1>3 DEF AdoptOK, NamedPcs
  <2>7. QED
    BY <2>2, <2>3, <2>5, <2>6 DEF ProcessOK
<1>4. CASE Finish(t)
  BY <1>4, GoneProcessOK
<1>5. CASE /\ then = "dump"
           /\ task'[t].pc = then /\ task'[t].then = "idle"
           /\ task'[t].id = id /\ task'[t].pid = task[t].pid
  <2>1. HoldsProcess(t)'
    BY <1>1, <1>2, <1>5 DEF HoldsProcess
  <2>2. ResumeOK(t)' /\ AdoptOK(t)'
    BY <1>5 DEF ResumeOK, AdoptOK, NamedPcs
  <2>3. Idle(t)'
    BY <1>5 DEF DaemonInv, DaemonTypeOK
  <2>4. QED
    BY <2>1, <2>2, <2>3 DEF ProcessOK, CallOK
<1>6. QED
  BY <1>3, <1>4, <1>5, CallSplit

\* checkpointJob: the dump ends the process that the goroutine holds.
LEMMA CheckpointProcessOK ==
    ASSUME DaemonInv, DaemonInv', ProcessInv, NEW t \in Callers, CheckpointStep(t)
    PROVE  ProcessOK(t)'
<1>1. HoldsProcess(t)
  BY DEF ProcessInv, ProcessOK
<1>2. CASE CheckpointBegin(t)
  <2>1. task[t].pc = "begin" /\ CallStatus(t, CHECKPOINT_IN_PROGRESS, "dump")
    BY <1>2 DEF CheckpointBegin, At
  <2>2. task[t].id \in 1..lastId /\ Tracked(task[t].id) \subseteq {task[t].pid}
    BY <1>1, <2>1 DEF HoldsProcess, WorkPcs
  <2>3. QED
    BY <2>1, <2>2, CallProcessOK
<1>3. CASE CheckpointDump(t)
  <2>1. task[t].pc = "dump" /\ task[t].then = "idle" /\ lastId' = lastId
    BY <1>3, Typed DEF CheckpointDump, At, LocalOK, KeepStore, storeVars
  <2>2. PICK id \in 1..lastId : id = task[t].id /\ Tracked(id) \subseteq {task[t].pid}
    BY <1>1, <2>1 DEF HoldsProcess, WorkPcs
  <2>3. ASSUME NEW pc \in {"created", "failed"}, Goto(t, pc),
               pc = "created" => Tracked(id)' = {}
        PROVE  ProcessOK(t)'
    <3>1. task'[t].pc = pc /\ task'[t].id = id /\ task'[t].then = "idle"
      BY <2>1, <2>2, <2>3, Typed DEF Goto, Task
    <3>2. HoldsProcess(t)'
      BY <2>1, <2>3, <3>1 DEF HoldsProcess
    <3>3. ResumeOK(t)' /\ AdoptOK(t)'
      BY <3>1 DEF ResumeOK, AdoptOK, NamedPcs
    <3>4. Idle(t)'
      BY <3>1 DEF DaemonInv, DaemonTypeOK
    <3>5. QED
      BY <3>2, <3>3, <3>4 DEF ProcessOK, CallOK
  <2>4. CASE CheckpointRuns(t) /\ Goto(t, "created")
    <3>1. jobs' = jobs
      BY <1>3 DEF CheckpointDump, KeepStore, storeVars
    <3>2. CASE "checkpoint" \in jobs[id].hooks
      BY <2>3, <2>4, <3>1, <3>2 DEF Tracked
    <3>3. CASE "checkpoint" \notin jobs[id].hooks
      <4>1. /\ live' = live \ {task[t].pid}
            /\ work' = [q \in Pids |-> IF q = task[t].pid THEN 0 ELSE work[q]]
        BY <2>2, <2>4, <3>3 DEF CheckpointRuns, HooksOf, DumpSucceeds, Ends
      <4>2. HostTypeOK /\ WorkOK /\ TypeOK /\ id \in Ids
        BY Typed, MaxJobsAssumption DEF ProcessInv, TypeOK, Ids
      <4>3. ProcessesOf(id)' = ProcessesOf(id) \ {task[t].pid}
        BY <2>1, <4>1, <4>2, EndsShrinks
      <4>4. Tracked(id)' = {}
        BY <2>2, <3>1, <3>3, <4>3 DEF Tracked
      <4>5. QED
        BY <2>3, <2>4, <4>4
    <3>4. QED
      BY <3>2, <3>3
  <2>5. CASE Goto(t, "hung")
    BY <2>5, GoneProcessOK DEF WorkPcs, NamedPcs
  <2>6. QED
    BY <1>3, <2>3, <2>4, <2>5 DEF CheckpointDump
<1>4. CASE CheckpointCreated(t)
  <2>1. task[t].pc = "created" /\ CallStatus(t, CHECKPOINT_CREATED, "idle")
    BY <1>4 DEF CheckpointCreated, At
  <2>2. Tracked(task[t].id) = {}
    BY <1>1, <2>1 DEF HoldsProcess
  <2>3. QED
    BY <2>1, <2>2, CallProcessOK
<1>5. CASE CheckpointFailed(t)
  <2>1. task[t].pc = "failed" /\ CallStatus(t, CHECKPOINT_CREATION_FAILED, "idle")
    BY <1>5 DEF CheckpointFailed, At
  <2>2. QED
    BY <2>1, CallProcessOK
<1>6. QED
  BY <1>2, <1>3, <1>4, <1>5 DEF CheckpointStep

\* resumeJob: a restore that reports its pid starts the only process.
LEMMA ResumeProcessOK ==
    ASSUME OutcomesWritten, DaemonInv, DaemonInv', ProcessInv, NEW t \in Callers,
           \/ ResumeBegin(t) \/ ResumeRestore(t) \/ ResumeUpdatePID(t)
           \/ ResumeFailed(t)
    PROVE  ProcessOK(t)'
<1>1. HoldsProcess(t) /\ ResumeOK(t)
  BY DEF ProcessInv, ProcessOK
<1>2. CASE ResumeBegin(t)
  <2>1. task[t].pc = "pend" /\ CallStatus(t, RESTORE_PENDING, "restore")
    BY <1>2 DEF ResumeBegin, At
  <2>2. task[t].id \in 1..lastId /\ Tracked(task[t].id) = {}
    BY <1>1, <2>1 DEF HoldsProcess, WorkPcs
  <2>3. jobs[task[t].id].status \in {CHECKPOINT_CREATED, RESTORE_FAILED}
    BY <1>1, <2>1 DEF ResumeOK
  <2>4. ValidTransition(jobs[task[t].id].status, RESTORE_PENDING)
    BY <2>3 DEF ValidTransition, validTransitions
  <2>5. ~UpdateRejected(task[t].id, RESTORE_PENDING)
    BY <2>2, <2>4 DEF UpdateRejected, Exists
  <2>6. QED
    BY <2>1, <2>2, <2>5, CallProcessOK
<1>3. CASE ResumeRestore(t)
  <2>1. task[t].pc = "restore" /\ task[t].then = "idle" /\ lastId' = lastId
    BY <1>3, Typed DEF ResumeRestore, At, LocalOK, KeepStore, storeVars
  <2>2. PICK id \in 1..lastId : id = task[t].id /\ Tracked(id) = {}
    BY <1>1, <2>1 DEF HoldsProcess, WorkPcs
  <2>3. CASE \E p \in Pids :
               /\ ResumeRuns(t, p)
               /\ task' = [task EXCEPT ![t].pc = "pid", ![t].pid = p]
    <3>1. PICK p \in Pids : /\ ResumeRuns(t, p)
                            /\ task' = [task EXCEPT ![t].pc = "pid", ![t].pid = p]
      BY <2>3
    <3>2. /\ task'[t].pc = "pid" /\ task'[t].pid = p
          /\ task'[t].id = id /\ task'[t].then = "idle"
      BY <2>1, <2>2, <3>1, Typed DEF Task
    <3>3. Tracked(id)' \subseteq {p}
      BY <1>3, <2>2, <3>1, RestoreStartsOne, Typed
    <3>4. HoldsProcess(t)'
      BY <2>1, <3>2, <3>3 DEF HoldsProcess
    <3>5. ResumeOK(t)' /\ AdoptOK(t)'
      BY <3>2 DEF ResumeOK, AdoptOK, NamedPcs
    <3>6. Idle(t)'
      BY <3>2 DEF DaemonInv, DaemonTypeOK
    <3>7. QED
      BY <3>4, <3>5, <3>6 DEF ProcessOK, CallOK
  <2>4. CASE KeepHost /\ Goto(t, "restoreFailed")
    <3>1. task'[t].pc = "restoreFailed" /\ task'[t].id = id /\ task'[t].then = "idle"
      BY <2>1, <2>2, <2>4, Typed DEF Goto, Task
    <3>2. Tracked(id)' = {}
      BY <1>3, <2>2, <2>4, RestoreKeepsNone
    <3>3. HoldsProcess(t)'
      BY <2>1, <3>1, <3>2 DEF HoldsProcess
    <3>4. ResumeOK(t)' /\ AdoptOK(t)'
      BY <3>1 DEF ResumeOK, AdoptOK, NamedPcs
    <3>5. Idle(t)'
      BY <3>1 DEF DaemonInv, DaemonTypeOK
    <3>6. QED
      BY <3>3, <3>4, <3>5 DEF ProcessOK, CallOK
  <2>5. CASE Goto(t, "hung")
    BY <2>5, GoneProcessOK DEF WorkPcs, NamedPcs
  <2>6. "pidfile" \notin Faults
    BY DEF OutcomesWritten
  <2>7. QED
    BY <1>3, <2>3, <2>4, <2>5, <2>6 DEF ResumeRestore
<1>4. CASE ResumeUpdatePID(t)
  <2>1. task[t].pc = "pid" /\ task[t].then = "idle"
    BY <1>4, Typed DEF ResumeUpdatePID, At, LocalOK
  <2>2. PICK id \in 1..lastId : id = task[t].id /\ Tracked(id) \subseteq {task[t].pid}
    BY <1>1, <2>1 DEF HoldsProcess, WorkPcs
  <2>3. CASE UpdatePIDRead(t, task[t].id, task[t].pid) /\ Goto(t, "commit")
    <3>1. /\ task'[t].pc = "commit" /\ task'[t].id = id /\ task'[t].then = "idle"
      BY <2>1, <2>2, <2>3, Typed DEF Goto, Task
    <3>2. pending \in [Callers -> Call]
      BY Typed DEF TypeOK
    <3>3. /\ pending'[t].op = "UpdatePID" /\ pending'[t].to = RUNNING
          /\ pending'[t].id = id /\ pending'[t].pid = task[t].pid
          /\ lastId' = lastId
      BY <2>2, <2>3, <3>2 DEF UpdatePIDRead
    <3>4. Tracked(id)' = Tracked(id)
      <4>1. jobs' = jobs /\ UNCHANGED hostVars
        BY <1>4 DEF ResumeUpdatePID, UpdatePIDRead, KeepHost, KeepStore, storeVars
      <4>2. QED
        BY <4>1 DEF hostVars, Tracked, ProcessesOf
    <3>5. HoldsProcess(t)'
      BY <3>1, <3>3 DEF HoldsProcess
    <3>6. ResumeOK(t)' /\ AdoptOK(t)'
      BY <3>1 DEF ResumeOK, AdoptOK, NamedPcs
    <3>7. CallOK(t)'
      BY <2>2, <3>3, <3>4 DEF CallOK
    <3>8. QED
      BY <3>5, <3>6, <3>7 DEF ProcessOK
  <2>4. QED
    BY <1>4, <2>3, GoneProcessOK DEF ResumeUpdatePID
<1>5. CASE ResumeFailed(t)
  <2>1. task[t].pc = "restoreFailed" /\ CallStatus(t, RESTORE_FAILED, "idle")
    BY <1>5 DEF ResumeFailed, At
  <2>2. Tracked(task[t].id) = {}
    BY <1>1, <2>1 DEF HoldsProcess
  <2>3. QED
    BY <2>1, <2>2, CallProcessOK
<1>6. QED
  BY <1>2, <1>3, <1>4, <1>5

\* The end of a store update, which does not fail.
LEMMA CommitProcessOK ==
    ASSUME OutcomesWritten, DaemonInv, DaemonInv', ProcessInv, NEW t \in Callers,
           Commit(t)
    PROVE  ProcessOK(t)'
<1>1. /\ task[t].pc = "commit" /\ task[t].then \in {"idle", "dump", "restore"}
      /\ HoldsProcess(t) /\ ResumeOK(t) /\ TypeOK
  BY Typed DEF Commit, At, LocalOK, ProcessInv, ProcessOK
<1>2. UpdateCommit(t) /\ lastId' = lastId
  BY DEF Commit, OutcomesWritten, UpdateCommit
<1>3. PICK id \in 1..lastId : id = task[t].id
  BY <1>1 DEF HoldsProcess, WorkPcs
<1>4. Tracked(id)' = Tracked(id)
  <2>1. id \in Ids
    BY <1>1, MaxJobsAssumption DEF TypeOK, Ids
  <2>2. jobs'[id].hooks = jobs[id].hooks
    BY <1>1, <1>2, <2>1, CommitKeepsDir
  <2>3. QED
    BY <2>2 DEF Commit, KeepHost, hostVars, Tracked, ProcessesOf
<1>5. pending[t].id = id
  BY <1>2, <1>3 DEF DaemonInv, CallInv, UpdateCommit
<1>6. jobs'[id].status = pending[t].to
  BY <1>1, <1>2, <1>5, CommitEffect
<1>7. CASE task[t].then = "idle"
  BY <1>7, GoneProcessOK DEF Commit
<1>8. CASE task[t].then # "idle"
  <2>1. task' = [task EXCEPT ![t].pc = task[t].then, ![t].then = "idle"]
    BY <1>8 DEF Commit
  <2>2. /\ task'[t].pc = task[t].then /\ task'[t].then = "idle"
        /\ task'[t].id = id /\ task'[t].pid = task[t].pid
    BY <1>3, <2>1, Typed DEF Task
  <2>3. task[t].then = "dump" => Tracked(id) \subseteq {task[t].pid}
    BY <1>1, <1>3 DEF HoldsProcess
  <2>4. task[t].then = "restore" =>
          Tracked(id) = {} /\ jobs'[id].status = RESTORE_PENDING
    BY <1>1, <1>3, <1>6 DEF HoldsProcess, ResumeOK
  <2>5. HoldsProcess(t)'
    BY <1>1, <1>2, <1>4, <2>2, <2>3, <2>4 DEF HoldsProcess
  <2>6. ResumeOK(t)' /\ AdoptOK(t)'
    BY <1>1, <2>2, <2>4 DEF ResumeOK, AdoptOK, NamedPcs
  <2>7. Idle(t)'
    BY <1>1, <2>2 DEF DaemonInv, DaemonTypeOK
  <2>8. QED
    BY <2>5, <2>6, <2>7 DEF ProcessOK, CallOK
<1>9. QED
  BY <1>7, <1>8

\* Every step of a goroutine keeps what it knows true.
LEMMA ActsProcessOK ==
    ASSUME OutcomesWritten, DaemonInv, ProcessInv, NEW t \in Callers, Acts(t)
    PROVE  ProcessOK(t)'
<1>1. DaemonInv'
  BY ActsSteps, GoesToInv
<1>2. CASE Arrival(t) \/ Latch(t) \/ AdoptScan(t)
  BY <1>1, <1>2, ArrivalProcessOK, AdmissionProcessOK
<1>3. CASE RegisterInsert(t) \/ SetDefaultDir(t)
  <2>1. ASSUME task' = [task EXCEPT ![t].pc = "setdir", ![t].id = lastId + 1]
        PROVE  ProcessOK(t)'
    <3>1. task'[t].pc = "setdir"
      BY <2>1, Typed DEF Task
    <3>2. QED
      BY <1>1, <3>1, ElsewhereProcessOK DEF WorkPcs, NamedPcs, AdoptOK
  <2>2. QED
    BY <1>1, <1>3, <2>1, GoneProcessOK
       DEF RegisterInsert, SetDefaultDir, Acknowledge, Refuse
<1>4. CASE PauseGet(t) \/ ResumeGet(t) \/ CancelGet(t) \/ CompleteGet(t)
  <2>1. CASE PauseGet(t)
    <3>1. StatusIn(t, {RUNNING}) => jobs[task[t].id].status = RUNNING
      BY DEF StatusIn
    <3>2. QED
      BY <1>1, <2>1, <3>1, GetRowProcessOK DEF PauseGet
  <2>2. CASE ResumeGet(t)
    <3>1. StatusIn(t, {CHECKPOINT_CREATED, RESTORE_FAILED}) =>
            jobs[task[t].id].status \in {CHECKPOINT_CREATED, RESTORE_FAILED}
      BY DEF StatusIn
    <3>2. QED
      BY <1>1, <2>2, <3>1, GetRowProcessOK DEF ResumeGet
  <2>3. CASE CancelGet(t)
    <3>1. GetRow(t, "cancel", TRUE, "kill") \/ GetRow(t, "cancel", TRUE, "mark")
      BY <2>3 DEF CancelGet
    <3>2. QED
      BY <1>1, <3>1, GetRowProcessOK
  <2>4. CASE CompleteGet(t)
    BY <1>1, <2>4, GetRowProcessOK DEF CompleteGet
  <2>5. QED
    BY <1>4, <2>1, <2>2, <2>3, <2>4
<1>5. CASE CancelKill(t)
  BY <1>1, <1>5, GoneProcessOK DEF CancelKill, WorkPcs, NamedPcs
<1>6. CASE Mark(t)
  <2> DEFINE to == IF task[t].op = "cancel" THEN CANCELED ELSE task[t].to
  <2>1. task[t].pc = "mark" /\ CallStatus(t, to, "idle")
    BY <1>6 DEF Mark, At
  <2>2. to \in {CANCELED, COMPLETED, FAILED}
    BY <2>1, Typed DEF LocalOK
  <2> HIDE DEF to
  <2>3. QED
    BY <1>1, <2>1, <2>2, CallProcessOK
<1>7. CASE PruneGet(t) \/ PruneRemove(t)
  <2>1. ASSUME NEW dirs, task' = [task EXCEPT ![t].pc = "remove", ![t].dirs = dirs]
        PROVE  task'[t].pc = "remove"
    BY <2>1, Typed DEF Task
  <2>2. ASSUME NEW dirs, task' = [task EXCEPT ![t].dirs = dirs], task[t].pc = "remove"
        PROVE  task'[t].pc = "remove"
    BY <2>2, Typed DEF Task
  <2>3. PruneGet(t) => Finish(t) \/ task'[t].pc = "remove"
    BY <2>1 DEF PruneGet
  <2>4. PruneRemove(t) => Finish(t) \/ task'[t].pc = "remove"
    BY <2>2 DEF PruneRemove, At
  <2>5. QED
    BY <1>1, <1>7, <2>3, <2>4, GoneProcessOK, ElsewhereProcessOK
       DEF WorkPcs, NamedPcs, AdoptOK
<1>8. CASE ShowGet(t) \/ ShowHistory(t)
  <2>1. ASSUME NEW to, task' = [task EXCEPT ![t].pc = "history", ![t].to = to]
        PROVE  task'[t].pc = "history"
    BY <2>1, Typed DEF Task
  <2>2. Finish(t) \/ task'[t].pc = "history"
    BY <1>8, <2>1 DEF ShowGet, ShowHistory
  <2>3. QED
    BY <1>1, <2>2, GoneProcessOK, ElsewhereProcessOK DEF WorkPcs, NamedPcs, AdoptOK
<1>9. CASE ResumeBegin(t) \/ ResumeRestore(t) \/ ResumeUpdatePID(t) \/ ResumeFailed(t)
  BY <1>1, <1>9, ResumeProcessOK
<1>10. CASE CheckpointStep(t) \/ Commit(t)
  BY <1>1, <1>10, CheckpointProcessOK, CommitProcessOK
<1>11. QED
  BY <1>2, <1>3, <1>4, <1>5, <1>6, <1>7, <1>8, <1>9, <1>10 DEF Acts, HandlerStep

\* A step of a goroutine keeps the invariant.
LEMMA ActsProcessInv ==
    ASSUME OutcomesWritten, DaemonInv, JobsTakeTurns, ProcessInv,
           NEW t \in Callers, Acts(t)
    PROVE  ProcessInv'
<1>1. WorkOK'
  BY ActsProcesses
<1>2. \A id \in Ids : RowOK(id)'
  BY ActsRowOK
<1>3. \A u \in Callers : ProcessOK(u)'
  BY ActsProcessOK, OthersProcessOK
<1>4. ListedOK'
  BY ListedStays
<1>5. QED
  BY <1>1, <1>2, <1>3, <1>4 DEF ProcessInv

\* So do steps that touch no row and no goroutine, and start no process.
LEMMA FewerProcesses ==
    ASSUME DaemonInv, ProcessInv, UNCHANGED <<jobs, lastId, pending, task>>, WorkOK',
           \A id \in Ids : Tracked(id)' \subseteq Tracked(id)
    PROVE  /\ \A id \in Ids : RowOK(id)'
           /\ \A t \in Callers : ProcessOK(t)'
           /\ fan'.todo \subseteq fan.todo => ProcessInv'
<1>1. \A id \in 1..lastId : id \in Ids
  BY MaxJobsAssumption DEF DaemonInv, DaemonTypeOK, TypeOK, Ids
<1>2. ASSUME NEW id \in Ids
      PROVE  RowOK(id)'
  <2>1. RowOK(id) /\ jobs' = jobs /\ Tracked(id)' \subseteq Tracked(id)
    BY DEF ProcessInv
  <2>2. QED
    BY <2>1 DEF RowOK
<1>3. ASSUME NEW t \in Callers
      PROVE  ProcessOK(t)'
  <2>1. ProcessOK(t)
    BY DEF ProcessInv
  <2>2. AdoptOK(t)' /\ ResumeOK(t)'
    BY <2>1 DEF ProcessOK, AdoptOK, ResumeOK
  <2>3. /\ task[t].then # "idle" => task[t].pc = "commit"
        /\ ~Idle(t) => task[t].pc = "commit" /\ pending[t].id = task[t].id
    BY Typed DEF LocalOK, DaemonInv, CallInv
  <2>4. CASE task[t].pc \notin WorkPcs
    <3>1. task[t].pc \notin {"begin", "dump", "pid", "created", "pend", "restore",
                             "restoreFailed", "commit"}
      BY <2>4 DEF WorkPcs
    <3>2. HoldsProcess(t)' /\ CallOK(t)'
      BY <2>3, <2>4, <3>1 DEF HoldsProcess, CallOK, Idle
    <3>3. QED
      BY <2>2, <3>2 DEF ProcessOK
  <2>5. CASE task[t].pc \in WorkPcs
    <3>1. PICK id \in 1..lastId : id = task[t].id
      BY <2>1, <2>5 DEF ProcessOK, HoldsProcess
    <3>2. Tracked(id)' \subseteq Tracked(id)
      BY <1>1
    <3>3. HoldsProcess(t)'
      BY <2>1, <3>1, <3>2 DEF ProcessOK, HoldsProcess
    <3>4. CallOK(t)'
      BY <2>1, <2>3, <3>1, <3>2 DEF ProcessOK, CallOK, Idle
    <3>5. QED
      BY <2>2, <3>3, <3>4 DEF ProcessOK
  <2>6. QED
    BY <2>4, <2>5
<1>4. ASSUME fan'.todo \subseteq fan.todo
      PROVE  ListedOK'
  <2> SUFFICES ASSUME NEW s \in fan.todo
               PROVE  s.id \in 1..lastId' /\ Tracked(s.id)' \subseteq {s.pid}
    BY <1>4 DEF ListedOK
  <2>1. s.id \in 1..lastId /\ Tracked(s.id) \subseteq {s.pid}
    BY DEF ProcessInv, ListedOK
  <2>2. Tracked(s.id)' \subseteq Tracked(s.id)
    BY <1>1, <2>1
  <2>3. QED
    BY <2>1, <2>2
<1>5. QED
  BY <1>2, <1>3, <1>4 DEF ProcessInv

\* A process exits, or nothing of concern happens.
LEMMA AsideProcessInv ==
    ASSUME DaemonInv, ProcessInv, Aside \/ Interrupt \/ UNCHANGED vars
    PROVE  ProcessInv'
<1>1. UNCHANGED <<jobs, lastId, pending, task>> /\ fan'.todo \subseteq fan.todo
  <2>1. CASE Aside
    BY <2>1, AsideInv DEF storeVars
  <2>2. CASE Interrupt
    <3>1. fan' = [fan EXCEPT !.pc = "list"] /\ UNCHANGED <<jobs, lastId, pending, task>>
      BY <2>2 DEF Interrupt, KeepStore, KeepTasks, storeVars
    <3>2. fan'.todo = fan.todo
      BY <3>1 DEF DaemonInv, DaemonTypeOK
    <3>3. QED
      BY <3>1, <3>2
  <2>3. CASE UNCHANGED vars
    BY <2>3 DEF vars, storeVars, daemonVars
  <2>4. QED
    BY <2>1, <2>2, <2>3
<1>2. CASE UNCHANGED <<live, work>>
  <2>1. WorkOK' /\ \A id \in Ids : Tracked(id)' = Tracked(id)
    BY <1>1, <1>2 DEF ProcessInv, WorkOK, Tracked, ProcessesOf
  <2>2. QED
    BY <1>1, <2>1, FewerProcesses
<1>3. CASE \E p \in Pids : ProcessExit(p)
  <2>1. PICK p : /\ live' = live \ {p}
                 /\ work' = [q \in Pids |-> IF q = p THEN 0 ELSE work[q]]
    BY <1>3 DEF ProcessExit, Exit, Ends
  <2>2. HostTypeOK /\ WorkOK /\ TypeOK
    BY DEF DaemonInv, DaemonTypeOK, ProcessInv
  <2>3. WorkOK' /\ \A id \in Ids : ProcessesOf(id)' = ProcessesOf(id) \ {p}
    BY <1>1, <2>1, <2>2, EndsShrinks
  <2>4. \A id \in Ids : Tracked(id)' \subseteq Tracked(id)
    BY <1>1, <2>3 DEF Tracked
  <2>5. QED
    BY <1>1, <2>3, <2>4, FewerProcesses
<1>4. QED
  BY <1>2, <1>3 DEF Aside, FanDone, NotifyReturns, ReportLost, DaemonStart, Interrupt,
         KeepHost, hostVars, vars

\* List gives the fan-out the pids of RUNNING rows.
LEMMA FanListProcessInv ==
    ASSUME DaemonInv, ProcessInv, FanList
    PROVE  ProcessInv'
<1>1. UNCHANGED <<jobs, lastId, pending, task, live, work>>
  BY DEF FanList, KeepStore, KeepHost, KeepTasks, storeVars, hostVars
<1>2. WorkOK' /\ \A id \in Ids : Tracked(id)' = Tracked(id)
  BY <1>1 DEF ProcessInv, WorkOK, Tracked, ProcessesOf
<1>3. CASE fan' = [fan EXCEPT !.pc = "idle"]
  <2>1. fan'.todo = fan.todo
    BY <1>3 DEF DaemonInv, DaemonTypeOK
  <2>2. QED
    BY <1>1, <1>2, <2>1, FewerProcesses
<1>4. CASE fan' = [pc |-> "spawn",
                   todo |-> {[id |-> id, pid |-> jobs[id].pid, dir |-> jobs[id].dir] :
                             id \in Runnable}]
  <2> SUFFICES ListedOK'
    BY <1>1, <1>2, FewerProcesses DEF ProcessInv
  <2> SUFFICES ASSUME NEW s \in fan'.todo
               PROVE  s.id \in 1..lastId' /\ Tracked(s.id)' \subseteq {s.pid}
    BY DEF ListedOK
  <2>1. PICK id \in 1..lastId :
          s.id = id /\ s.pid = jobs[id].pid /\ jobs[id].status = RUNNING
    BY <1>4 DEF Runnable
  <2>2. id \in Ids
    BY MaxJobsAssumption DEF DaemonInv, DaemonTypeOK, TypeOK, Ids
  <2>3. Tracked(id) \subseteq {s.pid}
    BY <2>1, <2>2 DEF ProcessInv, RowOK
  <2>4. QED
    BY <1>1, <1>2, <2>1, <2>2, <2>3
<1>5. QED
  BY <1>3, <1>4 DEF FanList

\* A worker starts with what was listed.
LEMMA FanSpawnProcessInv ==
    ASSUME DaemonInv, ProcessInv, FanSpawn
    PROVE  ProcessInv'
<1>1. UNCHANGED <<jobs, lastId, pending, live, work>> /\ task \in [Callers -> Task]
  BY DEF FanSpawn, KeepStore, KeepHost, storeVars, hostVars, DaemonInv, DaemonTypeOK
<1>2. PICK s \in fan.todo :
        task' = [task EXCEPT ![s.id] =
                  [NoTask EXCEPT !.op = "worker", !.pc = "begin", !.id = s.id,
                                 !.pid = s.pid, !.dir = s.dir]]
  BY DEF FanSpawn, Become
<1> DEFINE r == [NoTask EXCEPT !.op = "worker", !.pc = "begin", !.id = s.id,
                               !.pid = s.pid, !.dir = s.dir]
<1>3. r.pc = "begin" /\ r.then = "idle" /\ r.id = s.id /\ r.pid = s.pid
  BY DEF NoTask
<1> HIDE DEF r
<1>4. fan'.todo \subseteq fan.todo /\ DaemonInv'
  BY FanSpawnInv
<1>5. PICK id \in 1..lastId : id = s.id /\ Tracked(id) \subseteq {s.pid}
  BY DEF ProcessInv, ListedOK
<1>6. id \in Ids /\ id \in Callers
  BY MaxJobsAssumption, CallerKinds DEF DaemonInv, DaemonTypeOK, TypeOK, Ids
<1>7. task'[id] = r /\ \A u \in Callers : u # id => task'[u] = task[u]
  BY <1>1, <1>2, <1>5, <1>6 DEF r
<1>8. \A i \in Ids : Tracked(i)' = Tracked(i)
  BY <1>1 DEF Tracked, ProcessesOf
<1>9. WorkOK' /\ \A i \in Ids : RowOK(i)'
  <2>1. WorkOK'
    BY <1>1 DEF ProcessInv, WorkOK
  <2>2. ASSUME NEW i \in Ids
        PROVE  RowOK(i)'
    <3>1. RowOK(i) /\ Tracked(i)' = Tracked(i)
      BY <1>8 DEF ProcessInv
    <3>2. QED
      BY <1>1, <3>1 DEF RowOK
  <2>3. QED
    BY <2>1, <2>2
<1>10. ProcessOK(id)'
  <2>1. HoldsProcess(id)'
    BY <1>1, <1>3, <1>5, <1>6, <1>7, <1>8 DEF HoldsProcess
  <2>2. ResumeOK(id)' /\ AdoptOK(id)'
    BY <1>3, <1>7 DEF ResumeOK, AdoptOK, NamedPcs
  <2>3. Idle(id)'
    BY <1>3, <1>4, <1>6, <1>7 DEF DaemonInv, DaemonTypeOK
  <2>4. QED
    BY <2>1, <2>2, <2>3 DEF ProcessOK, CallOK
<1>11. ASSUME NEW u \in Callers, u # id
       PROVE  ProcessOK(u)'
  <2>1. ProcessOK(u) /\ task'[u] = task[u]
    BY <1>7, <1>11 DEF ProcessInv
  <2>2. HoldsProcess(u)'
    BY <1>1, <2>1 DEF ProcessOK, HoldsProcess, Tracked, ProcessesOf
  <2>3. ResumeOK(u)' /\ AdoptOK(u)'
    BY <1>1, <2>1 DEF ProcessOK, ResumeOK, AdoptOK
  <2>4. CallOK(u)'
    BY <1>1, <2>1 DEF ProcessOK, CallOK, Idle, Tracked, ProcessesOf
  <2>5. QED
    BY <2>2, <2>3, <2>4 DEF ProcessOK
<1>12. ListedOK'
  <2>1. ASSUME NEW x \in fan.todo
        PROVE  x.id \in 1..lastId' /\ Tracked(x.id)' \subseteq {x.pid}
    <3>1. x.id \in 1..lastId /\ Tracked(x.id) \subseteq {x.pid}
      BY DEF ProcessInv, ListedOK
    <3>2. QED
      BY <1>1, <3>1 DEF Tracked, ProcessesOf
  <2>2. QED
    BY <1>4, <2>1 DEF ListedOK
<1>13. QED
  BY <1>9, <1>10, <1>11, <1>12 DEF ProcessInv

\* The daemon dies; the jobs' processes live on.
LEMMA ProcessEndsProcessInv ==
    ASSUME DaemonInv, ProcessInv, ProcessEnds
    PROVE  ProcessInv'
<1>1. /\ task' = [t \in Callers |-> NoTask]
      /\ fan' = [pc |-> "idle", todo |-> {}]
      /\ UNCHANGED <<jobs, lastId, live, work>>
  BY DEF ProcessEnds, Crash
<1>2. DaemonInv'
  BY ProcessEndsInv
<1>3. \A t \in Callers : task'[t].pc = "idle"
  BY <1>1, NoTaskOK
<1>4. \A t \in Callers : ProcessOK(t)'
  <2> TAKE t \in Callers
  <2>1. task'[t].pc \notin WorkPcs /\ AdoptOK(t)'
    BY <1>3 DEF WorkPcs, AdoptOK, NamedPcs
  <2>2. QED
    BY <1>2, <2>1, ElsewhereProcessOK
<1>5. WorkOK' /\ ListedOK'
  BY <1>1 DEF ProcessInv, WorkOK, ListedOK
<1>6. ASSUME NEW id \in Ids
      PROVE  RowOK(id)'
  <2>1. RowOK(id) /\ Tracked(id)' = Tracked(id)
    BY <1>1 DEF ProcessInv, Tracked, ProcessesOf
  <2>2. QED
    BY <1>1, <2>1 DEF RowOK
<1>7. QED
  BY <1>4, <1>5, <1>6 DEF ProcessInv

\* Every step keeps the invariant.
LEMMA NextProcessInv ==
    ASSUME OutcomesWritten, DaemonInv, JobsTakeTurns, ProcessInv, [DaemonNext]_vars
    PROVE  ProcessInv'
  BY ActsProcessInv, FanListProcessInv, FanSpawnProcessInv, AsideProcessInv,
     ProcessEndsProcessInv, ServeKinds DEF DaemonNext, DaemonCrash, Aside

\* An empty database, and no processes.
LEMMA InitProcessInv == DaemonInit => ProcessInv
<1> SUFFICES ASSUME DaemonInit PROVE ProcessInv
  OBVIOUS
<1>1. /\ live = {} /\ work = [p \in Pids |-> 0] /\ lastId = 0
      /\ fan = [pc |-> "idle", todo |-> {}]
      /\ task = [t \in Callers |-> NoTask]
      /\ pending = [c \in Callers |-> NoCall]
  BY DEF DaemonInit, HostInit, Init
<1>2. NoTask.pc = "idle" /\ NoTask.then = "idle" /\ NoCall.op = "none"
  BY DEF NoTask, NoCall
<1>3. WorkOK /\ ListedOK
  BY <1>1 DEF WorkOK, ListedOK
<1>4. \A id \in Ids : RowOK(id)
  BY <1>1 DEF RowOK, Tracked, ProcessesOf
<1>5. ASSUME NEW t \in Callers
      PROVE  ProcessOK(t)
  <2>1. task[t] = NoTask /\ Idle(t)
    BY <1>1, <1>2, <1>5 DEF Idle
  <2>2. HoldsProcess(t) /\ ResumeOK(t) /\ AdoptOK(t)
    BY <1>2, <2>1 DEF HoldsProcess, ResumeOK, AdoptOK, WorkPcs, NamedPcs
  <2>3. QED
    BY <2>1, <2>2 DEF ProcessOK, CallOK
<1>6. QED
  BY <1>3, <1>4, <1>5 DEF ProcessInv

\* The invariant says what was promised.
LEMMA ProcessInvImplies ==
    ASSUME ProcessInv
    PROVE  StatusMatchesProcess
<1> SUFFICES ASSUME NEW id \in Ids, "checkpoint" \notin jobs[id].hooks
             PROVE  /\ jobs[id].status \in {CHECKPOINT_CREATED, RESTORE_FAILED}
                        => ProcessesOf(id) = {}
                    /\ jobs[id].status = RUNNING => ProcessesOf(id) \subseteq {jobs[id].pid}
                    /\ Cardinality(ProcessesOf(id)) <= 1
  BY DEF StatusMatchesProcess
<1>1. RowOK(id) /\ Tracked(id) = ProcessesOf(id)
  BY DEF ProcessInv, Tracked
<1>2. Cardinality(ProcessesOf(id)) <= 1
  <2>1. CASE ProcessesOf(id) = {}
    BY <2>1, FS_EmptySet
  <2>2. CASE ProcessesOf(id) # {}
    <3>1. PICK p : p \in ProcessesOf(id)
      BY <2>2
    <3>2. ProcessesOf(id) = {p}
      BY <1>1, <3>1 DEF RowOK
    <3>3. QED
      BY <3>2, FS_Singleton
  <2>3. QED
    BY <2>1, <2>2
<1>3. QED
  BY <1>1, <1>2 DEF RowOK

\* Jobs that criu checkpoints and that take turns have a row that tells the
\* truth about their processes: a checkpointed job has none, a RUNNING one only
\* the tracked one, and none has two, whatever crashes, hangs or exits, however
\* many clients and signals there are, and whatever the jobs with checkpoint
\* hooks beside them do.  (A status that is not written, or a restore whose pid
\* is lost, breaks it.)
THEOREM TurnsStatusMatchesProcess ==
    ASSUME OutcomesWritten
    PROVE  DaemonSpec /\ []JobsTakeTurns => []StatusMatchesProcess
<1>1. DaemonInit => ProcessInv
  BY InitProcessInv
<1>2. DaemonInv /\ JobsTakeTurns /\ ProcessInv /\ [DaemonNext]_vars => ProcessInv'
  BY NextProcessInv
<1>3. ProcessInv => StatusMatchesProcess
  BY ProcessInvImplies
<1>4. QED
  BY <1>1, <1>2, <1>3, DaemonInvariant, PTL DEF DaemonSpec

\* The same of a daemon that serves one connection at a time.
THEOREM QuietStatusMatchesProcess ==
    ASSUME OneAtATime, OutcomesWritten
    PROVE  DaemonSpec => []StatusMatchesProcess
  BY QuietDaemonTakesTurns, TurnsStatusMatchesProcess, PTL

=============================================================================
