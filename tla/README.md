# A TLA+ development for surviva

surviva tracks long-running jobs on a cloud instance, checkpoints them with
criu (or a user's hook) on demand or when the provider announces an
interruption, and resumes them later. What can go wrong lies between its
parts: goroutines that overlap on one job, processes that end while they are
dumped, a daemon that dies half way, a checkpoint that never returns while the
next signal is due. This directory models those parts, checks them with TLC and
proves their safety properties with TLAPS.

## The system

| Component | State | Operations | Hard part |
|---|---|---|---|
| store (`internal/store`) | tables `jobs`, `job_history` | Insert, UpdateStatus, UpdatePID, UpdateCheckpointDir; Get, List, ListTerminal, History | updates validate first and write later |
| daemon handlers (`internal/daemon`) | none of their own; rows read into locals | register, adopt, pause, resume, cancel, complete, prune, show | one goroutine per connection, no lock per job, store errors logged and ignored |
| interruption fan-out (`handleInterruption`) | the `interrupted` latch, a semaphore | latch, list, notify, one worker per RUNNING job | races with handlers; the latch is lost in a restart |
| processes and images (`checkpoint`, `resume`, `criu`, `procsignal`) | processes, pids, directories | dump, restore, SIGTERM, RemoveAll | effects outside the store's transactions |
| `surviva run` / `join` | the child that run waits for | start, register, report the exit | the report can be late or lost |
| IMDS poller (`imds`, `daemon/provider/aws`) | token, `seenRebalance` | poll, call back | every request may fail; the callback blocks the loop |
| notification (`notify`, `daemon/notify/aws`) | goroutines that send | send one message per signal | the target may be slow or gone |
| audit log (`auditlog`) | a file, a mutex per process | Open, Log | processes share the file and nothing else; logrotate truncates it |
| configuration (`config`) | none | Load | directives that require or forbid others; numbers that overflow |
| schema migration (`store.Open`) | the tables' columns | create, look for a column, add it | other daemons migrate the same database; a kill in between |
| daemon start and stop (`cmd/surviva/daemon.go`, `Run`) | the socket | load, open, wire, listen, serve, exit | failures at any step, what an earlier daemon left behind |
| `list`, `show`, platform helpers | none | | two reads of `show`; the rest is not modelled, see below |

Clients call the daemon over a Unix socket, one request per connection. A
handler or fan-out worker calls the store and runs criu, a hook or a signal in
between. The poller calls `handleInterruption` on its own goroutine. The store
is the only state that survives the daemon.

What makes each correct: the store's status column follows the transition
table and agrees with the history; a handler leaves no job in a transient
status and, for a job that criu checkpoints, says the truth about its process;
a resumable job has an image; prune takes files of ended jobs only; the fan-out reaches every RUNNING job within its bound; the poller
reports every signal once, and from its announcement every RUNNING job is
checkpointed; an acknowledged audit entry is kept; a configuration is accepted
when it is valid, and its settings take effect; an opened store has every column; a daemon that can
serve comes to serve.

## Modules

- `JobStatus`: the statuses and the transition table of `store.go`.
- `JobLifecycle`: the abstract specification, one status per job that moves
  along the table.
- `Identifiers`: job ids, pids, directories and the kinds of hooks that jobs may
  have, and the assumptions on them.
- `Store`: the two tables. `UpdateStatus` and `UpdatePID` are two actions each,
  `...Read` (Get and ValidTransition) and `UpdateCommit` (the transaction, which
  writes by id and does not look at the status again) or `UpdateRollback`;
  `pending[c]` is what goroutine `c` carries from one to the other. `Spec` lets
  callers overlap, `SerialSpec` does not let two overlap on one job.
- `Host`: processes, the run commands that wait for them, and images. `work[p]`
  says whose work process `p` carries, which no code sees but properties need.
  criu and hooks are different operations: `DumpSucceeds` needs a live process
  and a directory, stops the one and leaves an image in the other;
  `HookCheckpoints` needs nothing, stops nothing and may or may not leave an
  image that criu could use; `RestoreSucceeds` needs an image; `HookResumes`
  does not, and starts a process or finds one of the job's still running. A
  process that a hook does stop ends by itself (`Exit`), before or after the
  hook. A pid is free again once its process has been waited for, be its run
  command still to report (`FreePid`); only a new `surviva run` takes another
  pid than that, because the model calls run commands by their children's pids.
- `Daemon`: handlers, fan-out, crash and restart on top of both. A goroutine is
  a record with a program counter. A step ends where another goroutine may
  run: at a store call, at the load of the latch, and around criu, a hook, a
  signal or a file removal. `CallStatus` and `Commit` are the two halves of an
  update in a handler; `then` is where the handler goes on, the same place for
  success and error because the code only logs the error (cancel and complete
  return it, and are done either way).
- `Poller`: `Poller.Run`, the IMDS client's requests and the AWS provider's
  callbacks.
- `Watch`: `Poller` and `Daemon` composed to the process they form. They share
  two steps: the callback (`CallsBack`, the poller's `Describe` and the
  daemon's `Interrupt`) and its return (`Returns`, when the fan-out is over);
  `Exits` ends both.
- `AuditLog`: the file as a sequence of pieces of lines, the mutex of each
  process, and logrotate. A line is one piece, or a head and a rest when the
  kernel takes less than it is given.
- `Config`: `Load` and `validate` as operators on a sequence of lines, and what
  `NewPoller` and `New` make of the settings. No state.
- `Startup`: daemonCmd and `Run` up to the accept loop, one process per host,
  the databases they open and the sockets they leave.
- `StoreProofs`, `DaemonProofs`, `PollerProofs`, `WatchProofs`,
  `AuditLogProofs`, `StartupProofs`: the theorems about the modules they are
  named for. `JobProofs` and `SerialProofs` add to `DaemonProofs` what the
  daemon keeps true of each job, and of jobs that goroutines take turns on.
- `MCStore`, `MCDaemon`, `MCWatch`, `MCAuditLog`, `MCStartup`: instances for
  TLC.

Operators whose comment begins with "Mutant" are faulty variants of the
definition that follows them. No specification uses them: each shows that a
property notices the fault when it takes the definition's place.

Abstractions: a failure reason is empty or not; commands, owners, tags, times
and hook paths are left out, so "invalid hook path" and "missing payload" are a
refusal that may always happen; pid and pgid are one value, since run, join and
resume store the same number in both; `List` order does not matter and is not
kept. A job has a set of hooks that never changes; what a hook is taken to keep
is only that the pid which a resume hook prints is that of a process of the
job. The semaphore of a fan-out is local to its call (`sem` in
`handleInterruption`) and appears as the number of busy workers, which is the
same as long as fan-outs do not overlap: `OneFanOut` shows that they do not.
In `Config` paths and names are compared with
the empty string at most, and the spellings of keys and values are those of a
small table for `ToUpper` and `ToLower`. Integers reach up to `MaxInt` = 127
and a second has `Second` = 10 units, in place of 2^63 - 1 and 10^9, so that 13
seconds wrap to a negative interval and 26 to a positive one. In `Startup` the
columns of the first version of `jobs` are one, and each host has a database
file of its own unless its `DBType` is mysql.

## Runs

Bounds: `MaxJobs` rows; `MaxHistory` rows of history, in the store's own runs
only (`BoundedSpec` and `BoundedSerialSpec` of `MCStore`; the daemon's history
is bounded by its requests and signals); `MaxRequests` user requests (completion
reports are not counted, the exits that cause them are bounded by the
processes), `MaxSignals` provider signals; `MaxEntries` entries of one writer,
`MaxRotations` runs of logrotate and `MaxDeaths` killed processes in
`AuditLog`; `MaxFaults` failures and kills in `Startup`. The races need two actors on one
job, a third only adds a repetition; two jobs are needed where jobs compete
(semaphore, shared directories, ids).

| Run | Instance | Shows |
|---|---|---|
| `store_race` | 2 callers, 2 jobs, history 2 | types, `HistoryAgrees`, `HistoryEdges`, `OffTableWritesAreStale` under every interleaving, rollback and crash |
| `store_serial` | 2 callers, 2 jobs, history 4, no overlap on a job | `SnapshotFresh`, `HistoryChains`, `ReasonAgrees`, refinement of `JobLifecycle` |
| `daemon_serial` | 1 connection, 2 jobs with any of both hooks, 5 requests, adoption of a directory that another job names | `StatusMatchesProcess` and `DaemonLifecycle` when requests do not overlap; `PruneTakesEnded` with a shared directory |
| `daemon_race` | 2 connections, fan-out, 4 requests | `MidwayHasOwner`; what `show` reads fits together (`HistoryCoversRow`); `PruneTakesEnded` with a status that is stale when the files are removed; the daemon uses the store only through its calls (`UsesStore`) |
| `daemon_crash` | crash, failing database and unreadable pid at any step; adopt; with or without a checkpoint hook | `ResumableHasImage` |
| `daemon_live` | 1 job, 1 connection, 4 requests, 1 signal, hanging criu and hooks, a notification target that may never answer | `WorkersAnnounced`, `InterruptionSweeps`, `EveryRequestAnswered`, `Settles`, `CompletionLands` |
| `watch` | poller and daemon, 2 jobs, 1 slot, both signals, 1 connection, 2 requests, hangs, shutdown | `FiresAtMostOnce`, `SeenIsDelivered`, `OneFanOut`, `WorkersBounded`, `NoticeDelivered`, `NoticeSweeps` |
| `startup` | 2 hosts, 2 faults; every version of the database; two valid files, each with any line left out and any of two dozen endings | `OpenedIsMigrated`, `SettingsTakeEffect`, `LoadAgrees`, `EventuallyServes` |
| `audit` | 2 goroutines of one process and 1 of another, rotation, a death | `RestFollowsHead`, `AcknowledgedIsKept`, `EveryLogReturns` |

The liveness properties say what a hang costs and no more. A hung checkpoint
keeps its own job (`Settles`) and its own connection (`EveryRequestAnswered`);
as many of them as the semaphore has slots keep the fan-out from the other jobs
(`InterruptionSweeps`, `NoticeSweeps`); and a single one, in the fan-out of a
rebalance recommendation, keeps the poller from ever asking for the
interruption notice (`NoticeDelivered`), because `handleInterruption` waits for
all its workers on the poller's goroutine. Without the exceptions TLC finds
these behaviours. A notification target that never answers costs nothing, which
is what its goroutine is for.

In `startup` two daemons that add the same column fail one another, and a
kill leaves a socket or half a migration behind: `EventuallyServes` shows that
starting again is enough. `LoadAgrees` compares `Load` with the table of
directives in config.md, a definition that knows no order of checks and takes
values as they are written (`Wrong`). What the table allows is accepted. What
is accepted beyond it are the files that the table allows once `CloudProvider`,
`DBType` and `NotifyTargetType` are lower-cased (`Folded`), as the code does and
the document says it does not; TLC's files have both spellings. The directive
that an error names is wrong in any case, and the order of lines does not
matter unless one directive is given twice, when the last one counts.
`SettingsTakeEffect` says what a daemon does with what Load returned: the
interval and the slots are those of the file, and an interval that overflows is
at least positive. It does not say that the settings are complete, since they
need not be (see the list below).

`Faults` says what may go wrong outside the daemon's own code: `crash` (the
process dies or is stopped at any step; stop is the same, since `Run` returns
without waiting for its goroutines), `db` (a transaction or `List` fails),
`pidfile` (a restore succeeds but its pid cannot be read) and `hang` (criu or a
hook does not return). A dump, a restore, a signal and a removal may fail in
every run. `StatusMatchesProcess` is checked without faults: a failing database
or a lost pid leaves a live process behind a row that does not say so, as the
code only logs the error. It is stated for jobs without a checkpoint hook. With
one it does not hold: hooks.md leaves it to the hook to stop the process, and
with the shipped example hooks a pause leaves a CHECKPOINT_CREATED job running
and a resume starts a second process. `ResumableHasImage` is stated for jobs
without hooks: a checkpoint hook that is called with an empty directory, between
`Insert` and `UpdateCheckpointDir`, or that writes files of its own, succeeds
and leaves nothing for criu.

Only the store's runs check deadlock: when no request is left and every
process has ended, the poller has reported the notice, the last entry is
written or every daemon serves, the system rightly stands still.

Three more runs end in a counterexample. Each states what a document or comment
says, and shows that the code does something else:

| Run | Document | What happens |
|---|---|---|
| `daemon_terminal` | store.md: terminal statuses are never left | cancel and completion report both validate against RUNNING, the later write wins |
| `daemon_stale_report` | daemon.md: a stale report is a no-op | the report of the dumped process arrives after the resume |
| `daemon_stuck` | daemon.md: "try again once it settles" | the daemon dies during a checkpoint and nothing repairs the row |

The models show more behaviours that no run records, some of them the same
cause seen elsewhere (a check whose result is stale, or a store error that is
only logged):

- two resumes of a job may both restore it (`resumeJob` carries on when
  RESTORE_PENDING is refused), and a pause overtaken by a cancel is answered
  "checkpoint created";
- a registration that read the latch before a signal may insert its row after
  the fan-out's `List`, and stay RUNNING; so may a resume, which does not look
  at the latch at all;
- a RESTORE_FAILED written between the halves of another resume's `UpdatePID`
  leaves a RUNNING job with a failure reason;
- prune "clears every terminal job's checkpoint files and nothing else" and
  "leaves every active job's directory alone" (daemon.md) only as long as no
  terminal job shares it: `handleAdopt` looks for duplicates among active jobs,
  so a canceled job's directory can be adopted and then pruned. What does hold,
  whoever shares what and however stale the status that prune has read, is
  `PruneTakesEnded`: the directory is named by a job that has ended;
- cancel finds "no live process to signal" (daemon.md) in
  CHECKPOINT_CREATION_FAILED, yet a dump that failed leaves the process alive;
- "zero interruption or lost lines" (audit-log.md) does not hold between
  logrotate's copy and its truncation, which `AcknowledgedIsKept` excepts;
- "values are left exactly as written (no case-folding on values)" (config.md):
  `validate` lower-cases three of them, so `CloudProvider=AWS` is accepted and
  becomes `aws`;
- "a ready-to-use `Config` -- never a partially-valid one" (config.md): an empty
  `AuditLogPath` or `DBPath` passes validation, since only a missing line counts
  as missing; with the first the daemon fails for good when it opens the log,
  which is why `Servable` excludes it. A file with `DBType=sqlite` may have any
  `DBPort`;
- "no defaults silently filled in for a daemon-critical setting" (config.md): an
  interval whose seconds overflow is replaced by `NewPoller`'s default, or by
  what is left of it, without a word.

### Fairness

`FairDaemonSpec` assumes weak fairness of every goroutine's steps, of the
fan-out, of the restart and of the report that a run command sends when its
child has exited (`runCmd` goes straight on to `Complete`). Go schedules every
runnable goroutine, a step never waits for another one except the fan-out for
its workers, and `deploy/systemd/surviva-daemon.service` has
`Restart=on-failure`. criu and the hooks have no deadline
(`context.Background()`): where the `hang` fault is on, any of them may never
return. The database is assumed to return. Nothing makes users send requests,
processes end, signals arrive or the notification target answer.

`FairWatchSpec` assumes the same of the composed process, without a restart,
and of the poller that `Run` keeps going (the ticker fires and requests have a
limit of 5 s) and, strongly, that the request for the notice does not fail for
ever; nothing is assumed of the other requests, or of the return of a fan-out.

`FairStartupSpec` assumes that a daemon goes on and systemd restarts it;
failures are bounded by `MaxFaults`, so they are not assumed to end by
themselves but by the bound. `FairSpec` of `AuditLog` assumes that goroutines
run and `write` returns, not that logrotate finishes or that processes survive.

## Proofs

Every theorem holds for all values of the constants that satisfy the named
assumptions: any number of jobs, goroutines, pids, directories, slots, requests,
signals, hosts, log writers and faults.

**The store** (`StoreProofs`).

- `StoreTypeOK`: `TypeOK` is inductive: it contains that ids are gap-free and
  that a pending call names an existing row.
- `StoreHistoryAgrees`, `StoreHistoryEdges`: from `HistoryInv`, which adds that
  an id without a row has no history and that a pending call is an edge of the
  table. The latter is why a stale write still appends a legal edge: the row
  records what was validated.
- `StoreOffTableWritesAreStale`: only `Insert` and `UpdateCommit` change a
  status, and a commit whose snapshot is fresh follows the table.
- `SerialStoreFresh`, `SerialStoreRefines`: with `NoOverlap` in every state, a
  pending call's `from` is the row's status (`SerialInv`), so a commit is a
  `Move` of `JobLifecycle` and every other step an insertion or a stutter.
- `SerialStoreHistoryChains`, `SerialStoreReasonAgrees`: a fresh commit appends
  a row that leaves where the last one ended; and `UpdatePID`, which keeps
  `failure_reason`, only ever starts from RESTORE_PENDING, which has none.

**The daemon** (`DaemonProofs`). `DaemonInv` adds to `DaemonTypeOK` what the
code of a goroutine guarantees of its own variables (`LocalInv`), that a call in
flight is about its goroutine's job and that one into a transient status goes
on to the work (`CallInv`), and that workers exist during a fan-out only and a
listed job has none yet (`FanInv`). Each action of a goroutine is shown to be a
step of one shape, `GoesTo`: it changes its own record only, begins, completes
or leaves alone its own store call, and touches the tables as `Store!Next`
allows. The invariants are then proved for that shape and the few other kinds of
steps (`StepKinds`), not action by action.

- `DaemonInvariant`, `DaemonTypeCorrect`; `DaemonUsesStore`: the daemon
  implements the store's `Spec`, with the identity as the mapping. So
  `DaemonHistoryAgrees` and `DaemonOffTableWritesAreStale` follow from the
  store's theorems.
- `DaemonWorkersBounded`: only `FanSpawn` makes a worker busy, one at a time and
  below the limit. `DaemonWorkersAnnounced`: what is busy or listed is named by
  the last notification.
- `DaemonHistoryCoversRow`: histories only grow (`HistoryGrows`), so what
  `HistoryAgrees` says when the row is read is still there when the history is.

**Jobs** (`JobProofs`).

- `DaemonMidwayHasOwner`, if `Faults` has no `crash`, `db` or `hang` (each of
  which leaves such a job behind; `daemon_stuck` shows it for the crash): the
  goroutine that commits a transient status goes on to the work, and its next
  update cannot be refused while the job is still in that status.
- `DaemonResumableHasImage`, for jobs without hooks, under every fault, if `Ops`
  has no `prune` or `pruneAll` (a pruned directory may be shared with a job that
  was adopted later). Other jobs may have hooks and the same directory, and
  users may adopt. The inductive
  invariant `ImageInv` says where the image is before the status says so: under
  the row of a call into a resumable status (`CallDirs`), of a goroutine that
  has dumped (`DirOK`), in the directory that an adoption has checked. The
  delicate part is `SetDefaultDir`, which gives a visible row its directory: a
  goroutine that read the row earlier has the empty name and criu cannot dump
  there, and one handler at most completes a row (`OneSetter`).
- `DaemonPruneTakesEnded`, with no premise at all: any requests, hooks, shared
  directories, overlaps and faults. `PruneInv` says that a directory on the list
  which `handlePrune` has made is one that a job names whose history has a
  terminal status. It stays so because histories only grow and a row's directory
  changes once, from none (`SetterInv`), whatever becomes of the status.

**Jobs that goroutines take turns on** (`SerialProofs`). The code has no lock
per job, and these properties fail when two goroutines work on one job
(`daemon_terminal` shows the lifecycle's failure). `JobsTakeTurns` says what
such a lock would give: no two goroutines are past the admission of the same
job, and none is while the fan-out has the job listed. It is the premise of the
theorems called `Turns...`, which hold for any number of clients, jobs and
signals; goroutines with different jobs overlap in every way.

- `TurnsMakeSerial`: such goroutines never overlap in the store
  (`TurnsNoOverlap`), so the daemon implements `SerialSpec`, through crashes,
  hangs and failing transactions. `TurnsLifecycle`, `TurnsHistoryChains` and
  `TurnsReasonAgrees` follow with the theorems of `StoreProofs`.
- `TurnsStatusMatchesProcess`, for jobs without a checkpoint hook, if `Faults`
  has no `db` or `pidfile` (`OutcomesWritten`): a status that is not written, or a restore whose pid is
  lost, leaves a process that the row does not know of, while crashes and hangs
  do no harm. `ProcessInv` follows each process from its start to its row:
  processes work on jobs that exist (`WorkOK`); what a row's status says of them
  (`RowOK`); the pid that a goroutine has read, or has been told by a restore, is
  the job's only process (`HoldsProcess`); a goroutine about to restore finds the
  job stopped and in the status it left it in (`ResumeOK`); the same of what a
  call in flight will write (`CallOK`), of a job that is being adopted
  (`AdoptOK`) and of the list of the fan-out (`ListedOK`).
- `QuietDaemonTakesTurns`: the premise is met, without a lock, by a daemon that
  serves one connection at a time and gets no signals (`OneAtATime`, as in
  `daemon_serial`), for any number of jobs and requests; hence
  `QuietDaemonLifecycle` and `QuietStatusMatchesProcess`.

**Poller and the composed process** (`PollerProofs`, `WatchProofs`).
`PollerInv` says what has been delivered at each place of `Run`; from it
`PollerFiresAtMostOnce` and `PollerSeenIsDelivered`. `WatchIsPoller` shows that
the composition implements `PollerSpec`. `WatchInv` ties the two parts: a
fan-out is under way only inside a callback, and as many signals were received
as callbacks delivered; hence `WatchOneFanOut`, `WatchWorkersBounded`,
`WatchUsesStore`, and `WatchSignalsFit`: the bound on signals takes no callback
away.

**Audit log** (`AuditLogProofs`). `MutexInv` (whoever is at the file holds its
process's mutex) comes first; `HeadInv` (a writer between two writes finds its
head at the end of what its process has in the file) and `KeptInv` (what a copy
has missed is in the window) rest on it and give `LogRestFollowsHead` and
`LogAcknowledgedIsKept`.

**Start** (`StartupProofs`). `MigrationInv` says what each place of `Open` knows
of the schema, and that columns are never taken away, so that it stays true
while other daemons migrate: `StartupOpenedIsMigrated`. `LoadedInv` says that a
daemon past `Load` has what `Load` returned; what `validate` accepts of any file
takes effect as the last lines ask (`StartupSettingsTakeEffect`), by
`WrapInRange` for every interval that does not overflow.
`StartupLoadAgrees` is about any file too. The fold over its lines is the map of
last values: that map solves the recursive equation that defines the fold
(`ReadInStep`), so the equation has a solution, and the shortest prefix on which
another solution differed would not be one (`ReadLinesAre`). `validate` accepts
when all checks pass (`ValidateAccepts`), and the first that fails is about a
directive that is wrong by the table once names are lower-cased
(`ValidateBlames`, `BlamedIsWrong`): the directives of mysql are only looked at
once `DBTYPE` is a supported one. Lower-casing changes nothing in a file that
the table allows (`TableIsFolded`).

Assumptions, each named in the module that declares the constant: `MaxJobs`,
`MaxRequests`, `MaxSignals` and the other bounds are naturals (`MaxSignals` at
least 2 in `Watch`: the poller has two signals), there is at least one slot,
`NoDir` is no directory, pids are positive, handlers and job ids are different
names for goroutines, `Ops`, `Faults` and `Hooks` are of the known kinds; in `AuditLog` each writer has a
process; in `Config` an integer holds at least a second (`WordAssumption`); in
`Startup` a file is a sequence of lines and a database starts with a schema of
some version. TLC evaluates them in
every run of the module.

Every invariant and action property that a passing run checks is also proved,
some under the premises named above. Only model-checked are the liveness
properties (`EveryRequestAnswered`, `Settles`, `InterruptionSweeps`,
`CompletionLands`, `NoticeDelivered`, `NoticeSweeps`, `EventuallyServes`,
`EveryLogReturns`): fairness is outside the prover's reach.

## Not modelled

`list`, `ping` and the formatting of what `list` and `show` print; the parsing
of command lines; the platform helpers (single system calls, and reads of
`/proc`); the JSON coding of requests and of audit entries; the time limit of a
notification, since nothing waits for it; `warnIfWorldReadable`, a warning.
A resume hook that prints a number that is no process of its job is not
modelled: the code trusts it. The
`AuditLog` module is not composed with `Daemon`: an error of `Log` is printed
and nothing depends on it.

## Plan

1. `Store`, its runs and its proofs: done.
2. `Host`, `Daemon`, `Poller` with their runs: done.
3. Notification, hangs and `show` in `Daemon`; `Watch`, `AuditLog`, `Config` and
   `Startup` with their runs: done.
4. The proofs of the section above: done.
5. Jobs that goroutines take turns on, with the truth about processes, and what
   `Load` computes: done.
