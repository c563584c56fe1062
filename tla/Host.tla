-------------------------------- MODULE Host --------------------------------
(***************************************************************************)
(* What the daemon acts on outside itself: the processes of the jobs, the  *)
(* `surviva run' commands that wait for them, and the checkpoint images on *)
(* disk.  criu, the kernel and the users' hooks are external.  A hook      *)
(* replaces criu for one operation of a job and does not do what criu does *)
(* besides: a checkpoint hook need write no image and stop no process, and *)
(* a resume hook needs no image (docs/specs/hooks.md).                     *)
(***************************************************************************)
EXTENDS Identifiers

VARIABLES
    live,         \* the pids of the live processes
    work,         \* work[p]: the job whose work process p carries, 0 if none
    cli,          \* cli[p]: the `surviva run' that waits for its child p
    images        \* the directories that hold an image of criu's

hostVars == <<live, work, cli, images>>

\* A run command waits for its child, and then holds the exit code that it
\* reports with Complete.  It knows its job's id once Register was answered.
RunCommand == [st : {"none", "wait", "exit0", "exit1"}, id : Ids \cup {0}]

NoRun == [st |-> "none", id |-> 0]

HostTypeOK ==
    /\ live \subseteq Pids
    /\ work \in [Pids -> Ids \cup {0}]
    /\ cli \in [Pids -> RunCommand]
    /\ images \subseteq Dirs

\* Directories that users name may already hold a checkpoint made elsewhere.
HostInit ==
    /\ live = {}
    /\ work = [p \in Pids |-> 0]
    /\ cli = [p \in Pids |-> NoRun]
    /\ images \in SUBSET UserDirs

\* The processes that carry the work of a job.
ProcessesOf(id) == {p \in live : work[p] = id}

\* cmd.Wait has returned; it is called once Register was answered, and before
\* Complete is sent.
Reaped(p) == cli[p].st \in {"exit0", "exit1"} /\ cli[p].id # 0

\* The kernel reuses a pid once its process is gone and has been waited for,
\* be the report of its exit still to come.
FreePid(p) == p \notin live /\ (cli[p] = NoRun \/ Reaped(p))

\* runCmd: cmd.Start, in a process group of its own.  Run commands go by the
\* pids of their children, so one that still has to report keeps its name.
StartRun(p) ==
    /\ FreePid(p)
    /\ cli[p] = NoRun
    /\ live' = live \cup {p}
    /\ cli' = [cli EXCEPT ![p].st = "wait"]
    /\ UNCHANGED <<work, images>>

\* joinCmd: a process that is already there; nobody waits for it.
StartJoin(p) ==
    /\ FreePid(p)
    /\ live' = live \cup {p}
    /\ UNCHANGED <<work, cli, images>>

\* Process p ends, if it is alive; a run command waiting for it sees the code.
Ends(p, code) ==
    /\ live' = live \ {p}
    /\ work' = [q \in Pids |-> IF q = p THEN 0 ELSE work[q]]
    /\ cli' = [q \in Pids |->
                 IF q = p /\ p \in live /\ cli[q].st = "wait"
                 THEN [cli[q] EXCEPT !.st = code] ELSE cli[q]]

\* The process finishes by itself, well or badly.
Exit(p) ==
    /\ p \in live
    /\ \E code \in {"exit0", "exit1"} : Ends(p, code)
    /\ UNCHANGED images

\* KillGroup: a group that no longer exists counts as signalled.  SIGTERM ends
\* the process now, or later (Exit), or is ignored.
KillGroup(pid) ==
    /\ Ends(pid, "exit1") \/ UNCHANGED <<live, work, cli>>
    /\ UNCHANGED images

\* Mutant: criu dump --leave-running.
DumpSucceedsLeaveRunning(pid, dir) ==
    /\ pid \in live
    /\ dir # NoDir
    /\ images' = images \cup {dir}
    /\ UNCHANGED <<live, work, cli>>

\* criu.Dump: it stops the tree it has dumped.  There is nothing to dump
\* without a process, and MkdirAll fails on an empty directory name.
DumpSucceeds(pid, dir) ==
    /\ pid \in live
    /\ dir # NoDir
    /\ Ends(pid, "exit1")
    /\ images' = images \cup {dir}

\* A checkpoint hook exits with 0.  It gets the job's id and directory, not
\* the pid; a process that it stops ends by itself (Exit).  What it writes is
\* its own affair, unless it calls criu.
HookCheckpoints(dir) ==
    /\ images' \in {images, images \cup ({dir} \ {NoDir})}
    /\ UNCHANGED <<live, work, cli>>

\* A process that nobody waits for takes up the work of a job.
Starts(id, pid) ==
    /\ FreePid(pid)
    /\ live' = live \cup {pid}
    /\ work' = [work EXCEPT ![pid] = id]
    /\ UNCHANGED <<cli, images>>

\* criu.Restore: needs an image, which stays on disk.
RestoreSucceeds(dir, id, pid) == dir \in images /\ Starts(id, pid)

\* A resume hook prints the pid of a process that it has started, or of one of
\* the job's that it has found running.
HookResumes(id, pid) ==
    \/ Starts(id, pid)
    \/ pid \in ProcessesOf(id) /\ UNCHANGED hostVars

\* os.RemoveAll, which an empty name or a missing directory does not fail.
RemoveAll(dir) ==
    /\ images' = images \ {dir}
    /\ UNCHANGED <<live, work, cli>>
=============================================================================
