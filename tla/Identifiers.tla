---------------------------- MODULE Identifiers ----------------------------
(***************************************************************************)
(* The names that the store, the host and the daemon share: job ids,       *)
(* process ids, checkpoint directories and hooks.                          *)
(***************************************************************************)
EXTENDS JobStatus, Naturals

CONSTANTS
    MaxJobs,      \* bound: how many rows are ever inserted
    Pids,         \* process (and process group) ids
    UserDirs,     \* directories that users name with -checkpoint-dir
    NoDir,        \* the empty checkpoint_dir
    Hooks         \* the operations for which jobs may register a hook

\* The database numbers jobs 1, 2, 3, ...
Ids == 1..MaxJobs

\* The pid column of a job without a process.
NoPid == 0

\* <CheckpointBaseDir>/<id>, which handleRegister fills in by default.
DefaultDir(id) == <<"CheckpointBaseDir", id>>

Dirs == UserDirs \cup {DefaultDir(id) : id \in Ids}

ASSUME MaxJobsAssumption == MaxJobs \in Nat
ASSUME NoDirAssumption == NoDir \notin Dirs
ASSUME PidsAssumption == Pids \subseteq Nat \ {0}
ASSUME HooksAssumption == Hooks \subseteq {"checkpoint", "resume"}
=============================================================================
