------------------------------ MODULE AuditLog ------------------------------
(***************************************************************************)
(* internal/auditlog: the file to which the daemon's goroutines and every  *)
(* command of the CLI append one line per event.  A process opens the file *)
(* once and guards its Logger by a mutex; nothing but O_APPEND coordinates *)
(* processes.  The kernel may write less than it is given (a full disk):   *)
(* os.File.Write then goes on with the rest, or returns the error.         *)
(*                                                                         *)
(* External: the kernel, and logrotate with copytruncate, which copies the *)
(* file and then, in a separate step, truncates it.                        *)
(***************************************************************************)
EXTENDS Naturals, Sequences

CONSTANTS
    Processes,       \* the daemon and CLI commands
    Writers,         \* their goroutines
    ProcessOf,       \* the process of each writer
    MaxEntries,      \* bound: entries of one writer
    MaxRotations,    \* bound: runs of logrotate
    MaxDeaths,       \* bound: processes that are killed
    Nobody           \* no writer

ASSUME ProcessOfAssumption == ProcessOf \in [Writers -> Processes]
ASSUME EntriesAssumption == MaxEntries \in Nat
ASSUME RotationsAssumption == MaxRotations \in Nat
ASSUME DeathsAssumption == MaxDeaths \in Nat
ASSUME NobodyAssumption == Nobody \notin Writers

VARIABLES
    file,        \* the file: the pieces of lines written, in file order
    offset,      \* by process: where its descriptor stands in the file
    mu,          \* by process: the writer that holds Logger.mu, or Nobody
    step,        \* by writer: where it is in Log
    count,       \* by writer: entries begun so far
    acked,       \* the entries whose Log returned nil
    archive,     \* the pieces that logrotate has copied
    window,      \* the entries written to between a copy and its truncation
    rotation,    \* "idle", or "copied" before the truncation
    rotations,   \* rotations begun so far
    deaths       \* processes killed so far

logVars == <<file, offset, mu, step, count, acked, archive, window, rotation,
             rotations, deaths>>

\* A line is written in one piece, or as a head and the rest.
Parts == {"line", "head", "rest"}
Entries == Writers \X (1..MaxEntries)
Piece == [entry : Entries, part : Parts]

Current(w) == <<w, count[w]>>

Init ==
    /\ file = <<>>
    /\ offset = [p \in Processes |-> 0]
    /\ mu = [p \in Processes |-> Nobody]
    /\ step = [w \in Writers |-> "idle"]
    /\ count = [w \in Writers |-> 0]
    /\ acked = {}
    /\ archive = {}
    /\ window = {}
    /\ rotation = "idle"
    /\ rotations = 0
    /\ deaths = 0

-----------------------------------------------------------------------------
(* Log                                                                      *)

KeepRotation == UNCHANGED <<archive, rotation, rotations, deaths>>

\* logCLI or logDaemon has an event to record.
Log(w) ==
    /\ step[w] = "idle"
    /\ count[w] < MaxEntries
    /\ count' = [count EXCEPT ![w] = @ + 1]
    /\ step' = [step EXCEPT ![w] = "lock"]
    /\ UNCHANGED <<file, offset, mu, acked, window>>
    /\ KeepRotation

\* Mutant: Log does not lock.
LockNot(w) ==
    /\ step[w] = "lock"
    /\ step' = [step EXCEPT ![w] = "write"]
    /\ UNCHANGED <<file, offset, mu, count, acked, window>>
    /\ KeepRotation

\* Mutant: Log waits while a rotation is under way.
LockAwaitsRotation(w) ==
    /\ step[w] = "lock"
    /\ mu[ProcessOf[w]] = Nobody
    /\ rotation = "idle"
    /\ mu' = [mu EXCEPT ![ProcessOf[w]] = w]
    /\ step' = [step EXCEPT ![w] = "write"]
    /\ UNCHANGED <<file, offset, count, acked, window>>
    /\ KeepRotation

Lock(w) ==
    /\ step[w] = "lock"
    /\ mu[ProcessOf[w]] = Nobody
    /\ mu' = [mu EXCEPT ![ProcessOf[w]] = w]
    /\ step' = [step EXCEPT ![w] = "write"]
    /\ UNCHANGED <<file, offset, count, acked, window>>
    /\ KeepRotation

\* Mutant: the file is opened without O_APPEND, so a write goes where the
\* process's own descriptor stands, over what others have written there.
AppendAtOffset(w, part) ==
    LET piece == [entry |-> Current(w), part |-> part]
        at == offset[ProcessOf[w]] + 1
    IN
    /\ at <= Len(file) + 1
    /\ file' = IF at <= Len(file) THEN [file EXCEPT ![at] = piece]
               ELSE Append(file, piece)
    /\ offset' = [offset EXCEPT ![ProcessOf[w]] = at]
    /\ window' = IF rotation = "copied" THEN window \cup {Current(w)} ELSE window

\* write(2) on a descriptor opened with O_APPEND: at the end of the file,
\* wherever that is now.
AppendPiece(w, part) ==
    /\ file' = Append(file, [entry |-> Current(w), part |-> part])
    /\ offset' = [offset EXCEPT ![ProcessOf[w]] = Len(file) + 1]
    /\ window' = IF rotation = "copied" THEN window \cup {Current(w)} ELSE window

\* The deferred Unlock.
Return(w) ==
    /\ mu' = [mu EXCEPT ![ProcessOf[w]] = Nobody]
    /\ step' = [step EXCEPT ![w] = "idle"]

\* The whole line in one write, or its rest after a short one.
WriteLine(w) ==
    /\ step[w] \in {"write", "rest"}
    /\ AppendPiece(w, IF step[w] = "write" THEN "line" ELSE "rest")
    /\ acked' = acked \cup {Current(w)}
    /\ Return(w)
    /\ UNCHANGED count
    /\ KeepRotation

WriteShort(w) ==
    /\ step[w] = "write"
    /\ AppendPiece(w, "head")
    /\ step' = [step EXCEPT ![w] = "rest"]
    /\ UNCHANGED <<mu, count, acked>>
    /\ KeepRotation

\* Mutant: the error path returns without unlocking.
WriteFailsLocked(w) ==
    /\ step[w] \in {"write", "rest"}
    /\ step' = [step EXCEPT ![w] = "idle"]
    /\ UNCHANGED <<file, offset, mu, count, acked, window>>
    /\ KeepRotation

\* The error of the write; the callers only report it.
WriteFails(w) ==
    /\ step[w] \in {"write", "rest"}
    /\ Return(w)
    /\ UNCHANGED <<file, offset, count, acked, window>>
    /\ KeepRotation

-----------------------------------------------------------------------------

\* A process is killed in the middle of anything and, if it is the daemon,
\* started again: a new Logger, whose descriptor stands at 0.
Dies(p) ==
    /\ deaths < MaxDeaths
    /\ deaths' = deaths + 1
    /\ mu' = [mu EXCEPT ![p] = Nobody]
    /\ step' = [w \in Writers |-> IF ProcessOf[w] = p THEN "idle" ELSE step[w]]
    /\ offset' = [offset EXCEPT ![p] = 0]
    /\ UNCHANGED <<file, count, acked, archive, window, rotation, rotations>>

Copy ==
    /\ rotation = "idle"
    /\ rotations < MaxRotations
    /\ archive' = archive \cup {file[i] : i \in DOMAIN file}
    /\ rotation' = "copied"
    /\ rotations' = rotations + 1
    /\ UNCHANGED <<file, offset, mu, step, count, acked, window, deaths>>

Truncate ==
    /\ rotation = "copied"
    /\ file' = <<>>
    /\ rotation' = "idle"
    /\ UNCHANGED <<offset, mu, step, count, acked, archive, window, rotations,
                   deaths>>

LogStep(w) == Lock(w) \/ WriteLine(w) \/ WriteShort(w) \/ WriteFails(w)

Next ==
    \/ \E w \in Writers : Log(w) \/ LogStep(w)
    \/ \E p \in Processes : Dies(p)
    \/ Copy
    \/ Truncate

Spec == Init /\ [][Next]_logVars

\* Goroutines run, and a write to a file returns.
FairSpec == Spec /\ \A w \in Writers : WF_logVars(LogStep(w))

-----------------------------------------------------------------------------

\* Every variable has its type, and a mutex is held by a writer of its process
\* that is at the file, never by one that has returned.
LogTypeOK ==
    /\ file \in Seq(Piece)
    /\ offset \in [Processes -> Nat]
    /\ mu \in [Processes -> Writers \cup {Nobody}]
    /\ step \in [Writers -> {"idle", "lock", "write", "rest"}]
    /\ count \in [Writers -> 0..MaxEntries]
    /\ acked \subseteq Entries
    /\ archive \subseteq Piece
    /\ window \subseteq Entries
    /\ rotation \in {"idle", "copied"}
    /\ rotations \in 0..MaxRotations
    /\ deaths \in 0..MaxDeaths
    /\ \A p \in Processes : mu[p] # Nobody =>
        ProcessOf[mu[p]] = p /\ step[mu[p]] \in {"write", "rest"}

ProcessAt(i) == ProcessOf[file[i].entry[1]]

\* A line that took two writes is not cut by its own process: of the pieces
\* that the process has in the file, the rest comes right after its head.
\* (Another process may write between the two; the mutex does not reach it.)
RestFollowsHead ==
    \A j \in DOMAIN file : file[j].part = "rest" =>
        \A i \in 1..(j - 1) :
            /\ ProcessAt(i) = ProcessAt(j)
            /\ \A k \in (i + 1)..(j - 1) : ProcessAt(k) # ProcessAt(j)
            => file[i] = [entry |-> file[j].entry, part |-> "head"]

OnRecord(e) ==
    LET kept == archive \cup {file[i] : i \in DOMAIN file} IN
    \/ [entry |-> e, part |-> "line"] \in kept
    \/ /\ [entry |-> e, part |-> "head"] \in kept
       /\ [entry |-> e, part |-> "rest"] \in kept

\* "Every already-open file descriptor keeps appending to the same inode with
\* zero interruption or lost lines" (docs/specs/audit-log.md): an entry whose
\* Log succeeded is in the file or in a copy of it, however many processes
\* append, die or have their writes cut short, except for an entry that was
\* being written between a copy and the truncation that follows it.
AcknowledgedIsKept == \A e \in acked \ window : OnRecord(e)

\* "A full disk logging audit trail shouldn't block an actual checkpoint"
\* (docs/specs/audit-log.md): Log returns, with or without an error, even if
\* another process died at the file or logrotate never finishes.
EveryLogReturns == \A w \in Writers : step[w] # "idle" ~> step[w] = "idle"
=============================================================================
