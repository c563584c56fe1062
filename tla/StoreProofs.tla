---------------------------- MODULE StoreProofs ----------------------------
(***************************************************************************)
(* What holds of the store for every set of callers and every bound.       *)
(***************************************************************************)
EXTENDS Store, TLAPS

USE DEF RUNNING, CHECKPOINT_IN_PROGRESS, CHECKPOINT_CREATED,
        CHECKPOINT_CREATION_FAILED, RESTORE_PENDING, RESTORE_FAILED,
        FAILED, CANCELED, COMPLETED, ABSENT

-----------------------------------------------------------------------------

\* A valid transition leads from a status to a status: the table (lines 47-74
\* of store.go) mentions no other value, and an unassigned id has no edge.
LEMMA TransitionTypes ==
    ASSUME NEW from, NEW to, ValidTransition(from, to)
    PROVE  from \in Statuses /\ to \in Statuses
BY DEF ValidTransition, validTransitions, Statuses

\* No edge of the table leaves a terminal status.
LEMMA TerminalHasNoEdge ==
    ASSUME NEW from, NEW to, IsTerminal(from)
    PROVE  ~ValidTransition(from, to)
BY DEF ValidTransition, validTransitions, IsTerminal, terminalStatuses

-----------------------------------------------------------------------------
(* Type correctness.                                                        *)

\* The constant records are of their types.
LEMMA NullTypes == NoRow \in Row /\ NoCall \in Call
BY DEF NoRow, Row, NoCall, Call, Reasons

\* A call in flight is an update, and of a row that exists.
LEMMA BusyCall ==
    ASSUME TypeOK, NEW c \in Callers, ~Idle(c)
    PROVE  /\ pending[c].id \in Ids
           /\ pending[c].from \in Statuses
           /\ pending[c].to \in Statuses
BY MaxJobsAssumption DEF TypeOK, Ids, Idle

\* The initial tables are empty and no call is in flight.
LEMMA InitTypeOK == Init => TypeOK
<1> SUFFICES ASSUME Init PROVE TypeOK
    OBVIOUS
<1>1. jobs \in [Ids -> Row] /\ pending \in [Callers -> Call]
    BY NullTypes DEF Init
<1>2. history \in [Ids -> Seq(HistoryEntry)]
    BY DEF Init
<1>3. lastId \in 0..MaxJobs
    BY MaxJobsAssumption DEF Init
<1>4. \A id \in Ids : jobs[id].status = ABSENT <=> id > lastId
    <2> SUFFICES ASSUME NEW id \in Ids
                 PROVE  jobs[id].status = ABSENT <=> id > lastId
        OBVIOUS
    <2>1. jobs[id].status = ABSENT
        BY DEF Init, NoRow
    <2>2. id > lastId
        BY MaxJobsAssumption DEF Init, Ids
    <2> QED
        BY <2>1, <2>2
<1>5. \A c \in Callers : pending[c].op = "none"
    BY DEF Init, NoCall
<1> QED
    BY <1>1, <1>2, <1>3, <1>4, <1>5 DEF TypeOK

\* A new row gets the next id, which was absent.
LEMMA InsertTypeOK ==
    ASSUME TypeOK, NEW row \in Row, row.status \in Statuses, Insert(row)
    PROVE  TypeOK'
<1>1. lastId + 1 \in Ids /\ lastId' \in 0..MaxJobs
    BY MaxJobsAssumption DEF TypeOK, Insert, Ids
<1>2. jobs' \in [Ids -> Row]
    BY DEF TypeOK, Insert
<1>3. ASSUME NEW id \in Ids
      PROVE  jobs'[id].status = ABSENT <=> id > lastId'
    <2>1. CASE id = lastId + 1
        <3>1. jobs'[id] = row
            BY <2>1, <1>1 DEF TypeOK, Insert
        <3>2. row.status # ABSENT
            BY DEF Statuses
        <3> QED
            BY <3>1, <3>2, <2>1, <1>1 DEF Insert, TypeOK
    <2>2. CASE id # lastId + 1
        <3>1. jobs'[id] = jobs[id]
            BY <2>2, <1>1 DEF TypeOK, Insert
        <3>2. id > lastId <=> id > lastId'
            BY <2>2, MaxJobsAssumption DEF TypeOK, Insert, Ids
        <3> QED
            BY <3>1, <3>2 DEF TypeOK
    <2> QED
        BY <2>1, <2>2
<1>4. ASSUME NEW c \in Callers, pending'[c].op # "none"
      PROVE  /\ pending'[c].id \in 1..lastId'
             /\ pending'[c].from \in Statuses
             /\ pending'[c].to \in Statuses
    BY <1>1, <1>4, MaxJobsAssumption DEF TypeOK, Insert
<1>5. history' = history /\ pending' = pending
    BY DEF Insert
<1> QED
    BY <1>1, <1>2, <1>3, <1>4, <1>5 DEF TypeOK

\* What both first halves do to `pending': caller c now carries a well-typed
\* call on an existing row.
LEMMA ReadTypeOK ==
    ASSUME TypeOK, NEW c \in Callers, NEW call \in Call,
           call.id \in 1..lastId, call.from \in Statuses, call.to \in Statuses,
           pending' = [pending EXCEPT ![c] = call],
           UNCHANGED <<jobs, lastId, history>>
    PROVE  TypeOK'
<1>1. pending' \in [Callers -> Call]
    BY DEF TypeOK
<1>2. ASSUME NEW d \in Callers, pending'[d].op # "none"
      PROVE  /\ pending'[d].id \in 1..lastId
             /\ pending'[d].from \in Statuses
             /\ pending'[d].to \in Statuses
    <2>1. CASE d = c
        <3>1. pending'[d] = call
            BY <2>1 DEF TypeOK
        <3> QED
            BY <3>1
    <2>2. CASE d # c
        <3>1. pending'[d] = pending[d]
            BY <2>2 DEF TypeOK
        <3> QED
            BY <3>1, <1>2 DEF TypeOK
    <2> QED
        BY <2>1, <2>2
<1> QED
    BY <1>1, <1>2 DEF TypeOK

\* UpdateStatus validated the transition, so both statuses are in the table.
LEMMA UpdateStatusReadTypeOK ==
    ASSUME TypeOK, NEW c \in Callers, NEW id \in Ids, NEW to,
           NEW reason \in Reasons, UpdateStatusRead(c, id, to, reason)
    PROVE  TypeOK'
<1> DEFINE call == [op |-> "UpdateStatus", id |-> id,
                    from |-> jobs[id].status, to |-> to,
                    reason |-> reason, pid |-> NoPid]
<1>1. jobs[id].status \in Statuses /\ to \in Statuses
    BY TransitionTypes DEF UpdateStatusRead
<1>2. call \in Call
    BY <1>1 DEF Call
<1>3. id \in 1..lastId
    BY DEF UpdateStatusRead, Exists
<1>4. /\ pending' = [pending EXCEPT ![c] = call]
      /\ UNCHANGED <<jobs, lastId, history>>
    BY DEF UpdateStatusRead
<1>5. call.id \in 1..lastId /\ call.from \in Statuses /\ call.to \in Statuses
    BY <1>1, <1>3
<1> HIDE DEF call
<1> QED
    BY <1>2, <1>4, <1>5, ReadTypeOK

\* The same for UpdatePID.
LEMMA UpdatePIDReadTypeOK ==
    ASSUME TypeOK, NEW c \in Callers, NEW id \in Ids, NEW pid \in Pids,
           UpdatePIDRead(c, id, pid)
    PROVE  TypeOK'
<1> DEFINE call == [op |-> "UpdatePID", id |-> id,
                    from |-> jobs[id].status, to |-> RUNNING,
                    reason |-> "", pid |-> pid]
<1>1. jobs[id].status \in Statuses /\ RUNNING \in Statuses
    BY TransitionTypes DEF UpdatePIDRead
<1>2. call \in Call
    BY <1>1 DEF Call, Reasons
<1>3. id \in 1..lastId
    BY DEF UpdatePIDRead, Exists
<1>4. /\ pending' = [pending EXCEPT ![c] = call]
      /\ UNCHANGED <<jobs, lastId, history>>
    BY DEF UpdatePIDRead
<1>5. call.id \in 1..lastId /\ call.from \in Statuses /\ call.to \in Statuses
    BY <1>1, <1>3
<1> HIDE DEF call
<1> QED
    BY <1>2, <1>4, <1>5, ReadTypeOK

\* What a transaction writes is a row, in the status the caller asked for.
LEMMA UpdatedRow ==
    ASSUME NEW row \in Row, NEW call \in Call, call.to \in Statuses
    PROVE  /\ Updated(row, call) \in Row
           /\ Updated(row, call).status = call.to
BY DEF Updated, Row, Call

\* The tables and `pending' after a commit, one field at a time.
LEMMA CommitEffect ==
    ASSUME TypeOK, NEW c \in Callers, UpdateCommit(c)
    PROVE  /\ pending[c].id \in Ids
           /\ pending[c].to \in Statuses
           /\ jobs' \in [Ids -> Row]
           /\ jobs'[pending[c].id].status = pending[c].to
           /\ \A id \in Ids : id # pending[c].id => jobs'[id] = jobs[id]
           /\ history'[pending[c].id] =
                Append(history[pending[c].id],
                       [from |-> pending[c].from, to |-> pending[c].to])
           /\ \A id \in Ids : id # pending[c].id => history'[id] = history[id]
           /\ lastId' = lastId
           /\ pending' = [pending EXCEPT ![c] = NoCall]
<1> DEFINE call == pending[c]
<1>1. call \in Call /\ call.id \in Ids /\ call.to \in Statuses
    BY BusyCall DEF TypeOK, UpdateCommit
<1>2. jobs[call.id] \in Row
    BY <1>1 DEF TypeOK
<1>3. /\ Updated(jobs[call.id], call) \in Row
      /\ Updated(jobs[call.id], call).status = call.to
    BY <1>1, <1>2, UpdatedRow
<1>4. jobs' = [jobs EXCEPT ![call.id] = Updated(jobs[call.id], call)]
    BY DEF UpdateCommit
<1>5. /\ jobs' \in [Ids -> Row]
      /\ jobs'[call.id] = Updated(jobs[call.id], call)
      /\ \A id \in Ids : id # call.id => jobs'[id] = jobs[id]
    BY <1>1, <1>3, <1>4 DEF TypeOK
<1>6. history' = [history EXCEPT ![call.id] =
                    Append(history[call.id],
                           [from |-> call.from, to |-> call.to])]
    BY DEF UpdateCommit, recordHistory
<1>7. /\ history'[call.id] = Append(history[call.id],
                                    [from |-> call.from, to |-> call.to])
      /\ \A id \in Ids : id # call.id => history'[id] = history[id]
    BY <1>1, <1>6 DEF TypeOK
<1>8. lastId' = lastId /\ pending' = [pending EXCEPT ![c] = NoCall]
    BY DEF UpdateCommit
<1> QED
    BY <1>1, <1>3, <1>5, <1>7, <1>8

\* A caller that goes idle keeps the type of `pending'.
LEMMA ReleaseTypeOK ==
    ASSUME TypeOK, NEW c \in Callers,
           pending' = [pending EXCEPT ![c] = NoCall], lastId' = lastId
    PROVE  /\ pending' \in [Callers -> Call]
           /\ \A d \in Callers :
                pending'[d].op # "none" => /\ pending'[d] = pending[d]
                                           /\ pending'[d].id \in 1..lastId'
                                           /\ pending'[d].from \in Statuses
                                           /\ pending'[d].to \in Statuses
<1>1. pending' \in [Callers -> Call]
    BY NullTypes DEF TypeOK
<1>2. ASSUME NEW d \in Callers, pending'[d].op # "none"
      PROVE  pending'[d] = pending[d]
    <2>1. CASE d = c
        <3>1. pending'[d] = NoCall
            BY <2>1 DEF TypeOK
        <3>2. NoCall.op = "none"
            BY DEF NoCall
        <3> QED
            BY <3>1, <3>2, <1>2
    <2>2. CASE d # c
        BY <2>2 DEF TypeOK
    <2> QED
        BY <2>1, <2>2
<1> QED
    BY <1>1, <1>2 DEF TypeOK

\* The transaction of UpdateStatus or UpdatePID keeps the tables well typed.
LEMMA UpdateCommitTypeOK ==
    ASSUME TypeOK, NEW c \in Callers, UpdateCommit(c)
    PROVE  TypeOK'
<1>1. /\ pending' \in [Callers -> Call]
      /\ \A d \in Callers :
            pending'[d].op # "none" => /\ pending'[d].id \in 1..lastId'
                                       /\ pending'[d].from \in Statuses
                                       /\ pending'[d].to \in Statuses
    BY CommitEffect, ReleaseTypeOK
<1>2. history' \in [Ids -> Seq(HistoryEntry)]
    <2>1. /\ pending[c].id \in Ids
          /\ pending[c].from \in Statuses
          /\ pending[c].to \in Statuses
        BY BusyCall DEF UpdateCommit
    <2> DEFINE entry == [from |-> pending[c].from, to |-> pending[c].to]
    <2>2. entry \in HistoryEntry
        BY <2>1 DEF HistoryEntry
    <2>3. Append(history[pending[c].id], entry) \in Seq(HistoryEntry)
        BY <2>1, <2>2 DEF TypeOK
    <2>4. history' = [history EXCEPT ![pending[c].id] =
                            Append(history[pending[c].id], entry)]
        BY DEF UpdateCommit, recordHistory
    <2> QED
        BY <2>1, <2>3, <2>4 DEF TypeOK
<1>3. \A id \in Ids : jobs'[id].status = ABSENT <=> id > lastId'
    <2> SUFFICES ASSUME NEW id \in Ids
                 PROVE  jobs'[id].status = ABSENT <=> id > lastId'
        OBVIOUS
    <2>1. CASE id = pending[c].id
        <3>1. jobs'[id].status \in Statuses
            BY <2>1, CommitEffect
        <3>2. jobs'[id].status # ABSENT
            BY <3>1 DEF Statuses
        <3>3. id \in 1..lastId'
            BY <2>1, CommitEffect DEF UpdateCommit, Idle, TypeOK
        <3>4. lastId' \in Nat
            BY MaxJobsAssumption DEF TypeOK, UpdateCommit
        <3>5. id \in Nat /\ ~(id > lastId')
            BY <3>3, <3>4
        <3> QED
            BY <3>2, <3>5
    <2>2. CASE id # pending[c].id
        BY <2>2, CommitEffect DEF TypeOK
    <2> QED
        BY <2>1, <2>2
<1> QED
    BY <1>1, <1>2, <1>3, CommitEffect DEF TypeOK

\* A rolled-back transaction changes no table.
LEMMA UpdateRollbackTypeOK ==
    ASSUME TypeOK, NEW c \in Callers, UpdateRollback(c)
    PROVE  TypeOK'
<1>1. UNCHANGED <<jobs, lastId, history>>
    BY DEF UpdateRollback
<1>2. pending' = [pending EXCEPT ![c] = NoCall]
    BY DEF UpdateRollback
<1>3. /\ pending' \in [Callers -> Call]
      /\ \A d \in Callers :
            pending'[d].op # "none" => /\ pending'[d].id \in 1..lastId'
                                       /\ pending'[d].from \in Statuses
                                       /\ pending'[d].to \in Statuses
    BY <1>1, <1>2, ReleaseTypeOK
<1> QED
    BY <1>1, <1>3 DEF TypeOK

\* Setting the directory leaves every status alone.
LEMMA DirEffect ==
    ASSUME TypeOK, NEW id \in Ids, NEW dir \in Dirs,
           UpdateCheckpointDir(id, dir)
    PROVE  /\ jobs' \in [Ids -> Row]
           /\ \A i \in Ids : jobs'[i].status = jobs[i].status
<1>1. [jobs[id] EXCEPT !.dir = dir] \in Row
    BY DEF TypeOK, Row
<1>2. jobs' = [jobs EXCEPT ![id] = [jobs[id] EXCEPT !.dir = dir]]
    BY DEF UpdateCheckpointDir
<1>3. jobs' \in [Ids -> Row]
    BY <1>1, <1>2 DEF TypeOK
<1>4. ASSUME NEW i \in Ids
      PROVE  jobs'[i].status = jobs[i].status
    <2>1. CASE i = id
        <3>1. jobs'[i] = [jobs[i] EXCEPT !.dir = dir]
            BY <1>2, <2>1 DEF TypeOK
        <3> QED
            BY <3>1 DEF TypeOK, Row
    <2>2. CASE i # id
        BY <1>2, <2>2 DEF TypeOK
    <2> QED
        BY <2>1, <2>2
<1> QED
    BY <1>3, <1>4

\* UpdateCheckpointDir, with any directory of the right type, keeps the tables
\* well typed.
LEMMA UpdateCheckpointDirTypeOK ==
    ASSUME TypeOK, NEW id \in Ids, NEW dir \in Dirs,
           UpdateCheckpointDir(id, dir)
    PROVE  TypeOK'
<1>1. UNCHANGED <<lastId, history, pending>>
    BY DEF UpdateCheckpointDir
<1> QED
    BY <1>1, DirEffect DEF TypeOK

\* A crash drops the calls in flight and keeps the tables.
LEMMA CrashTypeOK ==
    ASSUME TypeOK, Crash
    PROVE  TypeOK'
<1>1. pending' \in [Callers -> Call]
    BY NullTypes DEF Crash
<1>2. \A c \in Callers : pending'[c].op = "none"
    BY DEF Crash, NoCall
<1>3. UNCHANGED <<jobs, lastId, history>>
    BY DEF Crash
<1> QED
    BY <1>1, <1>2, <1>3 DEF TypeOK

\* Every step of the store keeps its tables well typed.
LEMMA NextTypeOK == TypeOK /\ [Next]_storeVars => TypeOK'
<1> SUFFICES ASSUME TypeOK, [Next]_storeVars PROVE TypeOK'
    OBVIOUS
<1>1. CASE InsertSome
    <2> PICK row \in InsertedRows : Insert(row)
        BY <1>1 DEF InsertSome
    <2>1. row \in Row /\ row.status \in Statuses
        BY DEF InsertedRows, Row, Reasons, InitialStatuses, Statuses
    <2> QED
        BY <2>1, InsertTypeOK
<1>2. CASE SetDir
    BY <1>2, UpdateCheckpointDirTypeOK DEF SetDir
<1>3. ASSUME NEW c \in Callers, CallUpdateStatus(c) PROVE TypeOK'
    <2> PICK id \in Ids, to \in Statuses :
                UpdateStatusRead(c, id, to, ReasonFor(to))
        BY <1>3 DEF CallUpdateStatus
    <2>1. ReasonFor(to) \in Reasons
        BY DEF ReasonFor, Reasons
    <2> QED
        BY <2>1, UpdateStatusReadTypeOK
<1>4. ASSUME NEW c \in Callers, CallUpdatePID(c) PROVE TypeOK'
    BY <1>4, UpdatePIDReadTypeOK DEF CallUpdatePID
<1>5. ASSUME NEW c \in Callers, UpdateCommit(c) PROVE TypeOK'
    BY <1>5, UpdateCommitTypeOK
<1>6. ASSUME NEW c \in Callers, UpdateRollback(c) PROVE TypeOK'
    BY <1>6, UpdateRollbackTypeOK
<1>7. CASE Crash
    BY <1>7, CrashTypeOK
<1>8. CASE UNCHANGED storeVars
    BY <1>8 DEF TypeOK, storeVars
<1> QED
    BY <1>1, <1>2, <1>3, <1>4, <1>5, <1>6, <1>7, <1>8 DEF Next

\* The tables of the store are well typed, ids are assigned without gaps and
\* every update in flight is of an existing job, whatever goroutines call the
\* store and wherever it crashes.
THEOREM StoreTypeOK == Spec => []TypeOK
<1>1. Init => TypeOK
    BY InitTypeOK
<1>2. TypeOK /\ [Next]_storeVars => TypeOK'
    BY NextTypeOK
<1> QED
    BY <1>1, <1>2, PTL DEF Spec

-----------------------------------------------------------------------------
(* History.  HistoryAgrees and HistoryEdges need to know in addition that a *)
(* call in flight carries an edge of the table.                             *)

PendingValid ==
    \A c \in Callers :
        ~Idle(c) => ValidTransition(pending[c].from, pending[c].to)

HistoryInv == TypeOK /\ HistoryAgrees /\ HistoryEdges /\ PendingValid

\* A job whose id is not assigned has no history.
LEMMA AbsentHasNoHistory ==
    ASSUME TypeOK, HistoryAgrees, NEW id \in Ids, jobs[id].status = ABSENT
    PROVE  history[id] = <<>>
<1> SUFFICES ASSUME history[id] # <<>> PROVE FALSE
    OBVIOUS
<1>1. history[id] \in Seq(HistoryEntry)
    BY DEF TypeOK
<1>2. LastEntry(id) \in HistoryEntry
    BY <1>1 DEF LastEntry
<1>3. LastEntry(id).to = ABSENT
    BY DEF HistoryAgrees
<1> QED
    BY <1>2, <1>3 DEF HistoryEntry, Statuses

\* A step that leaves the history and the statuses alone keeps the invariants
\* on history.
LEMMA HistoryUntouched ==
    ASSUME HistoryInv, history' = history,
           \A id \in Ids : jobs'[id].status = jobs[id].status
    PROVE  HistoryAgrees' /\ HistoryEdges'
BY DEF HistoryInv, HistoryAgrees, HistoryEdges, LastEntry

\* A new job starts with no history and in a status it was inserted with.
LEMMA InsertHistory ==
    ASSUME HistoryInv, NEW row \in Row, row.status \in InitialStatuses,
           Insert(row)
    PROVE  HistoryAgrees' /\ HistoryEdges' /\ PendingValid'
<1>1. lastId + 1 \in Ids
    BY MaxJobsAssumption DEF HistoryInv, TypeOK, Insert, Ids
<1>2. history' = history /\ pending' = pending
    BY DEF Insert
<1>3. HistoryEdges' /\ PendingValid'
    BY <1>2 DEF HistoryInv, HistoryEdges, PendingValid, Idle
<1>4. ASSUME NEW id \in Ids
      PROVE  IF history'[id] = <<>>
             THEN jobs'[id].status \in InitialStatuses \cup {ABSENT}
             ELSE jobs'[id].status = LastEntry(id)'.to
    <2>1. CASE id = lastId + 1
        <3>1. jobs[id].status = ABSENT
            BY <2>1, <1>1, MaxJobsAssumption DEF HistoryInv, TypeOK, Ids
        <3>2. history'[id] = <<>>
            BY <3>1, <1>2, AbsentHasNoHistory DEF HistoryInv
        <3>3. jobs'[id] = row
            BY <2>1, <1>1 DEF HistoryInv, TypeOK, Insert
        <3> QED
            BY <3>2, <3>3
    <2>2. CASE id # lastId + 1
        <3>1. jobs'[id] = jobs[id]
            BY <2>2, <1>1 DEF HistoryInv, TypeOK, Insert
        <3> QED
            BY <3>1, <1>2 DEF HistoryInv, HistoryAgrees, LastEntry
    <2> QED
        BY <2>1, <2>2
<1> QED
    BY <1>3, <1>4 DEF HistoryAgrees

\* A commit appends the edge it takes, and the job ends where it leads.
LEMMA CommitHistory ==
    ASSUME HistoryInv, NEW c \in Callers, UpdateCommit(c)
    PROVE  HistoryAgrees' /\ HistoryEdges'
<1> DEFINE call == pending[c]
           entry == [from |-> call.from, to |-> call.to]
<1>1. TypeOK /\ call.id \in Ids /\ ValidTransition(call.from, call.to)
    BY CommitEffect DEF HistoryInv, PendingValid, UpdateCommit
<1>2. history[call.id] \in Seq(HistoryEntry)
    BY <1>1 DEF TypeOK
<1>3. history'[call.id] = Append(history[call.id], entry)
    BY <1>1, CommitEffect
<1>4. entry \in HistoryEntry
    BY <1>1, TransitionTypes DEF HistoryEntry
<1>5. /\ Len(history'[call.id]) = Len(history[call.id]) + 1
      /\ Len(history[call.id]) \in Nat
      /\ history'[call.id][Len(history[call.id]) + 1] = entry
      /\ \A k \in 1..Len(history[call.id]) :
            history'[call.id][k] = history[call.id][k]
    <2> HIDE DEF call, entry
    <2> QED
        BY <1>2, <1>3, <1>4
<1>6. ASSUME NEW id \in Ids
      PROVE  IF history'[id] = <<>>
             THEN jobs'[id].status \in InitialStatuses \cup {ABSENT}
             ELSE jobs'[id].status = LastEntry(id)'.to
    <2>1. CASE id = call.id
        <3>1. jobs'[id].status = call.to
            BY <2>1, <1>1, CommitEffect
        <3>2. history'[id] # <<>>
            BY <2>1, <1>5
        <3>3. LastEntry(id)' = entry
            BY <2>1, <1>5 DEF LastEntry
        <3> QED
            BY <3>1, <3>2, <3>3
    <2>2. CASE id # call.id
        <3>1. jobs'[id] = jobs[id] /\ history'[id] = history[id]
            BY <2>2, <1>1, CommitEffect
        <3> QED
            BY <3>1 DEF HistoryInv, HistoryAgrees, LastEntry
    <2> QED
        BY <2>1, <2>2
<1>7. ASSUME NEW id \in Ids, NEW k \in 1..Len(history'[id])
      PROVE  ValidTransition(history'[id][k].from, history'[id][k].to)
    <2>1. CASE id = call.id /\ k = Len(history[call.id]) + 1
        <3>1. history'[id][k] = entry
            BY <2>1, <1>5
        <3> QED
            BY <3>1, <1>1
    <2>2. CASE id = call.id /\ k # Len(history[call.id]) + 1
        <3>1. k \in 1..Len(history[id]) /\ history'[id][k] = history[id][k]
            BY <2>2, <1>5
        <3> QED
            BY <3>1 DEF HistoryInv, HistoryEdges
    <2>3. CASE id # call.id
        <3>1. history'[id] = history[id]
            BY <2>3, <1>1, CommitEffect
        <3> QED
            BY <3>1 DEF HistoryInv, HistoryEdges
    <2> QED
        BY <2>1, <2>2, <2>3
<1> QED
    BY <1>6, <1>7 DEF HistoryAgrees, HistoryEdges

\* A first half that put a validated edge into `pending' keeps every call in
\* flight on an edge.
LEMMA ReadPendingValid ==
    ASSUME TypeOK, PendingValid, NEW c \in Callers, NEW call \in Call,
           ValidTransition(call.from, call.to),
           pending' = [pending EXCEPT ![c] = call]
    PROVE  PendingValid'
<1> SUFFICES ASSUME NEW d \in Callers, ~Idle(d)'
             PROVE  ValidTransition(pending'[d].from, pending'[d].to)
    BY DEF PendingValid
<1>1. CASE d = c
    <2>1. pending'[d] = call
        BY <1>1 DEF TypeOK
    <2> QED
        BY <2>1
<1>2. CASE d # c
    <2>1. pending'[d] = pending[d]
        BY <1>2 DEF TypeOK
    <2> QED
        BY <2>1 DEF PendingValid, Idle
<1> QED
    BY <1>1, <1>2

\* A caller that goes idle leaves the others as they were.
LEMMA ReleasePendingValid ==
    ASSUME TypeOK, PendingValid, NEW c \in Callers,
           pending' = [pending EXCEPT ![c] = NoCall], lastId' = lastId
    PROVE  PendingValid'
BY ReleaseTypeOK DEF PendingValid, Idle

\* Every step of the store keeps the history consistent.
LEMMA NextHistoryInv == HistoryInv /\ [Next]_storeVars => HistoryInv'
<1> SUFFICES ASSUME HistoryInv, [Next]_storeVars
             PROVE  HistoryAgrees' /\ HistoryEdges' /\ PendingValid'
    BY NextTypeOK DEF HistoryInv
<1>t. TypeOK /\ PendingValid
    BY DEF HistoryInv
<1>1. CASE InsertSome
    <2> PICK row \in InsertedRows : Insert(row)
        BY <1>1 DEF InsertSome
    <2>1. row \in Row /\ row.status \in InitialStatuses
        BY DEF InsertedRows, Row, Reasons, InitialStatuses, Statuses
    <2> QED
        BY <2>1, InsertHistory
<1>2. CASE SetDir
    <2> PICK id \in Ids, dir \in Dirs : UpdateCheckpointDir(id, dir)
        BY <1>2 DEF SetDir
    <2>1. \A i \in Ids : jobs'[i].status = jobs[i].status
        BY <1>t, DirEffect
    <2>2. history' = history /\ pending' = pending
        BY DEF UpdateCheckpointDir
    <2>3. PendingValid'
        BY <1>t, <2>2 DEF PendingValid, Idle
    <2> QED
        BY <2>1, <2>2, <2>3, HistoryUntouched
<1>3. ASSUME NEW c \in Callers, CallUpdateStatus(c)
      PROVE  HistoryAgrees' /\ HistoryEdges' /\ PendingValid'
    <2> PICK id \in Ids, to \in Statuses :
                UpdateStatusRead(c, id, to, ReasonFor(to))
        BY <1>3 DEF CallUpdateStatus
    <2> DEFINE call == [op |-> "UpdateStatus", id |-> id,
                        from |-> jobs[id].status, to |-> to,
                        reason |-> ReasonFor(to), pid |-> NoPid]
    <2>1. /\ ValidTransition(jobs[id].status, to)
          /\ pending' = [pending EXCEPT ![c] = call]
          /\ UNCHANGED <<jobs, lastId, history>>
        BY DEF UpdateStatusRead
    <2>2. call \in Call /\ ValidTransition(call.from, call.to)
        BY <2>1, TransitionTypes DEF Call, ReasonFor, Reasons
    <2> HIDE DEF call
    <2>3. PendingValid'
        BY <1>t, <2>1, <2>2, ReadPendingValid
    <2> QED
        BY <2>1, <2>3, HistoryUntouched
<1>4. ASSUME NEW c \in Callers, CallUpdatePID(c)
      PROVE  HistoryAgrees' /\ HistoryEdges' /\ PendingValid'
    <2> PICK id \in Ids, pid \in Pids : UpdatePIDRead(c, id, pid)
        BY <1>4 DEF CallUpdatePID
    <2> DEFINE call == [op |-> "UpdatePID", id |-> id,
                        from |-> jobs[id].status, to |-> RUNNING,
                        reason |-> "", pid |-> pid]
    <2>1. /\ ValidTransition(jobs[id].status, RUNNING)
          /\ pending' = [pending EXCEPT ![c] = call]
          /\ UNCHANGED <<jobs, lastId, history>>
        BY DEF UpdatePIDRead
    <2>2. call \in Call /\ ValidTransition(call.from, call.to)
        BY <2>1, TransitionTypes DEF Call, Reasons
    <2> HIDE DEF call
    <2>3. PendingValid'
        BY <1>t, <2>1, <2>2, ReadPendingValid
    <2> QED
        BY <2>1, <2>3, HistoryUntouched
<1>5. ASSUME NEW c \in Callers, UpdateCommit(c)
      PROVE  HistoryAgrees' /\ HistoryEdges' /\ PendingValid'
    <2>1. pending' = [pending EXCEPT ![c] = NoCall] /\ lastId' = lastId
        BY <1>5 DEF UpdateCommit
    <2>2. PendingValid'
        BY <1>t, <2>1, ReleasePendingValid
    <2> QED
        BY <1>5, <2>2, CommitHistory
<1>6. ASSUME NEW c \in Callers, UpdateRollback(c)
      PROVE  HistoryAgrees' /\ HistoryEdges' /\ PendingValid'
    <2>1. /\ pending' = [pending EXCEPT ![c] = NoCall]
          /\ UNCHANGED <<jobs, lastId, history>>
        BY <1>6 DEF UpdateRollback
    <2>2. PendingValid'
        BY <1>t, <2>1, ReleasePendingValid
    <2> QED
        BY <2>1, <2>2, HistoryUntouched
<1>7. CASE Crash
    <2>1. \A c \in Callers : pending'[c].op = "none"
        BY <1>7 DEF Crash, NoCall
    <2>2. PendingValid'
        BY <2>1 DEF PendingValid, Idle
    <2>3. UNCHANGED <<jobs, lastId, history>>
        BY <1>7 DEF Crash
    <2> QED
        BY <2>2, <2>3, HistoryUntouched
<1>8. CASE UNCHANGED storeVars
    <2>1. UNCHANGED <<jobs, lastId, history, pending>>
        BY <1>8 DEF storeVars
    <2>2. PendingValid'
        BY <1>t, <2>1 DEF PendingValid, Idle
    <2> QED
        BY <2>1, <2>2, HistoryUntouched
<1> QED
    BY <1>1, <1>2, <1>3, <1>4, <1>5, <1>6, <1>7, <1>8 DEF Next

\* The tables start empty.
LEMMA InitHistoryInv == Init => HistoryInv
<1> SUFFICES ASSUME Init PROVE HistoryInv
    OBVIOUS
<1>1. TypeOK
    BY InitTypeOK
<1>2. HistoryAgrees
    BY DEF Init, HistoryAgrees, NoRow
<1>3. HistoryEdges
    <2> SUFFICES ASSUME NEW id \in Ids PROVE 1..Len(history[id]) = {}
        BY DEF HistoryEdges
    <2>1. history[id] = <<>>
        BY DEF Init
    <2> QED
        BY <2>1
<1>4. PendingValid
    BY DEF Init, PendingValid, Idle, NoCall
<1> QED
    BY <1>1, <1>2, <1>3, <1>4 DEF HistoryInv

\* recordHistory's promise that "a status change and its history entry always
\* land together", for every set of goroutines, under their races, failed
\* transactions and crashes.
THEOREM StoreHistoryAgrees == Spec => []HistoryAgrees
<1>1. Init => HistoryInv
    BY InitHistoryInv
<1>2. HistoryInv /\ [Next]_storeVars => HistoryInv'
    BY NextHistoryInv
<1>3. HistoryInv => HistoryAgrees
    BY DEF HistoryInv
<1> QED
    BY <1>1, <1>2, <1>3, PTL DEF Spec

\* Every history row is an edge of the transition table, races included.
THEOREM StoreHistoryEdges == Spec => []HistoryEdges
<1>1. Init => HistoryInv
    BY InitHistoryInv
<1>2. HistoryInv /\ [Next]_storeVars => HistoryInv'
    BY NextHistoryInv
<1>3. HistoryInv => HistoryEdges
    BY DEF HistoryInv
<1> QED
    BY <1>1, <1>2, <1>3, PTL DEF Spec

-----------------------------------------------------------------------------
(* Status changes.  Only Insert and UpdateCommit change a status.           *)

\* How one step may change the status of one job: the commit of a caller that
\* holds an edge to the new status, or the insertion of the row.
StatusStep(id) ==
    \/ jobs'[id].status = jobs[id].status
    \/ jobs[id].status = ABSENT /\ jobs'[id].status \in InitialStatuses
    \/ \E c \in Callers :
        /\ UpdateCommit(c)
        /\ pending[c].id = id
        /\ ValidTransition(pending[c].from, jobs'[id].status)

\* Every step of the store is, for each job, one of StatusStep's three kinds:
\* only an insertion or a commit changes a status.
LEMMA StatusSteps ==
    ASSUME TypeOK, PendingValid, [Next]_storeVars, NEW id \in Ids
    PROVE  StatusStep(id)
<1>1. CASE InsertSome
    <2> PICK row \in InsertedRows : Insert(row)
        BY <1>1 DEF InsertSome
    <2>1. row.status \in InitialStatuses
        BY DEF InsertedRows
    <2>2. lastId + 1 \in Ids
        BY MaxJobsAssumption DEF TypeOK, Insert, Ids
    <2>3. CASE id = lastId + 1
        <3>1. jobs[id].status = ABSENT
            BY <2>2, <2>3, MaxJobsAssumption DEF TypeOK, Ids
        <3>2. jobs'[id] = row
            BY <2>2, <2>3 DEF TypeOK, Insert
        <3> QED
            BY <2>1, <3>1, <3>2 DEF StatusStep
    <2>4. CASE id # lastId + 1
        <3>1. jobs'[id] = jobs[id]
            BY <2>2, <2>4 DEF TypeOK, Insert
        <3> QED
            BY <3>1 DEF StatusStep
    <2> QED
        BY <2>3, <2>4
<1>2. CASE SetDir
    <2> PICK i \in Ids, dir \in Dirs : UpdateCheckpointDir(i, dir)
        BY <1>2 DEF SetDir
    <2>1. jobs'[id].status = jobs[id].status
        BY DirEffect
    <2> QED
        BY <2>1 DEF StatusStep
<1>3. ASSUME NEW c \in Callers, UpdateCommit(c) PROVE StatusStep(id)
    <2>1. CASE pending[c].id = id
        <3>1. jobs'[id].status = pending[c].to
            BY <1>3, <2>1, CommitEffect
        <3>2. ValidTransition(pending[c].from, pending[c].to)
            BY <1>3 DEF PendingValid, UpdateCommit
        <3> QED
            BY <1>3, <2>1, <3>1, <3>2 DEF StatusStep
    <2>2. CASE pending[c].id # id
        <3>1. jobs'[id] = jobs[id]
            BY <1>3, <2>2, CommitEffect
        <3> QED
            BY <3>1 DEF StatusStep
    <2> QED
        BY <2>1, <2>2
<1>4. ASSUME jobs' = jobs PROVE StatusStep(id)
    BY <1>4 DEF StatusStep
<1>5. CASE \/ \E c \in Callers : \/ CallUpdateStatus(c)
                                 \/ CallUpdatePID(c)
                                 \/ UpdateRollback(c)
           \/ Crash
           \/ UNCHANGED storeVars
    <2>1. jobs' = jobs
        BY <1>5 DEF CallUpdateStatus, UpdateStatusRead, CallUpdatePID,
                    UpdatePIDRead, UpdateRollback, Crash, storeVars
    <2> QED
        BY <2>1, <1>4
<1> QED
    BY <1>1, <1>2, <1>3, <1>5 DEF Next

\* Races are the only source of status changes outside the table: a store
\* whose UPDATE also compared the status it validated would have none.
THEOREM StoreOffTableWritesAreStale == Spec => OffTableWritesAreStale
<1> DEFINE Step == \A id \in Ids :
        \/ jobs'[id].status = jobs[id].status
        \/ jobs[id].status = ABSENT
        \/ ValidTransition(jobs[id].status, jobs'[id].status)
        \/ \E c \in Callers : /\ ~Idle(c)
                              /\ pending[c].id = id
                              /\ pending[c].from # jobs[id].status
<1>1. Init => HistoryInv
    BY InitHistoryInv
<1>2. HistoryInv /\ [Next]_storeVars => HistoryInv'
    BY NextHistoryInv
<1>3. HistoryInv /\ [Next]_storeVars => [Step]_storeVars
    <2> SUFFICES ASSUME HistoryInv, [Next]_storeVars PROVE Step
        OBVIOUS
    <2>1. \A id \in Ids : StatusStep(id)
        BY StatusSteps DEF HistoryInv
    <2> QED
        BY <2>1 DEF StatusStep, UpdateCommit
<1> HIDE DEF Step
<1>4. Spec => [][Step]_storeVars
    BY <1>1, <1>2, <1>3, PTL DEF Spec
<1> QED
    BY <1>4 DEF OffTableWritesAreStale, Step

-----------------------------------------------------------------------------
(* Callers that do not overlap on a job: the status a caller validated is   *)
(* fresh, so the two halves of an update act as one step of JobLifecycle.   *)

SerialInv == HistoryInv /\ NoOverlap /\ SnapshotFresh

\* The status validated by a caller in flight stays the job's status.
LEMMA NextSnapshotFresh ==
    ASSUME SerialInv, [SerialNext]_storeVars
    PROVE  SnapshotFresh'
<1>t. TypeOK /\ PendingValid /\ HistoryInv
    BY DEF SerialInv, HistoryInv
<1>n. [Next]_storeVars
    BY DEF SerialNext
<1> SUFFICES ASSUME NEW d \in Callers, ~Idle(d)'
             PROVE  pending'[d].from = jobs'[pending'[d].id].status
    BY DEF SnapshotFresh
<1>x. NoCall.op = "none"
    BY DEF NoCall
<1>0. ASSUME pending'[d] = pending[d],
             jobs'[pending[d].id].status = jobs[pending[d].id].status
      PROVE  pending'[d].from = jobs'[pending'[d].id].status
    BY <1>0 DEF SerialInv, SnapshotFresh, Idle
<1>1. CASE InsertSome
    <2> PICK row \in InsertedRows : Insert(row)
        BY <1>1 DEF InsertSome
    <2>1. pending'[d] = pending[d] /\ ~Idle(d)
        BY DEF Insert, Idle
    <2>2. pending[d].id \in Ids /\ pending[d].id # lastId + 1
        BY <1>t, <2>1, MaxJobsAssumption DEF TypeOK, Idle, Ids
    <2>3. jobs'[pending[d].id] = jobs[pending[d].id]
        BY <1>t, <2>2 DEF TypeOK, Insert
    <2> QED
        BY <2>1, <2>3, <1>0
<1>2. CASE SetDir
    <2> PICK i \in Ids, dir \in Dirs : UpdateCheckpointDir(i, dir)
        BY <1>2 DEF SetDir
    <2>1. pending'[d] = pending[d] /\ ~Idle(d)
        BY DEF UpdateCheckpointDir, Idle
    <2>2. pending[d].id \in Ids
        BY <1>t, <2>1, BusyCall
    <2>3. jobs'[pending[d].id].status = jobs[pending[d].id].status
        BY <1>t, <2>2, DirEffect
    <2> QED
        BY <2>1, <2>3, <1>0
<1>3. ASSUME NEW c \in Callers, NEW id \in Ids, NEW call \in Call,
             call.id = id, call.from = jobs[id].status,
             pending' = [pending EXCEPT ![c] = call], jobs' = jobs
      PROVE  pending'[d].from = jobs'[pending'[d].id].status
    <2>1. CASE d = c
        <3>1. pending'[d] = call
            BY <1>t, <1>3, <2>1 DEF TypeOK
        <3> QED
            BY <3>1, <1>3
    <2>2. CASE d # c
        <3>1. pending'[d] = pending[d]
            BY <1>t, <1>3, <2>2 DEF TypeOK
        <3> QED
            BY <3>1, <1>3, <1>0
    <2> QED
        BY <2>1, <2>2
<1>4. ASSUME NEW c \in Callers, CallUpdateStatus(c)
      PROVE  pending'[d].from = jobs'[pending'[d].id].status
    <2> PICK id \in Ids, to \in Statuses :
                UpdateStatusRead(c, id, to, ReasonFor(to))
        BY <1>4 DEF CallUpdateStatus
    <2> DEFINE call == [op |-> "UpdateStatus", id |-> id,
                        from |-> jobs[id].status, to |-> to,
                        reason |-> ReasonFor(to), pid |-> NoPid]
    <2>1. /\ ValidTransition(jobs[id].status, to)
          /\ pending' = [pending EXCEPT ![c] = call]
          /\ jobs' = jobs
        BY DEF UpdateStatusRead
    <2>2. call \in Call /\ call.id = id /\ call.from = jobs[id].status
        BY <2>1, TransitionTypes DEF Call, ReasonFor, Reasons
    <2> HIDE DEF call
    <2> QED
        BY <2>1, <2>2, <1>3
<1>5. ASSUME NEW c \in Callers, CallUpdatePID(c)
      PROVE  pending'[d].from = jobs'[pending'[d].id].status
    <2> PICK id \in Ids, pid \in Pids : UpdatePIDRead(c, id, pid)
        BY <1>5 DEF CallUpdatePID
    <2> DEFINE call == [op |-> "UpdatePID", id |-> id,
                        from |-> jobs[id].status, to |-> RUNNING,
                        reason |-> "", pid |-> pid]
    <2>1. /\ ValidTransition(jobs[id].status, RUNNING)
          /\ pending' = [pending EXCEPT ![c] = call]
          /\ jobs' = jobs
        BY DEF UpdatePIDRead
    <2>2. call \in Call /\ call.id = id /\ call.from = jobs[id].status
        BY <2>1, TransitionTypes DEF Call, Reasons
    <2> HIDE DEF call
    <2> QED
        BY <2>1, <2>2, <1>3
<1>6. ASSUME NEW c \in Callers, UpdateCommit(c)
      PROVE  pending'[d].from = jobs'[pending'[d].id].status
    <2>1. pending'[d] = pending[d] /\ ~Idle(d)
        BY <1>t, <1>6, ReleaseTypeOK DEF Idle, UpdateCommit
    <2>2. d # c
        <3> SUFFICES ASSUME d = c PROVE FALSE
            OBVIOUS
        <3>1. pending'[d] = NoCall
            BY <1>t, <1>6 DEF UpdateCommit, TypeOK
        <3> QED
            BY <1>x, <3>1 DEF Idle
    <2>3. pending[d].id # pending[c].id
        BY <1>6, <2>1, <2>2 DEF SerialInv, NoOverlap, UpdateCommit
    <2>4. pending[d].id \in Ids
        BY <1>t, <2>1, BusyCall
    <2>5. jobs'[pending[d].id] = jobs[pending[d].id]
        BY <1>t, <1>6, <2>3, <2>4, CommitEffect
    <2> QED
        BY <2>1, <2>5, <1>0
<1>7. ASSUME NEW c \in Callers, UpdateRollback(c)
      PROVE  pending'[d].from = jobs'[pending'[d].id].status
    <2>1. jobs' = jobs
        BY <1>7 DEF UpdateRollback
    <2>2. pending'[d] = pending[d]
        BY <1>t, <1>7, ReleaseTypeOK DEF Idle, UpdateRollback
    <2> QED
        BY <2>1, <2>2, <1>0
<1>8. ~Crash
    <2> SUFFICES ASSUME Crash PROVE FALSE
        OBVIOUS
    <2>1. pending'[d] = NoCall
        BY DEF Crash
    <2> QED
        BY <1>x, <2>1 DEF Idle
<1>9. CASE UNCHANGED storeVars
    BY <1>9, <1>0 DEF storeVars
<1> QED
    BY <1>n, <1>1, <1>2, <1>4, <1>5, <1>6, <1>7, <1>8, <1>9 DEF Next

\* SerialInv is inductive for callers that do not overlap on a job.
LEMMA NextSerialInv == SerialInv /\ [SerialNext]_storeVars => SerialInv'
<1> SUFFICES ASSUME SerialInv, [SerialNext]_storeVars PROVE SerialInv'
    OBVIOUS
<1>1. HistoryInv'
    BY NextHistoryInv DEF SerialInv, SerialNext
<1>2. NoOverlap'
    <2>1. CASE SerialNext
        BY <2>1 DEF SerialNext
    <2>2. CASE UNCHANGED storeVars
        BY <2>2 DEF SerialInv, NoOverlap, Idle, storeVars
    <2> QED
        BY <2>1, <2>2
<1> QED
    BY <1>1, <1>2, NextSnapshotFresh DEF SerialInv

\* An empty database has no call in progress, so the serial invariant holds.
LEMMA InitSerialInv == Init => SerialInv
<1> SUFFICES ASSUME Init PROVE SerialInv
    OBVIOUS
<1>1. \A c \in Callers : Idle(c)
    BY DEF Init, Idle, NoCall
<1> QED
    BY <1>1, InitHistoryInv DEF SerialInv, NoOverlap, SnapshotFresh

\* The names of the lifecycle instance mean what they mean here.
LEMMA LifecycleVocabulary ==
    /\ Lifecycle!ABSENT = ABSENT
    /\ Lifecycle!InitialStatuses = InitialStatuses
    /\ Lifecycle!Statuses = Statuses
    /\ \A from, to :
        Lifecycle!ValidTransition(from, to) <=> ValidTransition(from, to)
BY DEF Lifecycle!ABSENT, Lifecycle!InitialStatuses, Lifecycle!Statuses,
       Lifecycle!ValidTransition, Lifecycle!validTransitions,
       InitialStatuses, Statuses, ValidTransition, validTransitions,
       Lifecycle!RUNNING, Lifecycle!CHECKPOINT_IN_PROGRESS,
       Lifecycle!CHECKPOINT_CREATED, Lifecycle!CHECKPOINT_CREATION_FAILED,
       Lifecycle!RESTORE_PENDING, Lifecycle!RESTORE_FAILED,
       Lifecycle!FAILED, Lifecycle!CANCELED, Lifecycle!COMPLETED

\* One step of the serial store is one step of the lifecycle, or leaves every
\* status alone.
LEMMA SerialStepRefines ==
    ASSUME SerialInv, [SerialNext]_storeVars
    PROVE  [Lifecycle!Next]_([id \in Ids |-> jobs[id].status])
<1> DEFINE status == [id \in Ids |-> jobs[id].status]
<1>t. TypeOK /\ PendingValid
    BY DEF SerialInv, HistoryInv
<1>n. [Next]_storeVars
    BY DEF SerialNext
<1>0. ASSUME \A id \in Ids : jobs'[id].status = jobs[id].status
      PROVE  status' = status
    BY <1>0
<1>1. ASSUME InsertSome PROVE Lifecycle!Next
    <2> PICK row \in InsertedRows : Insert(row)
        BY <1>1 DEF InsertSome
    <2>1. row.status \in InitialStatuses
        BY DEF InsertedRows
    <2>2. lastId + 1 \in Ids
        BY <1>t, MaxJobsAssumption DEF TypeOK, Insert, Ids
    <2>3. jobs[lastId + 1].status = ABSENT
        BY <1>t, <2>2, MaxJobsAssumption DEF TypeOK, Ids
    <2>4. /\ jobs'[lastId + 1] = row
          /\ \A id \in Ids : id # lastId + 1 => jobs'[id] = jobs[id]
        BY <1>t, <2>2 DEF TypeOK, Insert
    <2>5. status' = [status EXCEPT ![lastId + 1] = row.status]
        BY <2>2, <2>4
    <2>6. status[lastId + 1] = ABSENT
        BY <2>2, <2>3
    <2>7. Lifecycle!Create(lastId + 1)
        BY <2>1, <2>5, <2>6, LifecycleVocabulary DEF Lifecycle!Create
    <2> QED
        BY <2>2, <2>7 DEF Lifecycle!Next, Lifecycle!Create
<1>2. ASSUME NEW c \in Callers, UpdateCommit(c) PROVE Lifecycle!Next
    <2> DEFINE i == pending[c].id
    <2>1. /\ i \in Ids
          /\ jobs'[i].status = pending[c].to
          /\ \A id \in Ids : id # i => jobs'[id] = jobs[id]
        BY <1>t, <1>2, CommitEffect
    <2>2. /\ pending[c].from = jobs[i].status
          /\ ValidTransition(pending[c].from, pending[c].to)
        BY <1>t, <1>2 DEF SerialInv, SnapshotFresh, PendingValid, UpdateCommit
    <2>3. pending[c].to \in Statuses
        BY <2>2, TransitionTypes
    <2>4. status' = [status EXCEPT ![i] = pending[c].to]
        BY <2>1
    <2>5. status[i] = pending[c].from
        BY <2>1, <2>2
    <2>6. Lifecycle!Move(i)
        BY <2>2, <2>3, <2>4, <2>5, LifecycleVocabulary DEF Lifecycle!Move
    <2> QED
        BY <2>1, <2>6 DEF Lifecycle!Next, Lifecycle!Move
<1>3. ASSUME SetDir PROVE status' = status
    <2> PICK i \in Ids, dir \in Dirs : UpdateCheckpointDir(i, dir)
        BY <1>3 DEF SetDir
    <2> QED
        BY <1>t, <1>0, DirEffect
<1>4. ASSUME \/ \E c \in Callers : \/ CallUpdateStatus(c)
                                   \/ CallUpdatePID(c)
                                   \/ UpdateRollback(c)
             \/ Crash
             \/ UNCHANGED storeVars
      PROVE  status' = status
    <2>1. jobs' = jobs
        BY <1>4 DEF CallUpdateStatus, UpdateStatusRead, CallUpdatePID,
                    UpdatePIDRead, UpdateRollback, Crash, storeVars
    <2> QED
        BY <2>1
<1> QED
    BY <1>n, <1>1, <1>2, <1>3, <1>4 DEF Next

\* The empty table is the initial state of the lifecycle.
LEMMA SerialInitRefines == Init => Lifecycle!Init
<1> SUFFICES ASSUME Init PROVE Lifecycle!Init
    OBVIOUS
<1>1. \A id \in Ids : jobs[id].status = ABSENT
    BY DEF Init, NoRow
<1> QED
    BY <1>1, LifecycleVocabulary DEF Lifecycle!Init

\* The store implements the abstract lifecycle for callers that do not overlap
\* on a job: terminal statuses are final and every change is in the table,
\* however many jobs are updated at the same time.
THEOREM SerialStoreRefines == SerialSpec => LifecycleSpec
<1>1. Init => SerialInv /\ Lifecycle!Init
    BY InitSerialInv, SerialInitRefines
<1>2. SerialInv /\ [SerialNext]_storeVars => SerialInv'
    BY NextSerialInv
<1>3. SerialInv /\ [SerialNext]_storeVars
        => [Lifecycle!Next]_([id \in Ids |-> jobs[id].status])
    BY SerialStepRefines
<1> QED
    BY <1>1, <1>2, <1>3, PTL DEF SerialSpec, LifecycleSpec, Lifecycle!Spec

\* Under the same condition the validated status is never stale.
THEOREM SerialStoreFresh == SerialSpec => []SnapshotFresh
<1>1. Init => SerialInv
    BY InitSerialInv
<1>2. SerialInv /\ [SerialNext]_storeVars => SerialInv'
    BY NextSerialInv
<1>3. SerialInv => SnapshotFresh
    BY DEF SerialInv
<1> QED
    BY <1>1, <1>2, <1>3, PTL DEF SerialSpec

-----------------------------------------------------------------------------
(* What callers that do not overlap leave in the tables: a history that is  *)
(* a path, and a failure reason for the failures only.                      *)

\* Every history row leaves the status that the row before it entered: the
\* status that a commit claims to leave is fresh, and HistoryAgrees says where
\* the last row ended.
LEMMA NextHistoryChains ==
    ASSUME SerialInv, HistoryChains, [SerialNext]_storeVars
    PROVE  HistoryChains'
<1>t. TypeOK /\ PendingValid /\ HistoryAgrees
    BY DEF SerialInv, HistoryInv
<1>n. [Next]_storeVars
    BY DEF SerialNext
<1>1. ASSUME NEW c \in Callers, UpdateCommit(c)
      PROVE  HistoryChains'
    <2> DEFINE i == pending[c].id
               n == Len(history[i])
               entry == [from |-> pending[c].from, to |-> pending[c].to]
    <2>1. /\ i \in Ids
          /\ history'[i] = Append(history[i], entry)
          /\ \A id \in Ids : id # i => history'[id] = history[id]
        BY <1>t, <1>1, CommitEffect
    <2>2. history[i] \in Seq(HistoryEntry) /\ n \in Nat
        BY <1>t, <2>1 DEF TypeOK
    <2>3. /\ pending[c].from = jobs[i].status
          /\ pending[c].from \in Statuses
        BY <1>t, <1>1, BusyCall DEF SerialInv, SnapshotFresh, UpdateCommit
    <2>4. entry \in HistoryEntry
        BY <1>t, <1>1, <2>3, BusyCall DEF HistoryEntry, UpdateCommit
    <2>5. /\ Len(history'[i]) = n + 1
          /\ history'[i][n + 1] = entry
          /\ \A k \in 1..n : history'[i][k] = history[i][k]
        <3> HIDE DEF i, entry
        <3> QED
            BY <2>1, <2>2, <2>4
    <2>6. IF n = 0 THEN entry.from \in InitialStatuses
          ELSE entry.from = history[i][n].to
        <3>1. CASE n = 0
            <4>1. history[i] = <<>>
                BY <2>2, <3>1
            <4>2. jobs[i].status \in InitialStatuses \cup {ABSENT}
                BY <1>t, <2>1, <4>1 DEF HistoryAgrees
            <4> QED
                BY <2>3, <3>1, <4>2 DEF Statuses
        <3>2. CASE n # 0
            <4>1. history[i] # <<>>
                BY <3>2
            <4> QED
                BY <1>t, <2>1, <2>3, <3>2, <4>1 DEF HistoryAgrees, LastEntry
        <3> QED
            BY <3>1, <3>2
    <2> HIDE DEF entry
    <2>7. ASSUME NEW id \in Ids, NEW k \in 1..Len(history'[id])
          PROVE  IF k = 1 THEN history'[id][k].from \in InitialStatuses
                 ELSE history'[id][k].from = history'[id][k-1].to
        <3>1. CASE id # i
            <4> HIDE DEF i, n
            <4>1. history'[id] = history[id]
                BY <2>1, <3>1
            <4>2. k \in 1..Len(history[id])
                BY <4>1
            <4>3. IF k = 1 THEN history[id][k].from \in InitialStatuses
                  ELSE history[id][k].from = history[id][k-1].to
                BY <4>2 DEF HistoryChains
            <4> QED
                BY <4>1, <4>3
        <3>2. CASE id = i /\ k = n + 1
            <4>1. history'[id][k] = entry
                BY <2>5, <3>2
            <4>2. CASE n = 0
                BY <2>6, <3>2, <4>1, <4>2
            <4>3. CASE n # 0
                <5>1. k # 1 /\ k - 1 = n /\ history'[id][k-1] = history[i][n]
                    BY <2>2, <2>5, <3>2, <4>3
                <5> QED
                    BY <2>6, <4>1, <4>3, <5>1
            <4> QED
                BY <4>2, <4>3
        <3>3. CASE id = i /\ k # n + 1
            <4>1. k \in 1..n /\ history'[id][k] = history[id][k]
                BY <2>2, <2>5, <3>3
            <4>2. k # 1 => history'[id][k-1] = history[id][k-1]
                BY <2>2, <2>5, <3>3, <4>1
            <4> QED
                BY <3>3, <4>1, <4>2 DEF HistoryChains
        <3> QED
            BY <3>1, <3>2, <3>3
    <2> QED
        BY <2>7 DEF HistoryChains
<1>2. ASSUME history' = history PROVE HistoryChains'
    BY <1>2 DEF HistoryChains
<1>3. CASE \/ InsertSome \/ SetDir \/ Crash \/ UNCHANGED storeVars
           \/ \E c \in Callers : \/ CallUpdateStatus(c)
                                 \/ CallUpdatePID(c)
                                 \/ UpdateRollback(c)
    <2>1. history' = history
        BY <1>3 DEF InsertSome, Insert, SetDir, UpdateCheckpointDir, Crash,
                    CallUpdateStatus, UpdateStatusRead, CallUpdatePID,
                    UpdatePIDRead, UpdateRollback, storeVars
    <2> QED
        BY <2>1, <1>2
<1> QED
    BY <1>n, <1>1, <1>3 DEF Next

\* With callers that do not overlap on a job, the history of a job is a path
\* through the transition table from the status of its insertion.
THEOREM SerialStoreHistoryChains == SerialSpec => []HistoryChains
<1>1. Init => SerialInv /\ HistoryChains
    <2>1. ASSUME Init, NEW id \in Ids PROVE 1..Len(history[id]) = {}
        <3>1. history[id] = <<>>
            BY <2>1 DEF Init
        <3> QED
            BY <3>1
    <2> QED
        BY <2>1, InitSerialInv DEF HistoryChains
<1>2. SerialInv /\ HistoryChains /\ [SerialNext]_storeVars
        => SerialInv' /\ HistoryChains'
    BY NextSerialInv, NextHistoryChains
<1> QED
    BY <1>1, <1>2, PTL DEF SerialSpec

\* What a caller in flight will write to failure_reason.
PendingReason ==
    \A c \in Callers : ~Idle(c) =>
        \/ pending[c].op = "UpdateStatus" /\ pending[c].reason = ReasonFor(pending[c].to)
        \/ pending[c].op = "UpdatePID" /\ pending[c].to = RUNNING

\* The row that a fresh call writes has a reason exactly if it is a failure.
\* UpdatePID keeps the reason of the row, but it starts from RESTORE_PENDING,
\* which has none.
LEMMA UpdatedReason ==
    ASSUME NEW row \in Row, NEW call \in Call,
           row.reason # "" <=> row.status \in FailureStatuses,
           call.from = row.status,
           ValidTransition(call.from, call.to),
           \/ call.op = "UpdateStatus" /\ call.reason = ReasonFor(call.to)
           \/ call.op = "UpdatePID" /\ call.to = RUNNING
    PROVE  Updated(row, call).reason # ""
                <=> Updated(row, call).status \in FailureStatuses
<1>1. CASE call.op = "UpdateStatus" /\ call.reason = ReasonFor(call.to)
    <2>1. /\ Updated(row, call).reason = ReasonFor(call.to)
          /\ Updated(row, call).status = call.to
        BY <1>1 DEF Updated, Row
    <2> QED
        BY <2>1 DEF ReasonFor
<1>2. CASE call.op = "UpdatePID" /\ call.to = RUNNING
    <2>1. row.status = RESTORE_PENDING
        BY <1>2 DEF ValidTransition, validTransitions
    <2>2. row.reason = ""
        BY <2>1 DEF FailureStatuses
    <2>3. /\ Updated(row, call).reason = row.reason
          /\ Updated(row, call).status = RUNNING
        BY <1>2 DEF Updated, Row
    <2> QED
        BY <2>2, <2>3 DEF FailureStatuses
<1> QED
    BY <1>1, <1>2

\* A first half puts its reason into `pending'.
LEMMA ReadPendingReason ==
    ASSUME TypeOK, PendingReason, NEW c \in Callers, NEW call \in Call,
           \/ call.op = "UpdateStatus" /\ call.reason = ReasonFor(call.to)
           \/ call.op = "UpdatePID" /\ call.to = RUNNING,
           pending' = [pending EXCEPT ![c] = call]
    PROVE  PendingReason'
<1> SUFFICES ASSUME NEW d \in Callers, ~Idle(d)'
             PROVE  \/ /\ pending'[d].op = "UpdateStatus"
                       /\ pending'[d].reason = ReasonFor(pending'[d].to)
                    \/ pending'[d].op = "UpdatePID" /\ pending'[d].to = RUNNING
    BY DEF PendingReason, ReasonFor
<1>1. CASE d = c
    <2>1. pending'[d] = call
        BY <1>1 DEF TypeOK
    <2> QED
        BY <2>1
<1>2. CASE d # c
    <2>1. pending'[d] = pending[d]
        BY <1>2 DEF TypeOK
    <2> QED
        BY <2>1 DEF PendingReason, Idle
<1> QED
    BY <1>1, <1>2

\* Every step keeps the reasons of the rows and of the calls in flight.
LEMMA NextReason ==
    ASSUME SerialInv, ReasonAgrees, PendingReason, [SerialNext]_storeVars
    PROVE  ReasonAgrees' /\ PendingReason'
<1>t. TypeOK /\ PendingValid
    BY DEF SerialInv, HistoryInv
<1>n. [Next]_storeVars
    BY DEF SerialNext
<1>1. CASE InsertSome
    <2> PICK row \in InsertedRows : Insert(row)
        BY <1>1 DEF InsertSome
    <2>1. /\ row.reason = "" /\ row.status \notin FailureStatuses
          /\ pending' = pending
          /\ jobs' = [jobs EXCEPT ![lastId + 1] = row]
        BY DEF InsertedRows, InitialStatuses, FailureStatuses, Insert
    <2>2. ReasonAgrees'
        BY <1>t, <2>1 DEF ReasonAgrees, TypeOK
    <2>3. PendingReason'
        BY <2>1 DEF PendingReason, Idle, ReasonFor
    <2> QED
        BY <2>2, <2>3
<1>2. CASE SetDir
    <2> PICK i \in Ids, dir \in Dirs : UpdateCheckpointDir(i, dir)
        BY <1>2 DEF SetDir
    <2>1. jobs' = [jobs EXCEPT ![i] = [jobs[i] EXCEPT !.dir = dir]]
        BY DEF UpdateCheckpointDir
    <2>2. \A id \in Ids : /\ jobs'[id].status = jobs[id].status
                          /\ jobs'[id].reason = jobs[id].reason
        BY <1>t, <2>1 DEF TypeOK, Row
    <2>3. pending' = pending
        BY DEF UpdateCheckpointDir
    <2> QED
        BY <2>2, <2>3 DEF ReasonAgrees, PendingReason, Idle, ReasonFor
<1>3. ASSUME NEW c \in Callers, CallUpdateStatus(c)
      PROVE  ReasonAgrees' /\ PendingReason'
    <2> PICK id \in Ids, to \in Statuses :
                UpdateStatusRead(c, id, to, ReasonFor(to))
        BY <1>3 DEF CallUpdateStatus
    <2> DEFINE call == [op |-> "UpdateStatus", id |-> id,
                        from |-> jobs[id].status, to |-> to,
                        reason |-> ReasonFor(to), pid |-> NoPid]
    <2>1. /\ ValidTransition(jobs[id].status, to)
          /\ pending' = [pending EXCEPT ![c] = call]
          /\ jobs' = jobs
        BY DEF UpdateStatusRead
    <2>2. /\ call \in Call /\ call.op = "UpdateStatus"
          /\ call.reason = ReasonFor(call.to)
        BY <2>1, TransitionTypes DEF Call, ReasonFor, Reasons
    <2> HIDE DEF call
    <2>3. PendingReason'
        BY <1>t, <2>1, <2>2, ReadPendingReason
    <2> QED
        BY <2>1, <2>3 DEF ReasonAgrees
<1>4. ASSUME NEW c \in Callers, CallUpdatePID(c)
      PROVE  ReasonAgrees' /\ PendingReason'
    <2> PICK id \in Ids, pid \in Pids : UpdatePIDRead(c, id, pid)
        BY <1>4 DEF CallUpdatePID
    <2> DEFINE call == [op |-> "UpdatePID", id |-> id,
                        from |-> jobs[id].status, to |-> RUNNING,
                        reason |-> "", pid |-> pid]
    <2>1. /\ ValidTransition(jobs[id].status, RUNNING)
          /\ pending' = [pending EXCEPT ![c] = call]
          /\ jobs' = jobs
        BY DEF UpdatePIDRead
    <2>2. call \in Call /\ call.op = "UpdatePID" /\ call.to = RUNNING
        BY <2>1, TransitionTypes DEF Call, Reasons
    <2> HIDE DEF call
    <2>3. PendingReason'
        BY <1>t, <2>1, <2>2, ReadPendingReason
    <2> QED
        BY <2>1, <2>3 DEF ReasonAgrees
<1>5. ASSUME NEW c \in Callers,
             pending' = [pending EXCEPT ![c] = NoCall], lastId' = lastId
      PROVE  PendingReason'
    BY <1>t, <1>5, ReleaseTypeOK DEF PendingReason, Idle, ReasonFor
<1>6. ASSUME NEW c \in Callers, UpdateCommit(c)
      PROVE  ReasonAgrees' /\ PendingReason'
    <2> DEFINE call == pending[c]
               i == call.id
    <2>1. /\ i \in Ids /\ jobs[i] \in Row /\ call \in Call
          /\ call.from = jobs[i].status
          /\ ValidTransition(call.from, call.to)
          /\ \/ call.op = "UpdateStatus" /\ call.reason = ReasonFor(call.to)
             \/ call.op = "UpdatePID" /\ call.to = RUNNING
        BY <1>t, <1>6, BusyCall
           DEF TypeOK, SerialInv, SnapshotFresh, PendingValid, PendingReason,
               UpdateCommit
    <2>2. jobs[i].reason # "" <=> jobs[i].status \in FailureStatuses
        BY <2>1 DEF ReasonAgrees
    <2>3. /\ jobs' = [jobs EXCEPT ![i] = Updated(jobs[i], call)]
          /\ pending' = [pending EXCEPT ![c] = NoCall] /\ lastId' = lastId
        BY <1>6 DEF UpdateCommit
    <2>4. jobs'[i].reason # "" <=> jobs'[i].status \in FailureStatuses
        <3>1. jobs'[i] = Updated(jobs[i], call)
            BY <1>t, <2>1, <2>3 DEF TypeOK
        <3> QED
            BY <2>1, <2>2, <3>1, UpdatedReason
    <2>5. \A id \in Ids : id # i => jobs'[id] = jobs[id]
        BY <1>t, <2>3 DEF TypeOK
    <2> QED
        BY <1>5, <2>3, <2>4, <2>5 DEF ReasonAgrees
<1>7. ASSUME NEW c \in Callers, UpdateRollback(c)
      PROVE  ReasonAgrees' /\ PendingReason'
    BY <1>5, <1>7 DEF UpdateRollback, ReasonAgrees
<1>8. CASE Crash
    BY <1>8 DEF Crash, NoCall, ReasonAgrees, PendingReason, Idle
<1>9. CASE UNCHANGED storeVars
    BY <1>9 DEF storeVars, ReasonAgrees, PendingReason, Idle, ReasonFor
<1> QED
    BY <1>n, <1>1, <1>2, <1>3, <1>4, <1>6, <1>7, <1>8, <1>9 DEF Next

\* failure_reason is set in the failure statuses and empty in the others,
\* although UpdatePID does not write the column, when callers pass a reason
\* exactly for a failure and do not overlap on a job.
THEOREM SerialStoreReasonAgrees == SerialSpec => []ReasonAgrees
<1>1. Init => SerialInv /\ ReasonAgrees /\ PendingReason
    <2> SUFFICES ASSUME Init PROVE SerialInv /\ ReasonAgrees /\ PendingReason
        OBVIOUS
    <2>1. \A id \in Ids : jobs[id].reason = "" /\ jobs[id].status = ABSENT
        BY DEF Init, NoRow
    <2>2. \A c \in Callers : Idle(c)
        BY DEF Init, Idle, NoCall
    <2>3. ReasonAgrees
        BY <2>1 DEF ReasonAgrees, FailureStatuses
    <2> QED
        BY <2>2, <2>3, InitSerialInv DEF PendingReason
<1>2. SerialInv /\ ReasonAgrees /\ PendingReason /\ [SerialNext]_storeVars
        => SerialInv' /\ ReasonAgrees' /\ PendingReason'
    BY NextSerialInv, NextReason
<1> QED
    BY <1>1, <1>2, PTL DEF SerialSpec
=============================================================================
