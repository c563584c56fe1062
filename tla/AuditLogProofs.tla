--------------------------- MODULE AuditLogProofs ---------------------------
(***************************************************************************)
(* The audit log's safety properties, for any number of processes, writers *)
(* per process, entries, rotations and deaths.                             *)
(***************************************************************************)
EXTENDS AuditLog, SequenceTheorems, TLAPS

\* Logger.mu excludes: whoever is at the file holds its process's mutex, and
\* has an entry in hand.
MutexInv ==
    /\ LogTypeOK
    /\ \A w \in Writers :
        step[w] \in {"write", "rest"} => mu[ProcessOf[w]] = w
    /\ \A w \in Writers : step[w] # "idle" => count[w] \in 1..MaxEntries

\* The last piece that process p has in the file, if it has one, is x.
LastOf(p, x) ==
    \A i \in DOMAIN file :
        /\ ProcessAt(i) = p
        /\ \A k \in (i + 1)..Len(file) : ProcessAt(k) # p
        => file[i] = x

\* A writer between two writes finds its own head at the end of what its
\* process has in the file, unless a rotation has emptied it.
HeadInv ==
    /\ RestFollowsHead
    /\ \A w \in Writers : step[w] = "rest" =>
        LastOf(ProcessOf[w], [entry |-> Current(w), part |-> "head"])

Kept == archive \cup {file[i] : i \in DOMAIN file}

\* Between a copy and the truncation, what the copy has missed belongs to the
\* window; and a head that was written is kept, like an acknowledged entry.
KeptInv ==
    /\ AcknowledgedIsKept
    /\ \A w \in Writers : step[w] = "rest" /\ Current(w) \notin window =>
        [entry |-> Current(w), part |-> "head"] \in Kept
    /\ rotation = "copied" =>
        \A i \in DOMAIN file : file[i] \in archive \/ file[i].entry \in window

-----------------------------------------------------------------------------
(* Types and mutual exclusion                                               *)

\* What a write(2) does to the file: one piece more, after the others.
LEMMA AppendFacts ==
    ASSUME MutexInv, NEW w \in Writers, step[w] # "idle", NEW part \in Parts,
           AppendPiece(w, part)
    PROVE  /\ Current(w) \in Entries
           /\ file' \in Seq(Piece)
           /\ DOMAIN file = 1..Len(file)
           /\ Len(file) \in Nat
           /\ DOMAIN file' = 1..(Len(file) + 1)
           /\ Len(file') = Len(file) + 1
           /\ \A i \in 1..Len(file) : file'[i] = file[i]
           /\ file'[Len(file) + 1] = [entry |-> Current(w), part |-> part]
           /\ offset' \in [Processes -> Nat]
           /\ window' \subseteq Entries
<1>1. Current(w) \in Entries
  BY DEF MutexInv, Current, Entries
<1>2. [entry |-> Current(w), part |-> part] \in Piece
  BY <1>1 DEF Piece
<1>3. file \in Seq(Piece) /\ Len(file) \in Nat /\ DOMAIN file = 1..Len(file)
  BY LenProperties DEF MutexInv, LogTypeOK
<1>4. /\ file' \in Seq(Piece)
      /\ Len(file') = Len(file) + 1
      /\ \A i \in 1..Len(file) : file'[i] = file[i]
      /\ file'[Len(file) + 1] = [entry |-> Current(w), part |-> part]
  BY <1>2, <1>3, AppendProperties DEF AppendPiece
<1>5. DOMAIN file' = 1..(Len(file) + 1)
  BY <1>4, LenProperties
<1>6. offset' \in [Processes -> Nat]
  BY <1>3, ProcessOfAssumption DEF AppendPiece, MutexInv, LogTypeOK
<1>7. window' \subseteq Entries
  BY <1>1 DEF AppendPiece, MutexInv, LogTypeOK
<1> QED
  BY <1>1, <1>3, <1>4, <1>5, <1>6, <1>7

\* Nothing is written, locked or counted in the beginning.
LEMMA InitMutexInv == Init => MutexInv
<1> SUFFICES ASSUME Init
             PROVE  MutexInv
  OBVIOUS
<1>1. LogTypeOK
  BY EmptySeq, EntriesAssumption, RotationsAssumption, DeathsAssumption
     DEF Init, LogTypeOK
<1> QED
  BY <1>1 DEF Init, MutexInv

\* Every step keeps the types, and a mutex with the one writer that is at the
\* file.
LEMMA NextMutexInv == MutexInv /\ [Next]_logVars => MutexInv'
<1> SUFFICES ASSUME MutexInv, [Next]_logVars
             PROVE  MutexInv'
  OBVIOUS
<1> USE ProcessOfAssumption, EntriesAssumption, NobodyAssumption
<1>1. ASSUME NEW w \in Writers, Log(w)
      PROVE  MutexInv'
  BY <1>1 DEF Log, KeepRotation, MutexInv, LogTypeOK
<1>2. ASSUME NEW w \in Writers, Lock(w)
      PROVE  MutexInv'
  BY <1>2 DEF Lock, KeepRotation, MutexInv, LogTypeOK
<1>3. ASSUME NEW w \in Writers, WriteLine(w)
      PROVE  MutexInv'
  <2>1. /\ file' \in Seq(Piece)
        /\ offset' \in [Processes -> Nat]
        /\ window' \subseteq Entries
        /\ Current(w) \in Entries
    BY <1>3, AppendFacts DEF WriteLine, Parts
  <2>2. /\ acked' \subseteq Entries
        /\ UNCHANGED <<count, archive, rotation, rotations, deaths>>
    BY <1>3, <2>1 DEF WriteLine, KeepRotation, MutexInv, LogTypeOK
  <2>3. /\ step[w] \in {"write", "rest"}
        /\ mu' = [mu EXCEPT ![ProcessOf[w]] = Nobody]
        /\ step' = [step EXCEPT ![w] = "idle"]
    BY <1>3 DEF WriteLine, Return
  <2> QED
    BY <2>1, <2>2, <2>3 DEF MutexInv, LogTypeOK
<1>4. ASSUME NEW w \in Writers, WriteShort(w)
      PROVE  MutexInv'
  <2>1. /\ file' \in Seq(Piece)
        /\ offset' \in [Processes -> Nat]
        /\ window' \subseteq Entries
    BY <1>4, AppendFacts DEF WriteShort, Parts
  <2>2. /\ step[w] = "write"
        /\ step' = [step EXCEPT ![w] = "rest"]
        /\ UNCHANGED <<mu, acked, count, archive, rotation, rotations, deaths>>
    BY <1>4 DEF WriteShort, KeepRotation
  <2> QED
    BY <2>1, <2>2 DEF MutexInv, LogTypeOK
<1>5. ASSUME NEW w \in Writers, WriteFails(w)
      PROVE  MutexInv'
  BY <1>5 DEF WriteFails, Return, KeepRotation, MutexInv, LogTypeOK
<1>6. ASSUME NEW p \in Processes, Dies(p)
      PROVE  MutexInv'
  BY <1>6, DeathsAssumption DEF Dies, MutexInv, LogTypeOK
<1>7. CASE Copy
  <2>1. archive' \subseteq Piece
    BY <1>7, ElementOfSeq, LenProperties DEF Copy, MutexInv, LogTypeOK
  <2> QED
    BY <1>7, <2>1, RotationsAssumption DEF Copy, MutexInv, LogTypeOK
<1>8. CASE Truncate
  BY <1>8, EmptySeq DEF Truncate, MutexInv, LogTypeOK
<1>9. CASE UNCHANGED logVars
  BY <1>9 DEF logVars, MutexInv, LogTypeOK
<1> QED
  BY <1>1, <1>2, <1>3, <1>4, <1>5, <1>6, <1>7, <1>8, <1>9 DEF Next, LogStep

-----------------------------------------------------------------------------
(* A line that took two writes                                              *)

\* A step that leaves the file and the writers between two writes alone.
LEMMA QuietHead ==
    ASSUME HeadInv, UNCHANGED file,
           \A w \in Writers :
               step'[w] = "rest" => step[w] = "rest" /\ count'[w] = count[w]
    PROVE  HeadInv'
  BY DEF HeadInv, RestFollowsHead, LastOf, ProcessAt, Current

\* One piece more keeps every rest behind its head if the piece is no rest, or
\* if its own head was the last piece of its process.
LEMMA AppendRest ==
    ASSUME MutexInv, HeadInv, NEW w \in Writers, step[w] \in {"write", "rest"},
           NEW part \in Parts, AppendPiece(w, part),
           part = "rest" =>
               LastOf(ProcessOf[w], [entry |-> Current(w), part |-> "head"])
    PROVE  RestFollowsHead'
<1> DEFINE n == Len(file)
           x == [entry |-> Current(w), part |-> part]
<1>1. /\ n \in Nat /\ DOMAIN file = 1..n /\ DOMAIN file' = 1..(n + 1)
      /\ \A i \in 1..n : file'[i] = file[i]
      /\ file'[n + 1] = x
  BY AppendFacts
<1>2. ProcessOf[x.entry[1]] = ProcessOf[w]
  BY DEF Current
<1> SUFFICES ASSUME NEW j \in 1..(n + 1), file'[j].part = "rest",
                    NEW i \in 1..(j - 1),
                    ProcessOf[file'[i].entry[1]] = ProcessOf[file'[j].entry[1]],
                    \A k \in (i + 1)..(j - 1) :
                        ProcessOf[file'[k].entry[1]]
                            # ProcessOf[file'[j].entry[1]]
             PROVE  file'[i] = [entry |-> file'[j].entry, part |-> "head"]
  BY <1>1 DEF RestFollowsHead, ProcessAt
<1>3. CASE j \in 1..n
  <2>1. /\ i \in 1..n /\ file'[i] = file[i] /\ file'[j] = file[j]
        /\ \A k \in (i + 1)..(j - 1) : file'[k] = file[k]
    BY <1>1, <1>3
  <2>2. /\ j \in DOMAIN file /\ file[j].part = "rest"
        /\ ProcessAt(i) = ProcessAt(j)
        /\ \A k \in (i + 1)..(j - 1) : ProcessAt(k) # ProcessAt(j)
    BY <1>1, <1>3, <2>1 DEF ProcessAt
  <2>3. file[i] = [entry |-> file[j].entry, part |-> "head"]
    BY <2>2 DEF HeadInv, RestFollowsHead
  <2> QED
    BY <2>1, <2>3
<1>4. CASE j = n + 1
  <2>1. /\ i \in 1..n /\ file'[i] = file[i] /\ file'[j] = x /\ part = "rest"
        /\ \A k \in (i + 1)..n : file'[k] = file[k]
    BY <1>1, <1>4
  <2>2. /\ ProcessAt(i) = ProcessOf[w]
        /\ \A k \in (i + 1)..n : ProcessAt(k) # ProcessOf[w]
    BY <1>1, <1>2, <1>4, <2>1 DEF ProcessAt
  <2>3. file[i] = [entry |-> Current(w), part |-> "head"]
    BY <1>1, <2>1, <2>2 DEF LastOf
  <2> QED
    BY <2>1, <2>3
<1> QED
  BY <1>1, <1>3, <1>4

\* A write by one process leaves the other processes' last pieces where they
\* were.
LEMMA AppendElsewhere ==
    ASSUME MutexInv, NEW w \in Writers, step[w] \in {"write", "rest"},
           NEW part \in Parts, AppendPiece(w, part),
           NEW p, p # ProcessOf[w], NEW x, LastOf(p, x)
    PROVE  LastOf(p, x)'
<1> DEFINE n == Len(file)
<1>1. /\ n \in Nat /\ DOMAIN file = 1..n /\ DOMAIN file' = 1..(n + 1)
      /\ Len(file') = n + 1
      /\ \A i \in 1..n : file'[i] = file[i]
      /\ file'[n + 1] = [entry |-> Current(w), part |-> part]
  BY AppendFacts
<1>2. ProcessOf[file'[n + 1].entry[1]] = ProcessOf[w]
  BY <1>1 DEF Current
<1> SUFFICES ASSUME NEW i \in 1..(n + 1), ProcessOf[file'[i].entry[1]] = p,
                    \A k \in (i + 1)..(n + 1) : ProcessOf[file'[k].entry[1]] # p
             PROVE  file'[i] = x
  BY <1>1 DEF LastOf, ProcessAt
<1>3. i \in 1..n
  BY <1>1, <1>2
<1>4. \A k \in (i + 1)..n : k \in (i + 1)..(n + 1) /\ file'[k] = file[k]
  BY <1>1, <1>3
<1> QED
  BY <1>1, <1>3, <1>4 DEF LastOf, ProcessAt

\* The log starts without a piece.
LEMMA InitHeadInv == Init => HeadInv
  BY EmptySeq DEF Init, HeadInv, RestFollowsHead

\* Every step keeps the heads where their rests will look for them.  Two
\* writers of one process are never both at the file: that is what the mutex is
\* for.
LEMMA NextHeadInv == MutexInv /\ HeadInv /\ [Next]_logVars => HeadInv'
<1> SUFFICES ASSUME MutexInv, HeadInv, [Next]_logVars
             PROVE  HeadInv'
  OBVIOUS
<1> USE ProcessOfAssumption
<1>1. ASSUME NEW w \in Writers, Log(w)
      PROVE  HeadInv'
  BY <1>1, QuietHead DEF Log, MutexInv, LogTypeOK
<1>2. ASSUME NEW w \in Writers, Lock(w)
      PROVE  HeadInv'
  BY <1>2, QuietHead DEF Lock, MutexInv, LogTypeOK
<1>3. ASSUME NEW w \in Writers, WriteLine(w)
      PROVE  HeadInv'
  <2>1. PICK part \in Parts : /\ AppendPiece(w, part)
                              /\ part = "rest" => step[w] = "rest"
    BY <1>3 DEF WriteLine, Parts
  <2>2. /\ step[w] \in {"write", "rest"}
        /\ step' = [step EXCEPT ![w] = "idle"]
        /\ UNCHANGED count
    BY <1>3 DEF WriteLine, Return
  <2>3. RestFollowsHead'
    BY <2>1, <2>2, AppendRest DEF HeadInv
  <2>4. ASSUME NEW v \in Writers, step'[v] = "rest"
        PROVE  LastOf(ProcessOf[v], [entry |-> Current(v), part |-> "head"])'
    <3>1. step[v] = "rest" /\ v # w /\ Current(v)' = Current(v)
      BY <2>2, <2>4 DEF MutexInv, LogTypeOK, Current
    <3>2. ProcessOf[v] # ProcessOf[w]
      BY <2>2, <3>1 DEF MutexInv
    <3>3. LastOf(ProcessOf[v], [entry |-> Current(v), part |-> "head"])
      BY <3>1 DEF HeadInv
    <3> QED
      BY <2>1, <2>2, <3>1, <3>2, <3>3, AppendElsewhere
  <2> QED
    BY <2>3, <2>4 DEF HeadInv
<1>4. ASSUME NEW w \in Writers, WriteShort(w)
      PROVE  HeadInv'
  <2>1. AppendPiece(w, "head") /\ "head" \in Parts
    BY <1>4 DEF WriteShort, Parts
  <2>2. /\ step[w] = "write"
        /\ step' = [step EXCEPT ![w] = "rest"]
        /\ UNCHANGED count
    BY <1>4 DEF WriteShort
  <2>3. RestFollowsHead'
    BY <2>1, <2>2, AppendRest
  <2>4. LastOf(ProcessOf[w], [entry |-> Current(w), part |-> "head"])'
    <3> DEFINE n == Len(file)
    <3>1. /\ n \in Nat /\ DOMAIN file' = 1..(n + 1) /\ Len(file') = n + 1
          /\ file'[n + 1] = [entry |-> Current(w), part |-> "head"]
      BY <2>1, <2>2, AppendFacts
    <3>2. Current(w)' = Current(w) /\ Current(w)[1] = w
      BY <2>2 DEF Current
    <3>3. ProcessOf[file'[n + 1].entry[1]] = ProcessOf[w]
      BY <3>1, <3>2
    <3>4. ASSUME NEW i \in 1..(n + 1),
                 \A k \in (i + 1)..(n + 1) :
                     ProcessOf[file'[k].entry[1]] # ProcessOf[w]
          PROVE  i = n + 1
      BY <3>1, <3>3, <3>4
    <3> QED
      BY <3>1, <3>2, <3>4 DEF LastOf, ProcessAt
  <2>5. ASSUME NEW v \in Writers, step'[v] = "rest", v # w
        PROVE  LastOf(ProcessOf[v], [entry |-> Current(v), part |-> "head"])'
    <3>1. step[v] = "rest" /\ Current(v)' = Current(v)
      BY <2>2, <2>5 DEF MutexInv, LogTypeOK, Current
    <3>2. ProcessOf[v] # ProcessOf[w]
      BY <2>2, <2>5, <3>1 DEF MutexInv
    <3>3. LastOf(ProcessOf[v], [entry |-> Current(v), part |-> "head"])
      BY <3>1 DEF HeadInv
    <3> QED
      BY <2>1, <2>2, <3>1, <3>2, <3>3, AppendElsewhere
  <2> QED
    BY <2>3, <2>4, <2>5 DEF HeadInv
<1>5. ASSUME NEW w \in Writers, WriteFails(w)
      PROVE  HeadInv'
  BY <1>5, QuietHead DEF WriteFails, Return, MutexInv, LogTypeOK
<1>6. ASSUME NEW p \in Processes, Dies(p)
      PROVE  HeadInv'
  BY <1>6, QuietHead DEF Dies, MutexInv, LogTypeOK
<1>7. CASE Copy
  BY <1>7, QuietHead DEF Copy
<1>8. CASE Truncate
  BY <1>8, EmptySeq DEF Truncate, HeadInv, RestFollowsHead, LastOf
<1>9. CASE UNCHANGED logVars
  BY <1>9, QuietHead DEF logVars
<1> QED
  BY <1>1, <1>2, <1>3, <1>4, <1>5, <1>6, <1>7, <1>8, <1>9 DEF Next, LogStep

-----------------------------------------------------------------------------
(* Entries are not lost                                                     *)

\* OnRecord in terms of the pieces kept, before a step and after it.
LEMMA OnRecordKept ==
    ASSUME NEW e
    PROVE  /\ OnRecord(e) <=>
               \/ [entry |-> e, part |-> "line"] \in Kept
               \/ /\ [entry |-> e, part |-> "head"] \in Kept
                  /\ [entry |-> e, part |-> "rest"] \in Kept
           /\ OnRecord(e)' <=>
               \/ [entry |-> e, part |-> "line"] \in Kept'
               \/ /\ [entry |-> e, part |-> "head"] \in Kept'
                  /\ [entry |-> e, part |-> "rest"] \in Kept'
  BY DEF OnRecord, Kept

\* A step that drops no piece, acknowledges nothing, and closes no window.
LEMMA QuietKept ==
    ASSUME KeptInv, Kept \subseteq Kept', UNCHANGED <<acked, window>>,
           \A w \in Writers :
               step'[w] = "rest" => step[w] = "rest" /\ count'[w] = count[w],
           rotation' = "copied" =>
               \A i \in DOMAIN file' :
                   file'[i] \in archive' \/ file'[i].entry \in window'
    PROVE  KeptInv'
<1>1. ASSUME NEW e \in acked' \ window'
      PROVE  OnRecord(e)'
  BY OnRecordKept DEF KeptInv, AcknowledgedIsKept
<1>2. ASSUME NEW w \in Writers, step'[w] = "rest", Current(w)' \notin window'
      PROVE  [entry |-> Current(w)', part |-> "head"] \in Kept'
  BY <1>2 DEF KeptInv, Current
<1> QED
  BY <1>1, <1>2 DEF KeptInv, AcknowledgedIsKept

\* A write adds its piece to what is kept, and to the window if it falls in it.
LEMMA AppendKept ==
    ASSUME MutexInv, KeptInv, NEW w \in Writers, step[w] \in {"write", "rest"},
           NEW part \in Parts, AppendPiece(w, part), UNCHANGED <<archive, rotation>>
    PROVE  /\ Kept' = Kept \cup {[entry |-> Current(w), part |-> part]}
           /\ window \subseteq window'
           /\ rotation' = "copied" =>
                \A i \in DOMAIN file' :
                    file'[i] \in archive' \/ file'[i].entry \in window'
<1> DEFINE n == Len(file)
<1>1. /\ n \in Nat /\ DOMAIN file = 1..n /\ DOMAIN file' = 1..(n + 1)
      /\ \A i \in 1..n : file'[i] = file[i]
      /\ file'[n + 1] = [entry |-> Current(w), part |-> part]
  BY AppendFacts
<1>2. 1..(n + 1) = (1..n) \cup {n + 1}
  BY <1>1
<1>3. Kept' = Kept \cup {[entry |-> Current(w), part |-> part]}
  BY <1>1, <1>2 DEF Kept
<1>4. window' = IF rotation = "copied" THEN window \cup {Current(w)} ELSE window
  BY DEF AppendPiece
<1>5. ASSUME rotation' = "copied", NEW i \in DOMAIN file'
      PROVE  file'[i] \in archive' \/ file'[i].entry \in window'
  <2>1. CASE i \in 1..n
    BY <1>1, <1>4, <1>5, <2>1 DEF KeptInv
  <2>2. CASE i = n + 1
    BY <1>1, <1>4, <1>5, <2>2
  <2> QED
    BY <1>1, <1>2, <2>1, <2>2
<1> QED
  BY <1>3, <1>4, <1>5

\* Nothing is acknowledged in the beginning.
LEMMA InitKeptInv == Init => KeptInv
  BY DEF Init, KeptInv, AcknowledgedIsKept

\* Every step keeps the acknowledged entries on record.
LEMMA NextKeptInv == MutexInv /\ KeptInv /\ [Next]_logVars => KeptInv'
<1> SUFFICES ASSUME MutexInv, KeptInv, [Next]_logVars
             PROVE  KeptInv'
  OBVIOUS
<1>1. ASSUME NEW w \in Writers, Log(w)
      PROVE  KeptInv'
  BY <1>1, QuietKept DEF Log, KeepRotation, MutexInv, LogTypeOK, Kept, KeptInv
<1>2. ASSUME NEW w \in Writers, Lock(w)
      PROVE  KeptInv'
  BY <1>2, QuietKept DEF Lock, KeepRotation, MutexInv, LogTypeOK, Kept, KeptInv
<1>3. ASSUME NEW w \in Writers, WriteLine(w)
      PROVE  KeptInv'
  <2> DEFINE part == IF step[w] = "write" THEN "line" ELSE "rest"
             x == [entry |-> Current(w), part |-> part]
  <2>1. /\ step[w] \in {"write", "rest"} /\ part \in Parts
        /\ AppendPiece(w, part)
        /\ acked' = acked \cup {Current(w)}
        /\ step' = [step EXCEPT ![w] = "idle"]
        /\ UNCHANGED <<count, archive, rotation>>
    BY <1>3 DEF WriteLine, Return, Parts, KeepRotation
  <2>2. /\ Kept' = Kept \cup {x}
        /\ window \subseteq window'
        /\ rotation' = "copied" =>
            \A i \in DOMAIN file' :
                file'[i] \in archive' \/ file'[i].entry \in window'
    BY <2>1, AppendKept
  <2>3. ASSUME NEW e \in acked' \ window'
        PROVE  OnRecord(e)'
    <3>1. CASE e = Current(w)
      BY <2>1, <2>2, <2>3, <3>1, OnRecordKept DEF KeptInv
    <3>2. CASE e # Current(w)
      BY <2>1, <2>2, <2>3, <3>2, OnRecordKept DEF KeptInv, AcknowledgedIsKept
    <3> QED
      BY <3>1, <3>2
  <2>4. ASSUME NEW v \in Writers, step'[v] = "rest", Current(v)' \notin window'
        PROVE  [entry |-> Current(v)', part |-> "head"] \in Kept'
    BY <2>1, <2>2, <2>4 DEF KeptInv, Current, MutexInv, LogTypeOK
  <2> QED
    BY <2>2, <2>3, <2>4 DEF KeptInv, AcknowledgedIsKept
<1>4. ASSUME NEW w \in Writers, WriteShort(w)
      PROVE  KeptInv'
  <2>1. /\ step[w] = "write" /\ "head" \in Parts
        /\ AppendPiece(w, "head")
        /\ step' = [step EXCEPT ![w] = "rest"]
        /\ UNCHANGED <<acked, count, archive, rotation>>
    BY <1>4 DEF WriteShort, Parts, KeepRotation
  <2>2. /\ Kept' = Kept \cup {[entry |-> Current(w), part |-> "head"]}
        /\ window \subseteq window'
        /\ rotation' = "copied" =>
            \A i \in DOMAIN file' :
                file'[i] \in archive' \/ file'[i].entry \in window'
    BY <2>1, AppendKept
  <2>3. ASSUME NEW e \in acked' \ window'
        PROVE  OnRecord(e)'
    BY <2>1, <2>2, <2>3, OnRecordKept DEF KeptInv, AcknowledgedIsKept
  <2>4. ASSUME NEW v \in Writers, step'[v] = "rest", Current(v)' \notin window'
        PROVE  [entry |-> Current(v)', part |-> "head"] \in Kept'
    <3>1. Current(v)' = Current(v)
      BY <2>1 DEF Current
    <3>2. CASE v = w
      BY <2>2, <3>1, <3>2
    <3>3. CASE v # w
      BY <2>1, <2>2, <2>4, <3>1, <3>3 DEF KeptInv, MutexInv, LogTypeOK
    <3> QED
      BY <3>2, <3>3
  <2> QED
    BY <2>2, <2>3, <2>4 DEF KeptInv, AcknowledgedIsKept
<1>5. ASSUME NEW w \in Writers, WriteFails(w)
      PROVE  KeptInv'
  BY <1>5, QuietKept
     DEF WriteFails, Return, KeepRotation, MutexInv, LogTypeOK, Kept, KeptInv
<1>6. ASSUME NEW p \in Processes, Dies(p)
      PROVE  KeptInv'
  BY <1>6, QuietKept DEF Dies, MutexInv, LogTypeOK, Kept, KeptInv
<1>7. CASE Copy
  BY <1>7, QuietKept DEF Copy, Kept
<1>8. CASE Truncate
  <2>1. /\ file' = <<>> /\ rotation' = "idle" /\ rotation = "copied"
        /\ UNCHANGED <<step, count, acked, archive, window>>
    BY <1>8 DEF Truncate
  <2>2. Kept' = archive
    BY <2>1 DEF Kept
  \* A piece of an entry outside the window is in the copy.
  <2>3. ASSUME NEW e, e \notin window, NEW part,
               [entry |-> e, part |-> part] \in Kept
        PROVE  [entry |-> e, part |-> part] \in Kept'
    BY <2>1, <2>2, <2>3 DEF Kept, KeptInv
  <2>4. ASSUME NEW e \in acked' \ window'
        PROVE  OnRecord(e)'
    BY <2>1, <2>3, OnRecordKept DEF KeptInv, AcknowledgedIsKept
  <2>5. ASSUME NEW v \in Writers, step'[v] = "rest", Current(v)' \notin window'
        PROVE  [entry |-> Current(v)', part |-> "head"] \in Kept'
    BY <2>1, <2>3, <2>5 DEF KeptInv, Current
  <2> QED
    BY <2>1, <2>4, <2>5 DEF KeptInv, AcknowledgedIsKept
<1>9. CASE UNCHANGED logVars
  BY <1>9, QuietKept DEF logVars, Kept, KeptInv
<1> QED
  BY <1>1, <1>2, <1>3, <1>4, <1>5, <1>6, <1>7, <1>8, <1>9 DEF Next, LogStep

-----------------------------------------------------------------------------

\* The three inductive invariants hold throughout, mutual exclusion first: the
\* other two rest on it.
THEOREM LogInvariant == Spec => [](MutexInv /\ HeadInv /\ KeptInv)
<1>1. Init => MutexInv /\ HeadInv /\ KeptInv
  BY InitMutexInv, InitHeadInv, InitKeptInv
<1>2. MutexInv /\ HeadInv /\ KeptInv /\ [Next]_logVars
        => (MutexInv /\ HeadInv /\ KeptInv)'
  BY NextMutexInv, NextHeadInv, NextKeptInv
<1> QED
  BY <1>1, <1>2, PTL DEF Spec

\* The log's variables keep their types, and Logger.mu is held by a writer of
\* its own process that is at the file: no path of Log returns without
\* unlocking, and a new process starts with an unlocked Logger.
THEOREM LogTypeCorrect == Spec => []LogTypeOK
<1>1. MutexInv => LogTypeOK
  BY DEF MutexInv
<1> QED
  BY <1>1, LogInvariant, PTL

\* A line that took two writes is not cut by another line of its process,
\* whoever else appends, dies or rotates.
THEOREM LogRestFollowsHead == Spec => []RestFollowsHead
<1>1. HeadInv => RestFollowsHead
  BY DEF HeadInv
<1> QED
  BY <1>1, LogInvariant, PTL

\* An entry whose Log returned nil is in the file or in a copy of it, unless it
\* was being written between a copy and its truncation.
THEOREM LogAcknowledgedIsKept == Spec => []AcknowledgedIsKept
<1>1. KeptInv => AcknowledgedIsKept
  BY DEF KeptInv
<1> QED
  BY <1>1, LogInvariant, PTL
=============================================================================
