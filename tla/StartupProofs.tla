--------------------------- MODULE StartupProofs ---------------------------
(***************************************************************************)
(* What Load and Open promise, for any configuration files, any number of  *)
(* hosts that migrate databases of any version at the same time, and any   *)
(* number of failures in between.                                          *)
(***************************************************************************)
EXTENDS Startup, SequenceTheorems, WellFoundedInduction, TLAPS

-----------------------------------------------------------------------------
(* Sets of line numbers                                                     *)

\* A set of natural numbers has a least element.
LEMMA LeastNat ==
    ASSUME NEW T, T \subseteq Nat, T # {}
    PROVE  \E x \in T : \A y \in T : x <= y
<1> DEFINE R == OpToRel(<, Nat)
<1>1. \A x, y \in Nat : y < x => <<y, x>> \in R
  BY DEF OpToRel
<1>2. IsWellFoundedOn(R, Nat)
  BY NatLessThanWellFounded
<1> HIDE DEF R
<1>3. PICK x \in T : \A y \in T : ~(<<y, x>> \in R)
  BY <1>2, WFMin
<1>4. ASSUME NEW y \in T
      PROVE  x <= y
  <2>1. x \in Nat /\ y \in Nat
    OBVIOUS
  <2>2. ~(y < x)
    BY <1>1, <1>3, <2>1
  <2> QED
    BY <2>1, <2>2
<1> QED
  BY <1>4

\* Max and Min of sets of indices.
LEMMA MaxIndex ==
    ASSUME NEW n \in Nat, NEW s \in SUBSET (1..n), s # {}
    PROVE  Max(s) \in s /\ \A y \in s : y <= Max(s)
<1> DEFINE above == {b \in Nat : \A y \in s : y <= b}
<1>1. n \in above
  OBVIOUS
<1>2. PICK b \in above : \A c \in above : b <= c
  BY <1>1, LeastNat
<1>3. b \in s
  <2> SUFFICES ASSUME b \notin s PROVE FALSE
    OBVIOUS
  <2>1. PICK y \in s : TRUE
    OBVIOUS
  <2>2. b - 1 \in Nat
    BY <1>2, <2>1
  <2>3. b - 1 \in above
    BY <1>2, <2>2
  <2> QED
    BY <1>2, <2>2, <2>3
<1>4. \E x \in s : \A y \in s : x >= y
  BY <1>2, <1>3
<1> HIDE DEF above
<1>5. Max(s) \in s /\ \A y \in s : Max(s) >= y
  BY <1>4 DEF Max
<1> QED
  BY <1>5

\* And a least one.
LEMMA MinIndex ==
    ASSUME NEW n \in Nat, NEW s \in SUBSET (1..n), s # {}
    PROVE  Min(s) \in s /\ \A y \in s : Min(s) <= y
<1>1. s \subseteq Nat
  OBVIOUS
<1>2. \E x \in s : \A y \in s : x <= y
  BY <1>1, LeastNat
<1> QED
  BY <1>2 DEF Min
-----------------------------------------------------------------------------
(* ReadLines                                                                *)

\* What the lines with the numbers in s give, the last of them for each key.
GivenIn(lines, s) == {i \in s : lines[i].kind # "comment"}

LastIn(lines, s, k) ==
    CHOOSE i \in GivenIn(lines, s) :
        /\ KeyAt(lines, i) = k
        /\ \A j \in GivenIn(lines, s) : KeyAt(lines, j) = k => j <= i

ReadIn(lines, s) ==
    [k \in {KeyAt(lines, i) : i \in GivenIn(lines, s)} |->
        lines[LastIn(lines, s, k)].value]

\* There is a last line for a key that some line has ...
LEMMA LastInFacts ==
    ASSUME NEW n \in Nat, NEW s \in SUBSET (1..n), NEW lines,
           NEW m \in GivenIn(lines, s)
    PROVE  /\ LastIn(lines, s, KeyAt(lines, m)) \in GivenIn(lines, s)
           /\ KeyAt(lines, LastIn(lines, s, KeyAt(lines, m))) = KeyAt(lines, m)
           /\ \A j \in GivenIn(lines, s) : KeyAt(lines, j) = KeyAt(lines, m)
                => j <= LastIn(lines, s, KeyAt(lines, m))
<1> DEFINE k == KeyAt(lines, m)
           same == {i \in GivenIn(lines, s) : KeyAt(lines, i) = k}
<1>1. same \in SUBSET (1..n) /\ same # {}
  BY DEF GivenIn
<1>2. Max(same) \in same /\ \A y \in same : y <= Max(same)
  BY <1>1, MaxIndex
<1>3. \E i \in GivenIn(lines, s) :
        /\ KeyAt(lines, i) = k
        /\ \A j \in GivenIn(lines, s) : KeyAt(lines, j) = k => j <= i
  BY <1>2
<1> HIDE DEF k
<1>4. /\ LastIn(lines, s, k) \in GivenIn(lines, s)
      /\ KeyAt(lines, LastIn(lines, s, k)) = k
      /\ \A j \in GivenIn(lines, s) : KeyAt(lines, j) = k => j <= LastIn(lines, s, k)
  BY <1>3 DEF LastIn
<1> QED
  BY <1>4 DEF k

\* ... and only one.
LEMMA LastInIs ==
    ASSUME NEW n \in Nat, NEW s \in SUBSET (1..n), NEW lines,
           NEW m \in GivenIn(lines, s),
           \A j \in GivenIn(lines, s) : KeyAt(lines, j) = KeyAt(lines, m) => j <= m
    PROVE  LastIn(lines, s, KeyAt(lines, m)) = m
<1> DEFINE l == LastIn(lines, s, KeyAt(lines, m))
<1>1. l \in GivenIn(lines, s) /\ KeyAt(lines, l) = KeyAt(lines, m) /\ m <= l
  BY LastInFacts
<1> HIDE DEF l
<1>2. l <= m
  BY <1>1
<1>3. l \in Nat /\ m \in Nat
  BY <1>1 DEF GivenIn
<1>4. l = m
  BY <1>1, <1>2, <1>3
<1> QED
  BY <1>4 DEF l

\* One more line, as ReadLine adds it.
LEMMA ReadInStep ==
    ASSUME NEW n \in Nat, NEW s \in SUBSET (1..n), s # {}, NEW lines
    PROVE  ReadIn(lines, s) = ReadLine(ReadIn(lines, s \ {Max(s)}), lines[Max(s)])
<1> DEFINE m == Max(s)
           r == s \ {m}
           G == GivenIn(lines, s)
           H == GivenIn(lines, r)
           key(i) == KeyAt(lines, i)
<1>1. m \in s /\ \A y \in s : y <= m
  BY MaxIndex
<1>2. r \in SUBSET (1..n)
  OBVIOUS
<1> HIDE DEF m
<1>3. ASSUME NEW i \in H
      PROVE  /\ LastIn(lines, r, key(i)) \in H
             /\ key(LastIn(lines, r, key(i))) = key(i)
             /\ \A j \in H : key(j) = key(i) => j <= LastIn(lines, r, key(i))
  <2> HIDE DEF r
  <2> QED
    BY <1>2, LastInFacts
<1>4. CASE lines[m].kind = "comment"
  <2>1. G = H
    BY <1>4 DEF GivenIn
  <2>2. ReadIn(lines, s) = ReadIn(lines, r)
    BY <2>1 DEF ReadIn, LastIn
  <2> QED
    BY <1>4, <2>2 DEF ReadLine, m
<1>5. CASE lines[m].kind # "comment"
  <2>1. G = H \cup {m} /\ m \in G
    BY <1>1, <1>5 DEF GivenIn
  <2>2. \A j \in G : j <= m
    BY <1>1 DEF GivenIn
  <2>3. LastIn(lines, s, key(m)) = m
    BY <1>1, <2>1, <2>2, LastInIs
  <2>4. ASSUME NEW i \in H, key(i) # key(m)
        PROVE  LastIn(lines, s, key(i)) = LastIn(lines, r, key(i))
    <3> DEFINE l == LastIn(lines, r, key(i))
    <3>1. /\ l \in H /\ key(l) = key(i)
          /\ \A j \in H : key(j) = key(i) => j <= l
      BY <1>3
    <3> HIDE DEF l
    <3>2. l \in G /\ \A j \in G : key(j) = key(l) => j <= l
      BY <2>1, <2>4, <3>1
    <3>3. LastIn(lines, s, key(l)) = l
      BY <3>2, LastInIs
    <3> QED
      BY <3>1, <3>3 DEF l
  <2> DEFINE old == ReadIn(lines, r)
             new == ReadIn(lines, s)
  <2>5. /\ old = [k \in {key(i) : i \in H} |-> lines[LastIn(lines, r, k)].value]
        /\ new = [k \in {key(i) : i \in G} |-> lines[LastIn(lines, s, k)].value]
    BY DEF ReadIn
  <2> HIDE DEF old, new, G, H
  <2>6. DOMAIN new = {key(m)} \cup DOMAIN old
    BY <2>1, <2>5
  <2>7. new[key(m)] = lines[m].value
    BY <2>1, <2>3, <2>5
  <2>8. ASSUME NEW k \in DOMAIN old, k # key(m)
        PROVE  new[k] = old[k]
    <3>1. PICK i \in H : k = key(i)
      BY <2>5
    <3>2. LastIn(lines, s, k) = LastIn(lines, r, k)
      BY <2>4, <2>8, <3>1
    <3> QED
      BY <2>5, <2>6, <3>2
  <2>9. new = [k \in {key(m)} \cup DOMAIN old |->
                IF k = key(m) THEN lines[m].value ELSE old[k]]
    BY <2>5, <2>6, <2>7, <2>8
  <2>10. ReadLine(old, lines[m]) = [k \in {key(m)} \cup DOMAIN old |->
                IF k = key(m) THEN lines[m].value ELSE old[k]]
    BY <1>5 DEF ReadLine, Assign, KeyAt
  <2> QED
    BY <2>9, <2>10 DEF old, new, m
<1> QED
  BY <1>4, <1>5

\* Nothing read.
LEMMA ReadInNothing ==
    ASSUME NEW lines
    PROVE  ReadIn(lines, {}) = <<>>
<1>1. {KeyAt(lines, i) : i \in GivenIn(lines, {})} = {}
  BY DEF GivenIn
<1>2. ReadIn(lines, {}) = [k \in {} |-> lines[LastIn(lines, {}, k)].value]
  BY <1>1 DEF ReadIn
<1> QED
  BY <1>2

\* ReadLines, the fold, computes that map: the map solves the equation that
\* defines the fold, and no other solution differs on a prefix of the file.
LEMMA ReadLinesAre ==
    ASSUME NEW lines \in Seq(Line)
    PROVE  ReadLines(lines) = ReadIn(lines, DOMAIN lines)
<1> DEFINE D == DOMAIN lines
           n == Len(lines)
           Folds(f) == f = [s \in SUBSET D |-> IF s = {} THEN <<>>
                             ELSE ReadLine(f[s \ {Max(s)}], lines[Max(s)])]
           read == [s \in SUBSET D |-> ReadIn(lines, s)]
           it == CHOOSE f : Folds(f)
<1>1. n \in Nat /\ D = 1..n
  BY LenProperties
<1>2. ReadLines(lines) = it[D]
  BY DEF ReadLines, FoldLeft, MapThenFoldSet
<1> HIDE DEF D, n
<1>3. Folds(read)
  <2>1. ASSUME NEW s \in SUBSET D
        PROVE  read[s] = IF s = {} THEN <<>>
                         ELSE ReadLine(read[s \ {Max(s)}], lines[Max(s)])
    <3>1. CASE s = {}
      BY <3>1, ReadInNothing
    <3>2. CASE s # {}
      <4>1. ReadIn(lines, s) = ReadLine(ReadIn(lines, s \ {Max(s)}), lines[Max(s)])
        BY <1>1, <3>2, ReadInStep
      <4>2. read[s] = ReadIn(lines, s)
        OBVIOUS
      <4>3. s \ {Max(s)} \in SUBSET D
        OBVIOUS
      <4>4. read[s \ {Max(s)}] = ReadIn(lines, s \ {Max(s)})
        BY <4>3
      <4> QED
        BY <3>2, <4>1, <4>2, <4>4
    <3> QED
      BY <3>1, <3>2
  <2>2. read = [s \in SUBSET D |-> read[s]]
    OBVIOUS
  <2> HIDE DEF read
  <2> QED
    BY <2>1, <2>2
<1>4. Folds(it)
  <2> HIDE DEF Folds
  <2> QED
    BY <1>3
<1> HIDE DEF it, read
<1>5. \A s \in SUBSET D : it[s] = IF s = {} THEN <<>>
                ELSE ReadLine(it[s \ {Max(s)}], lines[Max(s)])
  BY <1>4
<1> HIDE DEF Folds
<1> DEFINE differ == {m \in 0..n : it[1..m] # ReadIn(lines, 1..m)}
<1>6. differ = {}
  <2> SUFFICES ASSUME differ # {} PROVE FALSE
    OBVIOUS
  <2>1. differ \subseteq Nat
    BY <1>1
  <2>2. PICK m \in differ : \A k \in differ : m <= k
    BY <2>1, LeastNat
  <2>3. m \in 0..n /\ it[1..m] # ReadIn(lines, 1..m)
    OBVIOUS
  <2>4. 1..m \in SUBSET D
    BY <1>1, <2>3
  <2>5. CASE m = 0
    <3>1. 1..m = {}
      BY <2>5
    <3> QED
      BY <1>5, <2>3, <2>4, <3>1, ReadInNothing
  <2>6. CASE m # 0
    <3>1. m \in 1..n /\ m - 1 \in 0..n /\ m \in Nat
      BY <1>1, <2>3, <2>6
    <3>2. m - 1 \notin differ
      BY <2>2, <3>1
    <3>3. it[1..(m - 1)] = ReadIn(lines, 1..(m - 1))
      BY <3>1, <3>2
    <3>4. 1..m # {} /\ 1..m \in SUBSET (1..m)
      <4>1. m \in 1..m
        BY <3>1
      <4> QED
        BY <4>1
    <3>5. Max(1..m) \in 1..m /\ \A y \in 1..m : y <= Max(1..m)
      BY <3>1, <3>4, MaxIndex
    <3>6. Max(1..m) = m
      BY <3>1, <3>5
    <3>7. (1..m) \ {Max(1..m)} = 1..(m - 1)
      BY <3>1, <3>6
    <3>8. it[1..m] = ReadLine(it[1..(m - 1)], lines[m])
      BY <1>5, <2>4, <3>4, <3>6, <3>7
    <3>9. ReadIn(lines, 1..m) = ReadLine(ReadIn(lines, 1..(m - 1)), lines[m])
      BY <3>1, <3>4, <3>6, <3>7, ReadInStep
    <3> QED
      BY <2>3, <3>3, <3>8, <3>9
  <2> QED
    BY <2>5, <2>6
<1>7. it[1..n] = ReadIn(lines, 1..n)
  <2>1. n \in 0..n
    BY <1>1
  <2> QED
    BY <1>6, <2>1
<1> QED
  BY <1>1, <1>2, <1>7 DEF D

-----------------------------------------------------------------------------
(* validate, for an arbitrary map of directives                             *)

\* r has the elements of s and then those of t.
Joins(r, s, t) ==
    /\ Len(r) = Len(s) + Len(t)
    /\ DOMAIN r = 1..(Len(s) + Len(t))
    /\ \A i \in 1..Len(s) : r[i] = s[i]
    /\ \A i \in 1..Len(t) : r[Len(s) + i] = t[i]

\* That is what a concatenation does.
LEMMA ConcatJoins ==
    ASSUME NEW S, NEW s \in Seq(S), NEW t \in Seq(S)
    PROVE  s \o t \in Seq(S) /\ Joins(s \o t, s, t)
<1> DEFINE r == s \o t
<1>1. Len(s) \in Nat /\ Len(t) \in Nat
  BY LenProperties
<1>2. /\ r \in Seq(S)
      /\ Len(r) = Len(s) + Len(t)
      /\ \A i \in 1..(Len(s) + Len(t)) :
            r[i] = IF i <= Len(s) THEN s[i] ELSE t[i - Len(s)]
  BY ConcatProperties
<1> HIDE DEF r
<1>3. DOMAIN r = 1..(Len(s) + Len(t))
  BY <1>2, LenProperties
<1>4. ASSUME NEW i \in 1..Len(s)
      PROVE  r[i] = s[i]
  BY <1>1, <1>2
<1>5. ASSUME NEW i \in 1..Len(t)
      PROVE  r[Len(s) + i] = t[i]
  <2>1. /\ Len(s) + i \in 1..(Len(s) + Len(t))
        /\ ~(Len(s) + i <= Len(s)) /\ (Len(s) + i) - Len(s) = i
    BY <1>1
  <2> QED
    BY <1>2, <2>1
<1>6. r \in Seq(S) /\ Joins(r, s, t)
  BY <1>2, <1>3, <1>4, <1>5 DEF Joins
<1> QED
  BY <1>6 DEF r

\* s has the four elements of p, the one of q, those of back, the two of u and
\* the one of v.
InOrder(s, p, q, back, u, v) ==
    /\ Len(back) \in Nat /\ DOMAIN s = 1..(Len(back) + 8)
    /\ s[1] = p[1] /\ s[2] = p[2] /\ s[3] = p[3] /\ s[4] = p[4]
    /\ s[5] = q[1]
    /\ \A i \in 1..Len(back) : s[5 + i] = back[i]
    /\ s[Len(back) + 6] = u[1] /\ s[Len(back) + 7] = u[2]
    /\ s[Len(back) + 8] = v[1]

\* That is the order in which Checks puts its parts together.
LEMMA CheckOrder ==
    ASSUME NEW S, NEW p \in Seq(S), NEW q \in Seq(S), NEW back \in Seq(S),
           NEW u \in Seq(S), NEW v \in Seq(S),
           Len(p) = 4, Len(q) = 1, Len(u) = 2, Len(v) = 1
    PROVE  InOrder(((p \o (q \o back)) \o u) \o v, p, q, back, u, v)
<1>1. ASSUME NEW s, s = ((p \o (q \o back)) \o u) \o v
      PROVE  InOrder(s, p, q, back, u, v)
  <2>1. PICK n \in Nat : n = Len(back)
    BY LenProperties
  <2>2. PICK s1 : s1 = q \o back
    OBVIOUS
  <2>3. PICK s2 : s2 = p \o s1
    OBVIOUS
  <2>4. PICK s3 : s3 = s2 \o u
    OBVIOUS
  <2>5. s = s3 \o v
    BY <1>1, <2>2, <2>3, <2>4
  <2>6. /\ s1 \in Seq(S) /\ Len(s1) = 1 + n
        /\ \A i \in 1..1 : s1[i] = q[i]
        /\ \A i \in 1..n : s1[1 + i] = back[i]
    <3>1. q \in Seq(S) /\ back \in Seq(S) /\ s1 = q \o back
      BY <2>1, <2>2, Zenon
    <3>2. s1 \in Seq(S) /\ Joins(s1, q, back)
      BY <3>1, ConcatJoins, Zenon
    <3> QED
      BY <2>1, <3>2 DEF Joins
  <2>7. /\ s2 \in Seq(S) /\ Len(s2) = 4 + (1 + n)
        /\ \A i \in 1..4 : s2[i] = p[i]
        /\ \A i \in 1..(1 + n) : s2[4 + i] = s1[i]
    <3>1. p \in Seq(S) /\ s1 \in Seq(S) /\ s2 = p \o s1
      BY <2>3, <2>6, Zenon
    <3>2. s2 \in Seq(S) /\ Joins(s2, p, s1)
      BY <3>1, ConcatJoins, Zenon
    <3> QED
      BY <2>6, <3>2 DEF Joins
  <2>8. /\ s3 \in Seq(S) /\ Len(s3) = (4 + (1 + n)) + 2
        /\ \A i \in 1..(4 + (1 + n)) : s3[i] = s2[i]
        /\ \A i \in 1..2 : s3[(4 + (1 + n)) + i] = u[i]
    <3>1. s2 \in Seq(S) /\ u \in Seq(S) /\ s3 = s2 \o u
      BY <2>4, <2>7, Zenon
    <3>2. s3 \in Seq(S) /\ Joins(s3, s2, u)
      BY <3>1, ConcatJoins, Zenon
    <3> QED
      BY <2>7, <3>2 DEF Joins
  <2>9. /\ DOMAIN s = 1..(((4 + (1 + n)) + 2) + 1)
        /\ \A i \in 1..((4 + (1 + n)) + 2) : s[i] = s3[i]
        /\ \A i \in 1..1 : s[((4 + (1 + n)) + 2) + i] = v[i]
    <3>1. s3 \in Seq(S) /\ v \in Seq(S) /\ s = s3 \o v
      BY <2>5, <2>8, Zenon
    <3>2. s \in Seq(S) /\ Joins(s, s3, v)
      BY <3>1, ConcatJoins, Zenon
    <3> QED
      BY <2>8, <3>2 DEF Joins
  <2>10. ASSUME NEW i \in 1..n
         PROVE  s[5 + i] = back[i]
    <3>1. /\ 1 + i \in 1..(1 + n) /\ 4 + (1 + i) = 5 + i
          /\ 5 + i \in 1..(4 + (1 + n)) /\ 5 + i \in 1..((4 + (1 + n)) + 2)
      OBVIOUS
    <3> QED
      BY <2>6, <2>7, <2>8, <2>9, <3>1
  <2>11. ASSUME NEW i \in 1..4
         PROVE  s[i] = p[i]
    <3>1. i \in 1..(4 + (1 + n)) /\ i \in 1..((4 + (1 + n)) + 2)
      OBVIOUS
    <3> QED
      BY <2>7, <2>8, <2>9, <3>1
  <2>12. s[5] = q[1]
    <3>1. /\ 1 \in 1..1 /\ 1 \in 1..(1 + n) /\ 4 + 1 = 5
          /\ 5 \in 1..(4 + (1 + n)) /\ 5 \in 1..((4 + (1 + n)) + 2)
      OBVIOUS
    <3> QED
      BY <2>6, <2>7, <2>8, <2>9, <3>1
  <2>13. /\ s[n + 6] = u[1] /\ s[n + 7] = u[2] /\ s[n + 8] = v[1]
    <3>1. /\ (4 + (1 + n)) + 1 = n + 6 /\ (4 + (1 + n)) + 2 = n + 7
          /\ ((4 + (1 + n)) + 2) + 1 = n + 8
          /\ n + 6 \in 1..((4 + (1 + n)) + 2) /\ n + 7 \in 1..((4 + (1 + n)) + 2)
          /\ 1 \in 1..1 /\ 1 \in 1..2 /\ 2 \in 1..2
      OBVIOUS
    <3> QED
      BY <2>8, <2>9, <3>1
  <2>14. DOMAIN s = 1..(n + 8)
    <3>1. ((4 + (1 + n)) + 2) + 1 = n + 8
      OBVIOUS
    <3> QED
      BY <2>9, <3>1
  <2>15. s[1] = p[1] /\ s[2] = p[2] /\ s[3] = p[3] /\ s[4] = p[4]
    BY <2>11
  <2> QED
    BY <2>1, <2>10, <2>12, <2>13, <2>14, <2>15 DEF InOrder
<1> QED
  BY <1>1

\* Tuples as sequences.
LEMMA TupleSeq ==
    ASSUME NEW S, NEW a \in S, NEW b \in S, NEW c \in S, NEW d \in S
    PROVE  /\ <<a>> \in Seq(S) /\ Len(<<a>>) = 1
           /\ <<a, b>> \in Seq(S) /\ Len(<<a, b>>) = 2
           /\ <<a, b, c, d>> \in Seq(S) /\ Len(<<a, b, c, d>>) = 4
  OBVIOUS

\* Their elements.
LEMMA TupleElements ==
    ASSUME NEW a, NEW b, NEW c, NEW d
    PROVE  /\ <<a>>[1] = a
           /\ <<a, b>>[1] = a /\ <<a, b>>[2] = b
           /\ <<a, b, c, d>>[1] = a /\ <<a, b, c, d>>[2] = b
           /\ <<a, b, c, d>>[3] = c /\ <<a, b, c, d>>[4] = d
  OBVIOUS

\* The checks that Config does not name.
CheckDBType(raw) == [key |-> "DBTYPE", ok |-> DBTypeOf(raw) \in supportedDBTypes]
CheckPort(raw) ==
    [key |-> "DBPORT", ok |-> Given(raw, "DBPORT") /\ PositiveInt(raw["DBPORT"])]
CheckPair(raw) ==
    [key |-> "NOTIFYTARGETARN",
     ok |-> Given(raw, "NOTIFYTARGETTYPE") <=> Given(raw, "NOTIFYTARGETARN")]
CheckTarget(raw) ==
    [key |-> "NOTIFYTARGETTYPE",
     ok |-> Given(raw, "NOTIFYTARGETTYPE") =>
                ToLower(raw["NOTIFYTARGETTYPE"]) \in supportedNotifyTargetTypes]

BackendChecks(raw) ==
    IF DBTypeOf(raw) = "sqlite" THEN <<Required(raw, "DBPATH")>>
    ELSE <<Required(raw, "DBHOST"), CheckPort(raw), Required(raw, "DBUSER"),
           Required(raw, "DBNAME")>>

\* The checks by their place.
LEMMA ChecksAre ==
    ASSUME NEW raw, NEW s, s = Checks(raw), NEW n, n = Len(BackendChecks(raw))
    PROVE  /\ n \in Nat /\ DOMAIN s = 1..(n + 8)
           /\ s[1] = CheckProvider(raw) /\ s[2] = CheckPoll(raw)
           /\ s[3] = Required(raw, "AUDITLOGPATH")
           /\ s[4] = Required(raw, "CHECKPOINTBASEDIR")
           /\ s[5] = CheckDBType(raw)
           /\ \A i \in 1..n : s[5 + i] = BackendChecks(raw)[i]
           /\ s[n + 6] = CheckPair(raw) /\ s[n + 7] = CheckTarget(raw)
           /\ s[n + 8] = CheckConcurrency(raw)
<1> DEFINE S == {CheckProvider(raw), CheckPoll(raw), Required(raw, "AUDITLOGPATH"),
                 Required(raw, "CHECKPOINTBASEDIR"), CheckDBType(raw),
                 Required(raw, "DBPATH"), Required(raw, "DBHOST"), CheckPort(raw),
                 Required(raw, "DBUSER"), Required(raw, "DBNAME"), CheckPair(raw),
                 CheckTarget(raw), CheckConcurrency(raw)}
           p == <<CheckProvider(raw), CheckPoll(raw), Required(raw, "AUDITLOGPATH"),
                  Required(raw, "CHECKPOINTBASEDIR")>>
           q == <<CheckDBType(raw)>>
           back == BackendChecks(raw)
           u == <<CheckPair(raw), CheckTarget(raw)>>
           v == <<CheckConcurrency(raw)>>
<1>1. s = ((p \o (q \o back)) \o u) \o v
  BY Zenon DEF Checks, CheckDatabase, CheckNotify, BackendChecks, CheckDBType,
     CheckPort, CheckPair, CheckTarget
<1>2. /\ CheckProvider(raw) \in S /\ CheckPoll(raw) \in S
      /\ Required(raw, "AUDITLOGPATH") \in S /\ Required(raw, "CHECKPOINTBASEDIR") \in S
      /\ CheckDBType(raw) \in S /\ Required(raw, "DBPATH") \in S
      /\ Required(raw, "DBHOST") \in S /\ CheckPort(raw) \in S
      /\ Required(raw, "DBUSER") \in S /\ Required(raw, "DBNAME") \in S
      /\ CheckPair(raw) \in S /\ CheckTarget(raw) \in S /\ CheckConcurrency(raw) \in S
  OBVIOUS
<1> HIDE DEF S
<1>3. /\ p \in Seq(S) /\ Len(p) = 4
      /\ q \in Seq(S) /\ Len(q) = 1
      /\ u \in Seq(S) /\ Len(u) = 2
      /\ v \in Seq(S) /\ Len(v) = 1
  BY <1>2, TupleSeq, Zenon
<1>4. back \in Seq(S)
  <2>1. CASE DBTypeOf(raw) = "sqlite"
    BY <1>2, <2>1, TupleSeq, Zenon DEF BackendChecks
  <2>2. CASE DBTypeOf(raw) # "sqlite"
    BY <1>2, <2>2, TupleSeq, Zenon DEF BackendChecks
  <2> QED
    BY <2>1, <2>2
<1>5. /\ p[1] = CheckProvider(raw) /\ p[2] = CheckPoll(raw)
      /\ p[3] = Required(raw, "AUDITLOGPATH")
      /\ p[4] = Required(raw, "CHECKPOINTBASEDIR")
      /\ q[1] = CheckDBType(raw)
      /\ u[1] = CheckPair(raw) /\ u[2] = CheckTarget(raw)
      /\ v[1] = CheckConcurrency(raw)
  BY TupleElements, Zenon
<1> HIDE DEF p, q, back, u, v
<1>6. InOrder(s, p, q, back, u, v)
  BY <1>1, <1>3, <1>4, CheckOrder, Zenon
<1>7. n = Len(back)
  BY DEF back
<1> QED
  BY <1>5, <1>6, <1>7 DEF back, InOrder

\* A membership is a truth value.
LEMMA MemberBoolean ==
    ASSUME NEW x, NEW S
    PROVE  (x \in S) \in BOOLEAN
<1>1. CASE x \in S
  BY <1>1
<1>2. CASE ~(x \in S)
  BY <1>2
<1> QED
  BY <1>1, <1>2

\* What a check asks for.
ProviderOK(raw) ==
    /\ Given(raw, "CLOUDPROVIDER")
    /\ ToLower(raw["CLOUDPROVIDER"]) \in
            knownCloudProviderNames \cap supportedCloudProviders
PollOK(raw) ==
    Given(raw, "POLLINTERVALSECONDS") /\ PositiveInt(raw["POLLINTERVALSECONDS"])
DBTypeOK(raw) == DBTypeOf(raw) \in supportedDBTypes
PortOK(raw) == Given(raw, "DBPORT") /\ PositiveInt(raw["DBPORT"])
PairOK(raw) == Given(raw, "NOTIFYTARGETTYPE") <=> Given(raw, "NOTIFYTARGETARN")
TargetOK(raw) ==
    Given(raw, "NOTIFYTARGETTYPE") =>
        ToLower(raw["NOTIFYTARGETTYPE"]) \in supportedNotifyTargetTypes
SlotsOK(raw) ==
    Given(raw, "MAXCONCURRENTCHECKPOINTS") =>
        PositiveInt(raw["MAXCONCURRENTCHECKPOINTS"])

\* The records that validate's checks are, read as what they ask for.
LEMMA CheckMeanings ==
    ASSUME NEW raw
    PROVE  /\ CheckProvider(raw).ok <=> ProviderOK(raw)
           /\ CheckProvider(raw).key = "CLOUDPROVIDER"
           /\ CheckPoll(raw).ok <=> PollOK(raw)
           /\ CheckPoll(raw).key = "POLLINTERVALSECONDS"
           /\ \A k : (Required(raw, k).ok <=> Given(raw, k)) /\ Required(raw, k).key = k
           /\ CheckDBType(raw).ok <=> DBTypeOK(raw)
           /\ CheckDBType(raw).key = "DBTYPE"
           /\ CheckPort(raw).ok <=> PortOK(raw)
           /\ CheckPort(raw).key = "DBPORT"
           /\ CheckPair(raw).ok <=> PairOK(raw)
           /\ CheckPair(raw).key = "NOTIFYTARGETARN"
           /\ CheckTarget(raw).ok <=> TargetOK(raw)
           /\ CheckTarget(raw).key = "NOTIFYTARGETTYPE"
           /\ CheckConcurrency(raw).ok <=> SlotsOK(raw)
           /\ CheckConcurrency(raw).key = "MAXCONCURRENTCHECKPOINTS"
<1>1. /\ ProviderOK(raw) \in BOOLEAN /\ PollOK(raw) \in BOOLEAN
      /\ PortOK(raw) \in BOOLEAN /\ PairOK(raw) \in BOOLEAN
      /\ TargetOK(raw) \in BOOLEAN /\ SlotsOK(raw) \in BOOLEAN
  BY Zenon DEF ProviderOK, PollOK, PortOK, PairOK, TargetOK, SlotsOK
<1>2. DBTypeOK(raw) \in BOOLEAN
  BY MemberBoolean, Zenon DEF DBTypeOK
<1>3. \A k : Given(raw, k) \in BOOLEAN
  BY MemberBoolean, Zenon DEF Given
<1>4. /\ CheckProvider(raw) = [key |-> "CLOUDPROVIDER", ok |-> ProviderOK(raw)]
      /\ CheckPoll(raw) = [key |-> "POLLINTERVALSECONDS", ok |-> PollOK(raw)]
      /\ \A k : Required(raw, k) = [key |-> k, ok |-> Given(raw, k)]
      /\ CheckDBType(raw) = [key |-> "DBTYPE", ok |-> DBTypeOK(raw)]
      /\ CheckPort(raw) = [key |-> "DBPORT", ok |-> PortOK(raw)]
      /\ CheckPair(raw) = [key |-> "NOTIFYTARGETARN", ok |-> PairOK(raw)]
      /\ CheckTarget(raw) = [key |-> "NOTIFYTARGETTYPE", ok |-> TargetOK(raw)]
      /\ CheckConcurrency(raw) =
            [key |-> "MAXCONCURRENTCHECKPOINTS", ok |-> SlotsOK(raw)]
  BY Zenon DEF CheckProvider, CheckPoll, Required, CheckDBType, CheckPort, CheckPair,
     CheckTarget, CheckConcurrency, ProviderOK, PollOK, DBTypeOK, PortOK, PairOK,
     TargetOK, SlotsOK
<1>5. /\ CheckProvider(raw).ok <=> ProviderOK(raw)
      /\ CheckProvider(raw).key = "CLOUDPROVIDER"
  BY <1>1, <1>2, <1>4
<1>6. /\ CheckPoll(raw).ok <=> PollOK(raw)
      /\ CheckPoll(raw).key = "POLLINTERVALSECONDS"
  BY <1>1, <1>2, <1>4
<1>7. /\ CheckDBType(raw).ok <=> DBTypeOK(raw)
      /\ CheckDBType(raw).key = "DBTYPE"
  BY <1>1, <1>2, <1>4
<1>8. /\ CheckPort(raw).ok <=> PortOK(raw)
      /\ CheckPort(raw).key = "DBPORT"
  BY <1>1, <1>2, <1>4
<1>9. /\ CheckPair(raw).ok <=> PairOK(raw)
      /\ CheckPair(raw).key = "NOTIFYTARGETARN"
  BY <1>1, <1>2, <1>4
<1>10. /\ CheckTarget(raw).ok <=> TargetOK(raw)
       /\ CheckTarget(raw).key = "NOTIFYTARGETTYPE"
  BY <1>1, <1>2, <1>4
<1>11. /\ CheckConcurrency(raw).ok <=> SlotsOK(raw)
       /\ CheckConcurrency(raw).key = "MAXCONCURRENTCHECKPOINTS"
  BY <1>1, <1>2, <1>4
<1>12. ASSUME NEW k
       PROVE  (Required(raw, k).ok <=> Given(raw, k)) /\ Required(raw, k).key = k
  BY <1>3, <1>4
<1> QED
  BY <1>5, <1>6, <1>7, <1>8, <1>9, <1>10, <1>11, <1>12, Zenon

\* The verdict of validate.
LEMMA ValidateVerdict ==
    ASSUME NEW raw
    PROVE  /\ validate(raw).ok <=> \A i \in DOMAIN Checks(raw) : Checks(raw)[i].ok
           /\ validate(raw).ok => validate(raw) = [ok |-> TRUE, cfg |-> Settings(raw)]
           /\ ~validate(raw).ok =>
                \E i \in DOMAIN Checks(raw) :
                    /\ ~Checks(raw)[i].ok /\ validate(raw).blame = Checks(raw)[i].key
                    /\ \A j \in DOMAIN Checks(raw) : j < i => Checks(raw)[j].ok
<1> DEFINE s == Checks(raw)
           failed == {i \in DOMAIN s : ~s[i].ok}
<1>1. PICK n \in Nat : DOMAIN s = 1..n
  <2>1. PICK m \in Nat : DOMAIN s = 1..(m + 8)
    BY ChecksAre
  <2> QED
    BY <2>1
<1>2. CASE failed = {}
  <2>1. validate(raw) = [ok |-> TRUE, cfg |-> Settings(raw)]
    BY <1>2 DEF validate
  <2>2. \A i \in DOMAIN s : s[i].ok
    BY <1>2
  <2> QED
    BY <2>1, <2>2
<1>3. CASE failed # {}
  <2>1. validate(raw) = Rejected(s[Min(failed)].key)
    BY <1>3 DEF validate
  <2>2. validate(raw).ok = FALSE /\ validate(raw).blame = s[Min(failed)].key
    BY <2>1 DEF Rejected
  <2>3. failed \in SUBSET (1..n)
    BY <1>1
  <2>4. Min(failed) \in failed /\ \A y \in failed : Min(failed) <= y
    BY <1>3, <2>3, MinIndex
  <2>5. ASSUME NEW j \in DOMAIN s, j < Min(failed)
        PROVE  s[j].ok
    <3>1. PICK m : m = Min(failed)
      OBVIOUS
    <3>2. m \in 1..n /\ j \in 1..n /\ j < m /\ \A y \in failed : m <= y
      BY <1>1, <2>3, <2>4, <2>5, <3>1
    <3>3. j \notin failed
      BY <3>2
    <3> QED
      BY <3>3, Zenon
  <2> QED
    BY <2>2, <2>4, <2>5
<1> QED
  BY <1>2, <1>3

\* What validate accepts.
Acceptable(raw) ==
    /\ ProviderOK(raw) /\ PollOK(raw)
    /\ Given(raw, "AUDITLOGPATH") /\ Given(raw, "CHECKPOINTBASEDIR")
    /\ DBTypeOK(raw)
    /\ IF DBTypeOf(raw) = "sqlite" THEN Given(raw, "DBPATH")
       ELSE /\ Given(raw, "DBHOST") /\ PortOK(raw)
            /\ Given(raw, "DBUSER") /\ Given(raw, "DBNAME")
    /\ PairOK(raw) /\ TargetOK(raw) /\ SlotsOK(raw)

\* What it may blame.
Blamed(raw, k) ==
    \/ k = "CLOUDPROVIDER" /\ ~ProviderOK(raw)
    \/ k = "POLLINTERVALSECONDS" /\ ~PollOK(raw)
    \/ k \in {"AUDITLOGPATH", "CHECKPOINTBASEDIR"} /\ ~Given(raw, k)
    \/ k = "DBTYPE" /\ ~DBTypeOK(raw)
    \/ /\ DBTypeOf(raw) = "sqlite"
       /\ k = "DBPATH" /\ ~Given(raw, k)
    \/ /\ DBTypeOK(raw) /\ DBTypeOf(raw) # "sqlite"
       /\ \/ k \in {"DBHOST", "DBUSER", "DBNAME"} /\ ~Given(raw, k)
          \/ k = "DBPORT" /\ ~PortOK(raw)
    \/ k = "NOTIFYTARGETARN" /\ ~PairOK(raw)
    \/ k = "NOTIFYTARGETTYPE" /\ ~TargetOK(raw)
    \/ k = "MAXCONCURRENTCHECKPOINTS" /\ ~SlotsOK(raw)

\* The backend's checks by their place.
LEMMA BackendAre ==
    ASSUME NEW raw
    PROVE  /\ DBTypeOf(raw) = "sqlite" =>
                /\ Len(BackendChecks(raw)) = 1
                /\ BackendChecks(raw)[1] = Required(raw, "DBPATH")
           /\ DBTypeOf(raw) # "sqlite" =>
                /\ Len(BackendChecks(raw)) = 4
                /\ BackendChecks(raw)[1] = Required(raw, "DBHOST")
                /\ BackendChecks(raw)[2] = CheckPort(raw)
                /\ BackendChecks(raw)[3] = Required(raw, "DBUSER")
                /\ BackendChecks(raw)[4] = Required(raw, "DBNAME")
  BY DEF BackendChecks

\* validate accepts when every check passes.
LEMMA ValidateAccepts ==
    ASSUME NEW raw
    PROVE  validate(raw).ok <=> Acceptable(raw)
<1> DEFINE s == Checks(raw)
           back == BackendChecks(raw)
<1>1. PICK n \in Nat :
        /\ n = Len(back) /\ DOMAIN s = 1..(n + 8)
        /\ s[1] = CheckProvider(raw) /\ s[2] = CheckPoll(raw)
        /\ s[3] = Required(raw, "AUDITLOGPATH")
        /\ s[4] = Required(raw, "CHECKPOINTBASEDIR")
        /\ s[5] = CheckDBType(raw)
        /\ \A i \in 1..n : s[5 + i] = back[i]
        /\ s[n + 6] = CheckPair(raw) /\ s[n + 7] = CheckTarget(raw)
        /\ s[n + 8] = CheckConcurrency(raw)
  BY ChecksAre, Zenon
<1>2. validate(raw).ok <=> \A i \in DOMAIN s : s[i].ok
  BY ValidateVerdict
<1> HIDE DEF s, back
<1>3. (\A i \in DOMAIN s : s[i].ok) <=>
        /\ s[1].ok /\ s[2].ok /\ s[3].ok /\ s[4].ok /\ s[5].ok
        /\ \A i \in 1..n : back[i].ok
        /\ s[n + 6].ok /\ s[n + 7].ok /\ s[n + 8].ok
  <2>1. ASSUME \A i \in DOMAIN s : s[i].ok
        PROVE  /\ s[1].ok /\ s[2].ok /\ s[3].ok /\ s[4].ok /\ s[5].ok
               /\ \A i \in 1..n : back[i].ok
               /\ s[n + 6].ok /\ s[n + 7].ok /\ s[n + 8].ok
    <3>1. /\ {1, 2, 3, 4, 5} \subseteq DOMAIN s
          /\ n + 6 \in DOMAIN s /\ n + 7 \in DOMAIN s /\ n + 8 \in DOMAIN s
          /\ \A i \in 1..n : 5 + i \in DOMAIN s
      BY <1>1
    <3> QED
      BY <1>1, <2>1, <3>1
  <2>2. ASSUME s[1].ok, s[2].ok, s[3].ok, s[4].ok, s[5].ok,
               \A i \in 1..n : back[i].ok,
               s[n + 6].ok, s[n + 7].ok, s[n + 8].ok,
               NEW i \in DOMAIN s
        PROVE  s[i].ok
    <3>1. CASE i \in 6..(n + 5)
      <4>1. i - 5 \in 1..n /\ 5 + (i - 5) = i
        BY <3>1
      <4> QED
        BY <1>1, <2>2, <4>1
    <3>2. CASE i \notin 6..(n + 5)
      <4>1. i \in {1, 2, 3, 4, 5, n + 6, n + 7, n + 8}
        BY <1>1, <3>2
      <4> QED
        BY <2>2, <4>1
    <3> QED
      BY <3>1, <3>2
  <2> QED
    BY <2>1, <2>2, Zenon
<1>4. /\ s[1].ok <=> ProviderOK(raw)
      /\ s[2].ok <=> PollOK(raw)
      /\ s[3].ok <=> Given(raw, "AUDITLOGPATH")
      /\ s[4].ok <=> Given(raw, "CHECKPOINTBASEDIR")
      /\ s[5].ok <=> DBTypeOK(raw)
      /\ s[n + 6].ok <=> PairOK(raw)
      /\ s[n + 7].ok <=> TargetOK(raw)
      /\ s[n + 8].ok <=> SlotsOK(raw)
  BY <1>1, CheckMeanings
<1>5. (\A i \in 1..n : back[i].ok) <=>
        IF DBTypeOf(raw) = "sqlite" THEN Given(raw, "DBPATH")
        ELSE /\ Given(raw, "DBHOST") /\ PortOK(raw)
             /\ Given(raw, "DBUSER") /\ Given(raw, "DBNAME")
  <2>1. CASE DBTypeOf(raw) = "sqlite"
    <3>1. n = 1 /\ back[1] = Required(raw, "DBPATH")
      BY <1>1, <2>1, BackendAre DEF back
    <3>2. back[1].ok <=> Given(raw, "DBPATH")
      BY <3>1, CheckMeanings
    <3>3. (\A i \in 1..n : back[i].ok) <=> back[1].ok
      BY <3>1
    <3> QED
      BY <2>1, <3>2, <3>3, Zenon
  <2>2. CASE DBTypeOf(raw) # "sqlite"
    <3>1. /\ n = 4 /\ back[1] = Required(raw, "DBHOST") /\ back[2] = CheckPort(raw)
          /\ back[3] = Required(raw, "DBUSER") /\ back[4] = Required(raw, "DBNAME")
      BY <1>1, <2>2, BackendAre DEF back
    <3>2. /\ back[1].ok <=> Given(raw, "DBHOST")
          /\ back[2].ok <=> PortOK(raw)
          /\ back[3].ok <=> Given(raw, "DBUSER")
          /\ back[4].ok <=> Given(raw, "DBNAME")
      BY <3>1, CheckMeanings
    <3>3. (\A i \in 1..n : back[i].ok) <=>
            back[1].ok /\ back[2].ok /\ back[3].ok /\ back[4].ok
      BY <3>1
    <3> QED
      BY <2>2, <3>2, <3>3, Zenon
  <2> QED
    BY <2>1, <2>2, Zenon
<1> QED
  BY <1>2, <1>3, <1>4, <1>5, Zenon DEF Acceptable

\* A directive that validate blames fails its own check; DBTYPE is checked before
\* the directives of mysql, which an unsupported type does not need.
LEMMA ValidateBlames ==
    ASSUME NEW raw, ~validate(raw).ok
    PROVE  Blamed(raw, validate(raw).blame)
<1> DEFINE s == Checks(raw)
           back == BackendChecks(raw)
<1>1. PICK n \in Nat :
        /\ n = Len(back) /\ DOMAIN s = 1..(n + 8)
        /\ s[1] = CheckProvider(raw) /\ s[2] = CheckPoll(raw)
        /\ s[3] = Required(raw, "AUDITLOGPATH")
        /\ s[4] = Required(raw, "CHECKPOINTBASEDIR")
        /\ s[5] = CheckDBType(raw)
        /\ \A i \in 1..n : s[5 + i] = back[i]
        /\ s[n + 6] = CheckPair(raw) /\ s[n + 7] = CheckTarget(raw)
        /\ s[n + 8] = CheckConcurrency(raw)
  BY ChecksAre, Zenon
<1>2. PICK i \in DOMAIN s :
        /\ ~s[i].ok /\ validate(raw).blame = s[i].key
        /\ \A j \in DOMAIN s : j < i => s[j].ok
  BY ValidateVerdict, Zenon
<1> DEFINE k == validate(raw).blame
<1> HIDE DEF s, back, k
<1>3. k = s[i].key
  BY <1>2 DEF k
<1>4. CASE i \in 6..(n + 5)
  <2>1. i - 5 \in 1..n /\ 5 + (i - 5) = i
    BY <1>4
  <2>2. s[i] = back[i - 5]
    BY <1>1, <2>1
  <2>3. 5 \in DOMAIN s /\ 5 < i
    BY <1>1, <1>4
  <2>4. DBTypeOK(raw)
    BY <1>1, <1>2, <2>3, CheckMeanings
  <2>5. CASE DBTypeOf(raw) = "sqlite"
    <3>1. n = 1 /\ back[1] = Required(raw, "DBPATH")
      BY <1>1, <2>5, BackendAre DEF back
    <3>2. s[i] = Required(raw, "DBPATH")
      <4>1. i - 5 = 1
        BY <2>1, <3>1
      <4> QED
        BY <2>2, <3>1, <4>1
    <3>3. k = "DBPATH" /\ ~Given(raw, "DBPATH")
      BY <1>2, <1>3, <3>2, CheckMeanings
    <3> QED
      BY <2>5, <3>3, Zenon DEF Blamed, k
  <2>6. CASE DBTypeOf(raw) # "sqlite"
    <3>1. /\ n = 4 /\ back[1] = Required(raw, "DBHOST") /\ back[2] = CheckPort(raw)
          /\ back[3] = Required(raw, "DBUSER") /\ back[4] = Required(raw, "DBNAME")
      BY <1>1, <2>6, BackendAre DEF back
    <3>2. i - 5 \in {1, 2, 3, 4}
      BY <2>1, <3>1
    <3>3. \/ s[i] = CheckPort(raw)
          \/ \E x \in {"DBHOST", "DBUSER", "DBNAME"} : s[i] = Required(raw, x)
      BY <2>2, <3>1, <3>2
    <3>4. CASE s[i] = CheckPort(raw)
      <4>1. k = "DBPORT" /\ ~PortOK(raw)
        BY <1>2, <1>3, <3>4, CheckMeanings
      <4> QED
        BY <2>4, <2>6, <4>1, Zenon DEF Blamed, k
    <3>5. CASE \E x \in {"DBHOST", "DBUSER", "DBNAME"} : s[i] = Required(raw, x)
      <4>1. PICK x \in {"DBHOST", "DBUSER", "DBNAME"} : s[i] = Required(raw, x)
        BY <3>5
      <4>2. k = x /\ ~Given(raw, x)
        BY <1>2, <1>3, <4>1, CheckMeanings
      <4> QED
        BY <2>4, <2>6, <4>2, Zenon DEF Blamed, k
    <3> QED
      BY <3>3, <3>4, <3>5
  <2> QED
    BY <2>5, <2>6
<1>5. CASE i \notin 6..(n + 5)
  <2>1. i \in {1, 2, 3, 4, 5, n + 6, n + 7, n + 8}
    BY <1>1, <1>5
  <2>2. \/ k = "CLOUDPROVIDER" /\ ~ProviderOK(raw)
        \/ k = "POLLINTERVALSECONDS" /\ ~PollOK(raw)
        \/ k \in {"AUDITLOGPATH", "CHECKPOINTBASEDIR"} /\ ~Given(raw, k)
        \/ k = "DBTYPE" /\ ~DBTypeOK(raw)
        \/ k = "NOTIFYTARGETARN" /\ ~PairOK(raw)
        \/ k = "NOTIFYTARGETTYPE" /\ ~TargetOK(raw)
        \/ k = "MAXCONCURRENTCHECKPOINTS" /\ ~SlotsOK(raw)
    BY <1>1, <1>2, <1>3, <2>1, CheckMeanings
  <2> QED
    BY <2>2, Zenon DEF Blamed, k
<1> QED
  BY <1>4, <1>5

-----------------------------------------------------------------------------
(* The table of directives                                                  *)

\* What the lower-casing of names does to the values of a file.
LEMMA FoldedFacts ==
    ASSUME NEW raw
    PROVE  /\ DOMAIN Folded(raw) = DOMAIN raw
           /\ \A k \in {"CLOUDPROVIDER", "DBTYPE", "NOTIFYTARGETTYPE"} :
                k \in DOMAIN raw => Folded(raw)[k] = ToLower(raw[k])
           /\ \A k \in {"POLLINTERVALSECONDS", "MAXCONCURRENTCHECKPOINTS", "DBPORT"} :
                k \in DOMAIN raw => Folded(raw)[k] = raw[k]
  BY DEF Folded

\* What is blamed is wrong by the table, once the names are lower-cased.
LEMMA BlamedIsWrong ==
    ASSUME NEW raw, NEW k, Blamed(raw, k)
    PROVE  k \in Wrong(Folded(raw))
<1> DEFINE f == Folded(raw)
<1>0. /\ DOMAIN f = DOMAIN raw
      /\ \A i \in {"CLOUDPROVIDER", "DBTYPE", "NOTIFYTARGETTYPE"} :
            i \in DOMAIN raw => f[i] = ToLower(raw[i])
      /\ \A i \in {"POLLINTERVALSECONDS", "MAXCONCURRENTCHECKPOINTS", "DBPORT"} :
            i \in DOMAIN raw => f[i] = raw[i]
  BY FoldedFacts
<1> HIDE DEF f
<1> USE <1>0 DEF Given
<1>1. CASE k = "CLOUDPROVIDER" /\ ~ProviderOK(raw)
  <2>1. k \in Wrong(f)
    BY <1>1 DEF ProviderOK, Wrong, knownCloudProviderNames, supportedCloudProviders
  <2> QED
    BY <2>1 DEF f
<1>2. CASE k = "POLLINTERVALSECONDS" /\ ~PollOK(raw)
  <2>1. k \in Wrong(f)
    BY <1>2 DEF PollOK, Wrong
  <2> QED
    BY <2>1 DEF f
<1>3. CASE k \in {"AUDITLOGPATH", "CHECKPOINTBASEDIR"} /\ ~Given(raw, k)
  <2>1. k \in Wrong(f)
    BY <1>3 DEF Wrong
  <2> QED
    BY <2>1 DEF f
<1>4. CASE k = "DBTYPE" /\ ~DBTypeOK(raw)
  <2>1. k \in Wrong(f)
    BY <1>4 DEF DBTypeOK, DBTypeOf, Wrong, supportedDBTypes
  <2> QED
    BY <2>1 DEF f
<1>5. CASE DBTypeOf(raw) = "sqlite" /\ k = "DBPATH" /\ ~Given(raw, k)
  <2>1. k \in Wrong(f)
    BY <1>5 DEF DBTypeOf, Wrong
  <2> QED
    BY <2>1 DEF f
<1>6. CASE /\ DBTypeOK(raw) /\ DBTypeOf(raw) # "sqlite"
           /\ \/ k \in {"DBHOST", "DBUSER", "DBNAME"} /\ ~Given(raw, k)
              \/ k = "DBPORT" /\ ~PortOK(raw)
  <2>1. k \in Wrong(f)
    BY <1>6 DEF DBTypeOK, DBTypeOf, PortOK, Wrong, supportedDBTypes
  <2> QED
    BY <2>1 DEF f
<1>7. CASE k = "NOTIFYTARGETARN" /\ ~PairOK(raw)
  <2>1. k \in Wrong(f)
    BY <1>7 DEF PairOK, Wrong
  <2> QED
    BY <2>1 DEF f
<1>8. CASE k = "NOTIFYTARGETTYPE" /\ ~TargetOK(raw)
  <2>1. k \in Wrong(f)
    BY <1>8 DEF TargetOK, Wrong, supportedNotifyTargetTypes
  <2> QED
    BY <2>1 DEF f
<1>9. CASE k = "MAXCONCURRENTCHECKPOINTS" /\ ~SlotsOK(raw)
  <2>1. k \in Wrong(f)
    BY <1>9 DEF SlotsOK, Wrong
  <2> QED
    BY <2>1 DEF f
<1> QED
  BY <1>1, <1>2, <1>3, <1>4, <1>5, <1>6, <1>7, <1>8, <1>9, Zenon DEF Blamed

\* Nothing is wrong with what validate accepts, and something is with the rest.
LEMMA AcceptableIsRight ==
    ASSUME NEW raw
    PROVE  Acceptable(raw) <=> Wrong(Folded(raw)) = {}
<1>1. ASSUME ~Acceptable(raw)
      PROVE  \E k : Blamed(raw, k)
  BY <1>1, Zenon DEF Acceptable, Blamed
<1>2. ASSUME ~Acceptable(raw)
      PROVE  Wrong(Folded(raw)) # {}
  BY <1>1, <1>2, BlamedIsWrong
<1>3. ASSUME Acceptable(raw), NEW k \in Wrong(Folded(raw))
      PROVE  FALSE
  <2> DEFINE f == Folded(raw)
  <2>1. /\ DOMAIN f = DOMAIN raw
        /\ \A i \in {"CLOUDPROVIDER", "DBTYPE", "NOTIFYTARGETTYPE"} :
              i \in DOMAIN raw => f[i] = ToLower(raw[i])
        /\ \A i \in {"POLLINTERVALSECONDS", "MAXCONCURRENTCHECKPOINTS", "DBPORT"} :
              i \in DOMAIN raw => f[i] = raw[i]
    BY FoldedFacts
  <2>2. k \in Wrong(f)
    BY <1>3
  <2> HIDE DEF f
  <2> QED
    BY <1>3, <2>1, <2>2
       DEF Acceptable, Given, ProviderOK, PollOK, DBTypeOK, DBTypeOf, PortOK, PairOK,
           TargetOK, SlotsOK, Wrong, knownCloudProviderNames,
           supportedCloudProviders, supportedDBTypes, supportedNotifyTargetTypes
<1> QED
  BY <1>2, <1>3

\* Lower-casing leaves the names of the table as they are.
LEMMA TableIsFolded ==
    ASSUME NEW lines, Wrong(LastValues(lines)) = {}
    PROVE  Folded(LastValues(lines)) = LastValues(lines)
<1>1. \A v \in {"aws", "sqlite", "mysql", "lambda", "stepfunction"} : ToLower(v) = v
  BY DEF ToLower, Lowercase
<1> DEFINE last == LastValues(lines)
<1>2. last = [k \in DOMAIN last |-> last[k]]
  BY DEF LastValues
<1> HIDE DEF last
<1>3. Wrong(last) = {}
  BY DEF last
<1>4. \A k \in {"CLOUDPROVIDER", "DBTYPE", "NOTIFYTARGETTYPE"} :
        k \in DOMAIN last =>
            last[k] \in {"aws", "sqlite", "mysql", "lambda", "stepfunction"}
  BY <1>3 DEF Wrong
<1>5. Folded(last) = last
  BY <1>1, <1>2, <1>4 DEF Folded
<1> QED
  BY <1>5 DEF last

\* What validate has looked at when it accepts.
LEMMA ValidateChecks ==
    ASSUME NEW raw, validate(raw).ok
    PROVE  /\ validate(raw).cfg = Settings(raw)
           /\ Given(raw, "CLOUDPROVIDER")
           /\ ToLower(raw["CLOUDPROVIDER"]) = "aws"
           /\ PositiveInt(raw["POLLINTERVALSECONDS"])
           /\ DBTypeOf(raw) \in supportedDBTypes
           /\ DBTypeOf(raw) = "mysql" => PositiveInt(raw["DBPORT"])
           /\ Given(raw, "NOTIFYTARGETTYPE") =>
                ToLower(raw["NOTIFYTARGETTYPE"]) \in supportedNotifyTargetTypes
           /\ Given(raw, "MAXCONCURRENTCHECKPOINTS") =>
                PositiveInt(raw["MAXCONCURRENTCHECKPOINTS"])
<1>1. validate(raw) = [ok |-> TRUE, cfg |-> Settings(raw)]
  BY ValidateVerdict
<1>2. Acceptable(raw)
  BY ValidateAccepts
<1> QED
  BY <1>1, <1>2
     DEF Acceptable, ProviderOK, PollOK, DBTypeOK, PortOK, TargetOK, SlotsOK,
         knownCloudProviderNames, supportedCloudProviders, supportedDBTypes

\* strconv.Atoi of a text that passed for a positive number.
LEMMA AtoiPositive ==
    ASSUME NEW text, PositiveInt(text)
    PROVE  Atoi(text) \in 1..MaxInt
<1>1. \E n \in MinInt..MaxInt : ToString(n) = text
  BY DEF PositiveInt, IsInt
<1>2. Atoi(text) \in MinInt..MaxInt
  BY <1>1 DEF Atoi
<1> QED
  BY <1>2, WordAssumption DEF PositiveInt, MinInt

\* Two's complement yields an integer.
LEMMA WrapInt ==
    ASSUME NEW n \in Int
    PROVE  Wrap(n) \in Int
<1>1. MinInt \in Int /\ 2 * (MaxInt + 1) \in Nat \ {0}
  BY WordAssumption DEF MinInt
<1>2. (n - MinInt) % (2 * (MaxInt + 1)) \in Int
  BY <1>1
<1> QED
  BY <1>1, <1>2 DEF Wrap

\* What is in range stays what it is.
LEMMA WrapInRange ==
    ASSUME NEW n \in 0..MaxInt
    PROVE  Wrap(n) = n
<1> DEFINE a == n - MinInt
           b == 2 * (MaxInt + 1)
<1>1. a \in Nat /\ b \in Nat \ {0} /\ a < b /\ a + MinInt = n
  BY WordAssumption DEF MinInt
<1>2. Wrap(n) = (a % b) + MinInt
  BY DEF Wrap
<1> HIDE DEF a, b
<1>3. a % b = a
  BY <1>1
<1> QED
  BY <1>1, <1>2, <1>3

\* What the settings of a file with these values are to those who use them.
Ready(raw, c) ==
    /\ c.CloudProvider = "aws"
    /\ c.DBType \in {"sqlite", "mysql"}
    /\ PollerInterval(c.PollInterval) > 0
    /\ Atoi(raw["POLLINTERVALSECONDS"]) * Second <= MaxInt =>
        PollerInterval(c.PollInterval) = Atoi(raw["POLLINTERVALSECONDS"]) * Second
    /\ CheckpointSlots(c.MaxConcurrentCheckpoints) =
        IF "MAXCONCURRENTCHECKPOINTS" \in DOMAIN raw
        THEN Atoi(raw["MAXCONCURRENTCHECKPOINTS"]) ELSE NumCPU
    /\ c.NotifyTargetType \in {"", "lambda", "stepfunction"}
    /\ (c.DBPort \in 1..MaxInt) <=> c.DBType = "mysql"

\* validate accepts nothing else, whatever was in the file.
LEMMA ValidateReady ==
    ASSUME NEW raw, validate(raw).ok
    PROVE  Ready(raw, validate(raw).cfg)
<1> DEFINE c == Settings(raw)
<1> USE ValidateChecks
<1>1. c.CloudProvider = "aws"
  BY DEF Settings
<1>2. c.DBType = DBTypeOf(raw) /\ c.DBType \in {"sqlite", "mysql"}
  BY DEF Settings, supportedDBTypes
<1> DEFINE asked == Atoi(raw["POLLINTERVALSECONDS"]) * Second
<1>3. /\ PollerInterval(c.PollInterval) > 0
      /\ asked <= MaxInt => PollerInterval(c.PollInterval) = asked
  <2>1. asked \in Int /\ asked > 0
    <3>1. Atoi(raw["POLLINTERVALSECONDS"]) \in Nat \ {0} /\ Second \in Nat \ {0}
      BY AtoiPositive, WordAssumption
    <3>2. \A i, j \in Nat \ {0} : i * j \in Int /\ i * j > 0
      OBVIOUS
    <3> QED
      BY <3>1, <3>2
  <2>2. c.PollInterval = Wrap(asked)
    BY DEF Settings
  <2> HIDE DEF c, asked
  <2>3. c.PollInterval \in Int
    BY <2>1, <2>2, WrapInt
  <2>4. asked <= MaxInt => c.PollInterval = asked
    BY <2>1, <2>2, WrapInRange, WordAssumption
  <2> QED
    BY <2>1, <2>3, <2>4, WordAssumption DEF PollerInterval
<1>4. CheckpointSlots(c.MaxConcurrentCheckpoints) =
        IF "MAXCONCURRENTCHECKPOINTS" \in DOMAIN raw
        THEN Atoi(raw["MAXCONCURRENTCHECKPOINTS"]) ELSE NumCPU
  <2>1. c.MaxConcurrentCheckpoints = IntOf(raw, "MAXCONCURRENTCHECKPOINTS")
    BY DEF Settings
  <2> HIDE DEF c
  <2>2. CASE Given(raw, "MAXCONCURRENTCHECKPOINTS")
    <3>1. Atoi(raw["MAXCONCURRENTCHECKPOINTS"]) \in 1..MaxInt
      BY <2>2, AtoiPositive
    <3> QED
      BY <2>1, <2>2, <3>1, WordAssumption DEF IntOf, CheckpointSlots, Given
  <2>3. CASE ~Given(raw, "MAXCONCURRENTCHECKPOINTS")
    BY <2>1, <2>3 DEF IntOf, CheckpointSlots, Given
  <2> QED
    BY <2>2, <2>3
<1>5. c.NotifyTargetType \in {"", "lambda", "stepfunction"}
  <2>1. c.NotifyTargetType = ToLower(Lookup(raw, "NOTIFYTARGETTYPE"))
    BY DEF Settings
  <2>2. CASE Given(raw, "NOTIFYTARGETTYPE")
    BY <2>1, <2>2 DEF Lookup, supportedNotifyTargetTypes
  <2>3. CASE ~Given(raw, "NOTIFYTARGETTYPE")
    <3>1. ToLower("") = ""
      BY DEF ToLower, Lowercase
    <3> QED
      BY <2>1, <2>3, <3>1 DEF Lookup
  <2> QED
    BY <2>2, <2>3
<1>6. c.DBPort = IF c.DBType = "mysql" THEN Atoi(raw["DBPORT"]) ELSE 0
  BY <1>2 DEF Settings, DBPortOf
<1>7. (c.DBPort \in 1..MaxInt) <=> c.DBType = "mysql"
  <2>1. CASE c.DBType = "mysql"
    BY <1>2, <1>6, <2>1, AtoiPositive
  <2>2. CASE c.DBType # "mysql"
    BY <1>6, <2>2, WordAssumption
  <2> QED
    BY <2>1, <2>2
<1> QED
  BY <1>1, <1>2, <1>3, <1>4, <1>5, <1>7 DEF Ready

-----------------------------------------------------------------------------
(* Load                                                                     *)

Readable(lines) == \A i \in DOMAIN lines : ~Unreadable(lines[i])

\* In a readable file what is no comment gives a directive.
LEMMA ReadableGives ==
    ASSUME NEW lines \in Seq(Line), Readable(lines)
    PROVE  GivenIn(lines, DOMAIN lines) = Directives(lines)
<1>1. ASSUME NEW i \in DOMAIN lines
      PROVE  lines[i].kind # "comment" <=> lines[i].kind = "directive"
  <2>1. lines[i] \in Line
    OBVIOUS
  <2>2. lines[i].kind \in {"comment", "directive", "junk"}
    BY <2>1 DEF Line
  <2>3. lines[i].kind # "junk"
    BY DEF Readable, Unreadable
  <2> QED
    BY <2>2, <2>3
<1> QED
  BY <1>1 DEF GivenIn, Directives

\* The fold over a readable file has the last value of each directive.
LEMMA ReadLinesLast ==
    ASSUME NEW lines \in Seq(Line), Readable(lines)
    PROVE  ReadLines(lines) = LastValues(lines)
<1>1. GivenIn(lines, DOMAIN lines) = Directives(lines)
  BY ReadableGives
<1> DEFINE LastAmong(given) ==
            [k \in {KeyAt(lines, i) : i \in given} |->
                lines[CHOOSE i \in given :
                        /\ KeyAt(lines, i) = k
                        /\ \A j \in given : KeyAt(lines, j) = k => j <= i].value]
<1>2. ReadIn(lines, DOMAIN lines) = LastValues(lines)
  <2>1. ReadIn(lines, DOMAIN lines) = LastAmong(GivenIn(lines, DOMAIN lines))
    BY DEF ReadIn, LastIn
  <2>2. LastValues(lines) = LastAmong(Directives(lines))
    BY DEF LastValues
  <2> HIDE DEF LastAmong
  <2> QED
    BY <1>1, <2>1, <2>2
<1> QED
  BY <1>2, ReadLinesAre

\* Load of such a file is validate of these values.
LEMMA LoadReadable ==
    ASSUME NEW lines \in Seq(Line), Readable(lines)
    PROVE  Load(lines) = validate(LastValues(lines))
<1>1. {i \in DOMAIN lines : Unreadable(lines[i])} = {}
  BY DEF Readable
<1>2. Load(lines) = validate(ReadLines(lines))
  BY <1>1, Zenon DEF Load
<1> QED
  BY <1>2, ReadLinesLast

\* What Load accepts is ready for use in the same sense.
LEMMA LoadReady ==
    ASSUME NEW lines \in Seq(Line), Load(lines).ok
    PROVE  Ready(LastValues(lines), Load(lines).cfg)
<1>1. Readable(lines)
  <2> SUFFICES ASSUME ~Readable(lines) PROVE FALSE
    OBVIOUS
  <2>1. {i \in DOMAIN lines : Unreadable(lines[i])} # {}
    BY DEF Readable
  <2>2. \E k : Load(lines) = Rejected(k)
    BY <2>1, Zenon DEF Load
  <2> QED
    BY <2>2 DEF Rejected
<1>2. Load(lines) = validate(LastValues(lines))
  BY <1>1, LoadReadable
<1> QED
  BY <1>2, ValidateReady

\* Backwards, a file whose lines give different directives says the same.
LEMMA ReverseLast ==
    ASSUME NEW lines \in Seq(Line), Readable(lines),
           \A i, j \in Directives(lines) : KeyAt(lines, i) = KeyAt(lines, j) => i = j
    PROVE  /\ Reverse(lines) \in Seq(Line) /\ Readable(Reverse(lines))
           /\ LastValues(Reverse(lines)) = LastValues(lines)
<1> DEFINE n == Len(lines)
           rev == Reverse(lines)
           G == Directives(lines)
           H == Directives(rev)
           mirror(i) == n - i + 1
<1>1. n \in Nat /\ DOMAIN lines = 1..n /\ \A i \in 1..n : lines[i] \in Line
  BY LenProperties
<1>2. /\ DOMAIN rev = 1..n
      /\ \A i \in 1..n : rev[i] = lines[mirror(i)]
  BY DEF Reverse
<1>3. \A i \in 1..n : mirror(i) \in 1..n /\ mirror(mirror(i)) = i
  BY <1>1
<1>4. rev \in Seq(Line)
  <2>1. rev = [i \in 1..n |-> lines[mirror(i)]]
    BY DEF Reverse
  <2> HIDE DEF rev
  <2>2. \A i \in 1..n : lines[mirror(i)] \in Line
    BY <1>1, <1>3
  <2> QED
    BY <1>1, <2>1, <2>2
<1> HIDE DEF rev, n
<1>5. Readable(rev)
  BY <1>1, <1>2, <1>3 DEF Readable
<1> HIDE DEF mirror
<1>6. \A i \in 1..n : i \in H <=> mirror(i) \in G
  BY <1>1, <1>2, <1>3 DEF Directives
<1>7. \A i \in 1..n : KeyAt(rev, i) = KeyAt(lines, mirror(i))
  BY <1>2 DEF KeyAt
<1>8. G \in SUBSET (1..n) /\ H \in SUBSET (1..n)
  BY <1>1, <1>2 DEF Directives
<1>9. G = GivenIn(lines, 1..n) /\ H = GivenIn(rev, 1..n)
  BY <1>1, <1>2, <1>4, <1>5, ReadableGives
<1>10. LastValues(lines) = ReadIn(lines, 1..n) /\ LastValues(rev) = ReadIn(rev, 1..n)
  <2>1. LastValues(lines) = ReadIn(lines, DOMAIN lines)
    BY ReadLinesLast, ReadLinesAre
  <2>2. LastValues(rev) = ReadIn(rev, DOMAIN rev)
    BY <1>4, <1>5, ReadLinesLast, ReadLinesAre
  <2> QED
    BY <1>1, <1>2, <2>1, <2>2
<1> HIDE DEF G, H
<1>11. \A i, j \in G : KeyAt(lines, i) = KeyAt(lines, j) => i = j
  BY DEF G
<1>12. \A i, j \in H : KeyAt(rev, i) = KeyAt(rev, j) => i = j
  <2> SUFFICES ASSUME NEW i \in H, NEW j \in H, KeyAt(rev, i) = KeyAt(rev, j)
               PROVE  i = j
    OBVIOUS
  <2>1. mirror(i) = mirror(j)
    BY <1>6, <1>7, <1>8, <1>11
  <2> QED
    BY <1>3, <1>8, <2>1
<1>13. ASSUME NEW i \in G
       PROVE  LastIn(lines, 1..n, KeyAt(lines, i)) = i
  <2>1. \A j \in GivenIn(lines, 1..n) : KeyAt(lines, j) = KeyAt(lines, i) => j <= i
    BY <1>1, <1>8, <1>9, <1>11
  <2> QED
    BY <1>1, <1>9, <2>1, LastInIs
<1>14. ASSUME NEW i \in H
       PROVE  LastIn(rev, 1..n, KeyAt(rev, i)) = i
  <2>1. \A j \in GivenIn(rev, 1..n) : KeyAt(rev, j) = KeyAt(rev, i) => j <= i
    BY <1>1, <1>8, <1>9, <1>12
  <2> QED
    BY <1>1, <1>9, <2>1, LastInIs
<1> DEFINE this == LastValues(lines)
           that == LastValues(rev)
<1>15. /\ this = [k \in {KeyAt(lines, i) : i \in G} |->
                    lines[LastIn(lines, 1..n, k)].value]
       /\ that = [k \in {KeyAt(rev, i) : i \in H} |->
                    rev[LastIn(rev, 1..n, k)].value]
  BY <1>9, <1>10 DEF ReadIn
<1> HIDE DEF this, that
<1>16. {KeyAt(rev, i) : i \in H} = {KeyAt(lines, i) : i \in G}
  <2>1. ASSUME NEW i \in H
        PROVE  \E j \in G : KeyAt(rev, i) = KeyAt(lines, j)
    BY <1>6, <1>7, <1>8
  <2>2. ASSUME NEW j \in G
        PROVE  \E i \in H : KeyAt(lines, j) = KeyAt(rev, i)
    <3>1. j \in 1..n /\ mirror(j) \in 1..n /\ mirror(mirror(j)) = j
      BY <1>3, <1>8
    <3>2. mirror(j) \in H
      BY <1>6, <3>1
    <3> QED
      BY <1>7, <3>1, <3>2
  <2> QED
    BY <2>1, <2>2
<1>17. ASSUME NEW i \in H
       PROVE  this[KeyAt(rev, i)] = that[KeyAt(rev, i)]
  <2>1. i \in 1..n /\ mirror(i) \in G /\ KeyAt(rev, i) = KeyAt(lines, mirror(i))
    BY <1>6, <1>7, <1>8
  <2>2. this[KeyAt(lines, mirror(i))] = lines[mirror(i)].value
    BY <1>13, <1>15, <2>1
  <2>3. that[KeyAt(rev, i)] = rev[i].value
    BY <1>14, <1>15
  <2> QED
    BY <1>2, <2>1, <2>2, <2>3
<1>18. this = that
  BY <1>15, <1>16, <1>17
<1> QED
  BY <1>4, <1>5, <1>18 DEF rev, this, that

\* What Load makes of any file, against the table of directives.
LEMMA LoadAgreesAlways ==
    ASSUME NEW lines \in Seq(Line)
    PROVE  LoadAgreesOn(lines)
<1> DEFINE last == LastValues(lines)
           loaded == Load(lines)
           unique == \A i, j \in Directives(lines) :
                        KeyAt(lines, i) = KeyAt(lines, j) => i = j
<1>1. CASE ~Readable(lines)
  <2>1. {i \in DOMAIN lines : Unreadable(lines[i])} # {}
    BY <1>1 DEF Readable
  <2>2. \E k : loaded = Rejected(k)
    BY <2>1, Zenon DEF Load
  <2>3. loaded.ok = FALSE
    BY <2>2 DEF Rejected
  <2> QED
    BY <1>1, <2>3 DEF LoadAgreesOn, Readable
<1>2. CASE Readable(lines)
  <2>1. loaded = validate(last)
    BY <1>2, LoadReadable
  <2>2. loaded.ok <=> Wrong(Folded(last)) = {}
    BY <2>1, ValidateAccepts, AcceptableIsRight
  <2>3. ~loaded.ok => loaded.blame \in Wrong(Folded(last))
    BY <2>1, ValidateBlames, BlamedIsWrong
  <2>4. unique => Load(Reverse(lines)) = loaded
    <3> SUFFICES ASSUME unique PROVE Load(Reverse(lines)) = loaded
      OBVIOUS
    <3>1. /\ Reverse(lines) \in Seq(Line) /\ Readable(Reverse(lines))
          /\ LastValues(Reverse(lines)) = last
      BY <1>2, ReverseLast, Zenon
    <3>2. Load(Reverse(lines)) = validate(last)
      BY <3>1, LoadReadable, Zenon
    <3> QED
      BY <2>1, <3>2, Zenon
  <2>5. loaded.ok => loaded.cfg.AuditLogPath = last["AUDITLOGPATH"]
    <3>1. Settings(last).AuditLogPath = last["AUDITLOGPATH"]
      BY DEF Settings
    <3>2. validate(last).ok => validate(last).cfg = Settings(last)
      BY ValidateVerdict
    <3> HIDE DEF last, loaded
    <3> QED
      BY <2>1, <3>1, <3>2
  <2>6. Wrong(last) = {} => loaded.ok
    BY <2>2, TableIsFolded
  <2> HIDE DEF last, loaded, unique
  <2> QED
    BY <1>2, <2>2, <2>3, <2>4, <2>5, <2>6, Zenon
       DEF LoadAgreesOn, Readable, last, loaded, unique
<1> QED
  BY <1>1, <1>2

-----------------------------------------------------------------------------
(* Open                                                                     *)

\* The daemon of h goes by what Load returned for its file.
LoadedInv ==
    /\ dep \in Deployments
    /\ \A h \in Hosts : at[h] \in Opening \cup Serving =>
        /\ Loaded[dep.conf].ok
        /\ cfg[h] = Loaded[dep.conf].cfg

\* What a daemon at each place knows of its database, whoever else changes it:
\* a statement that has been run, or a look that has been taken, stays true.
AfterJobs == {"job_history", "owner?", "owner", "tag?", "tag"} \cup Serving
AfterHistory == {"owner?", "owner", "tag?", "tag"} \cup Serving
AfterOwner == {"tag?", "tag"} \cup Serving

MigrationInv ==
    \A h \in Hosts :
        /\ at[h] \in AfterJobs => schema[DB(h)].jobs # {}
        /\ at[h] \in AfterHistory => schema[DB(h)].job_history
        /\ at[h] \in AfterOwner => "owner" \in schema[DB(h)].jobs
        /\ at[h] \in Serving => "tag" \in schema[DB(h)].jobs

\* The types, without what they say of the settings.
StateTypeOK ==
    /\ at \in [Hosts -> Places]
    /\ DOMAIN cfg = Hosts
    /\ schema \in [Hosts \cup {"shared"} -> Schema]
    /\ sock \in [Hosts -> {"none", "stale", "bound"}]
    /\ faults \in 0..MaxFaults

\* A table's columns, once it exists, include the first version's.
LEMMA SchemaFacts ==
    ASSUME NEW s \in Schema
    PROVE  /\ s.jobs \subseteq Columns
           /\ s.jobs # {} => "base" \in s.jobs
           /\ s.job_history \in BOOLEAN
           /\ s = [jobs |-> s.jobs, job_history |-> s.job_history]
  BY DEF Schema, Columns

\* Adding a column to a table that exists, or creating one with all of them.
LEMMA SchemaMade ==
    ASSUME NEW s \in Schema
    PROVE  /\ [s EXCEPT !.jobs = IF @ = {} THEN Columns ELSE @] \in Schema
           /\ [s EXCEPT !.job_history = TRUE] \in Schema
           /\ s.jobs # {} =>
                \A col \in {"owner", "tag"} :
                    [s EXCEPT !.jobs = @ \cup {col}] \in Schema
<1>1. Columns \in {{"base"} \cup c : c \in SUBSET {"owner", "tag"}}
  <2>1. Columns = {"base"} \cup {"owner", "tag"}
    BY DEF Columns
  <2> QED
    BY <2>1
<1>2. ASSUME s.jobs # {}, NEW col \in {"owner", "tag"}
      PROVE  s.jobs \cup {col} \in {{"base"} \cup c : c \in SUBSET {"owner", "tag"}}
  <2>1. PICK c \in SUBSET {"owner", "tag"} : s.jobs = {"base"} \cup c
    BY <1>2 DEF Schema
  <2>2. s.jobs \cup {col} = {"base"} \cup (c \cup {col})
    BY <2>1
  <2> QED
    BY <2>2
<1> QED
  BY <1>1, <1>2 DEF Schema

\* A host's database is one of those there are.
LEMMA DBName ==
    ASSUME NEW h \in Hosts
    PROVE  DB(h) \in Hosts \cup {"shared"}
  BY DEF DB

\* The types hold in every deployment.
LEMMA InitStartup ==
    StartupInit => StateTypeOK /\ LoadedInv /\ MigrationInv
<1> SUFFICES ASSUME StartupInit
             PROVE  StateTypeOK /\ LoadedInv /\ MigrationInv
  OBVIOUS
<1>1. \A h \in Hosts : at[h] \in {"load", "stopped"}
  BY DEF StartupInit
<1>2. \A h \in Hosts :
        at[h] \notin Opening \cup Serving \cup AfterJobs \cup AfterHistory
                        \cup AfterOwner
  BY <1>1 DEF Opening, Serving, AfterJobs, AfterHistory, AfterOwner
<1>3. StateTypeOK
  <2>1. at \in [Hosts -> Places]
    BY DEF StartupInit, Places
  <2>2. schema \in [Hosts \cup {"shared"} -> Schema]
    BY DeploymentsAssumption DEF StartupInit
  <2> QED
    BY <2>1, <2>2, MaxFaultsAssumption DEF StartupInit, StateTypeOK
<1>4. LoadedInv
  BY <1>2 DEF StartupInit, LoadedInv
<1>5. MigrationInv
  BY <1>2 DEF MigrationInv
<1> QED
  BY <1>3, <1>4, <1>5

\* The databases only gain tables and columns.
Grows ==
    \A d \in Hosts \cup {"shared"} :
        /\ schema[d].jobs \subseteq schema'[d].jobs
        /\ schema[d].job_history => schema'[d].job_history

\* What one daemon does to the databases costs the others nothing they know: it
\* is enough that it knows what its own new place asks for.
LEMMA MigrationStep ==
    ASSUME StateTypeOK, MigrationInv, Grows, NEW h \in Hosts, NEW place,
           Goto(h, place),
           \A g \in Hosts : g # h => cfg'[g] = cfg[g],
           place \in AfterJobs => schema'[DB(h)'].jobs # {},
           place \in AfterHistory => schema'[DB(h)'].job_history,
           place \in AfterOwner => "owner" \in schema'[DB(h)'].jobs,
           place \in Serving => "tag" \in schema'[DB(h)'].jobs
    PROVE  MigrationInv'
<1>1. at' = [at EXCEPT ![h] = place]
  BY DEF Goto
<1> SUFFICES ASSUME NEW g \in Hosts
             PROVE  /\ at'[g] \in AfterJobs => schema'[DB(g)'].jobs # {}
                    /\ at'[g] \in AfterHistory => schema'[DB(g)'].job_history
                    /\ at'[g] \in AfterOwner => "owner" \in schema'[DB(g)'].jobs
                    /\ at'[g] \in Serving => "tag" \in schema'[DB(g)'].jobs
  BY DEF MigrationInv, AfterJobs, AfterHistory, AfterOwner, Serving
<1>2. CASE g = h
  BY <1>1, <1>2 DEF StateTypeOK
<1>3. CASE g # h
  <2>1. at'[g] = at[g] /\ DB(g)' = DB(g)
    BY <1>1, <1>3 DEF StateTypeOK, DB
  <2>2. DB(g) \in Hosts \cup {"shared"}
    BY DBName
  <2> QED
    BY <2>1, <2>2 DEF Grows, MigrationInv
<1> QED
  BY <1>2, <1>3

\* A step that leaves the databases as they are.
LEMMA QuietMigration ==
    ASSUME StateTypeOK, MigrationInv, NEW h \in Hosts, NEW place \in Places,
           Goto(h, place), UNCHANGED <<dep, schema>>,
           \A g \in Hosts : g # h => cfg'[g] = cfg[g],
           \/ place \notin AfterJobs
           \/ /\ UNCHANGED cfg
              /\ place \in AfterHistory => at[h] \in AfterHistory
              /\ place \in AfterOwner =>
                    at[h] \in AfterOwner \/ "owner" \in schema[DB(h)].jobs
              /\ place \in Serving =>
                    at[h] \in Serving \/ "tag" \in schema[DB(h)].jobs
              /\ at[h] \in AfterJobs
    PROVE  MigrationInv'
<1>1. Grows
  BY DEF Grows
<1>2. /\ place \in Serving => place \in AfterOwner
      /\ place \in AfterOwner => place \in AfterHistory
      /\ place \in AfterHistory => place \in AfterJobs
  BY DEF AfterOwner, AfterHistory, AfterJobs
<1>3. /\ place \in AfterJobs => schema'[DB(h)'].jobs # {}
      /\ place \in AfterHistory => schema'[DB(h)'].job_history
      /\ place \in AfterOwner => "owner" \in schema'[DB(h)'].jobs
      /\ place \in Serving => "tag" \in schema'[DB(h)'].jobs
  BY <1>2 DEF MigrationInv, DB
<1> QED
  BY <1>1, <1>3, MigrationStep

\* The other daemons' settings do not change; this one has Load's if its new
\* place asks for them.
LEMMA LoadedStep ==
    ASSUME StateTypeOK, LoadedInv, NEW h \in Hosts, NEW place, Goto(h, place),
           UNCHANGED dep,
           \A g \in Hosts : g # h => cfg'[g] = cfg[g],
           place \in Opening \cup Serving =>
               \/ Loaded[dep.conf].ok /\ cfg'[h] = Loaded[dep.conf].cfg
               \/ at[h] \in Opening \cup Serving /\ cfg'[h] = cfg[h]
    PROVE  LoadedInv'
<1>1. at' = [at EXCEPT ![h] = place] /\ Loaded' = Loaded
  BY DEF Goto, Loaded
<1> QED
  BY <1>1 DEF LoadedInv, StateTypeOK

\* The places of daemonCmd, for the provers.
LEMMA PlaceFacts ==
    /\ Opening \cup Serving \cup {"load", "failed", "stopped"} = Places
    /\ {"load", "failed", "stopped"} \cap (Opening \cup Serving) = {}
    /\ AfterJobs \subseteq Opening \cup Serving
    /\ Serving \subseteq AfterOwner
    /\ AfterOwner \subseteq AfterHistory
    /\ AfterHistory \subseteq AfterJobs
  BY DEF Opening, Serving, Places, AfterJobs, AfterHistory, AfterOwner

StartupInv == StateTypeOK /\ LoadedInv /\ MigrationInv

\* A step that ends a daemon, or starts one that has ended.
LEMMA EndStep ==
    ASSUME StartupInv, NEW h \in Hosts, NEW place \in {"load", "failed", "stopped"},
           Goto(h, place), UNCHANGED <<dep, schema>>,
           \A g \in Hosts : g # h => cfg'[g] = cfg[g],
           DOMAIN cfg' = Hosts,
           sock' \in [Hosts -> {"none", "stale", "bound"}],
           faults' \in 0..MaxFaults
    PROVE  StartupInv'
<1>1. place \in Places /\ place \notin AfterJobs /\ place \notin Opening \cup Serving
  BY PlaceFacts
<1>2. StateTypeOK'
  BY <1>1 DEF StartupInv, StateTypeOK, Goto
<1>3. LoadedInv'
  BY <1>1, LoadedStep DEF StartupInv
<1>4. MigrationInv'
  BY <1>1, QuietMigration DEF StartupInv
<1> QED
  BY <1>2, <1>3, <1>4 DEF StartupInv

\* A step from one place to the next that only looks.
LEMMA LookStep ==
    ASSUME StartupInv, NEW h \in Hosts, NEW place \in Places,
           Goto(h, place), UNCHANGED <<dep, cfg, schema, faults>>,
           sock' \in [Hosts -> {"none", "stale", "bound"}],
           at[h] \in Opening \cup Serving,
           place \in AfterJobs => at[h] \in AfterJobs,
           place \in AfterHistory => at[h] \in AfterHistory,
           place \in AfterOwner =>
               at[h] \in AfterOwner \/ "owner" \in schema[DB(h)].jobs,
           place \in Serving =>
               at[h] \in Serving \/ "tag" \in schema[DB(h)].jobs
    PROVE  StartupInv'
<1>1. StateTypeOK'
  BY DEF StartupInv, StateTypeOK, Goto
<1>2. LoadedInv'
  BY LoadedStep DEF StartupInv
<1>3. MigrationInv'
  BY QuietMigration DEF StartupInv
<1> QED
  BY <1>1, <1>2, <1>3 DEF StartupInv

\* A statement of the schema: the new columns are a version's, none is lost, and
\* the daemon goes on to the place that the statement was for.
LEMMA StatementStep ==
    ASSUME StartupInv, NEW h \in Hosts, NEW place \in Places, NEW new \in Schema,
           Goto(h, place), UNCHANGED <<dep, cfg, sock, faults>>,
           schema' = [schema EXCEPT ![DB(h)] = new],
           schema[DB(h)].jobs \subseteq new.jobs,
           schema[DB(h)].job_history => new.job_history,
           at[h] \in Opening,
           place \in AfterJobs => new.jobs # {},
           place \in AfterHistory => new.job_history,
           place \in AfterOwner => "owner" \in new.jobs,
           place \in Serving => "tag" \in new.jobs
    PROVE  StartupInv'
<1>1. DB(h) \in Hosts \cup {"shared"} /\ DB(h)' = DB(h)
  BY DBName DEF DB
<1>2. schema'[DB(h)'] = new
  BY <1>1 DEF StartupInv, StateTypeOK
<1>3. Grows
  BY <1>1 DEF Grows, StartupInv, StateTypeOK
<1>4. StateTypeOK'
  BY <1>1 DEF StartupInv, StateTypeOK, Goto
<1>5. LoadedInv'
  BY LoadedStep DEF StartupInv
<1>6. MigrationInv'
  BY <1>2, <1>3, MigrationStep DEF StartupInv
<1> QED
  BY <1>4, <1>5, <1>6 DEF StartupInv

\* hasColumn goes on, or to the statement that adds the column.
LEMMA HasColumnStep ==
    ASSUME StartupInv, NEW h \in Hosts,
           \/ hasColumn(h, "owner?", "owner", "tag?")
           \/ hasColumn(h, "tag?", "tag", "audit")
    PROVE  StartupInv'
<1> USE DEF Opening, Serving, AfterJobs, AfterHistory, AfterOwner
<1>1. CASE hasColumn(h, "owner?", "owner", "tag?")
  <2>1. PICK place \in {"tag?", "owner"} :
            /\ Goto(h, place)
            /\ place = "tag?" => "owner" \in schema[DB(h)].jobs
    BY <1>1 DEF hasColumn
  <2>2. /\ at[h] = "owner?" /\ place \in Places
        /\ UNCHANGED <<dep, cfg, schema, sock, faults>>
    BY <1>1 DEF hasColumn, Keep, Places
  <2> QED
    BY <2>1, <2>2, LookStep DEF StartupInv, StateTypeOK
<1>2. CASE hasColumn(h, "tag?", "tag", "audit")
  <2>1. PICK place \in {"audit", "tag"} :
            /\ Goto(h, place)
            /\ place = "audit" => "tag" \in schema[DB(h)].jobs
    BY <1>2 DEF hasColumn
  <2>2. /\ at[h] = "tag?" /\ place \in Places
        /\ UNCHANGED <<dep, cfg, schema, sock, faults>>
    BY <1>2 DEF hasColumn, Keep, Places
  <2> QED
    BY <2>1, <2>2, LookStep DEF StartupInv, StateTypeOK
<1> QED
  BY <1>1, <1>2

\* ALTER TABLE adds the column, or fails because it is there.
LEMMA AddColumnStep ==
    ASSUME StartupInv, NEW h \in Hosts,
           \/ addColumn(h, "owner", "tag?")
           \/ addColumn(h, "tag", "audit")
    PROVE  StartupInv'
<1> USE DEF Opening, Serving, AfterJobs, AfterHistory, AfterOwner
<1>1. PICK col \in {"owner", "tag"}, place \in {"tag?", "audit"} :
        /\ addColumn(h, col, place)
        /\ col = "owner" <=> place = "tag?"
  OBVIOUS
<1>2. CASE col \in schema[DB(h)].jobs
  <2>1. Goto(h, "failed") /\ UNCHANGED <<dep, cfg, schema, sock, faults>>
    BY <1>1, <1>2 DEF addColumn
  <2> QED
    BY <2>1, EndStep DEF StartupInv, StateTypeOK
<1>3. CASE col \notin schema[DB(h)].jobs
  <2> DEFINE old == schema[DB(h)]
             new == [old EXCEPT !.jobs = @ \cup {col}]
  <2>1. /\ at[h] = col /\ Goto(h, place) /\ place \in Places
        /\ schema' = [schema EXCEPT ![DB(h)] = new]
        /\ UNCHANGED <<dep, cfg, sock, faults>>
    BY <1>1, <1>3 DEF addColumn, Places
  <2>2. old \in Schema
    BY DBName DEF StartupInv, StateTypeOK
  <2>3. /\ old.jobs # {} /\ old.job_history
        /\ col = "tag" => "owner" \in old.jobs
    BY <2>1 DEF StartupInv, MigrationInv
  <2>4. new \in Schema
    BY <2>2, <2>3, SchemaMade
  <2>5. new.jobs = old.jobs \cup {col} /\ new.job_history = old.job_history
    BY <2>2 DEF Schema
  <2> HIDE DEF old, new
  <2>6. /\ old.jobs \subseteq new.jobs /\ new.jobs # {} /\ new.job_history
        /\ "owner" \in new.jobs
        /\ place \in Serving => "tag" \in new.jobs
    BY <1>1, <2>3, <2>5
  <2> QED
    BY <2>1, <2>4, <2>6, StatementStep DEF old
<1> QED
  BY <1>2, <1>3

\* CREATE TABLE IF NOT EXISTS makes the table of today's version, or leaves the
\* one that is there.
LEMMA CreateStep ==
    ASSUME StartupInv, NEW h \in Hosts, CreateJobs(h) \/ CreateHistory(h)
    PROVE  StartupInv'
<1> USE DEF Opening, Serving, AfterJobs, AfterHistory, AfterOwner
<1> DEFINE old == schema[DB(h)]
<1>1. old \in Schema
  BY DBName DEF StartupInv, StateTypeOK
<1>2. CASE CreateJobs(h)
  <2> DEFINE new == [old EXCEPT !.jobs = IF @ = {} THEN Columns ELSE @]
  <2>1. /\ at[h] = "jobs" /\ Goto(h, "job_history") /\ "job_history" \in Places
        /\ schema' = [schema EXCEPT ![DB(h)] = new]
        /\ UNCHANGED <<dep, cfg, sock, faults>>
    BY <1>2 DEF CreateJobs, Places
  <2>2. /\ new \in Schema
        /\ new.jobs = IF old.jobs = {} THEN Columns ELSE old.jobs
        /\ new.job_history = old.job_history
    BY <1>1, SchemaMade DEF Schema
  <2> HIDE DEF new
  <2>3. old.jobs \subseteq new.jobs /\ new.jobs # {}
    BY <2>2 DEF Columns
  <2> HIDE DEF old
  <2> QED
    BY <2>1, <2>2, <2>3, StatementStep DEF old
<1>3. CASE CreateHistory(h)
  <2> DEFINE new == [old EXCEPT !.job_history = TRUE]
  <2>1. /\ at[h] = "job_history" /\ Goto(h, "owner?") /\ "owner?" \in Places
        /\ schema' = [schema EXCEPT ![DB(h)] = new]
        /\ UNCHANGED <<dep, cfg, sock, faults>>
    BY <1>3 DEF CreateHistory, Places
  <2>2. new \in Schema /\ new.jobs = old.jobs /\ new.job_history
    BY <1>1, SchemaMade DEF Schema
  <2>3. new.jobs # {}
    BY <2>1, <2>2 DEF StartupInv, MigrationInv
  <2> HIDE DEF new
  <2> HIDE DEF old
  <2> QED
    BY <2>1, <2>2, <2>3, StatementStep DEF old
<1> QED
  BY <1>2, <1>3

\* config.Load: a daemon goes on to Open with the settings of a file that Load
\* accepts, and with no others.
LEMMA LoadStep ==
    ASSUME StartupInv, NEW h \in Hosts, LoadConf(h)
    PROVE  StartupInv'
<1>1. CASE Loaded[dep.conf].ok
  <2>1. /\ Goto(h, "open") /\ cfg' = [cfg EXCEPT ![h] = Loaded[dep.conf].cfg]
        /\ UNCHANGED <<dep, schema, sock, faults>>
    BY <1>1 DEF LoadConf
  <2>2. /\ "open" \in Places /\ "open" \notin AfterJobs
    BY DEF Places, Opening, AfterJobs, Serving
  <2>3. \A g \in Hosts : g # h => cfg'[g] = cfg[g]
    BY <2>1
  <2>4. cfg'[h] = Loaded[dep.conf].cfg /\ DOMAIN cfg' = Hosts
    BY <2>1 DEF StartupInv, StateTypeOK
  <2>5. StateTypeOK'
    BY <2>1, <2>2, <2>4 DEF StartupInv, StateTypeOK, Goto
  <2>6. LoadedInv'
    BY <1>1, <2>1, <2>3, <2>4, LoadedStep DEF StartupInv
  <2>7. MigrationInv'
    BY <2>1, <2>2, <2>3, QuietMigration DEF StartupInv
  <2> QED
    BY <2>5, <2>6, <2>7 DEF StartupInv
<1>2. CASE ~Loaded[dep.conf].ok
  <2>1. Goto(h, "failed") /\ UNCHANGED <<dep, cfg, schema, sock, faults>>
    BY <1>2 DEF LoadConf
  <2> QED
    BY <2>1, EndStep DEF StartupInv, StateTypeOK
<1> QED
  BY <1>1, <1>2

\* The rest of daemonCmd and of Run up to the accept loop: on to the next place,
\* or out with an error.
LEMMA ServeSteps ==
    ASSUME StartupInv, NEW h \in Hosts,
           \/ OpenDB(h) \/ OpenAudit(h) \/ Wire(h) \/ RemoveSocket(h)
           \/ Listen(h) \/ ApplySocketGroup(h)
    PROVE  StartupInv'
<1> USE DEF Opening, Serving, AfterJobs, AfterHistory, AfterOwner
<1>1. PICK place \in {"jobs", "wire", "remove", "listen", "group", "serve", "failed"} :
        /\ Goto(h, place)
        /\ at[h] \in {"open", "audit", "wire", "remove", "listen", "group"}
        /\ place # "failed" => (at[h] = "open" <=> place = "jobs")
        /\ UNCHANGED <<dep, cfg, schema, faults>>
  BY DEF OpenDB, OpenAudit, Wire, RemoveSocket, Listen, ApplySocketGroup, Keep
<1>2. sock' \in [Hosts -> {"none", "stale", "bound"}]
  BY DEF OpenDB, OpenAudit, Wire, RemoveSocket, Listen, ApplySocketGroup, Keep,
         StartupInv, StateTypeOK
<1>3. CASE place = "failed"
  BY <1>1, <1>2, <1>3, EndStep DEF StartupInv, StateTypeOK
<1>4. CASE place # "failed"
  <2>1. place \in Places
    BY <1>1 DEF Places
  <2> QED
    BY <1>1, <1>2, <1>4, <2>1, LookStep
<1> QED
  BY <1>3, <1>4

\* Failures, kills, SIGTERM and restarts.
LEMMA EndSteps ==
    ASSUME StartupInv, NEW h \in Hosts,
           \/ Unavailable(h) \/ SocketGroupFails(h) \/ Killed(h)
           \/ Terminated(h) \/ Restart(h)
    PROVE  StartupInv'
<1>1. PICK place \in {"load", "failed", "stopped"} : Goto(h, place)
  BY DEF Unavailable, SocketGroupFails, Killed, Terminated, Restart, Fault
<1>2. UNCHANGED <<dep, schema>>
  BY DEF Unavailable, SocketGroupFails, Killed, Terminated, Restart, Fault
<1>3. DOMAIN cfg' = Hosts /\ \A g \in Hosts : g # h => cfg'[g] = cfg[g]
  BY DEF Unavailable, SocketGroupFails, Killed, Terminated, Restart, Fault,
         StartupInv, StateTypeOK
<1>4. sock' \in [Hosts -> {"none", "stale", "bound"}]
  BY DEF Unavailable, SocketGroupFails, Killed, Terminated, Restart, StartupInv,
         StateTypeOK
<1>5. faults' \in 0..MaxFaults
  <2>1. faults' = faults \/ Fault(h)
    BY DEF Unavailable, SocketGroupFails, Killed, Terminated, Restart
  <2>2. faults \in 0..MaxFaults
    BY DEF StartupInv, StateTypeOK
  <2> QED
    BY <2>1, <2>2, MaxFaultsAssumption DEF Fault
<1> QED
  BY <1>1, <1>2, <1>3, <1>4, <1>5, EndStep

\* Every step of every daemon, and of what happens to it, keeps the invariant.
LEMMA NextStartup == StartupInv /\ [StartupNext]_startupVars => StartupInv'
<1> SUFFICES ASSUME StartupInv, [StartupNext]_startupVars
             PROVE  StartupInv'
  OBVIOUS
<1>1. CASE UNCHANGED startupVars
  BY <1>1 DEF startupVars, StartupInv, StateTypeOK, LoadedInv, MigrationInv, DB,
              Loaded
<1>2. ASSUME NEW h \in Hosts, LoadConf(h)
      PROVE  StartupInv'
  BY <1>2, LoadStep
<1>3. ASSUME NEW h \in Hosts, OpenStore(h)
      PROVE  StartupInv'
  BY <1>3, ServeSteps, CreateStep, HasColumnStep, AddColumnStep DEF OpenStore
<1>4. ASSUME NEW h \in Hosts,
             \/ OpenAudit(h) \/ Wire(h) \/ RemoveSocket(h) \/ Listen(h)
             \/ ApplySocketGroup(h)
      PROVE  StartupInv'
  BY <1>4, ServeSteps
<1>5. ASSUME NEW h \in Hosts,
             \/ Restart(h) \/ Unavailable(h) \/ SocketGroupFails(h)
             \/ Killed(h) \/ Terminated(h)
      PROVE  StartupInv'
  BY <1>5, EndSteps
<1> QED
  BY <1>1, <1>2, <1>3, <1>4, <1>5 DEF StartupNext, DaemonCmd

-----------------------------------------------------------------------------

\* The inductive invariant holds throughout.
THEOREM StartupInvariant == StartupSpec => []StartupInv
<1>1. StartupInit => StartupInv
  BY InitStartup DEF StartupInv
<1>2. StartupInv /\ [StartupNext]_startupVars => StartupInv'
  BY NextStartup
<1> QED
  BY <1>1, <1>2, PTL DEF StartupSpec

\* What a daemon past Load has for settings was accepted by validate.
LEMMA LoadedIsReady ==
    ASSUME StartupInv, NEW h \in Hosts, at[h] \in Opening \cup Serving
    PROVE  Ready(LastValues(dep.conf), cfg[h])
<1>1. /\ Loaded[dep.conf] = Load(dep.conf)
      /\ Loaded[dep.conf].ok /\ cfg[h] = Loaded[dep.conf].cfg
  BY DEF StartupInv, LoadedInv, Loaded
<1>2. dep.conf \in Seq(Line)
  BY DeploymentsAssumption DEF StartupInv, LoadedInv
<1> QED
  BY <1>1, <1>2, LoadReady

\* The variables keep their types, and a daemon past Load has a port to connect
\* to exactly when it uses mysql.
THEOREM StartupTypeCorrect == StartupSpec => []StartupTypeOK
<1>1. StartupInv => StartupTypeOK
  BY LoadedIsReady DEF StartupInv, StateTypeOK, StartupTypeOK, Ready
<1> QED
  BY <1>1, StartupInvariant, PTL

\* A daemon whose Open has returned finds both tables with every column, for any
\* number of daemons that migrate a shared database from any version.
THEOREM StartupOpenedIsMigrated == StartupSpec => []OpenedIsMigrated
<1>1. ASSUME StartupInv, NEW h \in Hosts, at[h] \in Serving
      PROVE  schema[DB(h)] = [jobs |-> Columns, job_history |-> TRUE]
  <2>1. schema[DB(h)] \in Schema
    BY <1>1, DBName DEF StartupInv, StateTypeOK
  <2>2. /\ schema[DB(h)].job_history
        /\ {"owner", "tag"} \subseteq schema[DB(h)].jobs
    BY <1>1, PlaceFacts DEF StartupInv, MigrationInv
  <2>3. schema[DB(h)].jobs = Columns
    BY <2>1, <2>2, SchemaFacts DEF Columns
  <2>4. schema[DB(h)].job_history = TRUE
    BY <2>1, <2>2, SchemaFacts
  <2> QED
    BY <2>1, <2>3, <2>4, SchemaFacts
<1>2. StartupInv => OpenedIsMigrated
  BY <1>1 DEF OpenedIsMigrated
<1> QED
  BY <1>2, StartupInvariant, PTL

\* Whatever the file says, a daemon that goes on works with what it says, but
\* for an interval that overflows.
THEOREM StartupSettingsTakeEffect == StartupSpec => []SettingsTakeEffect
<1>1. StartupInv => SettingsTakeEffect
  BY LoadedIsReady DEF SettingsTakeEffect, Ready
<1> QED
  BY <1>1, StartupInvariant, PTL

\* For the file of every deployment, Load accepts what the table of directives
\* allows, and of what it does not allow only other spellings of its names: the
\* fold over the lines, the order of the checks and the early returns decide
\* which wrong directive is blamed, never whether the file is accepted.
THEOREM StartupLoadAgrees == StartupSpec => []LoadAgrees
<1>1. StartupInv => LoadAgrees
  <2> SUFFICES ASSUME StartupInv PROVE LoadAgrees
    OBVIOUS
  <2>1. dep.conf \in Seq(Line)
    BY DeploymentsAssumption DEF StartupInv, LoadedInv
  <2> QED
    BY <2>1, LoadAgreesAlways DEF LoadAgrees
<1> QED
  BY <1>1, StartupInvariant, PTL
=============================================================================
