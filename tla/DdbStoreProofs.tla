--------------------------- MODULE DdbStoreProofs ---------------------------
(***************************************************************************)
(* Proofs about DdbStore, for every table and every number of crashes,     *)
(* stops, edits and D orders: the files agree with the memory between two  *)
(* handlers, and they implement the table of DdbTable.                     *)
(*                                                                         *)
(* Neither is inductive: what has to hold between two writes of a handler, *)
(* and of a cache that may still be used, is StoreInv.  It rests on what   *)
(* the loop of db_pack keeps, a recursive function, and on what initdb2    *)
(* makes of a file: both are shown by induction over the lines, stated     *)
(* with a set of numbers because the provers take no predicates.           *)
(***************************************************************************)
EXTENDS DdbStore, TLAPS, WellFoundedInduction

(* Induction over the natural numbers, for a set instead of a predicate.   *)
LEMMA NatSetInduction ==
    ASSUME NEW S, 0 \in S, \A n \in Nat : n \in S => n + 1 \in S
    PROVE  \A n \in Nat : n \in S
<1> SUFFICES ASSUME NEW k \in Nat, k \notin S PROVE FALSE
  OBVIOUS
<1> DEFINE T == {n \in Nat : n \notin S}
           D == OpToRel(<, Nat)
<1>1. T \subseteq Nat /\ T # {}
  OBVIOUS
<1>2. IsWellFoundedOn(D, Nat)
  BY NatLessThanWellFounded
<1>3. PICK x \in T : \A y \in T : ~(<<y, x>> \in D)
  <2> HIDE DEF T, D
  <2> QED BY <1>1, <1>2, WFMin
<1>4. \A y \in T : ~(y < x)
  BY <1>3 DEF OpToRel
<1>5. x # 0 /\ x - 1 \in Nat
  OBVIOUS
<1>6. x - 1 \in S
  BY <1>4, <1>5
<1> QED
  BY <1>5, <1>6

\* M is what the loop of db_pack has written after each of n lines.
Scan(f, t, n, M) ==
  M = [i \in 0..n |-> IF i = 0 THEN <<>>
                              ELSE IF SameAs(t, f[i]) THEN Append(M[i - 1], f[i])
                              ELSE M[i - 1]]

(* What such a function says line by line.                                 *)
LEMMA ScanStep ==
    ASSUME NEW f, NEW t, NEW n \in Nat, NEW M, Scan(f, t, n, M)
    PROVE  /\ M[0] = <<>>
           /\ \A i \in 1..n : M[i] = IF SameAs(t, f[i])
                                    THEN Append(M[i - 1], f[i]) ELSE M[i - 1]
<1> DEFINE F(j) == IF j = 0 THEN <<>>
                   ELSE IF SameAs(t, f[j]) THEN Append(M[j - 1], f[j])
                   ELSE M[j - 1]
<1>1. M = [j \in 0..n |-> F(j)]
  BY DEF Scan
<1> HIDE DEF F
<1>2. \A i \in 0..n : M[i] = F(i)
  BY <1>1
<1> QED
  BY <1>2 DEF F

(* There is one: it is extended line by line.                              *)
LEMMA ScanExists ==
    ASSUME NEW f, NEW t
    PROVE  \A n \in Nat : \E M : Scan(f, t, n, M)
<1> DEFINE S == {n \in Nat : \E M : Scan(f, t, n, M)}
<1>1. 0 \in S
  <2> DEFINE M == [i \in 0..0 |-> <<>>]
  <2>1. Scan(f, t, 0, M)
    BY DEF Scan
  <2> QED BY <2>1
<1>2. ASSUME NEW n \in Nat, n \in S PROVE n + 1 \in S
  <2>1. PICK M : Scan(f, t, n, M)
    BY <1>2
  <2> DEFINE N == [i \in 0..(n + 1) |-> IF i = n + 1
               THEN IF SameAs(t, f[n + 1]) THEN Append(M[n], f[n + 1]) ELSE M[n]
               ELSE M[i]]
  <2>2. \A i \in 0..(n + 1) : N[i] = IF i = 0 THEN <<>>
                              ELSE IF SameAs(t, f[i]) THEN Append(N[i - 1], f[i])
                              ELSE N[i - 1]
    <3> SUFFICES ASSUME NEW i \in 0..(n + 1)
                 PROVE N[i] = IF i = 0 THEN <<>>
                              ELSE IF SameAs(t, f[i]) THEN Append(N[i - 1], f[i])
                              ELSE N[i - 1]
      OBVIOUS
    <3>1. CASE i = 0
      <4>1. N[0] = M[0]
        OBVIOUS
      <4>2. M[0] = <<>>
        BY <2>1, ScanStep
      <4> HIDE DEF N
      <4> QED BY <3>1, <4>1, <4>2
    <3>2. CASE i \in 1..n
      <4>1. N[i] = M[i] /\ N[i - 1] = M[i - 1]
        BY <3>2
      <4>2. M[i] = IF SameAs(t, f[i]) THEN Append(M[i - 1], f[i]) ELSE M[i - 1]
        BY <2>1, <3>2, ScanStep
      <4> HIDE DEF N
      <4> QED BY <4>1, <4>2, <3>2
    <3>3. CASE i = n + 1
      BY <3>3
    <3> QED BY <3>1, <3>2, <3>3
  <2>3. Scan(f, t, n + 1, N)
    <3>1. N = [i \in 0..(n + 1) |-> N[i]]
      OBVIOUS
    <3> HIDE DEF N
    <3> QED BY <2>2, <3>1 DEF Scan
  <2> QED BY <2>3
<1> HIDE DEF S
<1>3. \A n \in Nat : n \in S
  BY <1>1, <1>2, NatSetInduction
<1> QED BY <1>3 DEF S

(* So Moved is one.                                                        *)
LEMMA MovedStep ==
    ASSUME NEW f \in Seq(Record), NEW t
    PROVE  /\ Moved(f, t)[0] = <<>>
           /\ \A i \in 1..Len(f) :
                Moved(f, t)[i] = IF SameAs(t, f[i]) THEN Append(Moved(f, t)[i - 1], f[i])
                                 ELSE Moved(f, t)[i - 1]
<1>1. Moved(f, t) = CHOOSE M : Scan(f, t, Len(f), M)
  BY DEF Moved, Scan
<1>2. Scan(f, t, Len(f), Moved(f, t))
  BY <1>1, ScanExists
<1> DEFINE M == Moved(f, t)
           n == Len(f)
<1>3. n \in Nat /\ Scan(f, t, n, M)
  BY <1>2
<1> HIDE DEF M, n
<1>4. /\ M[0] = <<>>
      /\ \A i \in 1..n : M[i] = IF SameAs(t, f[i])
                               THEN Append(M[i - 1], f[i]) ELSE M[i - 1]
  BY <1>3, ScanStep
<1> QED
  BY <1>4 DEF M, n

(* What db_pack keeps are the lines of the file that still hold.           *)
LEMMA KeptLines ==
    ASSUME NEW f \in Seq(Record), NEW t
    PROVE  /\ Kept(f, t) \in Seq(Record)
           /\ \A j \in 1..Len(Kept(f, t)) :
                \E i \in 1..Len(f) : SameAs(t, f[i]) /\ Kept(f, t)[j] = f[i]
           /\ \A i \in 1..Len(f) : SameAs(t, f[i]) =>
                \E j \in 1..Len(Kept(f, t)) : Kept(f, t)[j] = f[i]
<1> DEFINE M == Moved(f, t)
           P(n) == /\ M[n] \in Seq(Record)
                   /\ \A j \in 1..Len(M[n]) :
                        \E i \in 1..n : SameAs(t, f[i]) /\ M[n][j] = f[i]
                   /\ \A i \in 1..n : SameAs(t, f[i]) =>
                        \E j \in 1..Len(M[n]) : M[n][j] = f[i]
           S == {n \in Nat : n <= Len(f) => P(n)}
<1>0. /\ M[0] = <<>>
      /\ \A i \in 1..Len(f) : M[i] = IF SameAs(t, f[i])
                                    THEN Append(M[i - 1], f[i]) ELSE M[i - 1]
  BY MovedStep
<1> HIDE DEF M
<1>1. 0 \in S
  <2>1. M[0] \in Seq(Record) /\ Len(M[0]) = 0 /\ 1..0 = {}
    BY <1>0
  <2>2. P(0)
    BY <2>1
  <2> QED BY <2>2
<1>2. ASSUME NEW n \in Nat, n \in S PROVE n + 1 \in S
  <2> SUFFICES ASSUME n + 1 <= Len(f) PROVE P(n + 1)
    OBVIOUS
  <2>1. P(n) /\ n + 1 \in 1..Len(f) /\ f[n + 1] \in Record
    BY <1>2
  <2>2. CASE ~SameAs(t, f[n + 1])
    <3>1. M[n + 1] = M[n]
      BY <1>0, <2>1, <2>2
    <3> QED BY <2>1, <2>2, <3>1
  <2>3. CASE SameAs(t, f[n + 1])
    <3>1. M[n + 1] = Append(M[n], f[n + 1])
      <4>1. (n + 1) - 1 = n
        OBVIOUS
      <4>2. M[n + 1] = Append(M[(n + 1) - 1], f[n + 1])
        BY <1>0, <2>1, <2>3
      <4> QED BY <4>1, <4>2
    <3>2. /\ M[n + 1] \in Seq(Record)
          /\ Len(M[n + 1]) = Len(M[n]) + 1
          /\ \A j \in 1..Len(M[n]) : M[n + 1][j] = M[n][j]
          /\ M[n + 1][Len(M[n]) + 1] = f[n + 1]
      BY <2>1, <3>1
    <3>3. ASSUME NEW j \in 1..Len(M[n + 1])
          PROVE  \E i \in 1..(n + 1) : SameAs(t, f[i]) /\ M[n + 1][j] = f[i]
      <4>1. CASE j \in 1..Len(M[n])
        <5>1. PICK i \in 1..n : SameAs(t, f[i]) /\ M[n][j] = f[i]
          BY <2>1, <4>1
        <5>2. i \in 1..(n + 1) /\ M[n + 1][j] = f[i]
          BY <3>2, <4>1, <5>1
        <5> QED BY <5>1, <5>2
      <4>2. CASE j = Len(M[n]) + 1
        BY <2>3, <3>2, <4>2
      <4>3. Len(M[n]) \in Nat
        BY <2>1
      <4> QED BY <3>2, <4>1, <4>2, <4>3
    <3>4. ASSUME NEW i \in 1..(n + 1), SameAs(t, f[i])
          PROVE  \E j \in 1..Len(M[n + 1]) : M[n + 1][j] = f[i]
      <4>0. Len(M[n]) \in Nat
        BY <2>1
      <4>1. CASE i \in 1..n
        <5>1. PICK j \in 1..Len(M[n]) : M[n][j] = f[i]
          BY <2>1, <3>4, <4>1
        <5>2. j \in 1..Len(M[n + 1]) /\ M[n + 1][j] = f[i]
          BY <3>2, <4>0, <5>1
        <5> QED BY <5>2
      <4>2. CASE i = n + 1
        BY <3>2, <4>0, <4>2
      <4> QED BY <4>1, <4>2
    <3> QED BY <3>2, <3>3, <3>4
  <2> QED BY <2>2, <2>3
<1>3. Len(f) \in S
  <2> HIDE DEF S
  <2> QED BY <1>1, <1>2, NatSetInduction
<1>4. P(Len(f)) /\ Kept(f, t) = M[Len(f)]
  BY <1>3 DEF Kept, M
<1> QED
  BY <1>4

(* A key that is in a file has a last line there.                          *)
LEMMA LastExists ==
    ASSUME NEW f \in Lines, NEW k
    PROVE  (\E i \in 1..Len(f) : f[i].key = k) => LastOf(f, k) # {}
<1> DEFINE S == {n \in Nat : \A i \in 1..Len(f) : f[i].key = k /\ Len(f) - i <= n
                                                 => LastOf(f, k) # {}}
<1>1. 0 \in S
  BY DEF LastOf, Lines
<1>2. ASSUME NEW n \in Nat, n \in S PROVE n + 1 \in S
  <2> SUFFICES ASSUME NEW i \in 1..Len(f), f[i].key = k, Len(f) - i <= n + 1
               PROVE  LastOf(f, k) # {}
    OBVIOUS
  <2>1. CASE \E j \in (i + 1)..Len(f) : f[j].key = k
    <3>1. PICK j \in (i + 1)..Len(f) : f[j].key = k
      BY <2>1
    <3>2. j \in 1..Len(f) /\ Len(f) - j <= n
      BY <3>1 DEF Lines
    <3> QED BY <1>2, <3>1, <3>2
  <2>2. CASE \A j \in (i + 1)..Len(f) : f[j].key # k
    BY <2>2 DEF LastOf
  <2> QED BY <2>1, <2>2
<1>3. \A n \in Nat : n \in S
  <2> HIDE DEF S
  <2> QED BY <1>1, <1>2, NatSetInduction
<1>4. Len(f) \in Nat
  BY DEF Lines
<1>5. Len(f) \in S
  BY <1>3, <1>4
<1> QED
  BY <1>4, <1>5

(* The shape of a table.                                                   *)
LEMMA TableOfShape ==
    ASSUME NEW f
    PROVE  /\ TableOf(f) = [serie |-> TableOf(f).serie, vals |-> TableOf(f).vals]
           /\ TableOf(f).vals = [k \in Key |-> TableOf(f).vals[k]]
<1> DEFINE s == IF f = <<>> THEN 0 ELSE f[Len(f)].serie
           V(k) == IF LastOf(f, k) = {} THEN NoValue
                   ELSE f[CHOOSE i \in LastOf(f, k) : TRUE].val
<1>1. TableOf(f) = [serie |-> s, vals |-> [k \in Key |-> V(k)]]
  BY DEF TableOf
<1> HIDE DEF s, V
<1>2. TableOf(f).serie = s /\ TableOf(f).vals = [k \in Key |-> V(k)]
  BY <1>1
<1> QED
  BY <1>1, <1>2

(* The table of a file: the last line of a key decides.                    *)
LEMMA TableOfSays ==
    ASSUME NEW f \in Lines, NEW k \in Key
    PROVE  /\ \A i \in LastOf(f, k) : TableOf(f).vals[k] = f[i].val
           /\ LastOf(f, k) = {} => TableOf(f).vals[k] = NoValue
<1>1. \A i, j \in LastOf(f, k) : i = j
  BY DEF LastOf, Lines
<1>2. TableOf(f).vals[k] = IF LastOf(f, k) = {} THEN NoValue
                           ELSE f[CHOOSE i \in LastOf(f, k) : TRUE].val
  BY DEF TableOf
<1>3. ASSUME NEW i \in LastOf(f, k)
      PROVE  (CHOOSE j \in LastOf(f, k) : TRUE) = i
  <2>1. (CHOOSE j \in LastOf(f, k) : TRUE) \in LastOf(f, k)
    BY <1>3
  <2> QED BY <1>1, <2>1
<1> QED
  BY <1>2, <1>3

(* The table of a file of records is a table.                              *)
LEMMA TableOfType ==
    ASSUME NEW f \in Seq(Record)
    PROVE  TableOf(f) \in Table
<1>1. f \in Lines /\ \A k \in Key : LastOf(f, k) \subseteq 1..Len(f)
  BY DEF Lines, LastOf
<1>2. \A k \in Key : TableOf(f).vals[k] \in Val
  <2> SUFFICES ASSUME NEW k \in Key PROVE TableOf(f).vals[k] \in Val
    OBVIOUS
  <2>1. CASE LastOf(f, k) = {}
    BY <1>1, <2>1, TableOfSays DEF Val
  <2>2. CASE LastOf(f, k) # {}
    <3>1. PICK i \in LastOf(f, k) : TRUE
      BY <2>2
    <3>2. f[i] \in Record
      BY <1>1, <3>1
    <3>3. TableOf(f).vals[k] = f[i].val
      BY <1>1, <3>1, TableOfSays
    <3> QED BY <3>2, <3>3 DEF Record
  <2> QED BY <2>1, <2>2
<1>3. TableOf(f).serie \in 0..MaxSerie
  <2>1. TableOf(f).serie = IF f = <<>> THEN 0 ELSE f[Len(f)].serie
    BY DEF TableOf
  <2>2. f # <<>> => f[Len(f)] \in Record
    OBVIOUS
  <2> QED BY <2>1, <2>2, TableConstants DEF Record
<1> DEFINE s == TableOf(f).serie
           v == TableOf(f).vals
<1>4. TableOf(f) = [serie |-> s, vals |-> v] /\ v = [k \in Key |-> v[k]]
  BY TableOfShape
<1>5. s \in 0..MaxSerie /\ \A k \in Key : v[k] \in Val
  BY <1>2, <1>3
<1> HIDE DEF s, v
<1> QED
  BY <1>4, <1>5 DEF Table

(* An empty file is an empty table.                                        *)
LEMMA TableOfEmpty == TableOf(<<>>) = Empty
<1>1. \A k \in Key : LastOf(<<>>, k) = {}
  BY DEF LastOf
<1> QED
  BY <1>1 DEF TableOf, Empty

(* A line at the end of the file does to its table what db_alta does to    *)
(* the memory.                                                             *)
LEMMA TableOfAppend ==
    ASSUME NEW f \in Seq(Record), NEW r \in Record
    PROVE  TableOf(Append(f, r)) = After(TableOf(f), r)
<1> DEFINE g == Append(f, r)
<1>1. /\ g \in Seq(Record) /\ g \in Lines /\ f \in Lines
      /\ Len(g) = Len(f) + 1 /\ g[Len(f) + 1] = r /\ g # <<>>
      /\ Len(f) \in Nat
      /\ \A i \in 1..Len(f) : g[i] = f[i]
  BY DEF Lines
<1> HIDE DEF g
<1>2. TableOf(g).serie = r.serie
  BY <1>1 DEF TableOf
<1>3. ASSUME NEW k \in Key
      PROVE  TableOf(g).vals[k] = After(TableOf(f), r).vals[k]
  <2>1. CASE r.key = k
    <3>1. Len(f) + 1 \in LastOf(g, k)
      BY <1>1, <2>1 DEF LastOf
    <3>2. TableOf(g).vals[k] = r.val
      BY <1>1, <3>1, TableOfSays
    <3>3. After(TableOf(f), r).vals[k] = r.val
      BY <2>1 DEF After, TableOf
    <3> QED BY <3>2, <3>3
  <2>2. CASE r.key # k
    <3>1. LastOf(g, k) = LastOf(f, k)
      BY <1>1, <2>2 DEF LastOf
    <3>2. TableOf(g).vals[k] = TableOf(f).vals[k]
      <4>1. CASE LastOf(f, k) = {}
        BY <1>1, <3>1, <4>1, TableOfSays
      <4>2. CASE LastOf(f, k) # {}
        <5>1. PICK i \in LastOf(f, k) : TRUE
          BY <4>2
        <5>2. i \in 1..Len(f)
          BY <5>1 DEF LastOf
        <5> QED BY <1>1, <3>1, <5>1, <5>2, TableOfSays
      <4> QED BY <4>1, <4>2
    <3>3. After(TableOf(f), r).vals[k] = TableOf(f).vals[k]
      BY <2>2 DEF After, TableOf
    <3> QED BY <3>2, <3>3
  <2> QED BY <2>1, <2>2
<1> DEFINE v == TableOf(g).vals
           w == After(TableOf(f), r).vals
<1>4. TableOf(g) = [serie |-> r.serie, vals |-> v] /\ v = [k \in Key |-> v[k]]
  BY <1>2, TableOfShape
<1>5. After(TableOf(f), r) = [serie |-> r.serie, vals |-> w]
  BY DEF After
<1>6. w = [k \in Key |-> w[k]]
  <2> DEFINE u == TableOf(f).vals
  <2>1. u = [k \in Key |-> u[k]]
    BY TableOfShape
  <2>2. w = IF r.key \in Key THEN [u EXCEPT ![r.key] = r.val] ELSE u
    BY DEF After
  <2> HIDE DEF u, w
  <2> QED BY <2>1, <2>2
<1>7. \A k \in Key : v[k] = w[k]
  BY <1>3
<1> HIDE DEF v, w
<1>8. v = w
  BY <1>4, <1>6, <1>7
<1> QED
  BY <1>4, <1>5, <1>8 DEF g

(* Compacting a file and writing the checkpoint loses nothing of its table *)
(* but its serial.                                                         *)
LEMMA TableOfKept ==
    ASSUME NEW f \in Seq(Record), NEW r \in Record, r.key = Star
    PROVE  TableOf(Append(Kept(f, TableOf(f)), r)) = After(TableOf(f), r)
<1> DEFINE t == TableOf(f)
           g == Kept(f, t)
<1>1. /\ g \in Seq(Record)
      /\ \A j \in 1..Len(g) : \E i \in 1..Len(f) : SameAs(t, f[i]) /\ g[j] = f[i]
      /\ \A i \in 1..Len(f) : SameAs(t, f[i]) => \E j \in 1..Len(g) : g[j] = f[i]
  BY KeptLines
<1>2. TableOf(g).vals = t.vals
  <2>1. g \in Lines /\ f \in Lines
    BY <1>1 DEF Lines
  <2>2. ASSUME NEW k \in Key PROVE TableOf(g).vals[k] = t.vals[k]
    <3>1. CASE LastOf(g, k) # {}
      <4>1. PICK j \in LastOf(g, k) : TRUE
        BY <3>1
      <4>2. j \in 1..Len(g) /\ g[j].key = k
        BY <4>1 DEF LastOf
      <4>3. SameAs(t, g[j])
        BY <1>1, <4>2
      <4>4. TableOf(g).vals[k] = g[j].val
        BY <2>1, <4>1, TableOfSays
      <4> HIDE DEF t, g
      <4> QED BY <4>2, <4>3, <4>4 DEF SameAs
    <3>2. CASE LastOf(g, k) = {}
      <4>1. TableOf(g).vals[k] = NoValue
        BY <2>1, <3>2, TableOfSays
      <4>2. \A j \in 1..Len(g) : g[j].key # k
        BY <2>1, <3>2, LastExists
      <4>3. CASE LastOf(f, k) = {}
        BY <2>1, <4>1, <4>3, TableOfSays
      <4>4. CASE LastOf(f, k) # {}
        <5>1. PICK i \in LastOf(f, k) : TRUE
          BY <4>4
        <5>2. i \in 1..Len(f) /\ f[i].key = k
          BY <5>1 DEF LastOf
        <5>3. t.vals[k] = f[i].val
          BY <2>1, <5>1, TableOfSays
        <5>4. ~SameAs(t, f[i])
          BY <1>1, <4>2, <5>2
        <5> HIDE DEF t, g
        <5> QED BY <4>1, <5>2, <5>3, <5>4 DEF SameAs
      <4> QED BY <4>3, <4>4
    <3> QED BY <3>1, <3>2
  <2> HIDE DEF g
  <2> QED BY <2>2 DEF TableOf
<1>3. TableOf(Append(g, r)) = After(TableOf(g), r)
  BY <1>1, TableOfAppend
<1>4. r.key \notin Key
  BY TableConstants
<1> HIDE DEF g, t
<1>5. After(TableOf(g), r) = After(t, r)
  BY <1>2, <1>4 DEF After
<1> QED
  BY <1>3, <1>5 DEF g, t

-----------------------------------------------------------------------------
(* The inductive invariant: what holds at each place of the handlers.      *)

\* The cache, as long as the arena has not changed since it was saved: its
\* memory is the table of its hash, and the file is that file until its stat
\* changes.
CacheKept ==
    /\ cache.stat <= stat
    /\ ~cache.dirty =>
         /\ cache.hfile = cache.hash /\ cache.mem = TableOf(cache.hash)
         /\ cache.stat = stat => file = cache.hash

\* Outside the process: a file with the stored hash is a file of records.
\* An edit from outside leaves a line that is no record at the end.
IdleInv ==
    pc = "idle" =>
      IF Modified THEN tstat < stat /\ file # <<>> /\ file[Len(file)] = Garbage
      ELSE file = hash /\ hfile = hash /\ mem = TableOf(file)

\* db_alta, between its writes.
AltaInv ==
    /\ pc = "alta" =>
         /\ ~Modified /\ file = hash /\ hash = Append(hfile, reg) /\ mem = TableOf(hfile)
         /\ reg \in Record /\ reg.serie > mem.serie
    /\ pc = "alta_mem" =>
         /\ ~Modified /\ file = hash /\ hfile = hash /\ TableOf(file) = After(mem, reg)
         /\ reg \in Record

\* db_pack, between its writes: the stored hash is still the one of the old
\* file, which holds the same table but for the serial.
PackInv ==
    pc \in {"pack", "pack_cut", "pack_hash"} =>
      /\ reg \in Record /\ reg.key = Star /\ reg.serie > TableOf(hfile).serie
      /\ mem = After(TableOf(hfile), reg)
      /\ pc # "pack" => file = hash
      /\ pc = "pack_hash" => ~Modified /\ TableOf(hash) = mem
      /\ pc # "pack_hash" => TableOf(Append(hash, reg)) = mem

DropInv == pc = "drop" => ~Modified /\ file = <<>>

StoreInv == TypeOK /\ CacheKept /\ IdleInv /\ AltaInv /\ PackInv /\ DropInv
(* The table of a file of records and the records themselves.              *)
LEMMA Facts ==
    /\ Garbage \notin Record /\ Garbage \in Record \cup {Garbage}
    /\ Seq(Record) \subseteq Lines /\ <<>> \in Seq(Record) /\ <<>> \in Lines
    /\ Empty \in Table
    /\ NoCache \in Cache
    /\ Incoming \subseteq Record
<1>1. Garbage \notin Record
  BY TableConstants DEF Garbage, Record
<1>2. Seq(Record) \subseteq Lines /\ <<>> \in Seq(Record) /\ <<>> \in Lines
  BY DEF Lines
<1>3. Empty \in Table
  BY TableConstants DEF Empty, Table, Val
<1>4. NoCache \in Cache
  BY <1>2, <1>3 DEF NoCache, Cache
<1>5. Incoming \subseteq Record
  BY StoreConstants, TableConstants DEF Incoming, Record, Val
<1> QED
  BY <1>1, <1>2, <1>3, <1>4, <1>5

(* The first state: no files.                                              *)
LEMMA StoreInitInv == Init => StoreInv
<1> SUFFICES ASSUME Init PROVE StoreInv
  OBVIOUS
<1>1. TypeOK
  BY Facts DEF Init, TypeOK, NoReg
<1>2. CacheKept
  BY DEF Init, CacheKept, NoCache
<1> QED
  BY <1>1, <1>2 DEF Init, StoreInv, IdleInv, AltaInv, PackInv, DropInv

(* db_alta.                                                                *)
LEMMA AltaWriteInv ==
    ASSUME StoreInv, NEW r \in Incoming, AltaWrite(r)
    PROVE  StoreInv'
<1>1. r \in Record /\ file \in Seq(Record) /\ hfile \in Seq(Record)
  BY Facts DEF StoreInv, TypeOK, IdleInv, AltaWrite
<1>2. Append(file, r) \in Seq(Record) /\ Append(hash, r) \in Seq(Record)
  BY <1>1 DEF StoreInv, TypeOK
<1>3. TypeOK'
  <2>1. file' \in Lines /\ hash' \in Seq(Record) /\ reg' \in Record
    BY <1>1, <1>2, Facts DEF AltaWrite
  <2>2. stat' \in Nat /\ tstat' \in Nat
    BY DEF StoreInv, TypeOK, AltaWrite
  <2> QED BY <2>1, <2>2 DEF StoreInv, TypeOK, AltaWrite
<1>4. CacheKept'
  BY DEF StoreInv, TypeOK, CacheKept, Cache, AltaWrite
<1>5. AltaInv'
  BY <1>1, Facts DEF StoreInv, TypeOK, AltaInv, IdleInv, AltaWrite, Modified
<1> QED
  BY <1>3, <1>4, <1>5 DEF StoreInv, IdleInv, PackInv, DropInv, AltaWrite

(* The hash is stored: the file is the one it stands for.                  *)
LEMMA AltaHashInv == ASSUME StoreInv, AltaHash PROVE StoreInv'
<1>1. hfile \in Seq(Record) /\ reg \in Record
  BY DEF StoreInv, TypeOK, AltaInv, AltaHash
<1>2. TableOf(Append(hfile, reg)) = After(TableOf(hfile), reg)
  BY <1>1, TableOfAppend
<1>3. TypeOK'
  BY DEF StoreInv, TypeOK, AltaHash
<1>4. CacheKept'
  BY DEF StoreInv, CacheKept, AltaHash
<1>5. AltaInv'
  BY <1>1, <1>2 DEF StoreInv, AltaInv, AltaHash, Modified
<1> QED
  BY <1>3, <1>4, <1>5 DEF StoreInv, IdleInv, PackInv, DropInv, AltaHash

(* The memory follows the file.                                            *)
LEMMA AltaMemInv == ASSUME StoreInv, AltaMem PROVE StoreInv'
<1>1. file \in Seq(Record) /\ mem' = TableOf(file)
  BY DEF StoreInv, TypeOK, AltaInv, AltaMem
<1>2. TableOf(file) \in Table
  BY <1>1, TableOfType
<1>3. cache' \in Cache /\ cache'.dirty = TRUE /\ cache'.stat = cache.stat
  BY DEF StoreInv, TypeOK, AltaMem, Cache
<1>4. TypeOK'
  BY <1>1, <1>2, <1>3 DEF StoreInv, TypeOK, AltaMem
<1>5. CacheKept'
  BY <1>3 DEF StoreInv, CacheKept, AltaMem
<1>6. IdleInv'
  BY <1>1 DEF StoreInv, AltaInv, IdleInv, AltaMem, Modified
<1> QED
  BY <1>4, <1>5, <1>6 DEF StoreInv, AltaInv, PackInv, DropInv, AltaMem

(* db_pack.                                                                *)
LEMMA PackMoveInv ==
    ASSUME StoreInv, NEW r \in Incoming, PackMove(r)
    PROVE  StoreInv'
<1>1. /\ r \in Record /\ r.key = Star
      /\ file \in Seq(Record) /\ hfile = file /\ mem = TableOf(file)
  BY Facts DEF StoreInv, TypeOK, IdleInv, PackMove
<1> DEFINE k == Kept(file, mem)
<1>2. k \in Seq(Record)
  BY <1>1, KeptLines
<1>3. TableOf(Append(k, r)) = After(TableOf(file), r)
  BY <1>1, TableOfKept
<1> HIDE DEF k
<1>4. mem' = After(TableOf(hfile), r) /\ mem' \in Table
  <2>1. mem \in Table /\ mem' = [mem EXCEPT !.serie = r.serie] /\ r.key \notin Key
    BY <1>1, TableConstants DEF StoreInv, TypeOK, PackMove
  <2>2. mem' = After(mem, r)
    BY <2>1 DEF After, Table
  <2> QED BY <1>1, <2>1, <2>2 DEF Record, Table
<1>5. hash' = k /\ reg' = r /\ pc' = "pack" /\ hfile' = hfile /\ tstat' = tstat
      /\ cache' = cache
  BY DEF PackMove, k
<1>6. \/ file' = file /\ stat' = stat
      \/ file' = Append(k, Garbage) /\ stat' = stat + 1
  BY DEF PackMove, k
<1>7. file' \in Lines /\ stat' \in Nat
  <2>1. k \in Lines
    BY <1>2, Facts
  <2>2. Append(k, Garbage) \in Lines
    BY <2>1, Facts DEF Lines
  <2>3. stat \in Nat /\ file \in Lines
    BY DEF StoreInv, TypeOK
  <2>4. stat' \in Nat
    BY <1>6, <2>3
  <2>5. file' \in Lines
    BY <1>6, <2>2, <2>3
  <2> QED BY <2>4, <2>5
<1>8. TypeOK'
  BY <1>1, <1>2, <1>4, <1>5, <1>7 DEF StoreInv, TypeOK
<1>9. CacheKept'
  BY <1>5, <1>6 DEF StoreInv, TypeOK, CacheKept, Cache
<1>10. PackInv'
  BY <1>1, <1>3, <1>4, <1>5 DEF PackInv, PackMove
<1> QED
  BY <1>5, <1>8, <1>9, <1>10 DEF StoreInv, IdleInv, AltaInv, DropInv

(* The file is cut to the lines that were kept.                            *)
LEMMA PackTruncateInv == ASSUME StoreInv, PackTruncate PROVE StoreInv'
<1>1. TypeOK'
  BY Facts DEF StoreInv, TypeOK, PackTruncate
<1>2. CacheKept'
  BY DEF StoreInv, TypeOK, CacheKept, Cache, PackTruncate
<1>3. PackInv'
  BY DEF StoreInv, PackInv, PackTruncate
<1> QED
  BY <1>1, <1>2, <1>3 DEF StoreInv, IdleInv, AltaInv, DropInv, PackTruncate

(* The checkpoint is written: its table is the one in memory.              *)
LEMMA PackWriteInv == ASSUME StoreInv, PackWrite PROVE StoreInv'
<1>1. reg \in Record /\ hash \in Seq(Record) /\ file = hash
  BY DEF StoreInv, TypeOK, PackInv, PackWrite
<1>2. TypeOK'
  <2>1. Append(hash, reg) \in Seq(Record)
    BY <1>1
  <2>2. file' \in Lines /\ hash' \in Seq(Record)
    BY <1>1, <2>1, Facts DEF PackWrite
  <2>3. stat' \in Nat /\ tstat' \in Nat
    BY DEF StoreInv, TypeOK, PackWrite
  <2> QED BY <2>2, <2>3 DEF StoreInv, TypeOK, PackWrite
<1>3. CacheKept'
  BY DEF StoreInv, TypeOK, CacheKept, Cache, PackWrite
<1>4. PackInv'
  BY <1>1 DEF StoreInv, PackInv, PackWrite, Modified
<1> QED
  BY <1>2, <1>3, <1>4 DEF StoreInv, IdleInv, AltaInv, DropInv, PackWrite

(* The hash is stored.                                                     *)
LEMMA PackHashInv == ASSUME StoreInv, PackHash PROVE StoreInv'
<1>1. TypeOK'
  BY DEF StoreInv, TypeOK, PackHash
<1>2. CacheKept'
  BY DEF StoreInv, CacheKept, PackHash
<1>3. IdleInv'
  BY DEF StoreInv, PackInv, IdleInv, PackHash, Modified
<1> QED
  BY <1>1, <1>2, <1>3 DEF StoreInv, AltaInv, PackInv, DropInv, PackHash

(* The D order.                                                            *)
LEMMA DropInvKept == ASSUME StoreInv, DropTruncate \/ DropHash PROVE StoreInv'
<1>1. CASE DropTruncate
  <2>1. TypeOK'
    BY <1>1, Facts DEF StoreInv, TypeOK, DropTruncate
  <2>2. CacheKept'
    BY <1>1 DEF StoreInv, TypeOK, CacheKept, Cache, DropTruncate
  <2>3. DropInv'
    BY <1>1 DEF DropInv, DropTruncate, Modified
  <2> QED BY <1>1, <2>1, <2>2, <2>3 DEF StoreInv, IdleInv, AltaInv, PackInv, DropTruncate
<1>2. CASE DropHash
  <2>1. cache' \in Cache /\ cache'.dirty = TRUE /\ cache'.stat = cache.stat
    BY <1>2 DEF StoreInv, TypeOK, DropHash, Cache
  <2>2. TypeOK'
    BY <1>2, <2>1, Facts DEF StoreInv, TypeOK, DropHash
  <2>3. CacheKept'
    BY <1>2, <2>1 DEF StoreInv, CacheKept, DropHash
  <2>4. IdleInv'
    BY <1>2, TableOfEmpty DEF StoreInv, DropInv, IdleInv, DropHash, Modified
  <2> QED BY <1>2, <2>2, <2>3, <2>4 DEF StoreInv, AltaInv, PackInv, DropInv, DropHash
<1> QED
  BY <1>1, <1>2

(* The start.                                                              *)
LEMMA BootInv == ASSUME StoreInv, BootMark \/ BootHit \/ BootRead PROVE StoreInv'
<1>1. CASE BootMark
  <2>1. Marked(cache.ver) \in {"ok", "used", "zero"}
    BY DEF Marked
  <2>2. /\ cache' \in Cache /\ cache'.dirty = cache.dirty /\ cache'.stat = cache.stat
        /\ cache'.hfile = cache.hfile /\ cache'.hash = cache.hash /\ cache'.mem = cache.mem
    BY <1>1, <2>1 DEF StoreInv, TypeOK, BootMark, Cache
  <2>3. TypeOK'
    BY <1>1, <2>2 DEF StoreInv, TypeOK, BootMark
  <2>4. CacheKept'
    BY <1>1, <2>2 DEF StoreInv, CacheKept, BootMark
  <2> QED BY <1>1, <2>3, <2>4 DEF StoreInv, IdleInv, AltaInv, PackInv, DropInv, BootMark
<1>2. CASE BootHit
  <2>1. /\ hash' = hfile /\ file = hfile /\ mem' = TableOf(file) /\ mem' \in Table
        /\ tstat' = stat
    BY <1>2 DEF StoreInv, TypeOK, CacheKept, Cache, BootHit, Hit
  <2>2. TypeOK'
    BY <1>2, <2>1 DEF StoreInv, TypeOK, BootHit
  <2>3. CacheKept'
    BY <1>2 DEF StoreInv, CacheKept, BootHit
  <2>4. IdleInv'
    BY <1>2, <2>1 DEF IdleInv, BootHit, Modified
  <2> QED BY <1>2, <2>2, <2>3, <2>4 DEF StoreInv, AltaInv, PackInv, DropInv, BootHit
<1>3. CASE BootRead
  <2>1. CASE file = hfile
    <3>1. /\ mem' = TableOf(file) /\ hash' = file /\ tstat' = stat /\ pc' = "idle"
          /\ file' = file /\ stat' = stat /\ hfile' = hfile /\ reg' = NoReg /\ cache' = NoCache
      BY <1>3, <2>1 DEF BootRead
    <3>2. TypeOK'
      BY <2>1, <3>1, Facts, TableOfType DEF StoreInv, TypeOK
    <3>3. CacheKept'
      BY <3>1 DEF StoreInv, TypeOK, CacheKept, NoCache
    <3>4. IdleInv'
      BY <2>1, <3>1 DEF IdleInv, Modified
    <3> QED BY <3>1, <3>2, <3>3, <3>4 DEF StoreInv, AltaInv, PackInv, DropInv
  <2>2. CASE file # hfile
    <3>1. /\ mem' = Empty /\ hash' = <<>> /\ file' = <<>> /\ stat' = stat + 1
          /\ tstat' = stat + 1 /\ pc' = "drop"
          /\ hfile' = hfile /\ reg' = NoReg /\ cache' = NoCache
      BY <1>3, <2>2 DEF BootRead
    <3>2. TypeOK'
      BY <3>1, Facts DEF StoreInv, TypeOK
    <3>3. CacheKept'
      BY <3>1 DEF StoreInv, TypeOK, CacheKept, NoCache
    <3>4. DropInv'
      BY <3>1 DEF DropInv, Modified
    <3> QED BY <3>1, <3>2, <3>3, <3>4 DEF StoreInv, IdleInv, AltaInv, PackInv
  <2> QED BY <2>1, <2>2
<1> QED
  BY <1>1, <1>2, <1>3

(* The end of the process, and edits from outside.                         *)
LEMMA EndInv ==
    ASSUME StoreInv, Crash \/ StopCommit \/ DieModified \/ Tamper
    PROVE  StoreInv'
<1>1. CASE Crash \/ DieModified
  <2>1. Dies /\ UNCHANGED <<file, hfile, stat, cache>>
    BY <1>1 DEF Crash, DieModified, disk
  <2>2. TypeOK'
    BY <2>1, Facts DEF StoreInv, TypeOK, Dies
  <2>3. CacheKept'
    BY <2>1 DEF StoreInv, CacheKept
  <2> QED BY <2>1, <2>2, <2>3 DEF StoreInv, IdleInv, AltaInv, PackInv, DropInv, Dies
<1>2. CASE StopCommit
  <2>1. Dies /\ UNCHANGED <<file, hfile, stat>>
    BY <1>2 DEF StopCommit, disk
  <2>2. /\ cache' \in Cache /\ cache'.dirty = FALSE /\ cache'.stat = stat
        /\ cache'.hfile = hash /\ cache'.hash = hash /\ cache'.mem = mem
        /\ file = hash /\ mem = TableOf(file)
    BY <1>2, Facts DEF StoreInv, TypeOK, IdleInv, StopCommit, Modified, Cache
  <2>3. TypeOK'
    BY <2>1, <2>2, Facts DEF StoreInv, TypeOK, Dies
  <2>4. CacheKept'
    BY <2>1, <2>2 DEF StoreInv, TypeOK, CacheKept
  <2> QED BY <2>1, <2>3, <2>4 DEF StoreInv, IdleInv, AltaInv, PackInv, DropInv, Dies
<1>3. CASE Tamper
  <2>1. /\ file' \in Lines /\ file' # <<>> /\ file'[Len(file')] = Garbage
    BY <1>3, Facts DEF StoreInv, TypeOK, Tamper, Lines
  <2>2. stat' = stat + 1 /\ pc \in {"idle", "down"}
        /\ UNCHANGED <<hfile, mem, hash, tstat, pc, reg, cache>>
    BY <1>3 DEF Tamper
  <2>3. TypeOK'
    BY <2>1, <2>2 DEF StoreInv, TypeOK
  <2>4. CacheKept'
    BY <2>2 DEF StoreInv, TypeOK, CacheKept, Cache
  <2>5. IdleInv'
    BY <2>1, <2>2 DEF StoreInv, TypeOK, IdleInv, Modified
  <2> QED BY <2>2, <2>3, <2>4, <2>5 DEF StoreInv, AltaInv, PackInv, DropInv
<1> QED
  BY <1>1, <1>2, <1>3

(* Every step keeps the invariant.                                         *)
LEMMA StoreNextInv == StoreInv /\ [Next]_vars => StoreInv'
<1> SUFFICES ASSUME StoreInv, [Next]_vars PROVE StoreInv'
  OBVIOUS
<1>1. CASE \E r \in Incoming : AltaWrite(r) \/ PackMove(r)
  BY <1>1, AltaWriteInv, PackMoveInv
<1>2. CASE AltaHash \/ AltaMem
  BY <1>2, AltaHashInv, AltaMemInv
<1>3. CASE PackTruncate \/ PackWrite \/ PackHash
  BY <1>3, PackTruncateInv, PackWriteInv, PackHashInv
<1>4. CASE DropTruncate \/ DropHash
  BY <1>4, DropInvKept
<1>5. CASE BootMark \/ BootHit \/ BootRead
  BY <1>5, BootInv
<1>6. CASE Crash \/ StopCommit \/ DieModified \/ Tamper
  BY <1>6, EndInv
<1>7. CASE UNCHANGED vars
  BY <1>7 DEF vars, StoreInv, TypeOK, CacheKept, IdleInv, AltaInv, PackInv, DropInv, Modified
<1> QED
  BY <1>1, <1>2, <1>3, <1>4, <1>5, <1>6, <1>7 DEF Next

(* Between two handlers the file, the stored hash, the hash in memory and  *)
(* the table in memory agree, after any crash, stop, start from the cache  *)
(* or from the file, and edit from outside that has not been noticed yet.  *)
THEOREM IdleStateAgrees == Spec => []IdleAgrees
<1>1. StoreInv => IdleAgrees
  BY DEF StoreInv, IdleInv, IdleAgrees
<1> QED
  BY <1>1, StoreInitInv, StoreNextInv, PTL DEF Spec
-----------------------------------------------------------------------------
(* The refinement.  A step of a handler that writes keeps the promised     *)
(* table, except the one that stores the hash: that one accepts the record *)
(* (or clears the table).  An end of the process stops it with the same    *)
(* table or with none; a start shows what was promised.                    *)

Up == pc \notin {"down", "boot_ok", "boot_bad"}

\* A step that does not show outside.
Hidden == PromisedTable' = PromisedTable /\ Up' = Up

\* What a server that is down promises.
Stored == IF file = hfile THEN TableOf(file) ELSE Empty

(* The promised table, by what the process is doing.                       *)
LEMMA PromisedSays ==
    /\ pc \in {"down", "boot_ok", "boot_bad"} => PromisedTable = Stored
    /\ pc \in {"pack", "pack_cut", "pack_hash"} => PromisedTable = TableOf(hfile)
    /\ pc = "alta_mem" => PromisedTable = After(mem, reg)
    /\ pc \in {"idle", "alta", "drop"} => PromisedTable = mem
BY DEF PromisedTable, Stored

(* The same after a step.                                                  *)
LEMMA PromisedSaysNext ==
    /\ pc' \in {"down", "boot_ok", "boot_bad"} => PromisedTable' = Stored'
    /\ pc' \in {"pack", "pack_cut", "pack_hash"} => PromisedTable' = TableOf(hfile')
    /\ pc' = "alta_mem" => PromisedTable' = After(mem', reg')
    /\ pc' \in {"idle", "alta", "drop"} => PromisedTable' = mem'
BY DEF PromisedTable, Stored

(* db_alta: the record is accepted when its hash is stored.                *)
LEMMA AltaRefines ==
    ASSUME StoreInv
    PROVE  /\ (\E r \in Incoming : AltaWrite(r)) \/ AltaMem => Hidden
           /\ AltaHash => \E r \in Record : Promise!Accept(r)
<1>1. ASSUME NEW r \in Incoming, AltaWrite(r) PROVE Hidden
  <2>1. pc = "idle" /\ pc' = "alta" /\ mem' = mem
    BY <1>1 DEF AltaWrite
  <2> QED BY <2>1, PromisedSays, PromisedSaysNext DEF Hidden, Up
<1>2. ASSUME AltaMem PROVE Hidden
  <2>1. pc = "alta_mem" /\ pc' = "idle" /\ mem' = After(mem, reg)
    BY <1>2 DEF AltaMem
  <2> QED BY <2>1, PromisedSays, PromisedSaysNext DEF Hidden, Up
<1>3. ASSUME AltaHash PROVE \E r \in Record : Promise!Accept(r)
  <2>1. pc = "alta" /\ pc' = "alta_mem" /\ mem' = mem /\ reg' = reg
    BY <1>3 DEF AltaHash
  <2>2. reg \in Record /\ reg.serie > mem.serie
    BY <2>1 DEF StoreInv, AltaInv
  <2>3. PromisedTable = mem /\ PromisedTable' = After(mem, reg)
    BY <2>1, PromisedSays, PromisedSaysNext
  <2>4. Promise!Accept(reg)
    BY <2>1, <2>2, <2>3 DEF Promise!Accept, Promise!After, After
  <2> QED BY <2>2, <2>4
<1> QED
  BY <1>1, <1>2, <1>3

(* db_pack: the same; until then the table of the old file is promised.    *)
LEMMA PackRefines ==
    ASSUME StoreInv
    PROVE  /\ (\E r \in Incoming : PackMove(r)) \/ PackTruncate \/ PackWrite => Hidden
           /\ PackHash => \E r \in Record : Promise!Accept(r)
<1>1. ASSUME NEW r \in Incoming, PackMove(r) PROVE Hidden
  <2>1. pc = "idle" /\ pc' = "pack" /\ hfile' = hfile /\ mem = TableOf(hfile)
    BY <1>1 DEF PackMove, StoreInv, IdleInv
  <2> QED BY <2>1, PromisedSays, PromisedSaysNext DEF Hidden, Up
<1>2. ASSUME PackTruncate \/ PackWrite PROVE Hidden
  <2>1. /\ pc \in {"pack", "pack_cut"} /\ pc' \in {"pack_cut", "pack_hash"}
        /\ hfile' = hfile
    BY <1>2 DEF PackTruncate, PackWrite
  <2> QED BY <2>1, PromisedSays, PromisedSaysNext DEF Hidden, Up
<1>3. ASSUME PackHash PROVE \E r \in Record : Promise!Accept(r)
  <2>1. pc = "pack_hash" /\ pc' = "idle" /\ mem' = mem
    BY <1>3 DEF PackHash
  <2>2. /\ reg \in Record /\ reg.serie > TableOf(hfile).serie
        /\ mem = After(TableOf(hfile), reg)
    BY <2>1 DEF StoreInv, PackInv
  <2>3. PromisedTable = TableOf(hfile) /\ PromisedTable' = After(TableOf(hfile), reg)
    BY <2>1, <2>2, PromisedSays, PromisedSaysNext
  <2>4. Promise!Accept(reg)
    BY <2>1, <2>2, <2>3 DEF Promise!Accept, Promise!After, After
  <2> QED BY <2>2, <2>4
<1> QED
  BY <1>1, <1>2, <1>3

(* D: the table is cleared when the empty hash is stored.                  *)
LEMMA DropRefines ==
    ASSUME StoreInv
    PROVE  (DropTruncate => Hidden) /\ (DropHash => Promise!Clear)
<1>1. ASSUME DropTruncate PROVE Hidden
  <2>1. pc = "idle" /\ pc' = "drop" /\ mem' = mem
    BY <1>1 DEF DropTruncate
  <2> QED BY <2>1, PromisedSays, PromisedSaysNext DEF Hidden, Up
<1>2. ASSUME DropHash PROVE Promise!Clear
  <2>1. pc = "drop" /\ pc' = "idle" /\ mem' = Empty
    BY <1>2 DEF DropHash
  <2>2. PromisedTable' = Empty
    BY <2>1, PromisedSaysNext
  <2> QED BY <2>1, <2>2 DEF Promise!Clear, Promise!Empty, Empty
<1> QED
  BY <1>1, <1>2

(* A start, from the cache or from the file, shows what was promised; the  *)
(* cache serves only for the file it was saved with.                       *)
LEMMA BootRefines ==
    ASSUME StoreInv
    PROVE  (BootMark => Hidden) /\ (BootHit \/ BootRead => Promise!Start)
<1>1. ASSUME BootMark PROVE Hidden
  <2>1. /\ pc = "down" /\ pc' \in {"boot_ok", "boot_bad"}
        /\ file' = file /\ hfile' = hfile
    BY <1>1 DEF BootMark
  <2>2. Stored' = Stored
    BY <2>1 DEF Stored
  <2> QED BY <2>1, <2>2, PromisedSays, PromisedSaysNext DEF Hidden, Up
<1>2. ASSUME BootHit PROVE Promise!Start
  <2>1. pc = "boot_ok" /\ pc' = "idle" /\ file = hfile /\ mem' = TableOf(file)
    BY <1>2 DEF StoreInv, CacheKept, BootHit, Hit
  <2>2. PromisedTable' = PromisedTable
    BY <2>1, PromisedSays, PromisedSaysNext DEF Stored
  <2> QED BY <2>1, <2>2 DEF Promise!Start
<1>3. ASSUME BootRead PROVE Promise!Start
  <2>1. /\ pc \in {"boot_ok", "boot_bad"} /\ pc' \in {"idle", "drop"}
        /\ mem' = IF file = hfile THEN TableOf(file) ELSE Empty
    BY <1>3 DEF BootRead
  <2>2. PromisedTable' = PromisedTable
    BY <2>1, PromisedSays, PromisedSaysNext DEF Stored
  <2> QED BY <2>1, <2>2 DEF Promise!Start
<1> QED
  BY <1>1, <1>2, <1>3

(* However the process ends, and whoever edits the file of a server that   *)
(* is down, the whole table is kept or the whole table is lost.            *)
LEMMA EndRefines ==
    ASSUME StoreInv
    PROVE  /\ Crash \/ StopCommit \/ DieModified => Promise!Stop
           /\ Tamper => Hidden \/ Promise!Stop
<1>1. Stored \in {PromisedTable, Empty}
  <2>1. CASE pc \in {"down", "boot_ok", "boot_bad"}
    BY <2>1, PromisedSays
  <2>2. CASE pc = "idle"
    <3>1. CASE Modified
      <4>1. file # hfile
        BY <2>2, <3>1, Facts DEF StoreInv, TypeOK, IdleInv
      <4> QED BY <4>1 DEF Stored
    <3>2. CASE ~Modified
      BY <2>2, <3>2, PromisedSays DEF StoreInv, IdleInv, Stored
    <3> QED BY <3>1, <3>2
  <2>3. CASE pc \in {"alta", "alta_mem"}
    <3>1. pc = "alta" => PromisedTable = mem /\ mem = TableOf(hfile)
      BY PromisedSays DEF StoreInv, AltaInv
    <3>2. pc = "alta_mem" => PromisedTable = After(mem, reg)
                             /\ TableOf(file) = After(mem, reg)
      BY PromisedSays DEF StoreInv, AltaInv
    <3> QED BY <2>3, <3>1, <3>2 DEF Stored
  <2>4. CASE pc \in {"pack", "pack_cut", "pack_hash"}
    BY <2>4, PromisedSays DEF Stored
  <2>5. CASE pc = "drop"
    BY <2>5, TableOfEmpty DEF StoreInv, DropInv, Stored
  <2> QED BY <2>1, <2>2, <2>3, <2>4, <2>5 DEF StoreInv, TypeOK
<1>2. ASSUME Crash \/ StopCommit \/ DieModified PROVE Promise!Stop
  <2>1. pc' = "down" /\ file' = file /\ hfile' = hfile
    BY <1>2 DEF Crash, StopCommit, DieModified, Dies, disk
  <2>2. PromisedTable' = Stored
    BY <2>1, PromisedSaysNext DEF Stored
  <2> QED BY <1>1, <2>1, <2>2 DEF Promise!Stop, Promise!Empty, Empty
<1>3. ASSUME Tamper PROVE Hidden \/ Promise!Stop
  <2>1. /\ pc' = pc /\ hfile' = hfile /\ mem' = mem
        /\ pc \in {"idle", "down"}
    BY <1>3 DEF Tamper
  <2>2. CASE pc = "idle"
    BY <2>1, <2>2, PromisedSays, PromisedSaysNext DEF Hidden, Up
  <2>3. CASE pc = "down"
    <3>1. file' # <<>> /\ file'[Len(file')] = Garbage
      BY <1>3 DEF StoreInv, TypeOK, Tamper, Lines
    <3>2. file' # hfile'
      BY <2>1, <3>1, Facts DEF StoreInv, TypeOK
    <3>3. PromisedTable' = Empty
      BY <2>1, <2>3, <3>2, PromisedSaysNext DEF Stored
    <3> QED BY <2>1, <2>3, <3>3 DEF Promise!Stop, Promise!Empty, Empty
  <2> QED BY <2>1, <2>2, <2>3
<1> QED
  BY <1>1, <1>2, <1>3

(* The files, the stored hash and the cache implement the table of         *)
(* DdbTable: whatever is cut, stopped or edited between any two writes, a  *)
(* server that starts again shows the whole table it had accepted or an    *)
(* empty one, and records are accepted in order of serial.                 *)
THEOREM FilesImplementTable == Spec => RefinesTable
<1>1. Init => Promise!TableInit
  <2> SUFFICES ASSUME Init PROVE Promise!TableInit
    OBVIOUS
  <2>1. PromisedTable = Empty
    BY PromisedSays, TableOfEmpty DEF Init, Stored
  <2> QED BY <2>1 DEF Init, Promise!TableInit, Promise!Empty, Empty
<1>2. StoreInv /\ [Next]_vars => [Promise!TableNext]_<<PromisedTable, Up>>
  <2> SUFFICES ASSUME StoreInv, [Next]_vars, ~Hidden
               PROVE  Promise!TableNext
    BY DEF Hidden
  <2>1. ~UNCHANGED vars
    BY DEF vars, Hidden, PromisedTable, Up
  <2>2. CASE \E r \in Incoming : AltaWrite(r) \/ PackMove(r)
    BY <2>2, AltaRefines, PackRefines
  <2>3. CASE AltaHash \/ AltaMem
    BY <2>3, AltaRefines DEF Promise!TableNext, Promise!Record, Promise!Val, Record, Val
  <2>4. CASE PackTruncate \/ PackWrite \/ PackHash
    BY <2>4, PackRefines DEF Promise!TableNext, Promise!Record, Promise!Val, Record, Val
  <2>5. CASE DropTruncate \/ DropHash
    BY <2>5, DropRefines DEF Promise!TableNext
  <2>6. CASE BootMark \/ BootHit \/ BootRead
    BY <2>6, BootRefines DEF Promise!TableNext
  <2>7. CASE Crash \/ StopCommit \/ DieModified \/ Tamper
    BY <2>7, EndRefines DEF Promise!TableNext
  <2> QED
    BY <2>1, <2>2, <2>3, <2>4, <2>5, <2>6, <2>7 DEF Next
<1> QED
  BY <1>1, <1>2, StoreInitInv, StoreNextInv, PTL
  DEF Spec, RefinesTable, Promise!TableSpec, Up
=============================================================================
