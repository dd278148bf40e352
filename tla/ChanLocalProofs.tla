-------------------------- MODULE ChanLocalProofs ---------------------------
(***************************************************************************)
(* The channels of one server, for any number of users, channels and bans. *)
(* ChanInv is inductive and implies the invariants that the run local      *)
(* checks of them.                                                         *)
(*                                                                         *)
(* The parts of the invariant speak of a record of the tables (All), since *)
(* the operators of the model lead from one such record to another.        *)
(***************************************************************************)
EXTENDS ChanLocal, TLAPS, FiniteSetTheorems, SequenceTheorems, WellFoundedInduction

Tables ==
    [ch : [Chan -> Channel], list : [User -> Seq(Chan)], joined : [User -> Int],
     invited : [User -> Seq(Chan)]]

\* q holds each member of S once.
Lists(q, S) == q \in Seq(Chan) /\ IsInjective(q) /\ ToSet(q) = S

\* The channels that u is on, and those that it is invited to.
Joined(s, u) == {c \in Chan : u \in s.ch[c].mem}
Asked(s, u) == {c \in Chan : u \in s.ch[c].invites}

\* Both ends of a membership agree, and both ends of an invitation.
Members(s) == \A u \in User : Lists(s.list[u], Joined(s, u)) /\ s.joined[u] = Len(s.list[u])
Calls(s) == \A u \in User : Lists(s.invited[u], Asked(s, u)) /\ Len(s.invited[u]) <= MaxJoined

\* A cached answer is what the list of bans says.
Answered(k) ==
    \A u \in User : k.cached[u] # 0 =>
        (u \in k.banned <=> \E b \in k.bans : <<b, u, k.cached[u]>> \in Hit)

\* A channel by itself; while its members are removed it may have zombies only.
Kept(k) ==
    /\ k \in Channel /\ k.users = Cardinality(k.mem)
    /\ k.ops \subseteq k.mem /\ k.voices \subseteq k.mem /\ k.zombies \subseteq k.mem
    /\ k.there <=> (k.mem # {} \/ k.reg)
    /\ Answered(k)
Alive(k) == k.mem # {} => k.mem \ k.zombies # {}

Whole(s) ==
    /\ s \in Tables
    /\ Members(s) /\ Calls(s)
    /\ \A c \in Chan : Kept(s.ch[c])
Sound(s) == Whole(s) /\ \A c \in Chan : Alive(s.ch[c])

ChanInv ==
    /\ Sound(All)
    /\ \A c \in Chan : ch[c].mem \cup ch[c].invites \subseteq on
    /\ on \subseteq User /\ nick \in [User -> Nicks]
    /\ chanTurns \in 0..MaxChanTurns /\ chanPlan \in ChanPlans

-----------------------------------------------------------------------------
(* Numbers, lists and loops.                                               *)

(* Induction over the natural numbers, for a set.                          *)
LEMMA SetInduction ==
    ASSUME NEW S, 0 \in S, \A n \in Nat : n \in S => n + 1 \in S
    PROVE  \A n \in Nat : n \in S
<1> SUFFICES ASSUME NEW k \in Nat, k \notin S PROVE FALSE
  OBVIOUS
<1> DEFINE T == {n \in Nat : n \notin S}
           D == OpToRel(<, Nat)
<1>1. T \subseteq Nat /\ T # {}
  OBVIOUS
<1>2. IsWellFoundedOn(D, Nat)
  BY NatLessThanWellFounded
<1>3. PICK x \in T : \A y \in T : ~(<<y, x>> \in D)
  <2> HIDE DEF T, D
  <2> QED BY <1>1, <1>2, WFMin
<1>4. \A y \in T : ~(y < x)
  BY <1>3 DEF OpToRel
<1>5. x # 0 /\ x - 1 \in Nat
  OBVIOUS
<1>6. x - 1 \in S
  BY <1>4, <1>5
<1> QED
  BY <1>5, <1>6

(* A set of natural numbers has a least one.                               *)
LEMMA LeastExists ==
    ASSUME NEW T \in SUBSET Nat, T # {}
    PROVE  \E x \in T : \A y \in T : x <= y
<1> DEFINE D == OpToRel(<, Nat)
<1>1. IsWellFoundedOn(D, Nat)
  BY NatLessThanWellFounded
<1>2. PICK x \in T : \A y \in T : ~(<<y, x>> \in D)
  <2> HIDE DEF D
  <2> QED BY <1>1, WFMin
<1>3. \A y \in T : ~(y < x)
  BY <1>2 DEF OpToRel
<1> QED
  BY <1>3

(* A list from which c is taken holds the others, once.                    *)
LEMMA RemovedIs ==
    ASSUME NEW q \in Seq(Chan), IsInjective(q), NEW c
    PROVE  /\ Lists(RemoveFirst(q, c), ToSet(q) \ {c})
           /\ c \in ToSet(q) => Len(q) > 0 /\ Len(RemoveFirst(q, c)) = Len(q) - 1
           /\ c \notin ToSet(q) => RemoveFirst(q, c) = q
<1>1. CASE ~\E i \in 1..Len(q) : q[i] = c
  <2>1. RemoveFirst(q, c) = q
    BY <1>1 DEF RemoveFirst
  <2>2. c \notin ToSet(q)
    BY <1>1 DEF ToSet
  <2>3. ToSet(q) \ {c} = ToSet(q)
    BY <2>2
  <2> QED BY <2>1, <2>2, <2>3 DEF Lists
<1>2. CASE \E i \in 1..Len(q) : q[i] = c
  <2> DEFINE I == {i \in 1..Len(q) : q[i] = c}
             at == Min(I)
             u == SubSeq(q, 1, at - 1)
             v == SubSeq(q, at + 1, Len(q))
             r == RemoveFirst(q, c)
  <2>1. I \in SUBSET Nat /\ I # {}
    BY <1>2
  <2>2. at \in I
    <3>1. at = CHOOSE x \in I : \A y \in I : x <= y
      BY DEF Min
    <3>2. \E x \in I : \A y \in I : x <= y
      <4> HIDE DEF I
      <4> QED BY <2>1, LeastExists
    <3> HIDE DEF I, at
    <3> QED BY <3>1, <3>2
  <2>3. r = u \o v
    BY <1>2, <2>1 DEF RemoveFirst, RemoveAt, SelectInSeq
  <2>4. at \in 1..Len(q) /\ q[at] = c /\ Len(q) \in Nat
    BY <2>2
  <2> HIDE DEF I, at
  <2>5. /\ u \in Seq(Chan) /\ Len(u) = at - 1 /\ \A i \in 1..(at - 1) : u[i] = q[i]
        /\ v \in Seq(Chan) /\ Len(v) = Len(q) - at /\ \A i \in 1..(Len(q) - at) : v[i] = q[i + at]
    BY <2>4
  <2> HIDE DEF u, v, r
  <2>6. r \in Seq(Chan) /\ Len(r) = Len(q) - 1
    <3>1. r \in Seq(Chan) /\ Len(r) = Len(u) + Len(v)
      BY <2>3, <2>5, ConcatProperties
    <3> QED BY <2>4, <2>5, <3>1
  <2>7. ASSUME NEW i \in 1..Len(r)
        PROVE  r[i] = IF i < at THEN q[i] ELSE q[i + 1]
    <3>1. CASE i < at
      <4>1. i <= Len(u) /\ i \in 1..(Len(u) + Len(v))
        BY <2>4, <2>5, <2>6, <3>1
      <4>2. r[i] = u[i]
        BY <2>3, <2>5, <4>1, ConcatProperties
      <4> QED BY <2>4, <2>5, <3>1, <4>2
    <3>2. CASE i >= at
      <4>1. i > Len(u) /\ i - Len(u) = i + 1 - at /\ i \in 1..(Len(u) + Len(v))
        BY <2>4, <2>5, <2>6, <3>2
      <4>2. r[i] = v[i + 1 - at]
        BY <2>3, <2>5, <4>1, ConcatProperties
      <4>3. i + 1 - at \in 1..(Len(q) - at) /\ (i + 1 - at) + at = i + 1
        BY <2>4, <2>6, <3>2
      <4>4. v[i + 1 - at] = q[i + 1]
        BY <2>5, <4>3
      <4> QED BY <2>4, <3>2, <4>2, <4>4
    <3> QED BY <2>4, <3>1, <3>2
  <2>8. IsInjective(r)
    <3> SUFFICES ASSUME NEW i \in 1..Len(r), NEW j \in 1..Len(r), r[i] = r[j] PROVE i = j
      BY <2>6 DEF IsInjective
    <3> DEFINE x == IF i < at THEN i ELSE i + 1
               y == IF j < at THEN j ELSE j + 1
    <3>1. x \in 1..Len(q) /\ y \in 1..Len(q) /\ r[i] = q[x] /\ r[j] = q[y]
      BY <2>4, <2>6, <2>7
    <3>2. x = y
      <4>1. \A k, l \in 1..Len(q) : q[k] = q[l] => k = l
        BY DEF IsInjective
      <4>2. q[x] = q[y]
        BY <3>1
      <4> HIDE DEF x, y
      <4> QED BY <3>1, <4>1, <4>2
    <3> QED BY <2>4, <2>6, <3>2
  <2>9. ToSet(r) = ToSet(q) \ {c}
    <3>1. ASSUME NEW x \in ToSet(r) PROVE x \in ToSet(q) \ {c}
      <4>1. PICK i \in 1..Len(r) : r[i] = x
        BY <2>6 DEF ToSet
      <4> DEFINE j == IF i < at THEN i ELSE i + 1
      <4>2. j \in 1..Len(q) /\ j # at /\ x = q[j]
        BY <2>4, <2>6, <2>7, <4>1
      <4> HIDE DEF j
      <4>3. q[j] # c
        BY <2>4, <4>2 DEF IsInjective
      <4> QED BY <4>2, <4>3 DEF ToSet
    <3>2. ASSUME NEW x \in ToSet(q), x # c PROVE x \in ToSet(r)
      <4>1. PICK i \in 1..Len(q) : q[i] = x
        BY DEF ToSet
      <4>2. i # at
        BY <2>4, <3>2, <4>1
      <4> DEFINE j == IF i < at THEN i ELSE i - 1
      <4>3. j \in 1..Len(r) /\ i = IF j < at THEN j ELSE j + 1
        BY <2>4, <2>6, <4>2
      <4> HIDE DEF j
      <4>4. r[j] = x
        BY <2>7, <4>1, <4>3
      <4> QED BY <2>6, <4>3, <4>4 DEF ToSet
    <3> QED BY <3>1, <3>2
  <2>10. c \in ToSet(q) /\ Len(q) > 0
    BY <2>4 DEF ToSet
  <2> QED BY <2>6, <2>8, <2>9, <2>10 DEF Lists, r
<1> QED
  BY <1>1, <1>2

(* ... an empty one holds nothing, and one that is not has a first.        *)
LEMMA FirstIs ==
    ASSUME NEW q \in Seq(Chan), NEW S, Lists(q, S)
    PROVE  /\ Len(q) \in Nat
           /\ Len(q) > 0 => Head(q) \in S /\ Head(q) \in Chan
           /\ Len(q) = 0 => S = {}
           /\ S = {} => q = <<>>
<1>1. ASSUME Len(q) > 0 PROVE Head(q) \in S /\ Head(q) \in Chan
  <2>1. Head(q) = q[1] /\ 1 \in DOMAIN q /\ q[1] \in Chan
    BY <1>1
  <2> QED BY <2>1 DEF Lists, ToSet
<1>2. ASSUME Len(q) = 0 PROVE S = {}
  BY <1>2 DEF Lists, ToSet
<1>3. ASSUME S = {} PROVE q = <<>>
  <2>1. Len(q) = 0
    BY <1>1, <1>3
  <2> QED BY <2>1
<1> QED
  BY <1>1, <1>2, <1>3

(* A channel put at the head or at the end of a list it is not in.         *)
LEMMA PutInto ==
    ASSUME NEW q \in Seq(Chan), NEW S, Lists(q, S), NEW c \in Chan, c \notin S
    PROVE  /\ Lists(<<c>> \o q, S \cup {c}) /\ Len(<<c>> \o q) = Len(q) + 1
           /\ Lists(Append(q, c), S \cup {c}) /\ Len(Append(q, c)) = Len(q) + 1
<1> DEFINE r == <<c>> \o q
           t == Append(q, c)
<1>0. Len(q) \in Nat /\ \A i \in 1..Len(q) : q[i] # c
  BY DEF Lists, ToSet
<1>1. r \in Seq(Chan) /\ Len(r) = Len(q) + 1 /\ \A i \in 1..Len(r) : r[i] = IF i = 1 THEN c ELSE q[i - 1]
  OBVIOUS
<1>2. t \in Seq(Chan) /\ Len(t) = Len(q) + 1 /\ \A i \in 1..Len(t) : t[i] = IF i = Len(q) + 1 THEN c ELSE q[i]
  OBVIOUS
<1> HIDE DEF r, t
<1>3. IsInjective(r) /\ IsInjective(t)
  <2>1. \A i, j \in 1..Len(q) : q[i] = q[j] => i = j
    BY DEF Lists, IsInjective
  <2>2. \A i, j \in 1..Len(r) : r[i] = r[j] => i = j
    <3> SUFFICES ASSUME NEW i \in 1..Len(r), NEW j \in 1..Len(r), r[i] = r[j] PROVE i = j
      OBVIOUS
    <3>1. CASE i = 1 \/ j = 1
      BY <1>0, <1>1, <3>1
    <3>2. CASE i # 1 /\ j # 1
      <4>1. i - 1 \in 1..Len(q) /\ j - 1 \in 1..Len(q) /\ q[i - 1] = q[j - 1]
        BY <1>0, <1>1, <3>2
      <4>2. i - 1 = j - 1
        BY <2>1, <4>1
      <4> QED BY <1>0, <1>1, <4>2
    <3> QED BY <3>1, <3>2
  <2>3. \A i, j \in 1..Len(t) : t[i] = t[j] => i = j
    <3> SUFFICES ASSUME NEW i \in 1..Len(t), NEW j \in 1..Len(t), t[i] = t[j] PROVE i = j
      OBVIOUS
    <3>1. CASE i = Len(q) + 1 \/ j = Len(q) + 1
      BY <1>0, <1>2, <3>1
    <3>2. CASE i # Len(q) + 1 /\ j # Len(q) + 1
      <4>1. i \in 1..Len(q) /\ j \in 1..Len(q) /\ q[i] = q[j]
        BY <1>0, <1>2, <3>2
      <4> QED BY <2>1, <4>1
    <3> QED BY <3>1, <3>2
  <2> QED BY <1>1, <1>2, <2>2, <2>3 DEF IsInjective
<1>4. ToSet(r) = ToSet(q) \cup {c}
  <2>1. ASSUME NEW x \in ToSet(r) PROVE x \in ToSet(q) \cup {c}
    <3>1. PICK i \in 1..Len(r) : r[i] = x
      BY <1>1 DEF ToSet
    <3>2. CASE i # 1
      <4>1. i - 1 \in 1..Len(q) /\ x = q[i - 1]
        BY <1>0, <1>1, <3>1, <3>2
      <4> QED BY <4>1 DEF ToSet
    <3> QED BY <1>1, <3>1, <3>2
  <2>2. ASSUME NEW x \in ToSet(q) PROVE x \in ToSet(r)
    <3>1. PICK i \in 1..Len(q) : q[i] = x
      BY DEF ToSet
    <3>2. i + 1 \in 1..Len(r) /\ i + 1 # 1 /\ (i + 1) - 1 = i
      BY <1>0, <1>1
    <3>3. r[i + 1] = x
      BY <1>1, <3>1, <3>2
    <3> QED BY <1>1, <3>2, <3>3 DEF ToSet
  <2>3. c \in ToSet(r)
    <3>1. 1 \in 1..Len(r) /\ r[1] = c
      BY <1>0, <1>1
    <3> QED BY <1>1, <3>1 DEF ToSet
  <2> QED BY <2>1, <2>2, <2>3
<1>5. ToSet(t) = ToSet(q) \cup {c}
  <2>1. ASSUME NEW x \in ToSet(t) PROVE x \in ToSet(q) \cup {c}
    <3>1. PICK i \in 1..Len(t) : t[i] = x
      BY <1>2 DEF ToSet
    <3>2. CASE i # Len(q) + 1
      <4>1. i \in 1..Len(q) /\ x = q[i]
        BY <1>0, <1>2, <3>1, <3>2
      <4> QED BY <4>1 DEF ToSet
    <3> QED BY <1>2, <3>1, <3>2
  <2>2. ASSUME NEW x \in ToSet(q) PROVE x \in ToSet(t)
    <3>1. PICK i \in 1..Len(q) : q[i] = x
      BY DEF ToSet
    <3>2. i \in 1..Len(t) /\ t[i] = x
      BY <1>0, <1>2, <3>1
    <3> QED BY <1>2, <3>2 DEF ToSet
  <2>3. c \in ToSet(t)
    <3>1. Len(q) + 1 \in 1..Len(t) /\ t[Len(q) + 1] = c
      BY <1>0, <1>2
    <3> QED BY <1>2, <3>1 DEF ToSet
  <2> QED BY <2>1, <2>2, <2>3
<1> QED
  BY <1>1, <1>2, <1>3, <1>4, <1>5 DEF Lists, r, t

(* The states a loop goes through.                                         *)
LEMMA UninviteLoop ==
    ASSUME NEW s, NEW x, NEW m \in Nat, m = Cardinality(s.ch[x].invites)
    PROVE  \E P : Uninvited(s, x) = P[m] /\ P[0] = s /\ \A n \in 1..m : P[n] = UninviteOne(P[n - 1], x)
<1> DEFINE V(M, i) == IF i = 0 THEN s ELSE UninviteOne(M[i - 1], x)
           Goes(n, M) == M = [i \in 0..n |-> V(M, i)]
           T == {n \in Nat : \E M : Goes(n, M)}
<1>1. 0 \in T
  <2> DEFINE M == [i \in 0..0 |-> s]
  <2>1. Goes(0, M)
    OBVIOUS
  <2> HIDE DEF M, Goes
  <2> QED BY <2>1
<1>2. ASSUME NEW n \in Nat, n \in T PROVE n + 1 \in T
  <2>1. PICK M : Goes(n, M)
    BY <1>2
  <2> DEFINE N == [i \in 0..(n + 1) |-> IF i = n + 1 THEN UninviteOne(M[n], x) ELSE M[i]]
  <2>2. \A i \in 0..n : M[i] = V(M, i)
    <3> HIDE DEF V
    <3> QED BY <2>1
  <2>3. ASSUME NEW i \in 0..(n + 1) PROVE N[i] = V(N, i)
    <3>1. CASE i = 0
      <4>1. N[i] = M[0] /\ M[0] = s
        BY <2>2, <3>1
      <4> QED BY <3>1, <4>1
    <3>2. CASE i = n + 1
      <4>1. N[i] = UninviteOne(M[n], x) /\ N[n] = M[n] /\ i - 1 = n /\ i # 0
        BY <3>2
      <4> HIDE DEF N
      <4> QED BY <4>1
    <3>3. CASE i # 0 /\ i # n + 1
      <4>1. i \in 0..n /\ N[i] = M[i] /\ N[i - 1] = M[i - 1]
        BY <3>3
      <4>2. M[i] = V(M, i)
        BY <2>2, <4>1
      <4> HIDE DEF N
      <4> QED BY <3>3, <4>1, <4>2
    <3> QED BY <3>1, <3>2, <3>3
  <2>4. N = [i \in 0..(n + 1) |-> N[i]]
    OBVIOUS
  <2> HIDE DEF N, V
  <2>5. Goes(n + 1, N)
    BY <2>3, <2>4
  <2> HIDE DEF Goes
  <2> QED BY <2>5
<1>3. m \in T
  <2> HIDE DEF T
  <2> QED BY <1>1, <1>2, SetInduction
<1> DEFINE P == CHOOSE M : Goes(m, M)
<1>4. Goes(m, P)
  <2> HIDE DEF Goes
  <2> QED BY <1>3
<1>5. Uninvited(s, x) = P[m]
  BY DEF Uninvited, Repeat
<1> HIDE DEF P
<1>6. \A i \in 0..m : P[i] = V(P, i)
  <2> HIDE DEF V
  <2> QED BY <1>4
<1>7. P[0] = s /\ \A n \in 1..m : P[n] = UninviteOne(P[n - 1], x)
  BY <1>6
<1> QED
  BY <1>5, <1>7

LEMMA EmptyLoop ==
    ASSUME NEW s, NEW x, NEW m \in Nat, m = Cardinality(s.ch[x].mem)
    PROVE  \E P : Emptied(s, x) = P[m] /\ P[0] = s /\ \A n \in 1..m : P[n] = UnlinkOne(P[n - 1], x)
<1> DEFINE V(M, i) == IF i = 0 THEN s ELSE UnlinkOne(M[i - 1], x)
           Goes(n, M) == M = [i \in 0..n |-> V(M, i)]
           T == {n \in Nat : \E M : Goes(n, M)}
<1>1. 0 \in T
  <2> DEFINE M == [i \in 0..0 |-> s]
  <2>1. Goes(0, M)
    OBVIOUS
  <2> HIDE DEF M, Goes
  <2> QED BY <2>1
<1>2. ASSUME NEW n \in Nat, n \in T PROVE n + 1 \in T
  <2>1. PICK M : Goes(n, M)
    BY <1>2
  <2> DEFINE N == [i \in 0..(n + 1) |-> IF i = n + 1 THEN UnlinkOne(M[n], x) ELSE M[i]]
  <2>2. \A i \in 0..n : M[i] = V(M, i)
    <3> HIDE DEF V
    <3> QED BY <2>1
  <2>3. ASSUME NEW i \in 0..(n + 1) PROVE N[i] = V(N, i)
    <3>1. CASE i = 0
      <4>1. N[i] = M[0] /\ M[0] = s
        BY <2>2, <3>1
      <4> QED BY <3>1, <4>1
    <3>2. CASE i = n + 1
      <4>1. N[i] = UnlinkOne(M[n], x) /\ N[n] = M[n] /\ i - 1 = n /\ i # 0
        BY <3>2
      <4> HIDE DEF N
      <4> QED BY <4>1
    <3>3. CASE i # 0 /\ i # n + 1
      <4>1. i \in 0..n /\ N[i] = M[i] /\ N[i - 1] = M[i - 1]
        BY <3>3
      <4>2. M[i] = V(M, i)
        BY <2>2, <4>1
      <4> HIDE DEF N
      <4> QED BY <3>3, <4>1, <4>2
    <3> QED BY <3>1, <3>2, <3>3
  <2>4. N = [i \in 0..(n + 1) |-> N[i]]
    OBVIOUS
  <2> HIDE DEF N, V
  <2>5. Goes(n + 1, N)
    BY <2>3, <2>4
  <2> HIDE DEF Goes
  <2> QED BY <2>5
<1>3. m \in T
  <2> HIDE DEF T
  <2> QED BY <1>1, <1>2, SetInduction
<1> DEFINE P == CHOOSE M : Goes(m, M)
<1>4. Goes(m, P)
  <2> HIDE DEF Goes
  <2> QED BY <1>3
<1>5. Emptied(s, x) = P[m]
  BY DEF Emptied, Repeat
<1> HIDE DEF P
<1>6. \A i \in 0..m : P[i] = V(P, i)
  <2> HIDE DEF V
  <2> QED BY <1>4
<1>7. P[0] = s /\ \A n \in 1..m : P[n] = UnlinkOne(P[n - 1], x)
  BY <1>6
<1> QED
  BY <1>5, <1>7

LEMMA LeaveLoop ==
    ASSUME NEW s, NEW x, NEW m \in Nat, m = Len(s.list[x])
    PROVE  \E P : LeaveAll(s, x) = P[m] /\ P[0] = s /\ \A n \in 1..m : P[n] = LeaveOne(P[n - 1], x)
<1> DEFINE V(M, i) == IF i = 0 THEN s ELSE LeaveOne(M[i - 1], x)
           Goes(n, M) == M = [i \in 0..n |-> V(M, i)]
           T == {n \in Nat : \E M : Goes(n, M)}
<1>1. 0 \in T
  <2> DEFINE M == [i \in 0..0 |-> s]
  <2>1. Goes(0, M)
    OBVIOUS
  <2> HIDE DEF M, Goes
  <2> QED BY <2>1
<1>2. ASSUME NEW n \in Nat, n \in T PROVE n + 1 \in T
  <2>1. PICK M : Goes(n, M)
    BY <1>2
  <2> DEFINE N == [i \in 0..(n + 1) |-> IF i = n + 1 THEN LeaveOne(M[n], x) ELSE M[i]]
  <2>2. \A i \in 0..n : M[i] = V(M, i)
    <3> HIDE DEF V
    <3> QED BY <2>1
  <2>3. ASSUME NEW i \in 0..(n + 1) PROVE N[i] = V(N, i)
    <3>1. CASE i = 0
      <4>1. N[i] = M[0] /\ M[0] = s
        BY <2>2, <3>1
      <4> QED BY <3>1, <4>1
    <3>2. CASE i = n + 1
      <4>1. N[i] = LeaveOne(M[n], x) /\ N[n] = M[n] /\ i - 1 = n /\ i # 0
        BY <3>2
      <4> HIDE DEF N
      <4> QED BY <4>1
    <3>3. CASE i # 0 /\ i # n + 1
      <4>1. i \in 0..n /\ N[i] = M[i] /\ N[i - 1] = M[i - 1]
        BY <3>3
      <4>2. M[i] = V(M, i)
        BY <2>2, <4>1
      <4> HIDE DEF N
      <4> QED BY <3>3, <4>1, <4>2
    <3> QED BY <3>1, <3>2, <3>3
  <2>4. N = [i \in 0..(n + 1) |-> N[i]]
    OBVIOUS
  <2> HIDE DEF N, V
  <2>5. Goes(n + 1, N)
    BY <2>3, <2>4
  <2> HIDE DEF Goes
  <2> QED BY <2>5
<1>3. m \in T
  <2> HIDE DEF T
  <2> QED BY <1>1, <1>2, SetInduction
<1> DEFINE P == CHOOSE M : Goes(m, M)
<1>4. Goes(m, P)
  <2> HIDE DEF Goes
  <2> QED BY <1>3
<1>5. LeaveAll(s, x) = P[m]
  BY DEF LeaveAll, Repeat
<1> HIDE DEF P
<1>6. \A i \in 0..m : P[i] = V(P, i)
  <2> HIDE DEF V
  <2> QED BY <1>4
<1>7. P[0] = s /\ \A n \in 1..m : P[n] = LeaveOne(P[n - 1], x)
  BY <1>6
<1> QED
  BY <1>5, <1>7

LEMMA ForgetLoop ==
    ASSUME NEW s, NEW x, NEW m \in Nat, m = Len(s.invited[x])
    PROVE  \E P : ForgetAll(s, x) = P[m] /\ P[0] = s /\ \A n \in 1..m : P[n] = ForgetOne(P[n - 1], x)
<1> DEFINE V(M, i) == IF i = 0 THEN s ELSE ForgetOne(M[i - 1], x)
           Goes(n, M) == M = [i \in 0..n |-> V(M, i)]
           T == {n \in Nat : \E M : Goes(n, M)}
<1>1. 0 \in T
  <2> DEFINE M == [i \in 0..0 |-> s]
  <2>1. Goes(0, M)
    OBVIOUS
  <2> HIDE DEF M, Goes
  <2> QED BY <2>1
<1>2. ASSUME NEW n \in Nat, n \in T PROVE n + 1 \in T
  <2>1. PICK M : Goes(n, M)
    BY <1>2
  <2> DEFINE N == [i \in 0..(n + 1) |-> IF i = n + 1 THEN ForgetOne(M[n], x) ELSE M[i]]
  <2>2. \A i \in 0..n : M[i] = V(M, i)
    <3> HIDE DEF V
    <3> QED BY <2>1
  <2>3. ASSUME NEW i \in 0..(n + 1) PROVE N[i] = V(N, i)
    <3>1. CASE i = 0
      <4>1. N[i] = M[0] /\ M[0] = s
        BY <2>2, <3>1
      <4> QED BY <3>1, <4>1
    <3>2. CASE i = n + 1
      <4>1. N[i] = ForgetOne(M[n], x) /\ N[n] = M[n] /\ i - 1 = n /\ i # 0
        BY <3>2
      <4> HIDE DEF N
      <4> QED BY <4>1
    <3>3. CASE i # 0 /\ i # n + 1
      <4>1. i \in 0..n /\ N[i] = M[i] /\ N[i - 1] = M[i - 1]
        BY <3>3
      <4>2. M[i] = V(M, i)
        BY <2>2, <4>1
      <4> HIDE DEF N
      <4> QED BY <3>3, <4>1, <4>2
    <3> QED BY <3>1, <3>2, <3>3
  <2>4. N = [i \in 0..(n + 1) |-> N[i]]
    OBVIOUS
  <2> HIDE DEF N, V
  <2>5. Goes(n + 1, N)
    BY <2>3, <2>4
  <2> HIDE DEF Goes
  <2> QED BY <2>5
<1>3. m \in T
  <2> HIDE DEF T
  <2> QED BY <1>1, <1>2, SetInduction
<1> DEFINE P == CHOOSE M : Goes(m, M)
<1>4. Goes(m, P)
  <2> HIDE DEF Goes
  <2> QED BY <1>3
<1>5. ForgetAll(s, x) = P[m]
  BY DEF ForgetAll, Repeat
<1> HIDE DEF P
<1>6. \A i \in 0..m : P[i] = V(P, i)
  <2> HIDE DEF V
  <2> QED BY <1>4
<1>7. P[0] = s /\ \A n \in 1..m : P[n] = ForgetOne(P[n - 1], x)
  BY <1>6
<1> QED
  BY <1>5, <1>7

-----------------------------------------------------------------------------
(* Records.                                                                *)

(* One channel is written, or one list of one user.                        *)
Set(s, c, k) == [s EXCEPT !.ch[c] = k]
IsSet(s, c, k, t) ==
    /\ t \in Tables /\ t.list = s.list /\ t.joined = s.joined /\ t.invited = s.invited
    /\ t.ch[c] = k /\ \A d \in Chan : d # c => t.ch[d] = s.ch[d]
LEMMA PutChan ==
    ASSUME NEW s \in Tables, NEW c \in Chan, NEW k \in Channel, NEW t, t = Set(s, c, k)
    PROVE  IsSet(s, c, k, t)
  BY DEF Tables, Set, IsSet

IsListed(s, u, c, k, q, n, t) ==
    /\ t \in Tables /\ t.invited = s.invited
    /\ t.ch[c] = k /\ \A d \in Chan : d # c => t.ch[d] = s.ch[d]
    /\ t.list[u] = q /\ t.joined[u] = n
    /\ \A w \in User : w # u => t.list[w] = s.list[w] /\ t.joined[w] = s.joined[w]
Listed(s, u, c, k, q, n) == [s EXCEPT !.ch[c] = k, !.list[u] = q, !.joined[u] = n]
LEMMA PutList ==
    ASSUME NEW s \in Tables, NEW c \in Chan, NEW u \in User, NEW k \in Channel,
           NEW q \in Seq(Chan), NEW n \in Int,
           NEW t, t = Listed(s, u, c, k, q, n)
    PROVE  IsListed(s, u, c, k, q, n, t)
  BY DEF Tables, Listed, IsListed

\* What del_invite makes of the tables, and of the channel.
Inviting(k, I) == [k EXCEPT !.invites = I]
Called(s, u, c, I, q) == [s EXCEPT !.ch[c].invites = I, !.invited[u] = q]
IsCalled(s, u, c, I, q, t) ==
    /\ t \in Tables /\ t.list = s.list /\ t.joined = s.joined
    /\ t.ch[c] = Inviting(s.ch[c], I)
    /\ \A d \in Chan : d # c => t.ch[d] = s.ch[d]
    /\ t.invited[u] = q /\ \A w \in User : w # u => t.invited[w] = s.invited[w]
LEMMA PutCall ==
    ASSUME NEW s \in Tables, NEW c \in Chan, NEW u \in User, NEW I \in SUBSET Locals,
           NEW q \in Seq(Chan),
           NEW t, t = Called(s, u, c, I, q)
    PROVE  IsCalled(s, u, c, I, q, t)
<1> DEFINE k == [s.ch[c] EXCEPT !.invites = I]
<1>1. k \in Channel
  <2>1. s.ch[c] \in Channel
    BY DEF Tables
  <2> DEFINE j == s.ch[c]
  <2> HIDE DEF j
  <2>2. [j EXCEPT !.invites = I] \in Channel
    BY <2>1 DEF Channel, j
  <2> QED BY <2>2 DEF j
<1>2. t = [s EXCEPT !.ch[c] = k, !.invited[u] = q]
  BY DEF Tables, Called
<1> HIDE DEF k
<1>3. /\ t \in Tables /\ t.list = s.list /\ t.joined = s.joined
      /\ t.ch[c] = k /\ \A d \in Chan : d # c => t.ch[d] = s.ch[d]
      /\ t.invited[u] = q /\ \A w \in User : w # u => t.invited[w] = s.invited[w]
  BY ONLY <1>1, <1>2, s \in Tables, c \in Chan, u \in User, q \in Seq(Chan) DEF Tables
<1> QED
  BY <1>3 DEF k, Inviting, IsCalled

(* What a channel is with another set of invitations.                      *)
LEMMA PutInvites ==
    ASSUME NEW k \in Channel, NEW I \in SUBSET Locals, NEW j, j = Inviting(k, I)
    PROVE  /\ j \in Channel /\ j.invites = I
           /\ \A J \in SUBSET Locals : Inviting(j, J) = Inviting(k, J)
           /\ j.mem = k.mem /\ j.users = k.users /\ j.zombies = k.zombies /\ j.reg = k.reg
           /\ Kept(k) => Kept(j)
<1>1. j \in Channel /\ j.invites = I /\ j.mem = k.mem /\ j.users = k.users /\ j.zombies = k.zombies
  BY DEF Channel, Inviting
<1>2. /\ j.reg = k.reg /\ j.there = k.there /\ j.ops = k.ops /\ j.voices = k.voices
      /\ j.cached = k.cached /\ j.banned = k.banned /\ j.bans = k.bans
  BY DEF Channel, Inviting
<1>3. \A J \in SUBSET Locals : Inviting(j, J) = Inviting(k, J)
  BY DEF Channel, Inviting
<1>4. Kept(k) => Kept(j)
  BY <1>1, <1>2 DEF Kept, Answered
<1> QED
  BY <1>1, <1>2, <1>3, <1>4

(* What is left when a member's link is freed.                             *)
IsFreed(k, u, j) ==
    /\ j \in Channel /\ j.mem = k.mem \ {u} /\ j.zombies = k.zombies \ {u}
    /\ j.ops = k.ops \ {u} /\ j.voices = k.voices \ {u} /\ j.banned = k.banned \ {u}
    /\ j.cached = [k.cached EXCEPT ![u] = 0]
    /\ j.users = k.users /\ j.there = k.there /\ j.reg = k.reg /\ j.bans = k.bans
    /\ j.invites = k.invites
LEMMA FreedIs ==
    ASSUME NEW k \in Channel, NEW u \in User, NEW j, j = LinkFreed(k, u)
    PROVE  IsFreed(k, u, j)
<1> DEFINE f == [k.cached EXCEPT ![u] = 0]
           i == [k EXCEPT !.mem = k.mem \ {u}, !.ops = k.ops \ {u}, !.voices = k.voices \ {u}]
           h == [i EXCEPT !.zombies = k.zombies \ {u}, !.banned = k.banned \ {u}, !.cached = f]
<1>1. f \in [User -> Nicks \cup {0}]
  BY DEF Channel
<1> HIDE DEF f
<1>2. /\ i \in Channel /\ i.mem = k.mem \ {u} /\ i.ops = k.ops \ {u} /\ i.voices = k.voices \ {u}
      /\ i.zombies = k.zombies /\ i.banned = k.banned /\ i.cached = k.cached
      /\ i.users = k.users /\ i.there = k.there /\ i.reg = k.reg /\ i.bans = k.bans
      /\ i.invites = k.invites
  BY DEF Channel
<1>3. j = h
  BY DEF LinkFreed, f, Channel
<1> HIDE DEF i
<1>4. /\ h \in Channel /\ h.mem = i.mem /\ h.ops = i.ops /\ h.voices = i.voices
      /\ h.zombies = k.zombies \ {u} /\ h.banned = k.banned \ {u} /\ h.cached = f
      /\ h.users = i.users /\ h.there = i.there /\ h.reg = i.reg /\ h.bans = i.bans
      /\ h.invites = i.invites
  <2>1. k.zombies \ {u} \in SUBSET User /\ k.banned \ {u} \in SUBSET User
    BY DEF Channel
  <2> QED BY <1>1, <1>2, <2>1 DEF Channel
<1> HIDE DEF h
<1> QED
  BY <1>2, <1>3, <1>4 DEF f, IsFreed

-----------------------------------------------------------------------------
(* Invitations.                                                            *)

\* From s to t only the invitations to c have changed, and they are those in I.
OnlyCalls(s, t, c, I) ==
    /\ t \in Tables /\ Calls(t) /\ t.list = s.list /\ t.joined = s.joined
    /\ I \in SUBSET Locals /\ t.ch[c] = Inviting(s.ch[c], I)
    /\ \A d \in Chan : d # c => t.ch[d] = s.ch[d]

(* An invitation goes at both ends.                                        *)
LEMMA DelInvite ==
    ASSUME NEW s \in Tables, Calls(s), NEW u \in User, NEW c \in Chan
    PROVE  /\ OnlyCalls(s, del_invite(s, u, c), c, s.ch[c].invites \ {u})
           /\ del_invite(s, u, c).invited[u] = RemoveFirst(s.invited[u], c)
           /\ \A w \in User : w # u => del_invite(s, u, c).invited[w] = s.invited[w]
<1> DEFINE I == s.ch[c].invites \ {u}
           q == RemoveFirst(s.invited[u], c)
           t == del_invite(s, u, c)
<1>1. /\ s.ch[c] \in Channel /\ s.ch[c].invites \in SUBSET Locals /\ I \in SUBSET Locals
      /\ \A d \in Chan : s.ch[d] \in Channel
  BY DEF Tables, Channel
<1>2. /\ s.invited[u] \in Seq(Chan) /\ Lists(s.invited[u], Asked(s, u))
      /\ Len(s.invited[u]) <= MaxJoined /\ IsInjective(s.invited[u])
      /\ ToSet(s.invited[u]) = Asked(s, u) /\ MaxJoined \in Nat
  BY LocalConstants DEF Calls, Tables, Lists
<1>3. Lists(q, Asked(s, u) \ {c}) /\ Len(q) <= MaxJoined /\ q \in Seq(Chan)
  <2>1. /\ Lists(q, Asked(s, u) \ {c})
        /\ Len(q) = Len(s.invited[u]) - 1 \/ q = s.invited[u]
    BY <1>2, RemovedIs
  <2>2. q \in Seq(Chan)
    BY <2>1 DEF Lists
  <2> HIDE DEF q
  <2> QED BY <1>2, <2>1, <2>2
<1>4. t = Called(s, u, c, I, q)
  BY DEF del_invite, Called
<1> HIDE DEF I, q, t
<1>5. /\ t \in Tables /\ t.list = s.list /\ t.joined = s.joined
      /\ t.ch[c] = Inviting(s.ch[c], I)
      /\ \A d \in Chan : d # c => t.ch[d] = s.ch[d]
      /\ t.invited[u] = q /\ \A w \in User : w # u => t.invited[w] = s.invited[w]
  <2>1. /\ s \in Tables /\ c \in Chan /\ u \in User /\ I \in SUBSET Locals /\ q \in Seq(Chan)
        /\ t = Called(s, u, c, I, q)
    BY <1>1, <1>3, <1>4
  <2>2. IsCalled(s, u, c, I, q, t)
    BY ONLY <2>1, PutCall
  <2> QED BY <2>2 DEF IsCalled
<1>6. t.ch[c].invites = I
  BY <1>1, <1>5, PutInvites DEF Tables
<1>7. ASSUME NEW w \in User PROVE Lists(t.invited[w], Asked(t, w)) /\ Len(t.invited[w]) <= MaxJoined
  <2>1. CASE w = u
    <3>1. Asked(t, u) = Asked(s, u) \ {c}
      BY <1>5, <1>6 DEF Asked, I
    <3> QED BY <1>3, <1>5, <2>1, <3>1
  <2>2. CASE w # u
    <3>1. Asked(t, w) = Asked(s, w)
      BY <1>5, <1>6, <2>2 DEF Asked, I
    <3>2. t.invited[w] = s.invited[w]
      BY <1>5, <2>2
    <3> QED BY <3>1, <3>2 DEF Calls
  <2> QED BY <2>1, <2>2
<1>8. Calls(t)
  BY <1>7 DEF Calls
<1> QED
  BY <1>1, <1>5, <1>8 DEF OnlyCalls, I, q, t

(* All invitations to a channel go.                                        *)
LEMMA UninvitedIs ==
    ASSUME NEW s \in Tables, Calls(s), NEW c \in Chan
    PROVE  OnlyCalls(s, Uninvited(s, c), c, {})
<1> DEFINE k == s.ch[c]
           m == Cardinality(k.invites)
<1>1. k \in Channel /\ k.invites \in SUBSET Locals
  BY DEF Tables, Channel
<1>2. IsFiniteSet(k.invites) /\ m \in Nat
  <2>1. k.invites \subseteq User /\ IsFiniteSet(User)
    BY <1>1, LocalConstants DEF User
  <2> QED BY <2>1, FS_Subset, FS_CardinalityType
<1>3. PICK P : /\ Uninvited(s, c) = P[m] /\ P[0] = s
               /\ \A n \in 1..m : P[n] = UninviteOne(P[n - 1], c)
  BY <1>2, UninviteLoop
<1> DEFINE At(n, I) == /\ OnlyCalls(s, P[n], c, I) /\ IsFiniteSet(I) /\ Cardinality(I) = m - n
                       /\ P[n].ch[c].invites = I
           T == {n \in Nat : n <= m => \E I : At(n, I)}
<1>4. 0 \in T
  <2>1. k = Inviting(k, k.invites)
    BY <1>1 DEF Channel, Inviting
  <2>2. At(0, k.invites)
    BY <1>1, <1>2, <1>3, <2>1 DEF OnlyCalls
  <2> QED BY <2>2
<1>5. ASSUME NEW n \in Nat, n \in T PROVE n + 1 \in T
  <2> SUFFICES ASSUME n + 1 <= m PROVE \E I : At(n + 1, I)
    OBVIOUS
  <2> HIDE DEF m
  <2>1. PICK I : At(n, I)
    BY <1>2, <1>5
  <2> DEFINE t == P[n]
             u == CHOOSE w \in t.ch[c].invites : TRUE
             J == I \ {u}
  <2>2. /\ t \in Tables /\ Calls(t) /\ I \in SUBSET Locals /\ t.ch[c].invites = I
        /\ t.ch[c] = Inviting(k, I) /\ t.list = s.list /\ t.joined = s.joined
        /\ \A d \in Chan : d # c => t.ch[d] = s.ch[d]
    BY <2>1 DEF OnlyCalls
  <2>3. I # {}
    <3>1. IsFiniteSet(I) /\ Cardinality(I) # 0
      BY <1>2, <2>1
    <3> QED BY <3>1, FS_EmptySet
  <2>4. u \in I
    BY <2>2, <2>3
  <2> HIDE DEF u
  <2>5. P[n + 1] = del_invite(t, u, c)
    <3>1. n + 1 \in 1..m /\ (n + 1) - 1 = n
      BY <1>2
    <3> QED BY <1>3, <3>1 DEF UninviteOne, u
  <2>6. IsFiniteSet(J) /\ Cardinality(J) = m - (n + 1)
    <3>1. IsFiniteSet(I) /\ Cardinality(I) = m - n
      BY <2>1
    <3>2. IsFiniteSet(J) /\ Cardinality(J) = Cardinality(I) - 1
      BY <2>4, <3>1, FS_RemoveElement
    <3> QED BY <1>2, <3>1, <3>2
  <2>7. u \in User
    BY <2>2, <2>4 DEF User
  <2> DEFINE r == P[n + 1]
  <2> HIDE DEF t, r
  <2>8. OnlyCalls(t, r, c, J)
    <3>1. OnlyCalls(t, del_invite(t, u, c), c, t.ch[c].invites \ {u})
      BY ONLY <2>2, <2>7, DelInvite, c \in Chan
    <3> QED BY <2>2, <2>5, <3>1 DEF r
  <2>9. J \in SUBSET Locals /\ r.ch[c] = Inviting(t.ch[c], J)
    BY <2>8 DEF OnlyCalls
  <2>10. r.ch[c] = Inviting(k, J)
    BY <1>1, <2>2, <2>9, PutInvites
  <2>11. r.ch[c].invites = J
    BY <1>1, <2>9, <2>10, PutInvites
  <2>12. OnlyCalls(s, r, c, J)
    BY <2>2, <2>8, <2>10 DEF OnlyCalls
  <2> HIDE DEF J
  <2>13. At(n + 1, J)
    BY <2>6, <2>11, <2>12 DEF r
  <2> HIDE DEF At
  <2> QED BY <2>13
<1>6. m \in T
  <2> HIDE DEF T, m
  <2> QED BY <1>2, <1>4, <1>5, SetInduction
<1> HIDE DEF m
<1>7. PICK I : At(m, I)
  BY <1>2, <1>6
<1>8. I = {}
  <2>1. IsFiniteSet(I) /\ Cardinality(I) = 0
    BY <1>2, <1>7
  <2> QED BY <2>1, FS_EmptySet
<1> QED
  BY <1>3, <1>7, <1>8

-----------------------------------------------------------------------------
(* Members leave.                                                          *)

LEMMA NoChanIs == NoChan \in Channel /\ Kept(NoChan) /\ NoChan.mem = {} /\ NoChan.zombies = {}
                  /\ NoChan.invites = {}
<1> DEFINE f == [u \in User |-> 0]
<1>1. f \in [User -> Nicks \cup {0}] /\ \A u \in User : f[u] = 0
  OBVIOUS
<1>2. MaxKey \in Nat /\ MaxLimit \in Nat
  BY LocalConstants
<1>3. 0 \in 0..MaxKey /\ 0 \in 0..MaxLimit /\ 0 \in Int
  BY <1>2
<1> HIDE DEF f
<1>4. NoChan \in Channel
  BY <1>1, <1>3 DEF NoChan, Channel, f
<1>5. /\ NoChan.cached = f /\ NoChan.mem = {} /\ NoChan.users = 0 /\ NoChan.ops = {}
      /\ NoChan.voices = {} /\ NoChan.zombies = {} /\ NoChan.there = FALSE /\ NoChan.reg = FALSE
      /\ NoChan.invites = {}
  BY DEF NoChan, f
<1>6. Cardinality({}) = 0
  BY FS_EmptySet
<1> QED
  BY <1>1, <1>4, <1>5, <1>6 DEF Kept, Answered

(* A set of users is finite.                                               *)
LEMMA UsersFinite ==
    ASSUME NEW S \in SUBSET User
    PROVE  IsFiniteSet(S) /\ Cardinality(S) \in Nat /\ (S = {} <=> Cardinality(S) = 0)
  BY LocalConstants, FS_Subset, FS_CardinalityType, FS_EmptySet

(* Who is on what is as before where channels and lists are.               *)
LEMMA SameMembers ==
    ASSUME NEW s, NEW t, Members(s), t.list = s.list, t.joined = s.joined,
           \A d \in Chan : t.ch[d].mem = s.ch[d].mem
    PROVE  Members(t)
<1>1. \A u \in User : Joined(t, u) = Joined(s, u)
  BY DEF Joined
<1> QED
  BY <1>1 DEF Members

LEMMA SameCalls ==
    ASSUME NEW s, NEW t, Calls(s), t.invited = s.invited,
           \A d \in Chan : t.ch[d].invites = s.ch[d].invites
    PROVE  Calls(t)
<1>1. \A u \in User : Asked(t, u) = Asked(s, u)
  BY DEF Asked
<1> QED
  BY <1>1 DEF Calls

\* From s to t u has left c, and nobody else has left or come.
Leaves(s, t, u, c) ==
    /\ t.ch[c].mem = s.ch[c].mem \ {u} /\ t.ch[c].zombies = s.ch[c].zombies \ {u}
    /\ t.ch[c].invites \subseteq s.ch[c].invites
    /\ \A d \in Chan : d # c => t.ch[d] = s.ch[d]
    /\ t.list[u] = RemoveFirst(s.list[u], c)
    /\ \A w \in User : w # u => t.list[w] = s.list[w]

\* The tables after the two links are freed and before the channel is counted.
Between(s, u, c) ==
    Listed(s, u, c, LinkFreed(s.ch[c], u), RemoveFirst(s.list[u], c), s.joined[u] - 1)
LEMMA BetweenIs ==
    ASSUME NEW s, Whole(s), NEW u \in User, NEW c \in Chan, u \in s.ch[c].mem,
           NEW r, r = Between(s, u, c)
    PROVE  /\ r \in Tables /\ Members(r) /\ Calls(r)
           /\ r.ch[c] = LinkFreed(s.ch[c], u) /\ \A d \in Chan : d # c => r.ch[d] = s.ch[d]
           /\ r.list[u] = RemoveFirst(s.list[u], c)
           /\ \A w \in User : w # u => r.list[w] = s.list[w]
<1> DEFINE k == s.ch[c]
           j == LinkFreed(k, u)
           q == RemoveFirst(s.list[u], c)
           n == s.joined[u] - 1
<1>1. /\ s \in Tables /\ k \in Channel /\ s.list[u] \in Seq(Chan) /\ s.joined[u] \in Int
      /\ Members(s) /\ Calls(s)
  BY DEF Whole, Tables
<1>2. /\ Lists(s.list[u], Joined(s, u)) /\ s.joined[u] = Len(s.list[u]) /\ IsInjective(s.list[u])
      /\ ToSet(s.list[u]) = Joined(s, u) /\ c \in Joined(s, u)
  BY <1>1 DEF Members, Lists, Joined
<1>3. /\ Lists(q, Joined(s, u) \ {c}) /\ Len(q) = n /\ n \in Int /\ q \in Seq(Chan)
  <2>1. Lists(q, ToSet(s.list[u]) \ {c}) /\ (c \in ToSet(s.list[u]) => Len(q) = Len(s.list[u]) - 1)
    BY <1>1, <1>2, RemovedIs
  <2> QED BY <1>1, <1>2, <2>1 DEF Lists
<1> HIDE DEF k, q, n
<1>4. j \in Channel /\ j.mem = k.mem \ {u} /\ j.invites = k.invites
  <2>1. IsFreed(k, u, j)
    BY <1>1, FreedIs
  <2> HIDE DEF j
  <2> QED BY <2>1 DEF IsFreed
<1> HIDE DEF j
<1>5. IsListed(s, u, c, j, q, n, r)
  <2>1. r = Listed(s, u, c, j, q, n)
    BY DEF Between, k, j, q, n
  <2> QED BY ONLY <1>1, <1>3, <1>4, <2>1, PutList, u \in User, c \in Chan
<1>6. /\ r \in Tables /\ r.invited = s.invited
      /\ r.ch[c] = j /\ \A d \in Chan : d # c => r.ch[d] = s.ch[d]
      /\ r.list[u] = q /\ r.joined[u] = n
      /\ \A w \in User : w # u => r.list[w] = s.list[w] /\ r.joined[w] = s.joined[w]
  BY <1>5 DEF IsListed
<1>7. Calls(r)
  <2>1. \A d \in Chan : r.ch[d].invites = s.ch[d].invites
    BY <1>4, <1>6 DEF k
  <2> QED BY <1>1, <1>6, <2>1, SameCalls
<1>8. ASSUME NEW w \in User PROVE Lists(r.list[w], Joined(r, w)) /\ r.joined[w] = Len(r.list[w])
  <2>1. CASE w = u
    <3>1. Joined(r, u) = Joined(s, u) \ {c}
      BY <1>4, <1>6 DEF Joined, k
    <3> QED BY <1>3, <1>6, <2>1, <3>1
  <2>2. CASE w # u
    <3>1. Joined(r, w) = Joined(s, w)
      BY <1>4, <1>6, <2>2 DEF Joined, k
    <3>2. r.list[w] = s.list[w] /\ r.joined[w] = s.joined[w]
      BY <1>6, <2>2
    <3> QED BY <1>1, <3>1, <3>2 DEF Members
  <2> QED BY <2>1, <2>2
<1> QED
  BY <1>6, <1>7, <1>8 DEF Members, k, j, q

\* A channel with another count.
Counted(k, n) == [k EXCEPT !.users = n]
LEMMA CountedIs ==
    ASSUME NEW k \in Channel, NEW n \in Int, NEW j, j = Counted(k, n)
    PROVE  /\ j \in Channel /\ j.users = n /\ j.mem = k.mem /\ j.zombies = k.zombies
           /\ j.ops = k.ops /\ j.voices = k.voices /\ j.banned = k.banned /\ j.cached = k.cached
           /\ j.there = k.there /\ j.reg = k.reg /\ j.bans = k.bans /\ j.invites = k.invites
  BY DEF Channel, Counted

(* A member leaves: both links go, the channel is counted, and an empty    *)
(* one is freed with its invitations.                                      *)
LEMMA UnlinkedKeeps ==
    ASSUME NEW s, Whole(s), NEW u \in User, NEW c \in Chan, u \in s.ch[c].mem,
           NEW t, t = Unlinked(s, u, c)
    PROVE  Whole(t) /\ Leaves(s, t, u, c)
<1> DEFINE k == s.ch[c]
           j == LinkFreed(k, u)
           r == Between(s, u, c)
           left == Cardinality(k.mem) - 1
<1>1. /\ r \in Tables /\ Members(r) /\ Calls(r)
      /\ r.ch[c] = j /\ \A d \in Chan : d # c => r.ch[d] = s.ch[d]
      /\ r.list[u] = RemoveFirst(s.list[u], c)
      /\ \A w \in User : w # u => r.list[w] = s.list[w]
  BY BetweenIs
<1>2. t = sub1_from_channel(r, c)
  BY DEF Unlinked, Between, Listed
<1>3. /\ k \in Channel /\ Kept(k) /\ k.mem \in SUBSET User /\ u \in k.mem
      /\ \A d \in Chan : Kept(s.ch[d])
  BY DEF Whole, Tables, Channel
<1>4. /\ j \in Channel /\ j.mem = k.mem \ {u} /\ j.zombies = k.zombies \ {u}
      /\ j.ops = k.ops \ {u} /\ j.voices = k.voices \ {u} /\ j.banned = k.banned \ {u}
      /\ j.cached = [k.cached EXCEPT ![u] = 0]
      /\ j.users = k.users /\ j.there = k.there /\ j.reg = k.reg /\ j.bans = k.bans
      /\ j.invites = k.invites
  <2> HIDE DEF k
  <2>1. IsFreed(k, u, j)
    BY <1>3, FreedIs
  <2> HIDE DEF j
  <2> QED BY <2>1 DEF IsFreed
<1>5. /\ left \in Nat /\ Cardinality(j.mem) = left /\ k.users = left + 1 /\ j.mem \in SUBSET User
      /\ (left = 0 <=> j.mem = {})
  <2>1. IsFiniteSet(k.mem) /\ Cardinality(k.mem) \in Nat /\ Cardinality(k.mem) # 0
    BY <1>3, UsersFinite
  <2>2. Cardinality(j.mem) = Cardinality(k.mem) - 1
    <3> HIDE DEF k, j
    <3>1. Cardinality(k.mem \ {u}) = Cardinality(k.mem) - 1
      BY ONLY <1>3, <2>1, FS_RemoveElement
    <3> QED BY <1>4, <3>1
  <2>3. j.mem \in SUBSET User
    BY <1>3, <1>4
  <2>4. k.users = Cardinality(k.mem)
    BY <1>3 DEF Kept
  <2>5. j.mem = {} <=> Cardinality(j.mem) = 0
    BY <2>3, UsersFinite
  <2> HIDE DEF k, j
  <2> QED BY <2>1, <2>2, <2>3, <2>4, <2>5
<1> HIDE DEF k, j, left, r
<1>6. k.there = TRUE
  BY <1>3 DEF Kept, Channel
<1>7. Answered(j)
  <2> SUFFICES ASSUME NEW w \in User, j.cached[w] # 0
               PROVE  w \in j.banned <=> \E b \in j.bans : <<b, w, j.cached[w]>> \in Hit
    BY DEF Answered
  <2>1. k.cached \in [User -> Nicks \cup {0}]
    BY <1>3 DEF Channel
  <2>2. w # u /\ j.cached[w] = k.cached[w]
    BY <1>4, <2>1
  <2> QED BY <1>3, <1>4, <2>2 DEF Kept, Answered
<1>8. CASE left > 0 \/ k.reg
  <2> DEFINE i == Counted(j, left)
  <2>1. /\ i \in Channel /\ i.users = left /\ i.mem = j.mem /\ i.zombies = j.zombies
        /\ i.ops = j.ops /\ i.voices = j.voices /\ i.banned = j.banned /\ i.cached = j.cached
        /\ i.there = j.there /\ i.reg = j.reg /\ i.bans = j.bans /\ i.invites = j.invites
    BY <1>4, <1>5, CountedIs
  <2>2. t = Set(r, c, i)
    <3>1. r.ch[c].users = left + 1 /\ r.ch[c].reg = k.reg /\ left + 1 # 0 /\ (left + 1) - 1 = left
      BY <1>1, <1>4, <1>5
    <3>2. t = [r EXCEPT !.ch[c].users = left]
      BY <1>2, <1>5, <1>8, <3>1 DEF sub1_from_channel
    <3> QED BY <1>1, <3>2 DEF Set, Counted, Tables
  <2> HIDE DEF i
  <2>3. IsSet(r, c, i, t)
    BY ONLY <1>1, <2>1, <2>2, PutChan, c \in Chan
  <2>4. /\ t \in Tables /\ t.list = r.list /\ t.joined = r.joined /\ t.invited = r.invited
        /\ t.ch[c] = i /\ \A d \in Chan : d # c => t.ch[d] = s.ch[d]
    BY <1>1, <2>3 DEF IsSet
  <2>5. Members(t)
    <3>1. \A d \in Chan : t.ch[d].mem = r.ch[d].mem
      BY <1>1, <2>1, <2>4
    <3> QED BY <1>1, <2>4, <3>1, SameMembers
  <2>6. Calls(t)
    <3>1. \A d \in Chan : t.ch[d].invites = r.ch[d].invites
      BY <1>1, <2>1, <2>4
    <3> QED BY <1>1, <2>4, <3>1, SameCalls
  <2>7. Kept(i)
    <3>1. Answered(i)
      BY <1>7, <2>1 DEF Answered
    <3>2. i.there <=> (i.mem # {} \/ i.reg)
      BY <1>4, <1>5, <1>6, <1>8, <2>1
    <3>3. i.ops \subseteq i.mem /\ i.voices \subseteq i.mem /\ i.zombies \subseteq i.mem
      BY <1>3, <1>4, <2>1 DEF Kept
    <3> QED BY <1>5, <2>1, <3>1, <3>2, <3>3 DEF Kept
  <2>8. \A d \in Chan : Kept(t.ch[d])
    BY <1>3, <2>4, <2>7
  <2>9. Leaves(s, t, u, c)
    BY <1>1, <1>4, <2>1, <2>4 DEF Leaves, k
  <2> QED BY <2>4, <2>5, <2>6, <2>8, <2>9 DEF Whole
<1>9. CASE ~(left > 0 \/ k.reg)
  <2> DEFINE v == Uninvited(r, c)
  <2>1. /\ v \in Tables /\ Calls(v) /\ v.list = r.list /\ v.joined = r.joined
        /\ v.ch[c] = Inviting(r.ch[c], {}) /\ \A d \in Chan : d # c => v.ch[d] = r.ch[d]
    BY <1>1, UninvitedIs DEF OnlyCalls
  <2>2. t = Set(v, c, NoChan)
    <3>1. r.ch[c].users = left + 1 /\ r.ch[c].reg = k.reg /\ left + 1 # 0 /\ (left + 1) - 1 = left
      BY <1>1, <1>4, <1>5
    <3> QED BY <1>2, <1>5, <1>9, <3>1 DEF sub1_from_channel, Set
  <2> HIDE DEF v
  <2>3. IsSet(v, c, NoChan, t)
    BY ONLY <2>1, <2>2, PutChan, NoChanIs, c \in Chan
  <2>4. /\ t \in Tables /\ t.list = r.list /\ t.joined = r.joined /\ t.invited = v.invited
        /\ t.ch[c] = NoChan /\ \A d \in Chan : d # c => t.ch[d] = s.ch[d]
    BY <1>1, <2>1, <2>3 DEF IsSet
  <2>5. j.mem = {} /\ j.zombies = {}
    BY <1>3, <1>4, <1>5, <1>9 DEF Kept
  <2>6. Members(t)
    <3>1. \A d \in Chan : t.ch[d].mem = r.ch[d].mem
      BY <1>1, <2>4, <2>5, NoChanIs
    <3> QED BY <1>1, <2>4, <3>1, SameMembers
  <2>7. Calls(t)
    <3>1. v.ch[c].invites = {}
      BY <1>1, <1>4, <2>1, PutInvites
    <3>2. \A d \in Chan : t.ch[d].invites = v.ch[d].invites
      BY <1>1, <2>1, <2>4, <3>1, NoChanIs
    <3> QED BY <2>1, <2>4, <3>2, SameCalls
  <2>8. \A d \in Chan : Kept(t.ch[d])
    BY <1>3, <2>4, NoChanIs
  <2>9. Leaves(s, t, u, c)
    BY <1>1, <1>4, <2>4, <2>5, NoChanIs DEF Leaves, k
  <2> QED BY <2>4, <2>6, <2>7, <2>8, <2>9 DEF Whole
<1> QED
  BY <1>8, <1>9

\* From s to t nobody has come to a channel and nobody is invited to one anew.
Shrinks(s, t) ==
    \A d \in Chan : t.ch[d].mem \subseteq s.ch[d].mem /\ t.ch[d].invites \subseteq s.ch[d].invites

(* The loop that removes all who are left.                                 *)
LEMMA EmptiedKeeps ==
    ASSUME NEW s, Whole(s), NEW u \in User, NEW c \in Chan, u \notin s.ch[c].mem,
           NEW t, t = Emptied(s, c)
    PROVE  /\ Whole(t) /\ Shrinks(s, t) /\ t.ch[c].mem = {} /\ t.list[u] = s.list[u]
           /\ \A d \in Chan : d # c => t.ch[d] = s.ch[d]
<1> DEFINE m == Cardinality(s.ch[c].mem)
<1>1. s.ch[c].mem \in SUBSET User
  BY DEF Whole, Tables, Channel
<1>2. m \in Nat
  BY <1>1, UsersFinite
<1>3. PICK P : /\ Emptied(s, c) = P[m] /\ P[0] = s
               /\ \A n \in 1..m : P[n] = UnlinkOne(P[n - 1], c)
  BY <1>2, EmptyLoop
<1> DEFINE At(n) == /\ Whole(P[n]) /\ Shrinks(s, P[n]) /\ Cardinality(P[n].ch[c].mem) = m - n
                    /\ P[n].list[u] = s.list[u]
                    /\ \A d \in Chan : d # c => P[n].ch[d] = s.ch[d]
           T == {n \in Nat : n <= m => At(n)}
<1>4. 0 \in T
  BY <1>2, <1>3 DEF Shrinks
<1>5. ASSUME NEW n \in Nat, n \in T PROVE n + 1 \in T
  <2> SUFFICES ASSUME n + 1 <= m PROVE At(n + 1)
    OBVIOUS
  <2> HIDE DEF m
  <2> DEFINE r == P[n]
             w == CHOOSE x \in r.ch[c].mem : TRUE
             v == P[n + 1]
  <2>1. /\ Whole(r) /\ Shrinks(s, r) /\ Cardinality(r.ch[c].mem) = m - n /\ r.list[u] = s.list[u]
        /\ \A d \in Chan : d # c => r.ch[d] = s.ch[d]
    BY <1>2, <1>5
  <2> HIDE DEF r
  <2>2. r.ch[c].mem \in SUBSET User
    BY <2>1 DEF Whole, Tables, Channel
  <2>3. IsFiniteSet(r.ch[c].mem) /\ r.ch[c].mem # {}
    <3>1. m - n # 0
      BY <1>2
    <3> QED BY <2>1, <2>2, <3>1, UsersFinite
  <2>4. w \in r.ch[c].mem
    BY <2>3
  <2>5. w \in User /\ w # u
    BY <2>1, <2>2, <2>4 DEF Shrinks
  <2>6. v = Unlinked(r, w, c)
    <3>1. n + 1 \in 1..m /\ (n + 1) - 1 = n
      BY <1>2
    <3> QED BY <1>3, <3>1 DEF UnlinkOne, r
  <2> HIDE DEF w, v
  <2>7. Whole(v) /\ Leaves(r, v, w, c)
    BY ONLY <2>1, <2>4, <2>5, <2>6, c \in Chan, UnlinkedKeeps
  <2>8. /\ v.ch[c].mem = r.ch[c].mem \ {w} /\ v.ch[c].invites \subseteq r.ch[c].invites
        /\ v.list[u] = r.list[u] /\ \A d \in Chan : d # c => v.ch[d] = r.ch[d]
    BY <2>5, <2>7 DEF Leaves
  <2>9. Cardinality(v.ch[c].mem) = m - (n + 1)
    <3>1. Cardinality(r.ch[c].mem \ {w}) = Cardinality(r.ch[c].mem) - 1
      BY ONLY <2>3, <2>4, FS_RemoveElement
    <3> QED BY <1>2, <2>1, <2>8, <3>1
  <2>10. Shrinks(s, v)
    BY <2>1, <2>8 DEF Shrinks
  <2>11. v.list[u] = s.list[u] /\ \A d \in Chan : d # c => v.ch[d] = s.ch[d]
    BY <2>1, <2>8
  <2> QED BY <2>7, <2>9, <2>10, <2>11 DEF v
<1>6. m \in T
  <2> HIDE DEF T, m
  <2> QED BY <1>2, <1>4, <1>5, SetInduction
<1> HIDE DEF m
<1>7. At(m) /\ t = P[m]
  BY <1>2, <1>3, <1>6
<1>8. t.ch[c].mem = {}
  <2>1. t.ch[c].mem \in SUBSET User
    BY <1>7 DEF Whole, Tables, Channel
  <2>2. Cardinality(t.ch[c].mem) = 0
    BY <1>2, <1>7
  <2> QED BY <2>1, <2>2, UsersFinite
<1> QED
  BY <1>7, <1>8

(* A member is removed, and with the last who is no zombie all are.        *)
LEMMA RemoveKeeps ==
    ASSUME NEW s, Whole(s), NEW u \in User, NEW c \in Chan, u \in s.ch[c].mem,
           \A d \in Chan : d # c => Alive(s.ch[d]),
           NEW t, t = remove_user_from_channel(s, u, c)
    PROVE  /\ Sound(t) /\ Shrinks(s, t) /\ u \notin t.ch[c].mem
           /\ t.list[u] = RemoveFirst(s.list[u], c)
<1> DEFINE r == Unlinked(s, u, c)
<1>1. Whole(r) /\ Leaves(s, r, u, c)
  BY UnlinkedKeeps
<1> HIDE DEF r
<1>2. /\ r.ch[c].mem = s.ch[c].mem \ {u} /\ r.ch[c].zombies = s.ch[c].zombies \ {u}
      /\ r.ch[c].invites \subseteq s.ch[c].invites
      /\ \A d \in Chan : d # c => r.ch[d] = s.ch[d]
      /\ r.list[u] = RemoveFirst(s.list[u], c)
  BY <1>1 DEF Leaves
<1>3. Shrinks(s, r)
  BY <1>2 DEF Shrinks
<1>4. CASE s.ch[c].mem \ (s.ch[c].zombies \cup {u}) = {}
  <2>1. t = Emptied(r, c)
    BY <1>4 DEF remove_user_from_channel, r
  <2>2. /\ Whole(t) /\ Shrinks(r, t) /\ t.ch[c].mem = {} /\ t.list[u] = r.list[u]
        /\ \A d \in Chan : d # c => t.ch[d] = r.ch[d]
    BY <1>1, <1>2, <2>1, EmptiedKeeps
  <2>3. \A d \in Chan : Alive(t.ch[d])
    BY <1>2, <2>2 DEF Alive
  <2>4. Shrinks(s, t)
    BY <1>3, <2>2 DEF Shrinks
  <2> QED BY <1>2, <2>2, <2>3, <2>4 DEF Sound
<1>5. CASE s.ch[c].mem \ (s.ch[c].zombies \cup {u}) # {}
  <2>1. t = r
    BY <1>5 DEF remove_user_from_channel, r
  <2>2. r.ch[c].mem \ r.ch[c].zombies # {}
    BY <1>2, <1>5
  <2>3. \A d \in Chan : Alive(r.ch[d])
    BY <1>2, <2>2 DEF Alive
  <2> QED BY <1>1, <1>2, <1>3, <2>1, <2>3 DEF Sound
<1> QED
  BY <1>4, <1>5

(* A user leaves all its channels.                                         *)
LEMMA LeaveKeeps ==
    ASSUME NEW s, Sound(s), NEW u \in User, NEW t, t = LeaveAll(s, u)
    PROVE  Sound(t) /\ Shrinks(s, t) /\ t.list[u] = <<>> /\ Joined(t, u) = {}
<1> DEFINE m == Len(s.list[u])
<1>1. m \in Nat
  BY DEF Sound, Whole, Tables
<1>2. PICK P : /\ LeaveAll(s, u) = P[m] /\ P[0] = s
               /\ \A n \in 1..m : P[n] = LeaveOne(P[n - 1], u)
  BY <1>1, LeaveLoop
<1> DEFINE At(n) == Sound(P[n]) /\ Shrinks(s, P[n]) /\ Len(P[n].list[u]) = m - n
           T == {n \in Nat : n <= m => At(n)}
<1>3. 0 \in T
  BY <1>1, <1>2 DEF Shrinks
<1>4. ASSUME NEW n \in Nat, n \in T PROVE n + 1 \in T
  <2> SUFFICES ASSUME n + 1 <= m PROVE At(n + 1)
    OBVIOUS
  <2> HIDE DEF m
  <2> DEFINE r == P[n]
             q == r.list[u]
             c == Head(q)
             v == P[n + 1]
  <2>1. Sound(r) /\ Shrinks(s, r) /\ Len(q) = m - n /\ m - n > 0
    BY <1>1, <1>4
  <2>2. v = remove_user_from_channel(r, u, c)
    <3>1. n + 1 \in 1..m /\ (n + 1) - 1 = n
      BY <1>1
    <3> QED BY <1>2, <3>1 DEF LeaveOne
  <2> HIDE DEF r, v
  <2>3. q \in Seq(Chan) /\ Lists(q, Joined(r, u)) /\ IsInjective(q) /\ ToSet(q) = Joined(r, u)
    BY <2>1 DEF Sound, Whole, Tables, Members, Lists
  <2> HIDE DEF q
  <2>4. c \in Joined(r, u) /\ c \in Chan
    BY <2>1, <2>3, FirstIs
  <2> HIDE DEF c
  <2>5. Whole(r) /\ u \in r.ch[c].mem /\ \A d \in Chan : d # c => Alive(r.ch[d])
    BY <2>1, <2>4 DEF Sound, Joined
  <2>6. Sound(v) /\ Shrinks(r, v) /\ v.list[u] = RemoveFirst(r.list[u], c)
    BY ONLY <2>2, <2>4, <2>5, u \in User, RemoveKeeps
  <2>7. Len(v.list[u]) = Len(q) - 1
    <3>1. c \in ToSet(q) => Len(RemoveFirst(q, c)) = Len(q) - 1
      BY ONLY <2>3, RemovedIs
    <3> QED BY <2>3, <2>4, <2>6, <3>1 DEF q
  <2>8. Shrinks(s, v)
    BY <2>1, <2>6 DEF Shrinks
  <2>9. Len(v.list[u]) = m - (n + 1)
    BY <1>1, <2>1, <2>7
  <2> QED BY <2>6, <2>8, <2>9 DEF v
<1>5. m \in T
  <2> HIDE DEF T, m
  <2> QED BY <1>1, <1>3, <1>4, SetInduction
<1> HIDE DEF m
<1>6. Sound(t) /\ Shrinks(s, t) /\ Len(t.list[u]) = 0
  BY <1>1, <1>2, <1>5
<1>7. t.list[u] \in Seq(Chan) /\ Lists(t.list[u], Joined(t, u))
  BY <1>6 DEF Sound, Whole, Tables, Members
<1>8. Joined(t, u) = {}
  BY <1>6, <1>7, FirstIs
<1> QED
  BY <1>6, <1>7, <1>8

(* What a change of invitations leaves as it is.                           *)
LEMMA OnlyCallsKeeps ==
    ASSUME NEW s, Whole(s), NEW c \in Chan, NEW I, NEW t, OnlyCalls(s, t, c, I)
    PROVE  /\ Whole(t) /\ (Sound(s) => Sound(t)) /\ t.ch[c].invites = I
           /\ I \subseteq s.ch[c].invites => Shrinks(s, t)
           /\ \A d \in Chan : t.ch[d].mem = s.ch[d].mem
<1> DEFINE k == s.ch[c]
<1>1. /\ t \in Tables /\ Calls(t) /\ t.list = s.list /\ t.joined = s.joined
      /\ I \in SUBSET Locals /\ t.ch[c] = Inviting(k, I)
      /\ \A d \in Chan : d # c => t.ch[d] = s.ch[d]
  BY DEF OnlyCalls
<1>2. k \in Channel /\ Kept(k) /\ \A d \in Chan : Kept(s.ch[d])
  BY DEF Whole, Tables
<1> HIDE DEF k
<1>3. /\ t.ch[c].invites = I /\ t.ch[c].mem = k.mem /\ t.ch[c].zombies = k.zombies
      /\ Kept(t.ch[c])
  BY <1>1, <1>2, PutInvites
<1>4. \A d \in Chan : t.ch[d].mem = s.ch[d].mem /\ t.ch[d].zombies = s.ch[d].zombies /\ Kept(t.ch[d])
  BY <1>1, <1>2, <1>3 DEF k
<1>5. Members(t)
  BY <1>1, <1>4, SameMembers DEF Whole
<1>6. Whole(t)
  BY <1>1, <1>4, <1>5 DEF Whole
<1>7. Sound(s) => Sound(t)
  BY <1>4, <1>6 DEF Sound, Alive
<1>8. I \subseteq s.ch[c].invites => Shrinks(s, t)
  BY <1>1, <1>3, <1>4 DEF Shrinks
<1> QED
  BY <1>3, <1>4, <1>6, <1>7, <1>8

(* A user loses all its invitations.                                       *)
LEMMA ForgetKeeps ==
    ASSUME NEW s, Sound(s), NEW u \in User, NEW t, t = ForgetAll(s, u)
    PROVE  /\ Sound(t) /\ Shrinks(s, t) /\ Asked(t, u) = {}
<1> DEFINE m == Len(s.invited[u])
<1>1. m \in Nat
  BY DEF Sound, Whole, Tables
<1>2. PICK P : /\ ForgetAll(s, u) = P[m] /\ P[0] = s
               /\ \A n \in 1..m : P[n] = ForgetOne(P[n - 1], u)
  BY <1>1, ForgetLoop
<1> DEFINE At(n) == Sound(P[n]) /\ Shrinks(s, P[n]) /\ Len(P[n].invited[u]) = m - n
           T == {n \in Nat : n <= m => At(n)}
<1>3. 0 \in T
  BY <1>1, <1>2 DEF Shrinks
<1>4. ASSUME NEW n \in Nat, n \in T PROVE n + 1 \in T
  <2> SUFFICES ASSUME n + 1 <= m PROVE At(n + 1)
    OBVIOUS
  <2> HIDE DEF m
  <2> DEFINE r == P[n]
             q == r.invited[u]
             c == Head(q)
             v == P[n + 1]
  <2>1. Sound(r) /\ Shrinks(s, r) /\ Len(q) = m - n /\ m - n > 0
    BY <1>1, <1>4
  <2>2. v = del_invite(r, u, c)
    <3>1. n + 1 \in 1..m /\ (n + 1) - 1 = n
      BY <1>1
    <3> QED BY <1>2, <3>1 DEF ForgetOne
  <2> HIDE DEF r, v
  <2>3. q \in Seq(Chan) /\ Lists(q, Asked(r, u)) /\ IsInjective(q) /\ ToSet(q) = Asked(r, u)
    BY <2>1 DEF Sound, Whole, Tables, Calls, Lists
  <2> HIDE DEF q
  <2>4. c \in Asked(r, u) /\ c \in Chan
    BY <2>1, <2>3, FirstIs
  <2> HIDE DEF c
  <2>5. Whole(r) /\ r \in Tables /\ Calls(r)
    BY <2>1 DEF Sound, Whole
  <2> DEFINE I == r.ch[c].invites \ {u}
  <2>6. OnlyCalls(r, v, c, I) /\ v.invited[u] = RemoveFirst(r.invited[u], c)
    BY <2>2, <2>4, <2>5, DelInvite
  <2>7. I \subseteq r.ch[c].invites
    OBVIOUS
  <2> HIDE DEF I
  <2>8. Sound(v) /\ Shrinks(r, v)
    BY ONLY <2>1, <2>4, <2>5, <2>6, <2>7, OnlyCallsKeeps
  <2>9. Len(v.invited[u]) = Len(q) - 1
    <3>1. c \in ToSet(q) => Len(RemoveFirst(q, c)) = Len(q) - 1
      BY ONLY <2>3, RemovedIs
    <3> QED BY <2>3, <2>4, <2>6, <3>1 DEF q
  <2>10. Shrinks(s, v)
    BY <2>1, <2>8 DEF Shrinks
  <2>11. Len(v.invited[u]) = m - (n + 1)
    BY <1>1, <2>1, <2>9
  <2> QED BY <2>8, <2>10, <2>11 DEF v
<1>5. m \in T
  <2> HIDE DEF T, m
  <2> QED BY <1>1, <1>3, <1>4, SetInduction
<1> HIDE DEF m
<1>6. Sound(t) /\ Shrinks(s, t) /\ Len(t.invited[u]) = 0
  BY <1>1, <1>2, <1>5
<1>7. t.invited[u] \in Seq(Chan) /\ Lists(t.invited[u], Asked(t, u))
  BY <1>6 DEF Sound, Whole, Tables, Calls
<1>8. Asked(t, u) = {}
  BY <1>6, <1>7, FirstIs
<1> QED
  BY <1>6, <1>8

-----------------------------------------------------------------------------
(* Users come and are invited.                                             *)

IsLinked(k, u, op, j) ==
    /\ j \in Channel /\ j.mem = k.mem \cup {u} /\ j.users = k.users + 1 /\ j.there = TRUE
    /\ j.ops = (IF op THEN k.ops \cup {u} ELSE k.ops) /\ j.voices = k.voices
    /\ j.zombies = k.zombies /\ j.banned = k.banned /\ j.cached = k.cached /\ j.reg = k.reg
    /\ j.bans = k.bans /\ j.invites = k.invites
LEMMA LinkedIs ==
    ASSUME NEW k \in Channel, NEW u \in User, NEW op \in BOOLEAN, NEW j, j = Linked(k, u, op)
    PROVE  IsLinked(k, u, op, j)
<1> DEFINE O == IF op THEN k.ops \cup {u} ELSE k.ops
           M == k.mem \cup {u}
           n == k.users + 1
<1>1. O \in SUBSET User /\ M \in SUBSET User /\ n \in Int /\ TRUE \in BOOLEAN
  BY DEF Channel
<1>2. j = [k EXCEPT !.there = TRUE, !.mem = M, !.users = n, !.ops = O]
  BY DEF Linked, Channel
<1> HIDE DEF O, M, n
<1>3. j \in Channel /\ j.mem = M /\ j.users = n /\ j.there = TRUE /\ j.ops = O
  BY <1>1, <1>2 DEF Channel
<1>4. /\ j.voices = k.voices /\ j.zombies = k.zombies /\ j.banned = k.banned
      /\ j.cached = k.cached /\ j.reg = k.reg /\ j.bans = k.bans /\ j.invites = k.invites
  BY <1>1, <1>2 DEF Channel
<1> QED
  BY <1>3, <1>4 DEF IsLinked, O, M, n

\* From s to t u has come to c.
Comes(s, t, u, c) ==
    /\ t.ch[c].mem = s.ch[c].mem \cup {u} /\ t.ch[c].invites = s.ch[c].invites
    /\ \A d \in Chan : d # c => t.ch[d] = s.ch[d]

LEMMA AddUserKeeps ==
    ASSUME NEW s, Sound(s), NEW u \in User, NEW c \in Chan, u \notin s.ch[c].mem,
           NEW op \in BOOLEAN, NEW t, t = add_user_to_channel(s, c, u, op)
    PROVE  Sound(t) /\ Comes(s, t, u, c)
<1> DEFINE k == s.ch[c]
           j == Linked(k, u, op)
           q == <<c>> \o s.list[u]
           n == s.joined[u] + 1
<1>1. /\ s \in Tables /\ k \in Channel /\ s.list[u] \in Seq(Chan) /\ s.joined[u] \in Int
      /\ Members(s) /\ Calls(s) /\ Kept(k) /\ u \notin k.mem
      /\ \A d \in Chan : Kept(s.ch[d]) /\ Alive(s.ch[d])
  BY DEF Sound, Whole, Tables
<1>2. /\ Lists(s.list[u], Joined(s, u)) /\ s.joined[u] = Len(s.list[u]) /\ c \notin Joined(s, u)
  BY <1>1 DEF Members, Joined
<1>3. /\ Lists(q, Joined(s, u) \cup {c}) /\ Len(q) = n /\ n \in Int /\ q \in Seq(Chan)
  <2>1. Lists(q, Joined(s, u) \cup {c}) /\ Len(q) = Len(s.list[u]) + 1
    BY <1>1, <1>2, PutInto
  <2> QED BY <1>1, <1>2, <2>1 DEF Lists
<1> HIDE DEF k, q, n
<1>4. /\ j \in Channel /\ j.mem = k.mem \cup {u} /\ j.users = k.users + 1 /\ j.there = TRUE
      /\ j.ops = (IF op THEN k.ops \cup {u} ELSE k.ops) /\ j.voices = k.voices
      /\ j.zombies = k.zombies /\ j.banned = k.banned /\ j.cached = k.cached /\ j.reg = k.reg
      /\ j.bans = k.bans /\ j.invites = k.invites
  <2>1. IsLinked(k, u, op, j)
    BY <1>1, LinkedIs
  <2> HIDE DEF j
  <2> QED BY <2>1 DEF IsLinked
<1> HIDE DEF j
<1>5. IsListed(s, u, c, j, q, n, t)
  <2>1. t = Listed(s, u, c, j, q, n)
    BY DEF add_user_to_channel, Listed, k, j, q, n
  <2> QED BY ONLY <1>1, <1>3, <1>4, <2>1, PutList, u \in User, c \in Chan
<1>6. /\ t \in Tables /\ t.invited = s.invited
      /\ t.ch[c] = j /\ \A d \in Chan : d # c => t.ch[d] = s.ch[d]
      /\ t.list[u] = q /\ t.joined[u] = n
      /\ \A w \in User : w # u => t.list[w] = s.list[w] /\ t.joined[w] = s.joined[w]
  BY <1>5 DEF IsListed
<1>7. Calls(t)
  <2>1. \A d \in Chan : t.ch[d].invites = s.ch[d].invites
    BY <1>4, <1>6 DEF k
  <2> QED BY <1>1, <1>6, <2>1, SameCalls
<1>8. ASSUME NEW w \in User PROVE Lists(t.list[w], Joined(t, w)) /\ t.joined[w] = Len(t.list[w])
  <2>1. CASE w = u
    <3>1. Joined(t, u) = Joined(s, u) \cup {c}
      BY <1>4, <1>6 DEF Joined, k
    <3> QED BY <1>3, <1>6, <2>1, <3>1
  <2>2. CASE w # u
    <3>1. Joined(t, w) = Joined(s, w)
      BY <1>4, <1>6, <2>2 DEF Joined, k
    <3>2. t.list[w] = s.list[w] /\ t.joined[w] = s.joined[w]
      BY <1>6, <2>2
    <3> QED BY <1>1, <3>1, <3>2 DEF Members
  <2> QED BY <2>1, <2>2
<1>9. Members(t)
  BY <1>8 DEF Members
<1>10. Kept(j) /\ Alive(j)
  <2>1. k.mem \in SUBSET User /\ k.users = Cardinality(k.mem) /\ k.zombies \subseteq k.mem
    BY <1>1 DEF Channel, Kept
  <2>2. Cardinality(j.mem) = k.users + 1
    <3>1. IsFiniteSet(k.mem)
      BY <2>1, UsersFinite
    <3>2. Cardinality(k.mem \cup {u}) = Cardinality(k.mem) + 1
      BY ONLY <1>1, <3>1, FS_AddElement
    <3> QED BY <1>4, <2>1, <3>2
  <2>3. Answered(j)
    BY <1>1, <1>4 DEF Kept, Answered
  <2>4. j.ops \subseteq j.mem /\ j.voices \subseteq j.mem /\ j.zombies \subseteq j.mem
    BY <1>1, <1>4 DEF Kept
  <2>5. j.there <=> (j.mem # {} \/ j.reg)
    BY <1>4
  <2>6. Kept(j)
    BY <1>4, <2>2, <2>3, <2>4, <2>5 DEF Kept
  <2>7. u \in j.mem \ j.zombies
    BY <1>1, <1>4, <2>1
  <2> QED BY <2>6, <2>7 DEF Alive
<1>11. \A d \in Chan : Kept(t.ch[d]) /\ Alive(t.ch[d])
  BY <1>1, <1>6, <1>10
<1>12. Comes(s, t, u, c)
  BY <1>4, <1>6 DEF Comes, k
<1> QED
  BY <1>6, <1>7, <1>9, <1>11, <1>12 DEF Sound, Whole

\* From s to t u has been invited to c, and perhaps less to others.
Invites(s, t, u, c) ==
    \A d \in Chan : /\ t.ch[d].mem = s.ch[d].mem
                    /\ t.ch[d].invites \subseteq s.ch[d].invites \cup {u}

LEMMA AddInviteKeeps ==
    ASSUME NEW s, Sound(s), NEW u \in Locals, NEW c \in Chan, NEW t, t = add_invite(s, u, c)
    PROVE  Sound(t) /\ Invites(s, t, u, c)
<1> DEFINE a == del_invite(s, u, c)
           b == IF Len(a.invited[u]) >= MaxJoined THEN del_invite(a, u, Head(a.invited[u])) ELSE a
           I == s.ch[c].invites \ {u}
<1>0. u \in User /\ MaxJoined \in Nat /\ MaxJoined > 0
  BY LocalConstants DEF User
<1>1. Whole(s) /\ s \in Tables /\ Calls(s)
  BY DEF Sound, Whole
<1>2. OnlyCalls(s, a, c, I) /\ I \subseteq s.ch[c].invites
  BY <1>0, <1>1, DelInvite
<1> HIDE DEF a, I
<1>3. Sound(a) /\ Shrinks(s, a) /\ a.ch[c].invites = I /\ \A d \in Chan : a.ch[d].mem = s.ch[d].mem
  BY <1>1, <1>2, OnlyCallsKeeps
<1>4. /\ Whole(a) /\ a \in Tables /\ Calls(a) /\ a.invited[u] \in Seq(Chan) /\ Len(a.invited[u]) \in Nat
      /\ Lists(a.invited[u], Asked(a, u)) /\ Len(a.invited[u]) <= MaxJoined
      /\ IsInjective(a.invited[u]) /\ ToSet(a.invited[u]) = Asked(a, u)
  BY <1>0, <1>3 DEF Sound, Whole, Calls, Lists
<1>5. c \notin Asked(a, u)
  BY <1>3 DEF Asked, I
<1>6. /\ Sound(b) /\ Shrinks(a, b) /\ Len(b.invited[u]) < MaxJoined
      /\ \A d \in Chan : b.ch[d].mem = a.ch[d].mem
  <2>1. CASE Len(a.invited[u]) >= MaxJoined
    <3> DEFINE d == Head(a.invited[u])
               J == a.ch[d].invites \ {u}
    <3>1. d \in Asked(a, u) /\ d \in Chan
      BY <1>0, <1>4, <2>1, FirstIs
    <3>2. b = del_invite(a, u, d)
      BY <2>1
    <3> HIDE DEF d, b
    <3>3. OnlyCalls(a, b, d, J) /\ b.invited[u] = RemoveFirst(a.invited[u], d) /\ J \subseteq a.ch[d].invites
      BY <1>0, <1>4, <3>1, <3>2, DelInvite
    <3> HIDE DEF J
    <3>4. Sound(b) /\ Shrinks(a, b) /\ \A e \in Chan : b.ch[e].mem = a.ch[e].mem
      BY ONLY <1>3, <1>4, <3>1, <3>3, OnlyCallsKeeps
    <3>5. Len(b.invited[u]) = Len(a.invited[u]) - 1
      <4>1. d \in ToSet(a.invited[u]) => Len(RemoveFirst(a.invited[u], d)) = Len(a.invited[u]) - 1
        BY ONLY <1>4, RemovedIs
      <4> QED BY <1>4, <3>1, <3>3, <4>1
    <3> QED BY <1>0, <1>4, <3>4, <3>5
  <2>2. CASE ~(Len(a.invited[u]) >= MaxJoined)
    <3>1. b = a
      BY <2>2
    <3> HIDE DEF b
    <3> QED BY <1>0, <1>3, <1>4, <2>2, <3>1 DEF Shrinks
  <2> QED BY <2>1, <2>2
<1>7. t = [b EXCEPT !.ch[c].invites = @ \cup {u}, !.invited[u] = Append(@, c)]
  BY DEF add_invite, a
<1> HIDE DEF b
<1>8. /\ Whole(b) /\ b \in Tables /\ Calls(b) /\ b.invited[u] \in Seq(Chan)
      /\ Lists(b.invited[u], Asked(b, u)) /\ b.ch[c] \in Channel /\ b.ch[c].invites \in SUBSET Locals
  BY <1>0, <1>6 DEF Sound, Whole, Calls, Lists, Tables, Channel
<1>9. c \notin Asked(b, u)
  BY <1>5, <1>6 DEF Shrinks, Asked
<1> DEFINE J == b.ch[c].invites \cup {u}
           q == Append(b.invited[u], c)
<1>10. /\ Lists(q, Asked(b, u) \cup {c}) /\ Len(q) <= MaxJoined /\ q \in Seq(Chan) /\ J \in SUBSET Locals
  <2>1. Lists(q, Asked(b, u) \cup {c}) /\ Len(q) = Len(b.invited[u]) + 1
    BY <1>8, <1>9, PutInto
  <2> HIDE DEF q
  <2> QED BY <1>0, <1>6, <1>8, <2>1 DEF Lists
<1>11. t = Called(b, u, c, J, q)
  BY <1>7, <1>8 DEF Called, Tables
<1> HIDE DEF q, J
<1>12. IsCalled(b, u, c, J, q, t)
  BY ONLY <1>0, <1>8, <1>10, <1>11, PutCall, c \in Chan
<1>13. /\ t \in Tables /\ t.list = b.list /\ t.joined = b.joined
       /\ t.ch[c] = Inviting(b.ch[c], J)
       /\ \A d \in Chan : d # c => t.ch[d] = b.ch[d]
       /\ t.invited[u] = q /\ \A w \in User : w # u => t.invited[w] = b.invited[w]
  BY <1>12 DEF IsCalled
<1>14. t.ch[c].invites = J
  BY <1>8, <1>10, <1>13, PutInvites
<1>15. ASSUME NEW w \in User PROVE Lists(t.invited[w], Asked(t, w)) /\ Len(t.invited[w]) <= MaxJoined
  <2>1. CASE w = u
    <3>1. Asked(t, u) = Asked(b, u) \cup {c}
      BY <1>13, <1>14 DEF Asked, J
    <3> QED BY <1>10, <1>13, <2>1, <3>1
  <2>2. CASE w # u
    <3>1. Asked(t, w) = Asked(b, w)
      BY <1>13, <1>14, <2>2 DEF Asked, J
    <3>2. t.invited[w] = b.invited[w]
      BY <1>13, <2>2
    <3> QED BY <1>8, <3>1, <3>2 DEF Calls
  <2> QED BY <2>1, <2>2
<1>16. OnlyCalls(b, t, c, J)
  BY <1>10, <1>13, <1>15 DEF OnlyCalls, Calls
<1>17. Sound(t) /\ \A d \in Chan : t.ch[d].mem = b.ch[d].mem
  BY ONLY <1>6, <1>8, <1>16, OnlyCallsKeeps, c \in Chan
<1>18. ASSUME NEW d \in Chan PROVE t.ch[d].invites \subseteq s.ch[d].invites \cup {u}
  <2>1. b.ch[d].invites \subseteq s.ch[d].invites
    BY <1>3, <1>6 DEF Shrinks
  <2> QED BY <1>13, <1>14, <2>1 DEF J
<1> QED
  BY <1>3, <1>6, <1>17, <1>18 DEF Invites

-----------------------------------------------------------------------------
(* Changes to a channel that move nobody.                                  *)

\* j is k with other modes, bans or flags of members.
Alike(k, j) ==
    j.mem = k.mem /\ j.zombies = k.zombies /\ j.invites = k.invites /\ Kept(j)

LEMMA AlikeOn ==
    ASSUME NEW k, NEW j, NEW i, Alike(k, j), Alike(j, i) PROVE Alike(k, i)
  BY DEF Alike

LEMMA AlikeSelf == ASSUME NEW k, Kept(k) PROVE Alike(k, k)
  BY DEF Alike

(* What stays when only modes, key, limit and the record of the table are  *)
(* written.                                                                *)
LEMMA SameFlags ==
    ASSUME NEW k, Kept(k), NEW j \in Channel, j.mem = k.mem, j.zombies = k.zombies,
           j.invites = k.invites, j.users = k.users, j.ops = k.ops, j.voices = k.voices,
           j.there = k.there, j.reg = k.reg, j.cached = k.cached, j.banned = k.banned, j.bans = k.bans
    PROVE  Alike(k, j)
  BY DEF Alike, Kept, Answered

Moded(k, M) == [k EXCEPT !.modes = M]
LEMMA ModesKeep ==
    ASSUME NEW k, Kept(k), NEW M \in SUBSET Mode, NEW j, j = Moded(k, M)
    PROVE  Alike(k, j) /\ j.must = k.must /\ j.forbid = k.forbid /\ j.modes = M
<1>1. k \in Channel
  BY DEF Kept
<1>2. j \in Channel /\ j.mem = k.mem /\ j.zombies = k.zombies /\ j.invites = k.invites
  BY <1>1 DEF Channel, Moded
<1>3. /\ j.users = k.users /\ j.ops = k.ops /\ j.voices = k.voices /\ j.there = k.there
      /\ j.reg = k.reg /\ j.cached = k.cached /\ j.banned = k.banned /\ j.bans = k.bans
  BY <1>1 DEF Channel, Moded
<1>4. j.must = k.must /\ j.forbid = k.forbid /\ j.modes = M
  BY <1>1 DEF Channel, Moded
<1> QED
  BY <1>2, <1>3, <1>4, SameFlags

LEMMA KeyKeeps ==
    ASSUME NEW k, Kept(k), NEW x \in 0..MaxKey, NEW j, j = [k EXCEPT !.key = x]
    PROVE  Alike(k, j)
<1>1. k \in Channel
  BY DEF Kept
<1>2. j \in Channel /\ j.mem = k.mem /\ j.zombies = k.zombies /\ j.invites = k.invites
  BY <1>1 DEF Channel
<1>3. /\ j.users = k.users /\ j.ops = k.ops /\ j.voices = k.voices /\ j.there = k.there
      /\ j.reg = k.reg /\ j.cached = k.cached /\ j.banned = k.banned /\ j.bans = k.bans
  BY <1>1 DEF Channel
<1> QED
  BY <1>2, <1>3, SameFlags

LEMMA LimitKeeps ==
    ASSUME NEW k, Kept(k), NEW x \in 0..MaxLimit, NEW j, j = [k EXCEPT !.limit = x]
    PROVE  Alike(k, j)
<1>1. k \in Channel
  BY DEF Kept
<1>2. j \in Channel /\ j.mem = k.mem /\ j.zombies = k.zombies /\ j.invites = k.invites
  BY <1>1 DEF Channel
<1>3. /\ j.users = k.users /\ j.ops = k.ops /\ j.voices = k.voices /\ j.there = k.there
      /\ j.reg = k.reg /\ j.cached = k.cached /\ j.banned = k.banned /\ j.bans = k.bans
  BY <1>1 DEF Channel
<1> QED
  BY <1>2, <1>3, SameFlags

LEMMA OpsKeep ==
    ASSUME NEW k, Kept(k), NEW S \in SUBSET k.mem, NEW j,
           j = [k EXCEPT !.ops = S] \/ j = [k EXCEPT !.voices = S]
    PROVE  Alike(k, j)
<1>1. k \in Channel /\ S \in SUBSET User
  BY DEF Kept, Channel
<1>2. CASE j = [k EXCEPT !.ops = S]
  <2>1. j \in Channel /\ j.mem = k.mem /\ j.zombies = k.zombies /\ j.invites = k.invites
    BY <1>1, <1>2 DEF Channel
  <2>2. /\ j.users = k.users /\ j.ops = S /\ j.voices = k.voices /\ j.there = k.there
        /\ j.reg = k.reg /\ j.cached = k.cached /\ j.banned = k.banned /\ j.bans = k.bans
    BY <1>1, <1>2 DEF Channel
  <2> QED BY ONLY <2>1, <2>2, Kept(k), S \in SUBSET k.mem DEF Alike, Kept, Answered
<1>3. CASE j = [k EXCEPT !.voices = S]
  <2>1. j \in Channel /\ j.mem = k.mem /\ j.zombies = k.zombies /\ j.invites = k.invites
    BY <1>1, <1>3 DEF Channel
  <2>2. /\ j.users = k.users /\ j.ops = k.ops /\ j.voices = S /\ j.there = k.there
        /\ j.reg = k.reg /\ j.cached = k.cached /\ j.banned = k.banned /\ j.bans = k.bans
    BY <1>1, <1>3 DEF Channel
  <2> QED BY ONLY <2>1, <2>2, Kept(k), S \in SUBSET k.mem DEF Alike, Kept, Answered
<1> QED
  BY <1>2, <1>3

(* The bans and the answers of is_banned.                                  *)
IsBarred(k, B, f, R, j) ==
    /\ j \in Channel /\ j.mem = k.mem /\ j.zombies = k.zombies /\ j.invites = k.invites
    /\ j.users = k.users /\ j.ops = k.ops /\ j.voices = k.voices /\ j.there = k.there
    /\ j.reg = k.reg /\ j.cached = f /\ j.banned = R /\ j.bans = B
Barred(k, B, f, R) == [k EXCEPT !.bans = B, !.cached = f, !.banned = R]
LEMMA BarredIs ==
    ASSUME NEW k \in Channel, NEW B \in SUBSET Ban, NEW f \in [User -> Nicks \cup {0}],
           NEW R \in SUBSET User, NEW j, j = Barred(k, B, f, R)
    PROVE  IsBarred(k, B, f, R, j)
<1>1. j \in Channel /\ j.mem = k.mem /\ j.zombies = k.zombies /\ j.invites = k.invites
  BY DEF Channel, Barred
<1>2. /\ j.users = k.users /\ j.ops = k.ops /\ j.voices = k.voices /\ j.there = k.there
      /\ j.reg = k.reg /\ j.cached = f /\ j.banned = R /\ j.bans = B
  BY DEF Channel, Barred
<1> QED
  BY <1>1, <1>2 DEF IsBarred

LEMMA BarredKeeps ==
    ASSUME NEW k, Kept(k), NEW B \in SUBSET Ban, NEW f \in [User -> Nicks \cup {0}],
           NEW R \in SUBSET User,
           \A u \in User : f[u] # 0 => (u \in R <=> \E b \in B : <<b, u, f[u]>> \in Hit),
           NEW j, j = Barred(k, B, f, R)
    PROVE  Alike(k, j)
<1>1. k \in Channel
  BY DEF Kept
<1>2. IsBarred(k, B, f, R, j)
  BY <1>1, BarredIs
<1>3. Answered(j)
  BY <1>2 DEF IsBarred, Answered
<1>4. Kept(j)
  BY <1>2, <1>3 DEF IsBarred, Kept
<1> QED
  BY <1>2, <1>4 DEF IsBarred, Alike

LEMMA BanAddedKeeps ==
    ASSUME NEW k, Kept(k), NEW u, NEW b \in Ban, NEW j, j = BanAdded(k, u, b)
    PROVE  Alike(k, j)
<1> DEFINE under == {e \in k.bans : <<b, e>> \in Covers}
           f == [w \in User |-> 0]
           B == (k.bans \ under) \cup {b}
<1>1. j = k \/ j = [k EXCEPT !.bans = B, !.cached = f]
  BY DEF BanAdded
<1>2. CASE j = k
  BY <1>2, AlikeSelf
<1>3. CASE j = [k EXCEPT !.bans = B, !.cached = f]
  <2>1. k \in Channel
    BY DEF Kept
  <2>2. B \in SUBSET Ban /\ f \in [User -> Nicks \cup {0}] /\ k.banned \in SUBSET User
    BY <2>1 DEF Channel
  <2>3. \A w \in User : f[w] = 0
    OBVIOUS
  <2> HIDE DEF B, f
  <2>4. j = Barred(k, B, f, k.banned)
    BY <1>3, <2>1 DEF Barred, Channel
  <2> QED BY <2>2, <2>3, <2>4, BarredKeeps
<1> QED
  BY <1>1, <1>2, <1>3

LEMMA BanDeletedKeeps ==
    ASSUME NEW k, Kept(k), NEW b, NEW j, j = BanDeleted(k, b)
    PROVE  Alike(k, j)
<1> DEFINE f == [w \in User |-> IF w \in k.banned THEN 0 ELSE k.cached[w]]
           B == k.bans \ {b}
<1>1. j = k \/ j = [k EXCEPT !.bans = B, !.cached = f]
  BY DEF BanDeleted, Kept, Channel
<1>2. CASE j = k
  BY <1>2, AlikeSelf
<1>3. CASE j = [k EXCEPT !.bans = B, !.cached = f]
  <2>1. k \in Channel /\ Answered(k)
    BY DEF Kept
  <2>2. /\ B \in SUBSET Ban /\ f \in [User -> Nicks \cup {0}] /\ k.banned \in SUBSET User
        /\ k.bans \in SUBSET Ban /\ k.cached \in [User -> Nicks \cup {0}]
    BY <2>1 DEF Channel
  <2>3. ASSUME NEW w \in User, f[w] # 0
        PROVE  w \in k.banned <=> \E e \in B : <<e, w, f[w]>> \in Hit
    <3>1. w \notin k.banned /\ f[w] = k.cached[w]
      BY <2>3
    <3>2. ~\E e \in k.bans : <<e, w, k.cached[w]>> \in Hit
      BY <2>1, <2>3, <3>1 DEF Answered
    <3> QED BY <3>1, <3>2
  <2> HIDE DEF B, f
  <2>4. j = Barred(k, B, f, k.banned)
    BY <1>3, <2>1 DEF Barred, Channel
  <2> QED BY <2>2, <2>3, <2>4, BarredKeeps
<1> QED
  BY <1>1, <1>2, <1>3

LEMMA RememberedKeeps ==
    ASSUME ChanInv, NEW u \in User, NEW c \in Chan, NEW j, j = Remembered(ch[c], u, c)
    PROVE  Alike(ch[c], j)
<1> DEFINE k == ch[c]
           f == [k.cached EXCEPT ![u] = nick[u]]
           R == IF Matches(u, c) THEN k.banned \cup {u} ELSE k.banned \ {u}
<1>1. Kept(k) /\ k \in Channel /\ Answered(k) /\ nick[u] \in Nicks
  BY DEF ChanInv, Sound, Whole, All, Kept
<1>2. k.cached \in [User -> Nicks \cup {0}] /\ k.banned \in SUBSET User /\ k.bans \in SUBSET Ban
  BY <1>1 DEF Channel
<1>3. f \in [User -> Nicks \cup {0}] /\ R \in SUBSET User
  BY <1>1, <1>2
<1>4. j = k \/ j = [k EXCEPT !.cached = f, !.banned = R]
  BY <1>1 DEF Remembered, Channel
<1>5. CASE j = k
  BY <1>1, <1>5, AlikeSelf
<1>6. CASE j = [k EXCEPT !.cached = f, !.banned = R]
  <2>1. ASSUME NEW w \in User, f[w] # 0
        PROVE  w \in R <=> \E b \in k.bans : <<b, w, f[w]>> \in Hit
    <3>1. CASE w = u
      <4>1. f[w] = nick[u]
        BY <1>2, <3>1
      <4> QED BY <3>1, <4>1 DEF Matches
    <3>2. CASE w # u
      <4>1. f[w] = k.cached[w] /\ (w \in R <=> w \in k.banned)
        BY <1>2, <3>2
      <4> HIDE DEF f, R, k
      <4> QED BY <1>1, <2>1, <4>1 DEF Answered
    <3> QED BY <3>1, <3>2
  <2> HIDE DEF f, R, k
  <2>2. j = Barred(k, k.bans, f, R)
    BY <1>1, <1>6 DEF Barred, Channel
  <2>3. Alike(k, j)
    BY ONLY <1>1, <1>2, <1>3, <2>1, <2>2, BarredKeeps
  <2> QED BY <2>3 DEF k
<1> QED
  BY <1>4, <1>5, <1>6

(* The modes that a record of the table imposes are modes.                 *)
LEMMA ImposedIs ==
    ASSUME NEW k \in Channel, NEW M \in SUBSET Mode
    PROVE  /\ Imposed(k, M) \in SUBSET Mode
           /\ \A x \in Mode : With(M, x) \in SUBSET Mode
<1>1. Imposed(k, M) \in SUBSET Mode
  BY DEF Imposed, Channel
<1>2. ASSUME NEW x \in Mode PROVE With(M, x) \in SUBSET Mode
  BY DEF With
<1> QED
  BY <1>1, <1>2

\* What a change of kind w may be about.
Fits(k, w, x) ==
    \/ w = "m" /\ x \in Mode
    \/ w = "k" /\ x \in 1..MaxKey
    \/ w = "l" /\ x \in 1..MaxLimit
    \/ w = "b" /\ x \in Ban
    \/ w \in {"o", "v"} /\ x \in k.mem

LEMMA ModeSetKeeps ==
    ASSUME NEW k, Kept(k), NEW u, NEW add \in BOOLEAN, NEW w, NEW x, Fits(k, w, x),
           NEW j, j = ModeSet(k, u, add, w, x)
    PROVE  Alike(k, j)
<1> DEFINE d == CASE w = "m" -> FlagSet(k, u, add, x)
                  [] w = "k" -> KeySet(k, add, x)
                  [] w = "l" -> LimitSet(k, add, x)
                  [] w = "b" -> BanSet(k, u, add, x)
                  [] OTHER -> StatusSet(k, add, w, x)
<1>1. k \in Channel /\ k.modes \in SUBSET Mode
  BY DEF Kept, Channel
<1>2. MaxKey \in Nat /\ MaxLimit \in Nat
  BY LocalConstants
<1>3. Alike(k, d)
  <2>1. CASE w = "m" /\ x \in Mode
    <3> DEFINE M == IF x = "O" /\ u \notin ChanOpers THEN k.modes
                    ELSE IF add THEN With(k.modes, x) ELSE k.modes \ {x}
    <3>1. M \in SUBSET Mode
      BY <1>1, <2>1, ImposedIs
    <3>2. d = [k EXCEPT !.modes = Imposed(k, M)]
      BY <1>1, <2>1 DEF FlagSet, Channel
    <3> HIDE DEF M, d
    <3>3. Imposed(k, M) \in SUBSET Mode
      BY <1>1, <3>1, ImposedIs
    <3>4. d = Moded(k, Imposed(k, M))
      BY <3>2 DEF Moded
    <3> QED BY <3>3, <3>4, ModesKeep
  <2>2. CASE w = "k" /\ x \in 1..MaxKey
    <3>1. d = KeySet(k, add, x)
      BY <2>2
    <3> HIDE DEF d
    <3>2. x \in 0..MaxKey /\ 0 \in 0..MaxKey
      BY <1>2, <2>2
    <3>3. d = k \/ d = [k EXCEPT !.key = x] \/ d = [k EXCEPT !.key = 0]
      BY <3>1 DEF KeySet
    <3>4. CASE d = k
      BY <3>4, AlikeSelf
    <3>5. CASE d = [k EXCEPT !.key = x]
      BY <3>2, <3>5, KeyKeeps
    <3>6. CASE d = [k EXCEPT !.key = 0]
      BY <3>2, <3>6, KeyKeeps
    <3> QED BY <3>3, <3>4, <3>5, <3>6
  <2>3. CASE w = "l" /\ x \in 1..MaxLimit
    <3> DEFINE y == IF add THEN x ELSE 0
    <3>1. d = [k EXCEPT !.limit = y]
      BY <2>3 DEF LimitSet
    <3>2. y \in 0..MaxLimit
      BY <1>2, <2>3
    <3> HIDE DEF d, y
    <3> QED BY <3>1, <3>2, LimitKeeps
  <2>4. CASE w = "b" /\ x \in Ban
    <3>1. d = BanAdded(k, u, x) \/ d = BanDeleted(k, x)
      BY <2>4 DEF BanSet
    <3> HIDE DEF d
    <3> QED BY <2>4, <3>1, BanAddedKeeps, BanDeletedKeeps
  <2>5. CASE w \in {"o", "v"} /\ x \in k.mem
    <3> DEFINE O == IF add THEN k.ops \cup {x} ELSE k.ops \ {x}
               V == IF add THEN k.voices \cup {x} ELSE k.voices \ {x}
    <3>1. O \in SUBSET k.mem /\ V \in SUBSET k.mem
      BY <2>5 DEF Kept
    <3>2. d = StatusSet(k, add, w, x)
      BY <2>5
    <3> HIDE DEF d
    <3>3. d = [k EXCEPT !.ops = O] \/ d = [k EXCEPT !.voices = V]
      BY <1>1, <3>2 DEF StatusSet, Channel
    <3> HIDE DEF O, V
    <3>4. CASE d = [k EXCEPT !.ops = O]
      BY <3>1, <3>4, OpsKeep
    <3>5. CASE d = [k EXCEPT !.voices = V]
      BY <3>1, <3>5, OpsKeep
    <3> QED BY <3>3, <3>4, <3>5
  <2> HIDE DEF d
  <2> QED BY <2>1, <2>2, <2>3, <2>4, <2>5 DEF Fits
<1>4. j = [d EXCEPT !.modes = Imposed(d, d.modes)]
  <2>1. j = [d EXCEPT !.modes = Imposed(d, @)]
    BY DEF ModeSet
  <2>2. d \in Channel
    BY <1>3 DEF Alike, Kept
  <2> HIDE DEF d
  <2> QED BY <2>1, <2>2 DEF Channel
<1> HIDE DEF d
<1>5. Kept(d) /\ d \in Channel /\ d.modes \in SUBSET Mode
  BY <1>3 DEF Alike, Kept, Channel
<1>6. Imposed(d, d.modes) \in SUBSET Mode
  BY <1>5, ImposedIs
<1>7. j = Moded(d, Imposed(d, d.modes))
  BY <1>4 DEF Moded
<1>8. Alike(d, j)
  BY <1>5, <1>6, <1>7, ModesKeep
<1> QED
  BY <1>3, <1>8, AlikeOn

\* From s to t nobody has moved and no invitation changed.
Still(s, t) ==
    \A d \in Chan : t.ch[d].mem = s.ch[d].mem /\ t.ch[d].invites = s.ch[d].invites

LEMMA SetKeeps ==
    ASSUME NEW s, Sound(s), NEW c \in Chan, NEW j, Alike(s.ch[c], j), NEW t, t = Set(s, c, j)
    PROVE  Sound(t) /\ Still(s, t)
<1>1. s \in Tables /\ Members(s) /\ Calls(s) /\ j \in Channel
  BY DEF Sound, Whole, Alike, Kept
<1>2. IsSet(s, c, j, t)
  BY <1>1, PutChan
<1>3. /\ t \in Tables /\ t.list = s.list /\ t.joined = s.joined /\ t.invited = s.invited
      /\ t.ch[c] = j /\ \A d \in Chan : d # c => t.ch[d] = s.ch[d]
  BY <1>2 DEF IsSet
<1>4. Still(s, t)
  BY <1>3 DEF Still, Alike
<1>5. Members(t) /\ Calls(t)
  <2>1. Members(t)
    BY <1>1, <1>3, <1>4, SameMembers DEF Still
  <2>2. Calls(t)
    BY <1>1, <1>3, <1>4, SameCalls DEF Still
  <2> QED BY <2>1, <2>2
<1>6. \A d \in Chan : Kept(t.ch[d]) /\ Alive(t.ch[d])
  BY <1>3 DEF Sound, Whole, Alike, Alive
<1> QED
  BY <1>3, <1>4, <1>5, <1>6 DEF Sound, Whole

-----------------------------------------------------------------------------
(* The invariant.                                                          *)

(* A step that takes sound tables to sound tables and leaves nobody on a   *)
(* channel or invited who is not on the server.                            *)
LEMMA StepKeeps ==
    ASSUME ChanInv, NEW t, Sound(t), Becomes(t), NEW k, Turn(k),
           on' \subseteq User, nick' \in [User -> Nicks],
           \A c \in Chan : t.ch[c].mem \cup t.ch[c].invites \subseteq on'
    PROVE  ChanInv'
<1>1. All' = t
  <2>1. t \in Tables
    BY DEF Sound, Whole
  <2>2. t = [ch |-> t.ch, list |-> t.list, joined |-> t.joined, invited |-> t.invited]
    BY <2>1 DEF Tables
  <2> QED BY <2>2 DEF All, Becomes
<1>2. Sound(All)'
  BY <1>1
<1>3. (\A c \in Chan : ch[c].mem \cup ch[c].invites \subseteq on)'
  BY DEF Becomes
<1>4. (chanTurns \in 0..MaxChanTurns /\ chanPlan \in ChanPlans)'
  BY LocalConstants DEF ChanInv, Turn
<1> QED
  BY <1>2, <1>3, <1>4 DEF ChanInv

LEMMA Basics ==
    ASSUME ChanInv
    PROVE  /\ Sound(All) /\ Whole(All) /\ All \in Tables /\ Calls(All) /\ Members(All)
           /\ All.ch = ch /\ All.list = list /\ All.joined = joined /\ All.invited = invited
           /\ \A c \in Chan : Kept(ch[c]) /\ Alive(ch[c]) /\ ch[c] \in Channel
           /\ \A c \in Chan : ch[c].mem \cup ch[c].invites \subseteq on
           /\ on \subseteq User /\ nick \in [User -> Nicks]
  BY DEF ChanInv, Sound, Whole, Kept, All

(* What those who are left or asked less were.                             *)
LEMMA ShrinksIn ==
    ASSUME ChanInv, NEW t, Shrinks(All, t)
    PROVE  \A c \in Chan : t.ch[c].mem \cup t.ch[c].invites \subseteq on
  BY Basics DEF Shrinks

LEMMA StillIn ==
    ASSUME ChanInv, NEW t, Still(All, t)
    PROVE  \A c \in Chan : t.ch[c].mem \cup t.ch[c].invites \subseteq on
  BY Basics DEF Still

(* m_join, m_svsjoin: the user comes and its invitation goes.              *)
LEMMA EnterKeeps ==
    ASSUME ChanInv, NEW u \in on, NEW c \in Chan, u \notin ch[c].mem, NEW op \in BOOLEAN,
           Becomes(del_invite(add_user_to_channel(All, c, u, op), u, c)),
           NEW k, Turn(k), UNCHANGED <<on, nick>>
    PROVE  ChanInv'
<1> DEFINE s == All
           r == add_user_to_channel(s, c, u, op)
           t == del_invite(r, u, c)
           I == r.ch[c].invites \ {u}
<1>1. u \in User /\ Sound(s) /\ u \notin s.ch[c].mem
  BY Basics
<1>2. Becomes(t)
  OBVIOUS
<1> HIDE DEF s
<1>3. Sound(r) /\ Comes(s, r, u, c)
  BY <1>1, AddUserKeeps
<1> HIDE DEF r
<1>4. Whole(r) /\ r \in Tables /\ Calls(r)
  BY <1>3 DEF Sound, Whole
<1>5. OnlyCalls(r, t, c, I) /\ I \subseteq r.ch[c].invites
  BY <1>1, <1>4, DelInvite
<1> HIDE DEF t, I
<1>6. Sound(t) /\ Shrinks(r, t)
  BY <1>3, <1>4, <1>5, OnlyCallsKeeps
<1>7. ASSUME NEW d \in Chan PROVE t.ch[d].mem \cup t.ch[d].invites \subseteq on
  <2>1. s.ch[d].mem \cup s.ch[d].invites \subseteq on
    BY Basics DEF s
  <2>2. r.ch[d].mem \subseteq s.ch[d].mem \cup {u} /\ r.ch[d].invites = s.ch[d].invites
    BY <1>3 DEF Comes
  <2> QED BY <1>6, <2>1, <2>2 DEF Shrinks
<1>8. on' \subseteq User /\ nick' \in [User -> Nicks] /\ on' = on
  BY Basics
<1> QED
  BY <1>2, <1>6, <1>7, <1>8, StepKeeps

LEMMA JoinKeeps ==
    ASSUME ChanInv, NEW u, NEW c \in Chan, NEW key, NEW override, Join(u, c, key, override)
    PROVE  ChanInv'
<1>1. /\ u \in on /\ u \notin ch[c].mem /\ Turn("join") /\ UNCHANGED <<on, nick>>
      /\ Becomes(del_invite(add_user_to_channel(All, c, u, ~ch[c].there), u, c))
  BY DEF Join
<1>2. (~ch[c].there) \in BOOLEAN
  OBVIOUS
<1> QED
  BY <1>1, <1>2, EnterKeeps

LEMMA SvsJoinKeeps ==
    ASSUME ChanInv, NEW u, NEW c \in Chan, NEW check, SvsJoin(u, c, check)
    PROVE  ChanInv'
<1>1. /\ u \in on /\ u \notin ch[c].mem /\ Turn("svs") /\ UNCHANGED <<on, nick>>
      /\ Becomes(del_invite(add_user_to_channel(All, c, u, ~ch[c].there), u, c))
  BY DEF SvsJoin
<1>2. (~ch[c].there) \in BOOLEAN
  OBVIOUS
<1> QED
  BY <1>1, <1>2, EnterKeeps

LEMMA RemoteJoinKeeps ==
    ASSUME ChanInv, NEW u, NEW c \in Chan, RemoteJoin(u, c)
    PROVE  ChanInv'
<1> DEFINE s == IF u \in ch[c].zombies THEN remove_user_from_channel(All, u, c) ELSE All
           t == add_user_to_channel(s, c, u, FALSE)
<1>1. /\ u \in on /\ u \in User /\ ~IsMember(u, c) /\ Turn("remote") /\ UNCHANGED <<on, nick>>
      /\ Becomes(t)
  BY Basics DEF RemoteJoin
<1>2. Sound(s) /\ Shrinks(All, s) /\ u \notin s.ch[c].mem
  <2>1. CASE u \in ch[c].zombies
    <3>1. u \in All.ch[c].mem /\ Whole(All) /\ \A d \in Chan : d # c => Alive(All.ch[d])
      BY <2>1, Basics DEF Kept
    <3>2. s = remove_user_from_channel(All, u, c)
      BY <2>1
    <3> HIDE DEF s
    <3> QED BY <1>1, <3>1, <3>2, RemoveKeeps
  <2>2. CASE u \notin ch[c].zombies
    <3>1. s = All /\ u \notin ch[c].mem
      BY <1>1, <2>2 DEF IsMember
    <3> HIDE DEF s
    <3> QED BY <3>1, Basics DEF Shrinks
  <2> QED BY <2>1, <2>2
<1> HIDE DEF s
<1>3. Sound(t) /\ Comes(s, t, u, c)
  BY <1>1, <1>2, AddUserKeeps
<1> HIDE DEF t
<1>4. ASSUME NEW d \in Chan PROVE t.ch[d].mem \cup t.ch[d].invites \subseteq on
  <2>1. s.ch[d].mem \cup s.ch[d].invites \subseteq on
    BY <1>2, ShrinksIn
  <2>2. t.ch[d].mem \subseteq s.ch[d].mem \cup {u} /\ t.ch[d].invites = s.ch[d].invites
    BY <1>3 DEF Comes
  <2> QED BY <1>1, <2>1, <2>2
<1>5. on' \subseteq User /\ nick' \in [User -> Nicks] /\ on' = on
  BY <1>1, Basics
<1> QED
  BY <1>1, <1>3, <1>4, <1>5, StepKeeps

LEMMA PartKeeps ==
    ASSUME ChanInv, NEW u \in User, NEW c \in Chan, Part(u, c)
    PROVE  ChanInv'
<1> DEFINE t == remove_user_from_channel(All, u, c)
<1>1. u \in ch[c].mem /\ UNCHANGED <<on, nick>> /\ Becomes(t) /\ \E k : Turn(k)
  BY DEF Part
<1>2. u \in All.ch[c].mem /\ Whole(All) /\ \A d \in Chan : d # c => Alive(All.ch[d])
  BY <1>1, Basics
<1>3. Sound(t) /\ Shrinks(All, t)
  BY <1>2, RemoveKeeps
<1> HIDE DEF t
<1>4. \A d \in Chan : t.ch[d].mem \cup t.ch[d].invites \subseteq on
  BY <1>3, ShrinksIn
<1>5. on' \subseteq User /\ nick' \in [User -> Nicks] /\ on' = on
  BY <1>1, Basics
<1> QED
  BY <1>1, <1>3, <1>4, <1>5, StepKeeps

LEMMA PartAllKeeps ==
    ASSUME ChanInv, NEW u, PartAll(u)
    PROVE  ChanInv'
<1> DEFINE t == LeaveAll(All, u)
<1>1. u \in User /\ UNCHANGED <<on, nick>> /\ Becomes(t) /\ Turn("part")
  BY Basics DEF PartAll
<1>2. Sound(t) /\ Shrinks(All, t)
  BY <1>1, LeaveKeeps, Basics
<1> HIDE DEF t
<1>3. \A d \in Chan : t.ch[d].mem \cup t.ch[d].invites \subseteq on
  BY <1>2, ShrinksIn
<1>4. on' \subseteq User /\ nick' \in [User -> Nicks] /\ on' = on
  BY <1>1, Basics
<1> QED
  BY <1>1, <1>2, <1>3, <1>4, StepKeeps

LEMMA DepartsKeeps ==
    ASSUME ChanInv, NEW u \in User, Departs(u)
    PROVE  ChanInv'
<1> DEFINE r == LeaveAll(All, u)
           t == IF u \in Locals THEN ForgetAll(r, u) ELSE r
<1>1. on' = on \ {u} /\ nick' = nick /\ Becomes(t) /\ Turn("exit")
  BY DEF Departs
<1>2. Sound(r) /\ Shrinks(All, r) /\ Joined(r, u) = {}
  BY LeaveKeeps, Basics
<1> HIDE DEF r
<1>3. Sound(t) /\ Shrinks(r, t) /\ Asked(t, u) = {}
  <2>1. CASE u \in Locals
    BY <1>2, <2>1, ForgetKeeps
  <2>2. CASE u \notin Locals
    <3>1. \A c \in Chan : r.ch[c].invites \subseteq Locals
      BY <1>2 DEF Sound, Whole, Tables, Channel
    <3> QED BY <1>2, <2>2, <3>1 DEF Asked, Shrinks
  <2> QED BY <2>1, <2>2
<1> HIDE DEF t
<1>4. Shrinks(All, t) /\ Joined(t, u) = {}
  BY <1>2, <1>3 DEF Shrinks, Joined
<1>5. \A d \in Chan : t.ch[d].mem \cup t.ch[d].invites \subseteq on \ {u}
  <2>1. \A d \in Chan : t.ch[d].mem \cup t.ch[d].invites \subseteq on
    BY <1>4, ShrinksIn
  <2> QED BY <1>3, <1>4, <2>1 DEF Joined, Asked
<1>6. on' \subseteq User /\ nick' \in [User -> Nicks]
  BY <1>1, Basics
<1> QED
  BY <1>1, <1>3, <1>5, <1>6, StepKeeps

LEMMA KickKeeps ==
    ASSUME ChanInv, NEW u, NEW w \in User, NEW c \in Chan, Kick(u, w, c)
    PROVE  ChanInv'
<1> DEFINE k == ch[c]
           Z == k.zombies \cup {w}
           j == [k EXCEPT !.zombies = Z]
           z == [All EXCEPT !.ch[c].zombies = @ \cup {w}]
           left == z.ch[c].mem \ z.ch[c].zombies
           t == IF w \in Locals \/ left = {} THEN remove_user_from_channel(z, w, c) ELSE z
<1>1. /\ w \in k.mem /\ UNCHANGED <<on, nick>> /\ Becomes(t) /\ Turn("kick")
  BY DEF Kick, IsMember
<1>2. Kept(k) /\ k \in Channel /\ Z \in SUBSET k.mem /\ Z \in SUBSET User
  BY <1>1, Basics DEF Kept, Channel
<1>3. z = Set(All, c, j)
  BY Basics DEF Set, Tables
<1> HIDE DEF k, Z
<1>4. /\ j \in Channel /\ j.mem = k.mem /\ j.zombies = Z /\ j.invites = k.invites
      /\ j.users = k.users /\ j.ops = k.ops /\ j.voices = k.voices /\ j.there = k.there
      /\ j.reg = k.reg /\ j.cached = k.cached /\ j.banned = k.banned /\ j.bans = k.bans
  <2>1. j \in Channel /\ j.mem = k.mem /\ j.zombies = Z /\ j.invites = k.invites
    BY <1>2 DEF Channel
  <2>2. /\ j.users = k.users /\ j.ops = k.ops /\ j.voices = k.voices /\ j.there = k.there
        /\ j.reg = k.reg /\ j.cached = k.cached /\ j.banned = k.banned /\ j.bans = k.bans
    BY <1>2 DEF Channel
  <2> QED BY <2>1, <2>2
<1> HIDE DEF j, z
<1>5. Kept(j)
  BY <1>2, <1>4 DEF Kept, Answered
<1>6. IsSet(All, c, j, z)
  BY <1>3, <1>4, Basics, PutChan
<1>7. /\ z \in Tables /\ z.list = list /\ z.joined = joined /\ z.invited = invited
      /\ z.ch[c] = j /\ \A d \in Chan : d # c => z.ch[d] = ch[d]
  BY <1>6, Basics DEF IsSet
<1>8. \A d \in Chan : z.ch[d].mem = All.ch[d].mem /\ z.ch[d].invites = All.ch[d].invites
  BY <1>4, <1>7, Basics DEF k
<1>9. Whole(z)
  <2>1. Members(z)
    BY <1>7, <1>8, Basics, SameMembers
  <2>2. Calls(z)
    BY <1>7, <1>8, Basics, SameCalls
  <2>3. \A d \in Chan : Kept(z.ch[d])
    BY <1>5, <1>7, Basics
  <2> QED BY <1>7, <2>1, <2>2, <2>3 DEF Whole
<1>10. \A d \in Chan : d # c => Alive(z.ch[d])
  BY <1>7, Basics
<1>11. Sound(t) /\ Shrinks(All, t)
  <2>1. CASE w \in Locals \/ left = {}
    <3>1. t = remove_user_from_channel(z, w, c)
      BY <2>1
    <3>2. w \in z.ch[c].mem
      BY <1>1, <1>4, <1>7
    <3> HIDE DEF t
    <3>3. Sound(t) /\ Shrinks(z, t)
      BY ONLY <1>9, <1>10, <3>1, <3>2, w \in User, c \in Chan, RemoveKeeps
    <3> QED BY <1>8, <3>3 DEF Shrinks
  <2>2. CASE ~(w \in Locals \/ left = {})
    <3>1. t = z
      BY <2>2
    <3>2. \A d \in Chan : Alive(z.ch[d])
      BY <1>10, <2>2 DEF Alive
    <3> HIDE DEF t
    <3> QED BY <1>8, <1>9, <3>1, <3>2 DEF Sound, Shrinks
  <2> QED BY <2>1, <2>2
<1> HIDE DEF t
<1>12. \A d \in Chan : t.ch[d].mem \cup t.ch[d].invites \subseteq on
  BY <1>11, ShrinksIn
<1>13. on' \subseteq User /\ nick' \in [User -> Nicks] /\ on' = on
  BY <1>1, Basics
<1> QED
  BY <1>1, <1>11, <1>12, <1>13, StepKeeps

LEMMA InviteKeeps ==
    ASSUME ChanInv, NEW u, NEW w \in User, NEW c \in Chan, Invite(u, w, c)
    PROVE  ChanInv'
<1> DEFINE t == add_invite(All, w, c)
<1>1. /\ w \in Locals /\ w \in on /\ UNCHANGED <<on, nick>> /\ Becomes(t) /\ Turn("invite")
  BY DEF Invite
<1>2. Sound(t) /\ Invites(All, t, w, c)
  BY <1>1, Basics, AddInviteKeeps
<1> HIDE DEF t
<1>3. \A d \in Chan : t.ch[d].mem \cup t.ch[d].invites \subseteq on
  BY <1>1, <1>2, Basics DEF Invites
<1>4. on' \subseteq User /\ nick' \in [User -> Nicks] /\ on' = on
  BY <1>1, Basics
<1> QED
  BY <1>1, <1>2, <1>3, <1>4, StepKeeps

(* -i ends the invitations.                                                *)
LEMMA ParsedKeeps ==
    ASSUME ChanInv, NEW c \in Chan, NEW add, NEW w, NEW x, NEW s, s = Parsed(All, c, add, w, x)
    PROVE  Sound(s) /\ Shrinks(All, s) /\ s.ch[c].mem = ch[c].mem /\ s.ch[c] \in Channel /\ Kept(s.ch[c])
<1>1. CASE s = All
  BY <1>1, Basics DEF Shrinks
<1>2. CASE s = Uninvited(All, c)
  <2>1. OnlyCalls(All, s, c, {})
    BY <1>2, Basics, UninvitedIs
  <2>2. Sound(s) /\ Shrinks(All, s) /\ s.ch[c].mem = All.ch[c].mem
    BY <2>1, Basics, OnlyCallsKeeps
  <2> QED BY <2>2, Basics DEF Sound, Whole, Kept
<1> QED
  BY <1>1, <1>2 DEF Parsed

LEMMA SetModeKeeps ==
    ASSUME ChanInv, NEW u, NEW c \in Chan, NEW add \in BOOLEAN, NEW w, NEW x, NEW opmode,
           SetMode(u, c, add, w, x, opmode), w \in {"o", "v"} \/ Fits(ch[c], w, x)
    PROVE  ChanInv'
<1> DEFINE s == Parsed(All, c, add, w, x)
           j == ModeSet(s.ch[c], u, add, w, x)
           may == u \in ch[c].ops \/ (opmode /\ u \in ChanOpers)
           t == IF may THEN [s EXCEPT !.ch[c] = ModeSet(@, u, add, w, x)] ELSE s
<1>1. /\ w \in {"o", "v"} => x \in ch[c].mem
      /\ Turn(w) /\ Becomes(t) /\ UNCHANGED <<on, nick>>
  BY DEF SetMode, IsMember
<1>2. Sound(s) /\ Shrinks(All, s) /\ s.ch[c].mem = ch[c].mem /\ s.ch[c] \in Channel /\ Kept(s.ch[c])
  BY ParsedKeeps
<1>3. s \in Tables
  BY <1>2 DEF Sound, Whole
<1>4. t = s \/ t = Set(s, c, j)
  <2> HIDE DEF s
  <2> QED BY <1>3 DEF Set, Tables
<1> HIDE DEF s, t
<1>5. Alike(s.ch[c], j)
  <2>1. Fits(s.ch[c], w, x)
    BY <1>1, <1>2 DEF Fits
  <2> QED BY <1>2, <2>1, ModeSetKeeps
<1> HIDE DEF j
<1>6. Sound(t) /\ Shrinks(All, t)
  <2>1. CASE t = Set(s, c, j)
    <3>1. Sound(t) /\ Still(s, t)
      BY <1>2, <1>5, <2>1, SetKeeps
    <3> QED BY <1>2, <3>1 DEF Still, Shrinks
  <2> QED BY <1>2, <1>4, <2>1
<1>7. \A d \in Chan : t.ch[d].mem \cup t.ch[d].invites \subseteq on
  BY <1>6, ShrinksIn
<1>8. on' \subseteq User /\ nick' \in [User -> Nicks] /\ on' = on
  BY <1>1, Basics
<1> QED
  BY <1>1, <1>6, <1>7, <1>8, StepKeeps

LEMMA ChangeKeeps ==
    ASSUME ChanInv, NEW u, NEW c \in Chan, Change(u, c)
    PROVE  ChanInv'
<1>1. PICK add \in BOOLEAN, opmode \in BOOLEAN :
        \/ \E x \in Mode : SetMode(u, c, add, "m", x, opmode)
        \/ \E x \in 1..MaxKey : SetMode(u, c, add, "k", x, opmode)
        \/ \E x \in 1..MaxLimit : SetMode(u, c, add, "l", x, opmode)
        \/ \E x \in Ban : SetMode(u, c, add, "b", x, opmode)
        \/ \E x \in User : SetMode(u, c, add, "o", x, opmode)
        \/ \E x \in User : SetMode(u, c, add, "v", x, opmode)
  BY DEF Change
<1>2. \A w, x : SetMode(u, c, add, w, x, opmode) /\ (w \in {"o", "v"} \/ Fits(ch[c], w, x)) => ChanInv'
  BY SetModeKeeps
<1>3. /\ \A x \in Mode : Fits(ch[c], "m", x)
      /\ \A x \in 1..MaxKey : Fits(ch[c], "k", x)
      /\ \A x \in 1..MaxLimit : Fits(ch[c], "l", x)
      /\ \A x \in Ban : Fits(ch[c], "b", x)
  BY DEF Fits
<1> QED
  BY <1>1, <1>2, <1>3

LEMMA BotModeKeeps ==
    ASSUME ChanInv, NEW c \in Chan, NEW add \in BOOLEAN, NEW x \in Mode, BotMode(c, add, x)
    PROVE  ChanInv'
<1> DEFINE s == Parsed(All, c, add, "m", x)
           k == s.ch[c]
           M == IF add THEN With(k.modes, x) ELSE k.modes \ {x}
           j == Moded(k, M)
           t == [s EXCEPT !.ch[c].modes = IF add THEN With(@, x) ELSE @ \ {x}]
<1>1. Turn("bot") /\ Becomes(t) /\ UNCHANGED <<on, nick>>
  BY DEF BotMode
<1>2. Sound(s) /\ Shrinks(All, s) /\ k \in Channel /\ Kept(k)
  BY ParsedKeeps
<1>3. s \in Tables
  BY <1>2 DEF Sound, Whole
<1>4. t = Set(s, c, j)
  <2> HIDE DEF s
  <2>1. t = [s EXCEPT !.ch[c].modes = M]
    BY <1>3 DEF Tables
  <2> HIDE DEF M, t
  <2> QED BY <1>3, <2>1 DEF Set, Moded, Tables
<1>5. M \in SUBSET Mode
  <2> HIDE DEF k
  <2>1. k.modes \in SUBSET Mode
    BY <1>2 DEF Channel
  <2> QED BY <1>2, <2>1, ImposedIs
<1> HIDE DEF s, t, M
<1>6. Alike(k, j)
  BY <1>2, <1>5, ModesKeep
<1> HIDE DEF j
<1>7. Sound(t) /\ Still(s, t)
  BY <1>2, <1>4, <1>6, SetKeeps
<1>8. Shrinks(All, t)
  BY <1>2, <1>7 DEF Still, Shrinks
<1>9. \A d \in Chan : t.ch[d].mem \cup t.ch[d].invites \subseteq on
  BY <1>8, ShrinksIn
<1>10. on' \subseteq User /\ nick' \in [User -> Nicks] /\ on' = on
  BY <1>1, Basics
<1> QED
  BY <1>1, <1>7, <1>9, <1>10, StepKeeps

(* Cached answers are written in some channels.                            *)
LEMMA AnswersKeep ==
    ASSUME ChanInv, NEW h \in [Chan -> Channel], \A d \in Chan : Alike(ch[d], h[d]),
           ch' = h, UNCHANGED <<on, list, joined, invited>>, nick' \in [User -> Nicks],
           NEW k, Turn(k)
    PROVE  ChanInv'
<1> DEFINE t == [ch |-> h, list |-> list, joined |-> joined, invited |-> invited]
<1>1. Becomes(t)
  BY DEF Becomes
<1>2. t \in Tables
  BY Basics DEF Tables
<1>3. t.ch = h /\ t.list = list /\ t.joined = joined /\ t.invited = invited
  OBVIOUS
<1> HIDE DEF t
<1>4. Still(All, t)
  BY <1>3, Basics DEF Still, Alike
<1>5. Members(t) /\ Calls(t)
  <2>1. Members(t)
    BY <1>3, <1>4, Basics, SameMembers DEF Still
  <2>2. Calls(t)
    BY <1>3, <1>4, Basics, SameCalls DEF Still
  <2> QED BY <2>1, <2>2
<1>6. \A d \in Chan : Kept(t.ch[d]) /\ Alive(t.ch[d])
  BY <1>3, Basics DEF Alike, Alive
<1>7. Sound(t)
  BY <1>2, <1>5, <1>6 DEF Sound, Whole
<1>8. \A d \in Chan : t.ch[d].mem \cup t.ch[d].invites \subseteq on
  BY <1>4, StillIn
<1>9. on' \subseteq User /\ on' = on
  BY Basics
<1> QED
  BY <1>1, <1>7, <1>8, <1>9, StepKeeps

LEMMA SayKeeps ==
    ASSUME ChanInv, NEW u \in User, NEW c \in Chan, Say(u, c)
    PROVE  ChanInv'
<1> DEFINE j == Remembered(ch[c], u, c)
           h == [ch EXCEPT ![c] = j]
<1>1. ch' = h /\ UNCHANGED <<on, nick, list, joined, invited>> /\ Turn("say")
  BY DEF Say
<1>2. Alike(ch[c], j)
  BY RememberedKeeps
<1> HIDE DEF j
<1>3. ch \in [Chan -> Channel] /\ j \in Channel
  BY <1>2, Basics DEF Tables, Alike, Kept
<1>4. h \in [Chan -> Channel] /\ \A d \in Chan : h[d] = IF d = c THEN j ELSE ch[d]
  BY <1>3
<1> HIDE DEF h
<1>5. \A d \in Chan : Alike(ch[d], h[d])
  BY <1>2, <1>4, Basics, AlikeSelf
<1>6. nick' \in [User -> Nicks] /\ UNCHANGED <<on, list, joined, invited>>
  BY <1>1, Basics
<1> QED
  BY <1>1, <1>4, <1>5, <1>6, AnswersKeep

LEMMA NickChangeKeeps ==
    ASSUME ChanInv, NEW u \in User, NEW k \in Nicks, NickChange(u, k)
    PROVE  ChanInv'
<1> DEFINE stops == {i \in 1..Len(list[u]) : can_send(u, list[u][i]) = "b"}
           last == IF stops = {} THEN Len(list[u]) ELSE Min(stops)
           seen == {list[u][i] : i \in 1..last}
           h == [c \in Chan |-> IF c \in seen THEN Remembered(ch[c], u, c) ELSE ch[c]]
<1>1. /\ ch' = h /\ UNCHANGED <<on, list, joined, invited>> /\ Turn("nick")
      /\ nick' = nick \/ nick' = [nick EXCEPT ![u] = k]
  BY DEF NickChange
<1> HIDE DEF seen, stops, last
<1>2. \A d \in Chan : Alike(ch[d], h[d])
  BY Basics, RememberedKeeps, AlikeSelf
<1>3. h \in [Chan -> Channel]
  <2>1. \A d \in Chan : h[d] \in Channel
    BY <1>2 DEF Alike, Kept
  <2> QED BY <2>1
<1> HIDE DEF h
<1>4. nick' \in [User -> Nicks]
  BY <1>1, Basics
<1> QED
  BY <1>1, <1>2, <1>3, <1>4, AnswersKeep

LEMMA RegisterKeeps ==
    ASSUME ChanInv, NEW c \in Chan, NEW fresh, Register(c, fresh)
    PROVE  ChanInv'
<1> DEFINE k == ch[c]
           M == IF fresh THEN (k.modes \ Forbid) \cup Must ELSE k.modes
           j == [k EXCEPT !.there = TRUE, !.reg = TRUE, !.must = Must, !.forbid = Forbid, !.modes = M]
           h == [ch EXCEPT ![c] = j]
<1>1. ch \in [Chan -> Channel] /\ k \in Channel /\ Kept(k)
  BY Basics DEF Tables
<1>2. ch' = h /\ UNCHANGED <<on, nick, list, joined, invited>> /\ Turn("table")
  <2>1. Recorded(k, fresh) = j
    BY <1>1 DEF Recorded, Channel
  <2> HIDE DEF j
  <2> QED BY <2>1 DEF Register
<1>3. M \in SUBSET Mode /\ Must \in SUBSET Mode /\ Forbid \in SUBSET Mode /\ TRUE \in BOOLEAN
  BY <1>1, LocalConstants DEF Channel
<1> HIDE DEF k, M
<1>4. j \in Channel /\ j.mem = k.mem /\ j.zombies = k.zombies /\ j.invites = k.invites
  BY <1>1, <1>3 DEF Channel
<1>5. /\ j.users = k.users /\ j.ops = k.ops /\ j.voices = k.voices /\ j.there = TRUE
      /\ j.reg = TRUE /\ j.cached = k.cached /\ j.banned = k.banned /\ j.bans = k.bans
  BY <1>1, <1>3 DEF Channel
<1> HIDE DEF j
<1>6. Alike(k, j)
  BY <1>1, <1>4, <1>5 DEF Alike, Kept, Answered
<1>7. h \in [Chan -> Channel] /\ \A d \in Chan : h[d] = IF d = c THEN j ELSE ch[d]
  BY <1>1, <1>4
<1> HIDE DEF h
<1>8. \A d \in Chan : Alike(ch[d], h[d])
  BY <1>6, <1>7, Basics, AlikeSelf DEF k
<1>9. nick' \in [User -> Nicks] /\ UNCHANGED <<on, list, joined, invited>>
  BY <1>2, Basics
<1> QED
  BY <1>2, <1>7, <1>8, <1>9, AnswersKeep

LEMMA DropKeeps ==
    ASSUME ChanInv, NEW c \in Chan, Drop(c)
    PROVE  ChanInv'
<1> DEFINE k == ch[c]
           j == [k EXCEPT !.reg = FALSE, !.must = {}, !.forbid = {}]
           s == [All EXCEPT !.ch[c].reg = FALSE, !.ch[c].must = {}, !.ch[c].forbid = {}]
           t == IF k.users = 0 THEN sub1_from_channel(s, c) ELSE s
<1>1. k.reg /\ UNCHANGED <<on, nick>> /\ Becomes(t) /\ Turn("table")
  BY DEF Drop
<1>2. k \in Channel /\ Kept(k)
  BY Basics
<1>3. s = Set(All, c, j)
  BY Basics DEF Set, Tables
<1> HIDE DEF k
<1>4. /\ j \in Channel /\ j.mem = k.mem /\ j.zombies = k.zombies /\ j.invites = k.invites
      /\ j.users = k.users /\ j.ops = k.ops /\ j.voices = k.voices /\ j.there = k.there
      /\ j.reg = FALSE /\ j.cached = k.cached /\ j.banned = k.banned /\ j.bans = k.bans
  <2>1. {} \in SUBSET Mode /\ FALSE \in BOOLEAN
    OBVIOUS
  <2>2. j \in Channel /\ j.mem = k.mem /\ j.zombies = k.zombies /\ j.invites = k.invites
    BY <1>2, <2>1 DEF Channel
  <2>3. /\ j.users = k.users /\ j.ops = k.ops /\ j.voices = k.voices /\ j.there = k.there
        /\ j.reg = FALSE /\ j.cached = k.cached /\ j.banned = k.banned /\ j.bans = k.bans
    BY <1>2, <2>1 DEF Channel
  <2> QED BY <2>2, <2>3
<1> HIDE DEF j, s
<1>5. IsSet(All, c, j, s)
  BY <1>3, <1>4, Basics, PutChan
<1>6. /\ s \in Tables /\ s.list = list /\ s.joined = joined /\ s.invited = invited
      /\ s.ch[c] = j /\ \A d \in Chan : d # c => s.ch[d] = ch[d]
  BY <1>5, Basics DEF IsSet
<1>7. Still(All, s)
  BY <1>4, <1>6, Basics DEF Still, k
<1>8. Members(s) /\ Calls(s)
  <2>1. Members(s)
    BY <1>6, <1>7, Basics, SameMembers DEF Still
  <2>2. Calls(s)
    BY <1>6, <1>7, Basics, SameCalls DEF Still
  <2> QED BY <2>1, <2>2
<1>9. k.mem \in SUBSET User /\ k.users = Cardinality(k.mem) /\ (k.mem = {} <=> k.users = 0)
  <2>1. k.mem \in SUBSET User /\ k.users = Cardinality(k.mem)
    BY <1>2 DEF Channel, Kept
  <2> QED BY <2>1, UsersFinite
<1>10. Sound(t) /\ Shrinks(All, t)
  <2>1. CASE k.users # 0
    <3>1. t = s
      BY <2>1
    <3>2. Kept(j)
      <4>1. j.there <=> (j.mem # {} \/ j.reg)
        BY <1>1, <1>2, <1>4, <1>9, <2>1 DEF Kept
      <4> QED BY <1>2, <1>4, <4>1 DEF Kept, Answered
    <3>3. \A d \in Chan : Kept(s.ch[d]) /\ Alive(s.ch[d])
      BY <1>4, <1>6, <3>2, Basics DEF Alive, k
    <3>4. Sound(s) /\ Shrinks(All, s)
      BY <1>6, <1>7, <1>8, <3>3 DEF Sound, Whole, Still, Shrinks
    <3> QED BY <3>1, <3>4
  <2>2. CASE k.users = 0
    <3> DEFINE v == Uninvited(s, c)
    <3>1. /\ v \in Tables /\ Calls(v) /\ v.list = s.list /\ v.joined = s.joined
          /\ v.ch[c] = Inviting(s.ch[c], {}) /\ \A d \in Chan : d # c => v.ch[d] = s.ch[d]
      BY <1>6, <1>8, UninvitedIs DEF OnlyCalls
    <3>2. t = Set(v, c, NoChan)
      <4>1. s.ch[c].users = 0 /\ s.ch[c].reg = FALSE
        BY <1>4, <1>6, <2>2
      <4>2. t = sub1_from_channel(s, c)
        BY <2>2
      <4> QED BY <4>1, <4>2 DEF sub1_from_channel, Set
    <3> HIDE DEF v, t
    <3>3. IsSet(v, c, NoChan, t)
      BY ONLY <3>1, <3>2, PutChan, NoChanIs, c \in Chan
    <3>4. /\ t \in Tables /\ t.list = s.list /\ t.joined = s.joined /\ t.invited = v.invited
          /\ t.ch[c] = NoChan /\ \A d \in Chan : d # c => t.ch[d] = ch[d]
      BY <1>6, <3>1, <3>3 DEF IsSet
    <3>5. Members(t)
      <4>1. \A d \in Chan : t.ch[d].mem = s.ch[d].mem
        BY <1>4, <1>6, <1>9, <2>2, <3>4, NoChanIs
      <4> QED BY <1>8, <3>4, <4>1, SameMembers
    <3>6. Calls(t)
      <4>1. v.ch[c].invites = {}
        BY <1>4, <1>6, <3>1, PutInvites
      <4>2. \A d \in Chan : t.ch[d].invites = v.ch[d].invites
        BY <1>6, <3>1, <3>4, <4>1, NoChanIs
      <4> QED BY <3>1, <3>4, <4>2, SameCalls
    <3>7. \A d \in Chan : Kept(t.ch[d]) /\ Alive(t.ch[d])
      BY <3>4, NoChanIs, Basics DEF Alive
    <3>8. Shrinks(All, t)
      BY <3>4, NoChanIs, Basics DEF Shrinks
    <3> QED BY <3>4, <3>5, <3>6, <3>7, <3>8 DEF Sound, Whole
  <2> QED BY <2>1, <2>2
<1> HIDE DEF t
<1>11. \A d \in Chan : t.ch[d].mem \cup t.ch[d].invites \subseteq on
  BY <1>10, ShrinksIn
<1>12. on' \subseteq User /\ nick' \in [User -> Nicks] /\ on' = on
  BY <1>1, Basics
<1> QED
  BY <1>1, <1>10, <1>11, <1>12, StepKeeps

LEMMA InitKeeps == ASSUME ChanInit PROVE ChanInv
<1>1. /\ ch = [c \in Chan |-> NoChan] /\ on = User /\ nick = [u \in User |-> 1]
      /\ list = [u \in User |-> <<>>] /\ joined = [u \in User |-> 0]
      /\ invited = [u \in User |-> <<>>] /\ chanTurns = 0 /\ chanPlan \in ChanPlans
  BY DEF ChanInit
<1>2. /\ \A c \in Chan : ch[c] = NoChan
      /\ \A u \in User : list[u] = <<>> /\ joined[u] = 0 /\ invited[u] = <<>>
  BY <1>1
<1>3. All \in Tables /\ All.ch = ch /\ All.list = list /\ All.joined = joined /\ All.invited = invited
  BY <1>1, NoChanIs DEF All, Tables
<1>4. Lists(<<>>, {}) /\ Len(<<>>) = 0 /\ MaxJoined \in Nat
  BY LocalConstants DEF Lists, IsInjective, ToSet
<1>5. \A u \in User : Joined(All, u) = {} /\ Asked(All, u) = {}
  BY <1>2, <1>3, NoChanIs DEF Joined, Asked
<1>6. Members(All) /\ Calls(All)
  <2>1. ASSUME NEW u \in User
        PROVE  /\ Lists(All.list[u], Joined(All, u)) /\ All.joined[u] = Len(All.list[u])
               /\ Lists(All.invited[u], Asked(All, u)) /\ Len(All.invited[u]) <= MaxJoined
    <3>1. All.list[u] = <<>> /\ All.joined[u] = 0 /\ All.invited[u] = <<>>
      BY <1>2, <1>3
    <3>2. Joined(All, u) = {} /\ Asked(All, u) = {} /\ 0 <= MaxJoined
      BY <1>4, <1>5
    <3>3. Lists(All.list[u], Joined(All, u)) /\ Lists(All.invited[u], Asked(All, u))
      BY ONLY <1>4, <3>1, <3>2
    <3>4. All.joined[u] = Len(All.list[u]) /\ Len(All.invited[u]) <= MaxJoined
      BY ONLY <1>4, <3>1, <3>2
    <3> QED BY <3>3, <3>4
  <2> QED BY <2>1 DEF Members, Calls
<1>7. \A c \in Chan : Kept(All.ch[c]) /\ Alive(All.ch[c])
  BY <1>2, <1>3, NoChanIs DEF Alive
<1>8. Sound(All)
  BY <1>3, <1>6, <1>7 DEF Sound, Whole
<1>9. nick \in [User -> Nicks] /\ chanTurns \in 0..MaxChanTurns
  BY <1>1, LocalConstants
<1>10. \A c \in Chan : ch[c].mem \cup ch[c].invites \subseteq on
  BY <1>2, NoChanIs
<1> QED
  BY <1>1, <1>8, <1>9, <1>10 DEF ChanInv

LEMMA ChanNextKeeps == ASSUME ChanInv, [ChanNext]_chanVars PROVE ChanInv'
<1>0. Locals \subseteq User
  BY DEF User
<1>1. CASE UNCHANGED chanVars
  <2>1. All' = All
    BY <1>1 DEF All, chanVars
  <2>2. Sound(All)'
    BY <2>1, Basics
  <2>3. (\A c \in Chan : ch[c].mem \cup ch[c].invites \subseteq on)'
    BY <1>1, Basics DEF chanVars
  <2> QED BY <1>1, <2>2, <2>3 DEF ChanInv, chanVars
<1>2. ASSUME NEW u \in Locals, NEW c \in Chan, NEW key, NEW override, Join(u, c, key, override)
      PROVE  ChanInv'
  BY <1>2, JoinKeeps
<1>3. ASSUME NEW u \in Locals, NEW c \in Chan, NEW check, SvsJoin(u, c, check) PROVE ChanInv'
  BY <1>3, SvsJoinKeeps
<1>4. ASSUME NEW u \in Locals, NEW c \in Chan, Say(u, c) \/ Change(u, c) PROVE ChanInv'
  BY <1>0, <1>4, SayKeeps, ChangeKeeps
<1>5. ASSUME NEW u \in Locals, NEW c \in Chan, NEW w \in User, Kick(u, w, c) \/ Invite(u, w, c)
      PROVE  ChanInv'
  BY <1>5, KickKeeps, InviteKeeps
<1>6. ASSUME NEW u \in User, NEW c \in Chan, Part(u, c) \/ RemoteJoin(u, c) PROVE ChanInv'
  BY <1>6, PartKeeps, RemoteJoinKeeps
<1>7. ASSUME NEW u \in Locals, PartAll(u) PROVE ChanInv'
  BY <1>7, PartAllKeeps
<1>8. ASSUME NEW u \in Locals, NEW k \in Nicks, NickChange(u, k) PROVE ChanInv'
  BY <1>0, <1>8, NickChangeKeeps
<1>9. ASSUME NEW u \in User, Departs(u) PROVE ChanInv'
  BY <1>9, DepartsKeeps
<1>10. ASSUME NEW c \in Chan, NEW add \in BOOLEAN, NEW x \in Mode, BotMode(c, add, x) PROVE ChanInv'
  BY <1>10, BotModeKeeps
<1>11. ASSUME NEW c \in Chan, NEW fresh, Register(c, fresh) PROVE ChanInv'
  BY <1>11, RegisterKeeps
<1>12. ASSUME NEW c \in Chan, Drop(c) PROVE ChanInv'
  BY <1>12, DropKeeps
<1> QED
  BY <1>1, <1>2, <1>3, <1>4, <1>5, <1>6, <1>7, <1>8, <1>9, <1>10, <1>11, <1>12 DEF ChanNext

LEMMA ChanAlways == ChanSpec => []ChanInv
  BY InitKeeps, ChanNextKeeps, PTL DEF ChanSpec

-----------------------------------------------------------------------------
(* What follows.                                                           *)

(* A list without repetition is no longer than there are channels.         *)
LEMMA ListShort ==
    ASSUME NEW q \in Seq(Chan), IsInjective(q)
    PROVE  Len(q) \in 0..Cardinality(Chan)
<1>1. Len(q) \in Nat /\ IsFiniteSet(Chan) /\ q \in [1..Len(q) -> Chan]
  BY LocalConstants
<1>2. IsFiniteSet(1..Len(q)) /\ Cardinality(1..Len(q)) = Len(q)
  <2>1. Cardinality(1..Len(q)) = IF 1 > Len(q) THEN 0 ELSE Len(q) - 1 + 1
    BY <1>1, FS_Interval
  <2> QED BY <1>1, <2>1, FS_Interval
<1>3. Cardinality(1..Len(q)) <= Cardinality(Chan)
  <2>1. q \in Injection(1..Len(q), Chan)
    BY <1>1 DEF Injection
  <2> QED BY <1>1, <2>1, FS_Injection
<1>4. Cardinality(Chan) \in Nat
  BY <1>1, FS_CardinalityType
<1> QED
  BY <1>1, <1>2, <1>3, <1>4

LEMMA MirroredFollows == ASSUME ChanInv PROVE Mirrored
<1>1. \A u \in User :
        /\ list[u] \in Seq(Chan) /\ ToSet(list[u]) = {c \in Chan : u \in ch[c].mem}
        /\ joined[u] = Len(list[u]) /\ IsInjective(list[u])
  BY Basics DEF Members, Lists, Joined
<1>2. \A u \in User :
        /\ invited[u] \in Seq(Chan) /\ ToSet(invited[u]) = {c \in Chan : u \in ch[c].invites}
        /\ Len(invited[u]) <= MaxJoined /\ IsInjective(invited[u])
  BY Basics DEF Calls, Lists, Asked
<1>3. \A c \in Chan : /\ ch[c].users = Cardinality(ch[c].mem)
                      /\ ch[c].ops \cup ch[c].voices \cup ch[c].zombies \subseteq ch[c].mem
  BY Basics DEF Kept
<1>4. ch \in [Chan -> Channel] /\ joined \in [User -> Int]
  BY Basics DEF Tables
<1>5. joined \in [User -> 0..Cardinality(Chan)]
  <2>1. \A u \in User : joined[u] \in 0..Cardinality(Chan)
    BY <1>1, ListShort
  <2> QED BY <1>4, <2>1
<1>6. ChanTypeOK
  BY <1>1, <1>2, <1>4, <1>5 DEF ChanTypeOK, ChanInv
<1> QED
  BY <1>1, <1>2, <1>3, <1>6 DEF Mirrored

LEMMA LifetimeFollows == ASSUME ChanInv PROVE Lifetime
<1>1. ASSUME NEW c \in Chan PROVE ch[c].there <=> (Live(c) # {} \/ ch[c].reg)
  <2>1. Live(c) # {} <=> ch[c].mem # {}
    BY Basics DEF Alive, Live
  <2> QED BY <2>1, Basics DEF Kept
<1> QED
  BY <1>1, Basics DEF Lifetime

LEMMA BanCacheFollows == ASSUME ChanInv PROVE BanCache
  BY Basics DEF BanCache, Kept, Answered

\* What an answer to v may show.
Fair(v, a) == a[2] = Nowhere \/ a[1] = v \/ ~SecretChannel(a[2]) \/ v \in ch[a[2]].mem
Told(v, a) == a[1] = v \/ ~IsInvisible(a[1]) \/ a[1] \in Common(v)

(* Who has a channel in common with v.                                     *)
LEMMA CommonIs ==
    ASSUME ChanInv, NEW v \in User, NEW c \in Chan, v \in ch[c].mem, NEW w \in ch[c].mem
    PROVE  w \in Common(v)
<1>1. c \in ToSet(list[v])
  BY Basics DEF Members, Lists, Joined
<1> QED
  BY <1>1 DEF Common

LEMMA NamesFair ==
    ASSUME ChanInv, NEW v \in User, NEW c \in Chan, NEW a \in NamesOf(v, c)
    PROVE  Fair(v, a) /\ Told(v, a)
<1>1. PICK w \in ch[c].mem : a = <<w, c>> /\ ShowChannel(v, c) /\ (w = v \/ ~IsInvisible(w) \/ IsMember(v, c))
  BY DEF NamesOf, Live
<1>2. a[1] = w /\ a[2] = c
  BY <1>1
<1>3. Fair(v, a)
  BY <1>1, <1>2 DEF Fair, ShowChannel, PubChannel, SecretChannel, IsMember
<1>4. IsMember(v, c) => w \in Common(v)
  BY CommonIs DEF IsMember
<1> QED
  BY <1>1, <1>2, <1>3, <1>4 DEF Told

LEMMA WhoFair ==
    ASSUME ChanInv, NEW v \in User, v \notin ChanOpers, NEW c \in Chan, NEW a \in WhoChannel(v, c, TRUE)
    PROVE  Fair(v, a) /\ Told(v, a)
<1>1. PICK w \in ch[c].mem :
        /\ a = <<w, c>>
        /\ IsMember(v, c) \/ (SEE_CHANNEL(v, c, TRUE) /\ SEE_USER(v, w, TRUE))
  BY DEF WhoChannel, Live
<1>2. a[1] = w /\ a[2] = c
  BY <1>1
<1>3. Fair(v, a)
  BY <1>1, <1>2 DEF Fair, SEE_CHANNEL, Privileged, IsMember
<1>4. IsMember(v, c) => w \in Common(v)
  BY CommonIs DEF IsMember
<1> QED
  BY <1>1, <1>2, <1>3, <1>4 DEF Told, SEE_USER, Privileged

(* The channel that WHO names of a user is public.                         *)
LEMMA ShownFair ==
    ASSUME ChanInv, NEW v, NEW u \in User
    PROVE  Fair(v, Shown(u)) /\ Shown(u)[1] = u
<1> DEFINE pub == {i \in 1..Len(list[u]) : PubChannel(list[u][i])}
           at == Min(pub)
<1>1. Shown(u) = <<u, IF pub = {} THEN Nowhere ELSE list[u][at]>>
  BY DEF Shown
<1>2. CASE pub = {}
  BY <1>1, <1>2 DEF Fair
<1>3. CASE pub # {}
  <2>1. at \in pub
    <3>1. at = CHOOSE x \in pub : \A y \in pub : x <= y
      BY DEF Min
    <3>2. pub \in SUBSET Nat
      OBVIOUS
    <3> HIDE DEF pub, at
    <3>3. \E x \in pub : \A y \in pub : x <= y
      BY <1>3, <3>2, LeastExists
    <3> QED BY <3>1, <3>3
  <2>2. PubChannel(list[u][at])
    BY <2>1
  <2> HIDE DEF pub, at
  <2>3. Shown(u)[1] = u /\ Shown(u)[2] = list[u][at]
    BY <1>1, <1>3
  <2> QED BY <2>2, <2>3 DEF Fair, PubChannel, SecretChannel
<1> QED
  BY <1>2, <1>3

LEMMA WhoMaskFair ==
    ASSUME ChanInv, NEW v \in User, v \notin ChanOpers, NEW a \in WhoMask(v, TRUE)
    PROVE  Fair(v, a) /\ Told(v, a)
<1>1. CASE a \in {x \in on \X Chan : x[1] \in ch[x[2]].mem /\ x[2] \in ToSet(list[v])}
  <2>1. a[2] \in Chan /\ a[1] \in ch[a[2]].mem /\ a[2] \in ToSet(list[v])
    BY <1>1
  <2>2. v \in ch[a[2]].mem
    BY <2>1, Basics DEF Members, Lists, Joined
  <2> QED BY <2>1, <2>2 DEF Fair, Told, Common
<1>2. CASE \E u \in on \ Common(v) : SEE_USER(v, u, TRUE) /\ a = Shown(u)
  <2>1. PICK u \in on \ Common(v) : SEE_USER(v, u, TRUE) /\ a = Shown(u)
    BY <1>2
  <2>2. u \in User
    BY <2>1, Basics
  <2>3. Fair(v, a) /\ a[1] = u
    BY <2>1, <2>2, ShownFair
  <2> QED BY <2>1, <2>3 DEF Told, SEE_USER, Privileged
<1> QED
  BY <1>1, <1>2 DEF WhoMask

LEMMA RestFair ==
    ASSUME NEW v, NEW a \in NamesRest(v)
    PROVE  Fair(v, a) /\ Told(v, a)
<1>1. PICK w \in on : a = <<w, Nowhere>> /\ (w = v \/ ~IsInvisible(w))
  BY DEF NamesRest
<1>2. a[1] = w /\ a[2] = Nowhere
  BY <1>1
<1> QED
  BY <1>1, <1>2 DEF Fair, Told

LEMMA WhoisFair ==
    ASSUME ChanInv, NEW v \in User, NEW a \in WhoisMask(v)
    PROVE  Fair(v, a) /\ Told(v, a)
<1>1. PICK w \in on : a = <<w, Nowhere>> /\ showperson(v, w)
  BY DEF WhoisMask
<1>2. a[1] = w /\ a[2] = Nowhere /\ w \in User
  BY <1>1, Basics
<1>3. Fair(v, a)
  BY <1>2 DEF Fair
<1>4. CASE w # v /\ IsInvisible(w)
  <2>1. PICK c \in ToSet(list[w]) : IsMember(v, c)
    BY <1>1, <1>4 DEF showperson
  <2>2. c \in Chan /\ w \in ch[c].mem
    BY <1>2, <2>1, Basics DEF Members, Lists, Joined
  <2>3. w \in Common(v)
    BY <2>1, <2>2, CommonIs DEF IsMember
  <2> QED BY <1>2, <1>3, <2>3 DEF Told
<1>5. CASE ~(w # v /\ IsInvisible(w))
  BY <1>2, <1>3, <1>5 DEF Told
<1> QED
  BY <1>4, <1>5

LEMMA DiscreetFollows == ASSUME ChanInv PROVE Discreet
<1> SUFFICES ASSUME NEW v \in on \cap (Locals \ ChanOpers)
             PROVE  LET answers == (UNION {NamesOf(v, c) \cup WhoChannel(v, c, TRUE) : c \in Chan})
                                     \cup NamesRest(v) \cup WhoMask(v, TRUE) \cup WhoisMask(v)
                        named == UNION {{Shown(u)} \cup WhoisChannels(v, u) : u \in on \ {v}}
                    IN  /\ \A a \in answers \cup named :
                             a[2] # Nowhere /\ a[1] # v => ~SecretChannel(a[2]) \/ v \in ch[a[2]].mem
                        /\ \A a \in answers : a[1] # v /\ IsInvisible(a[1]) => a[1] \in Common(v)
                        /\ \A c \in ListOf(v, TRUE) : SecretChannel(c) => v \in ch[c].mem
  BY DEF Discreet
<1> DEFINE answers == (UNION {NamesOf(v, c) \cup WhoChannel(v, c, TRUE) : c \in Chan})
                        \cup NamesRest(v) \cup WhoMask(v, TRUE) \cup WhoisMask(v)
           named == UNION {{Shown(u)} \cup WhoisChannels(v, u) : u \in on \ {v}}
<1>1. v \in User /\ v \notin ChanOpers
  BY Basics
<1>2. ASSUME NEW a \in answers PROVE Fair(v, a) /\ Told(v, a)
  <2>1. \/ a \in UNION {NamesOf(v, c) \cup WhoChannel(v, c, TRUE) : c \in Chan}
        \/ a \in NamesRest(v) \/ a \in WhoMask(v, TRUE) \/ a \in WhoisMask(v)
    OBVIOUS
  <2>2. CASE a \in UNION {NamesOf(v, c) \cup WhoChannel(v, c, TRUE) : c \in Chan}
    <3>1. PICK c \in Chan : a \in NamesOf(v, c) \cup WhoChannel(v, c, TRUE)
      BY ONLY <2>2, Zenon
    <3> QED BY <1>1, <3>1, NamesFair, WhoFair
  <2> QED BY <1>1, <2>1, <2>2, RestFair, WhoMaskFair, WhoisFair
<1>3. ASSUME NEW a \in named PROVE Fair(v, a)
  <2>1. PICK u \in on \ {v} : a = Shown(u) \/ a \in WhoisChannels(v, u)
    OBVIOUS
  <2>2. u \in User
    BY Basics
  <2>3. CASE a \in WhoisChannels(v, u)
    <3>1. PICK d \in ToSet(list[u]) : a = <<u, d>> /\ ShowChannel(v, d)
      BY <2>3 DEF WhoisChannels
    <3>2. a[2] = d
      BY <3>1
    <3> QED BY <3>1, <3>2 DEF Fair, ShowChannel, PubChannel, SecretChannel, IsMember
  <2> QED BY <2>1, <2>2, <2>3, ShownFair
<1>4. \A c \in ListOf(v, TRUE) : SecretChannel(c) => v \in ch[c].mem
  BY <1>1 DEF ListOf, ShowChannel, PubChannel, SecretChannel, IsMember, Privileged
<1> HIDE DEF answers, named
<1>5. \A a \in answers \cup named :
        a[2] # Nowhere /\ a[1] # v => ~SecretChannel(a[2]) \/ v \in ch[a[2]].mem
  BY <1>2, <1>3 DEF Fair
<1>6. \A a \in answers : a[1] # v /\ IsInvisible(a[1]) => a[1] \in Common(v)
  BY <1>2 DEF Told
<1> QED
  BY <1>4, <1>5, <1>6 DEF answers, named

(* Both ends of every membership and invitation, and their counters, agree *)
(* whatever m_join, m_part, m_kick, m_invite, the services and             *)
(* exit_one_client do.                                                     *)
THEOREM ChanMirrored == ChanSpec => []Mirrored
  BY ChanAlways, MirroredFollows, PTL

(* A channel is there while somebody who is no zombie is on it or the      *)
(* table has it (remove_user_from_channel, sub1_from_channel).             *)
THEOREM ChanLifetime == ChanSpec => []Lifetime
  BY ChanAlways, LifetimeFollows, PTL

(* No answer that is_banned remembers is stale (add_banid, del_banid).     *)
THEOREM ChanBanCache == ChanSpec => []BanCache
  BY ChanAlways, BanCacheFollows, PTL

(* NAMES, WHO, WHOIS and LIST show nobody on a secret channel to one who   *)
(* is not on it, and no invisible user to a stranger.                      *)
THEOREM ChanDiscreet == ChanSpec => []Discreet
  BY ChanAlways, DiscreetFollows, PTL
=============================================================================
