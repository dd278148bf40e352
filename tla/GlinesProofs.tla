---------------------------- MODULE GlinesProofs ----------------------------
(***************************************************************************)
(* That nobody stays online under a G-line in force, for every list, every *)
(* set of masks and every order of commands, registrations and expiry.     *)
(*                                                                         *)
(* NoneSlips speaks of the entries that have not expired, and is not       *)
(* inductive so: an entry that has expired may be in the list still, and a *)
(* new time makes it good again.  Nobody it hits has come in meanwhile,    *)
(* though, since find_gline frees every expired entry it passes, and whom  *)
(* it lets in without a hit has passed them all.  GlineInv therefore says  *)
(* it of every entry.  The two passes over the list are followed turn by   *)
(* turn (PurgeKept, FindKept).                                             *)
(***************************************************************************)
EXTENDS Glines, TLAPS, SequenceTheorems, WellFoundedInduction

Gline == [mask : Masks, expire : Nat, lastmod : Nat, active : BOOLEAN, wasOff : BOOLEAN]

\* No mask is in list twice.
OneOfEach(list) == \A i, j \in 1..Len(list) : list[i].mask = list[j].mask => i = j

\* f holds entries of list only, no mask twice.
PartOf(f, list) ==
    /\ f \in Seq(Gline) /\ Len(f) <= Len(list) /\ OneOfEach(f)
    /\ \A i \in 1..Len(f) : \E j \in 1..Len(list) : f[i] = list[j]

\* Those of on whom an entry of list hits that was never switched off are among sh.
Barred(list, on, sh) ==
    \A i \in 1..Len(list) : list[i].active /\ ~list[i].wasOff => on \cap Hits[list[i].mask] \subseteq sh

GlineInv ==
    /\ gline \in Seq(Gline) /\ Len(gline) <= MaxGlines /\ OneOfEach(gline)
    /\ gclock \in 1..MaxGTime
    /\ online \subseteq Persons /\ shaded \subseteq online /\ lost \subseteq Masks
    /\ Barred(gline, online, shaded)

-----------------------------------------------------------------------------
(* Loops.                                                                  *)

(* Induction over the natural numbers, for a set.                          *)
LEMMA SetInduction ==
    ASSUME NEW S, 0 \in S, \A n \in Nat : n \in S => n + 1 \in S
    PROVE  \A n \in Nat : n \in S
<1> SUFFICES ASSUME NEW k \in Nat, k \notin S PROVE FALSE
  OBVIOUS
<1> DEFINE T == {n \in Nat : n \notin S}
           D == OpToRel(<, Nat)
<1>1. T \subseteq Nat /\ T # {}
  OBVIOUS
<1>2. IsWellFoundedOn(D, Nat)
  BY NatLessThanWellFounded
<1>3. PICK x \in T : \A y \in T : ~(<<y, x>> \in D)
  <2> HIDE DEF T, D
  <2> QED BY <1>1, <1>2, WFMin
<1>4. \A y \in T : ~(y < x)
  BY <1>3 DEF OpToRel
<1>5. x # 0 /\ x - 1 \in Nat
  OBVIOUS
<1>6. x - 1 \in S
  BY <1>4, <1>5
<1> QED
  BY <1>5, <1>6

(* A set of positive numbers has a least one.                              *)
LEMMA LeastExists ==
    ASSUME NEW T \in SUBSET Nat, T # {}
    PROVE  \E x \in T : \A y \in T : x <= y
<1> DEFINE D == OpToRel(<, Nat)
<1>1. IsWellFoundedOn(D, Nat)
  BY NatLessThanWellFounded
<1>2. PICK x \in T : \A y \in T : ~(<<y, x>> \in D)
  <2> HIDE DEF D
  <2> QED BY <1>1, WFMin
<1>3. \A y \in T : ~(y < x)
  BY <1>2 DEF OpToRel
<1> QED
  BY <1>3

\* M holds the states of a loop with body F, from a, after each of n turns.
Turns(S, F, a, n, M) ==
    M \in [0..n -> S] /\ M[0] = a /\ \A i \in 1..n : M[i] = F[M[i - 1]]

(* A loop whose body F leads from states in S to states in S has them.     *)
LEMMA LoopExists ==
    ASSUME NEW S, NEW F \in [S -> S], NEW a \in S
    PROVE  \A n \in Nat : \E M : Turns(S, F, a, n, M)
<1> DEFINE T == {n \in Nat : \E M : Turns(S, F, a, n, M)}
<1>1. 0 \in T
  <2>1. Turns(S, F, a, 0, [i \in 0..0 |-> a])
    BY DEF Turns
  <2> QED BY <2>1
<1>2. ASSUME NEW n \in Nat, n \in T PROVE n + 1 \in T
  <2>1. PICK M : Turns(S, F, a, n, M)
    BY <1>2
  <2> DEFINE N == [i \in 0..(n + 1) |-> IF i = n + 1 THEN F[M[n]] ELSE M[i]]
  <2>2. Turns(S, F, a, n + 1, N)
    BY <2>1 DEF Turns
  <2> HIDE DEF N
  <2> QED BY <2>2
<1> HIDE DEF T
<1>3. \A n \in Nat : n \in T
  BY <1>1, <1>2, SetInduction
<1> QED
  BY <1>3 DEF T

-----------------------------------------------------------------------------
(* The list.                                                               *)

(* free_gline: what is left of the list f.                                 *)
LEMMA FreeKeeps ==
    ASSUME NEW f \in Seq(Gline), NEW at \in 1..Len(f), NEW prev
    PROVE  LET g == free_gline(f, at, prev) IN
           /\ g \in Seq(Gline)
           /\ Len(g) = IF prev = 0 THEN Len(f) - at ELSE Len(f) - 1
           /\ \A i \in 1..Len(g) : g[i] = IF prev = 0 THEN f[i + at] ELSE IF i < at THEN f[i] ELSE f[i + 1]
<1> DEFINE g == free_gline(f, at, prev)
           Says == /\ g \in Seq(Gline)
                   /\ Len(g) = IF prev = 0 THEN Len(f) - at ELSE Len(f) - 1
                   /\ \A i \in 1..Len(g) : g[i] = IF prev = 0 THEN f[i + at]
                                                ELSE IF i < at THEN f[i] ELSE f[i + 1]
<1>1. ASSUME prev = 0 PROVE Says
  <2>1. g = SubSeq(f, at + 1, Len(f))
    BY <1>1 DEF free_gline
  <2> HIDE DEF g
  <2> QED BY <1>1, <2>1
<1>2. ASSUME prev # 0 PROVE Says
  <2> DEFINE a == SubSeq(f, 1, at - 1)
             b == SubSeq(f, at + 1, Len(f))
  <2>1. g = a \o b
    BY <1>2 DEF free_gline, RemoveAt
  <2>2. /\ a \in Seq(Gline) /\ Len(a) = at - 1 /\ \A i \in 1..(at - 1) : a[i] = f[i]
        /\ b \in Seq(Gline) /\ Len(b) = Len(f) - at /\ \A i \in 1..(Len(f) - at) : b[i] = f[i + at]
    OBVIOUS
  <2> HIDE DEF g, a, b
  <2>3. g \in Seq(Gline) /\ Len(g) = Len(f) - 1
    <3>1. g \in Seq(Gline) /\ Len(g) = Len(a) + Len(b)
      BY <2>1, <2>2, ConcatProperties
    <3> QED BY <2>2, <3>1
  <2>4. \A i \in 1..Len(g) : g[i] = IF i < at THEN f[i] ELSE f[i + 1]
    <3> SUFFICES ASSUME NEW i \in 1..Len(g) PROVE g[i] = IF i < at THEN f[i] ELSE f[i + 1]
      OBVIOUS
    <3>1. g[i] = IF i <= Len(a) THEN a[i] ELSE b[i - Len(a)]
      BY <2>1, <2>2, <2>3
    <3> QED BY <2>2, <2>3, <3>1
  <2> QED BY <1>2, <2>3, <2>4
<1> QED
  BY <1>1, <1>2

(* ... and no mask comes into it twice.                                    *)
LEMMA FreeIsPart ==
    ASSUME NEW f \in Seq(Gline), OneOfEach(f), NEW at \in 1..Len(f), NEW prev
    PROVE  PartOf(free_gline(f, at, prev), f)
<1> DEFINE g == free_gline(f, at, prev)
<1>1. /\ g \in Seq(Gline)
      /\ Len(g) = IF prev = 0 THEN Len(f) - at ELSE Len(f) - 1
      /\ \A i \in 1..Len(g) : g[i] = IF prev = 0 THEN f[i + at] ELSE IF i < at THEN f[i] ELSE f[i + 1]
  BY FreeKeeps
<1> HIDE DEF g
<1> DEFINE h(i) == IF prev = 0 THEN i + at ELSE IF i < at THEN i ELSE i + 1
<1>2. /\ Len(g) \in Nat /\ Len(f) \in Nat /\ Len(g) <= Len(f)
      /\ \A i \in 1..Len(g) : h(i) \in 1..Len(f) /\ g[i] = f[h(i)]
      /\ \A i, j \in 1..Len(g) : h(i) = h(j) => i = j
  BY <1>1
<1> HIDE DEF h
<1>3. OneOfEach(g)
  BY <1>2 DEF OneOfEach
<1>4. PartOf(g, f)
  BY <1>1, <1>2, <1>3 DEF PartOf
<1> QED
  BY <1>4 DEF g

(* A part of a part is one.                                                *)
LEMMA PartOfPart ==
    ASSUME NEW list \in Seq(Gline), NEW f, NEW g, PartOf(f, list), PartOf(g, f)
    PROVE  PartOf(g, list)
<1>1. \A i \in 1..Len(g) : \E j \in 1..Len(list) : g[i] = list[j]
  BY DEF PartOf
<1>2. Len(g) <= Len(list)
  BY DEF PartOf
<1> QED
  BY <1>1, <1>2 DEF PartOf

(* What such a loop does not leave.                                        *)
LEMMA LoopStays ==
    ASSUME NEW S, NEW F \in [S -> S], NEW n \in Nat, NEW M, M[0] \in S,
           \A i \in 1..n : M[i - 1] \in S => M[i] = F[M[i - 1]]
    PROVE  \A i \in 0..n : M[i] \in S
<1> DEFINE T == {i \in Nat : i <= n => M[i] \in S}
<1>1. 0 \in T
  OBVIOUS
<1>2. ASSUME NEW i \in Nat, i \in T PROVE i + 1 \in T
  <2> SUFFICES ASSUME i + 1 <= n PROVE M[i + 1] \in S
    OBVIOUS
  <2>1. i + 1 \in 1..n /\ (i + 1) - 1 = i /\ M[i] \in S
    BY <1>2
  <2>2. M[i + 1] = F[M[i]]
    BY <2>1
  <2> QED BY <2>1, <2>2
<1>3. \A i \in Nat : i \in T
  <2> HIDE DEF T
  <2> QED BY <1>1, <1>2, SetInduction
<1> QED
  BY <1>3

-----------------------------------------------------------------------------
(* The purge at the start of a command.                                    *)

PurgeState(list) ==
    {s \in [list : Seq(Gline), at : Nat \ {0}, prev : Nat] : PartOf(s.list, list)}

(* A turn of m_gline's loop takes at most entries away.                    *)
LEMMA PurgeTurn ==
    ASSUME NEW list \in Seq(Gline), NEW s \in PurgeState(list)
    PROVE  PurgeStep(s) \in PurgeState(list)
<1>1. /\ s = [list |-> s.list, at |-> s.at, prev |-> s.prev]
      /\ s.list \in Seq(Gline) /\ s.at \in Nat \ {0} /\ s.prev \in Nat
      /\ PartOf(s.list, list) /\ OneOfEach(s.list) /\ Len(s.list) \in Nat
  BY DEF PurgeState, PartOf
<1>2. CASE s.at > Len(s.list)
  BY <1>2 DEF PurgeStep
<1>3. CASE s.at <= Len(s.list) /\ ~IsExpired(s.list[s.at])
  <2>1. PurgeStep(s) = [s EXCEPT !.prev = s.at, !.at = @ + 1]
    BY <1>1, <1>3 DEF PurgeStep
  <2>2. PurgeStep(s) = [list |-> s.list, at |-> s.at + 1, prev |-> s.at]
    BY <1>1, <2>1
  <2> QED BY <1>1, <2>2 DEF PurgeState
<1>4. CASE s.at <= Len(s.list) /\ IsExpired(s.list[s.at])
  <2> DEFINE f == free_gline(s.list, s.at, s.prev)
             t == IF s.prev = 0 THEN 2 ELSE s.prev + 1
  <2>1. PurgeStep(s) = [s EXCEPT !.list = f, !.at = t]
    BY <1>1, <1>4 DEF PurgeStep
  <2>2. t \in Nat \ {0}
    BY <1>1
  <2>3. PartOf(f, list)
    <3>1. s.at \in 1..Len(s.list)
      BY <1>1, <1>4
    <3>2. PartOf(f, s.list)
      BY <1>1, <3>1, FreeIsPart
    <3> QED BY <1>1, <3>2, PartOfPart
  <2>4. f \in Seq(Gline)
    BY <2>3 DEF PartOf
  <2> HIDE DEF f, t
  <2>5. PurgeStep(s) = [list |-> f, at |-> t, prev |-> s.prev]
    BY <1>1, <2>1
  <2> QED BY <1>1, <2>2, <2>3, <2>4, <2>5 DEF PurgeState
<1> QED
  BY <1>1, <1>2, <1>3, <1>4

(* The purge leaves a part of the list.                                    *)
LEMMA PurgeKept ==
    ASSUME NEW list \in Seq(Gline), OneOfEach(list)
    PROVE  PartOf(Purged(list), list)
<1> DEFINE n == Len(list)
           a == [list |-> list, at |-> 1, prev |-> 0]
           S == PurgeState(list)
           F == [s \in S |-> PurgeStep(s)]
           Body(P) == [i \in 0..n |-> IF i = 0 THEN a ELSE PurgeStep(P[i - 1])]
           P == PurgePass(list)
<1>1. n \in Nat /\ a \in S
  BY DEF PurgeState, PartOf
<1>2. F \in [S -> S] /\ \A s \in S : F[s] = PurgeStep(s)
  BY PurgeTurn
<1>3. P = CHOOSE M : M = Body(M)
  BY DEF PurgePass
<1>4. \E M : M = Body(M)
  <2> HIDE DEF n, a, S, F, P
  <2>1. PICK M : Turns(S, F, a, n, M)
    BY <1>1, <1>2, LoopExists
  <2>2. \A i \in 0..n : M[i] = IF i = 0 THEN a ELSE PurgeStep(M[i - 1])
    BY <1>1, <1>2, <2>1 DEF Turns
  <2>3. M = Body(M)
    BY <2>1, <2>2 DEF Turns
  <2> HIDE DEF Body
  <2> QED BY <2>3
<1>5. P = Body(P)
  <2> HIDE DEF Body, P
  <2> QED BY <1>3, <1>4
<1> HIDE DEF n, a, S, F, P
<1>6. P[0] = a /\ \A i \in 1..n : P[i] = PurgeStep(P[i - 1])
  <2> DEFINE G(i) == IF i = 0 THEN a ELSE PurgeStep(P[i - 1])
  <2>1. P = [i \in 0..n |-> G(i)]
    BY <1>5
  <2> HIDE DEF G
  <2>2. \A i \in 0..n : P[i] = G(i)
    BY <2>1
  <2> QED BY <1>1, <2>2 DEF G
<1> HIDE DEF Body
<1>7. \A i \in 0..n : P[i] \in S
  <2>1. F \in [S -> S] /\ P[0] \in S /\ n \in Nat
    BY <1>1, <1>2, <1>6
  <2>2. \A i \in 1..n : P[i - 1] \in S => P[i] = F[P[i - 1]]
    BY <1>2, <1>6
  <2> QED BY ONLY <2>1, <2>2, LoopStays
<1>8. P[n] \in PurgeState(list)
  BY <1>1, <1>7 DEF S
<1>9. PartOf(P[n].list, list)
  BY <1>8 DEF PurgeState
<1> QED
  BY <1>9 DEF Purged, P, n

-----------------------------------------------------------------------------
(* The search of find_gline.                                               *)

\* A state of the search for u: the entries passed do not hit it, the one found is in the list.
FindState(list, u) ==
    {s \in [list : Seq(Gline), at : Nat \ {0}, prev : Nat, found : Nat] :
        /\ PartOf(s.list, list)
        /\ s.prev = s.at - 1 /\ s.at <= Len(s.list) + 1
        /\ s.found # 0 => s.found = s.at /\ s.at <= Len(s.list)
        /\ s.found = 0 => \A i \in 1..s.prev : u \notin Hits[s.list[i].mask]}

\* What is still to be passed.
Left(s) == IF s.found # 0 THEN 0 ELSE Len(s.list) + 1 - s.at

(* A turn of find_gline's loop keeps that, and has less before it.         *)
LEMMA FindTurn ==
    ASSUME NEW list \in Seq(Gline), NEW u, NEW s \in FindState(list, u)
    PROVE  /\ FindStep(u, s) \in FindState(list, u)
           /\ Left(s) \in Nat
           /\ Left(FindStep(u, s)) = 0 \/ Left(FindStep(u, s)) < Left(s)
<1>1. /\ s = [list |-> s.list, at |-> s.at, prev |-> s.prev, found |-> s.found]
      /\ s.list \in Seq(Gline) /\ s.at \in Nat \ {0} /\ s.prev \in Nat /\ s.found \in Nat
      /\ PartOf(s.list, list) /\ OneOfEach(s.list) /\ Len(s.list) \in Nat
      /\ s.prev = s.at - 1 /\ s.at <= Len(s.list) + 1
      /\ s.found # 0 => s.found = s.at /\ s.at <= Len(s.list)
      /\ s.found = 0 => \A i \in 1..s.prev : u \notin Hits[s.list[i].mask]
  BY DEF FindState, PartOf
<1>2. Left(s) \in Nat
  BY <1>1 DEF Left
<1>3. CASE s.at > Len(s.list) \/ s.found # 0
  <2>1. FindStep(u, s) = s /\ Left(s) = 0
    BY <1>1, <1>3 DEF FindStep, Left
  <2> QED BY <1>2, <2>1
<1>4. CASE s.at <= Len(s.list) /\ s.found = 0 /\ IsExpired(s.list[s.at])
  <2> DEFINE f == free_gline(s.list, s.at, s.prev)
  <2>1. FindStep(u, s) = [s EXCEPT !.list = f, !.at = s.prev + 1]
    BY <1>1, <1>4 DEF FindStep
  <2>2. s.at \in 1..Len(s.list)
    BY <1>1, <1>4
  <2>3. PartOf(f, list)
    <3>1. PartOf(f, s.list)
      BY <1>1, <2>2, FreeIsPart
    <3> QED BY <1>1, <3>1, PartOfPart
  <2>4. /\ f \in Seq(Gline) /\ Len(f) = Len(s.list) - 1
        /\ \A i \in 1..s.prev : f[i] = s.list[i]
    <3>1. /\ f \in Seq(Gline)
          /\ Len(f) = IF s.prev = 0 THEN Len(s.list) - s.at ELSE Len(s.list) - 1
          /\ \A i \in 1..Len(f) : f[i] = IF s.prev = 0 THEN s.list[i + s.at]
                                       ELSE IF i < s.at THEN s.list[i] ELSE s.list[i + 1]
      BY <1>1, <2>2, FreeKeeps
    <3> HIDE DEF f
    <3> QED BY <1>1, <2>2, <3>1
  <2> HIDE DEF f
  <2>5. FindStep(u, s) = [list |-> f, at |-> s.at, prev |-> s.prev, found |-> 0]
    <3>1. FindStep(u, s) = [list |-> f, at |-> s.prev + 1, prev |-> s.prev, found |-> s.found]
      BY <1>1, <2>1
    <3>2. s.prev + 1 = s.at
      BY <1>1
    <3> QED BY <1>4, <3>1, <3>2
  <2>6. Left(FindStep(u, s)) < Left(s)
    BY <1>1, <1>4, <2>4, <2>5 DEF Left
  <2>7. FindStep(u, s) \in FindState(list, u)
    <3>1. /\ s.at <= Len(f) + 1
          /\ \A i \in 1..s.prev : u \notin Hits[f[i].mask]
      BY <1>1, <1>4, <2>2, <2>4
    <3> QED BY <1>1, <2>3, <2>4, <2>5, <3>1 DEF FindState
  <2> QED BY <1>2, <2>6, <2>7
<1>5. CASE /\ s.at <= Len(s.list) /\ s.found = 0 /\ ~IsExpired(s.list[s.at])
           /\ u \in Hits[s.list[s.at].mask]
  <2>1. FindStep(u, s) = [s EXCEPT !.found = s.at]
    BY <1>1, <1>5 DEF FindStep
  <2>2. FindStep(u, s) = [list |-> s.list, at |-> s.at, prev |-> s.prev, found |-> s.at]
    BY <1>1, <2>1
  <2>3. Left(FindStep(u, s)) = 0
    BY <1>1, <2>2 DEF Left
  <2>4. FindStep(u, s) \in FindState(list, u)
    BY <1>1, <1>5, <2>2 DEF FindState
  <2> QED BY <1>2, <2>3, <2>4
<1>6. CASE /\ s.at <= Len(s.list) /\ s.found = 0 /\ ~IsExpired(s.list[s.at])
           /\ u \notin Hits[s.list[s.at].mask]
  <2>1. FindStep(u, s) = [s EXCEPT !.prev = s.at, !.at = @ + 1]
    BY <1>1, <1>6 DEF FindStep
  <2>2. FindStep(u, s) = [list |-> s.list, at |-> s.at + 1, prev |-> s.at, found |-> 0]
    BY <1>1, <1>6, <2>1
  <2>3. Left(FindStep(u, s)) < Left(s)
    BY <1>1, <1>6, <2>2 DEF Left
  <2>4. \A i \in 1..s.at : u \notin Hits[s.list[i].mask]
    BY <1>1, <1>6
  <2>5. FindStep(u, s) \in FindState(list, u)
    BY <1>1, <1>6, <2>2, <2>4 DEF FindState
  <2> QED BY <1>2, <2>3, <2>5
<1> QED
  BY <1>1, <1>3, <1>4, <1>5, <1>6

(* The search ends: with an entry, or past them all.                       *)
LEMMA FindKept ==
    ASSUME NEW list \in Seq(Gline), OneOfEach(list), NEW u
    PROVE  LET f == find_gline(list, u) IN
           /\ PartOf(f.list, list)
           /\ f.found = 0 => \A i \in 1..Len(f.list) : u \notin Hits[f.list[i].mask]
<1> DEFINE n == Len(list) + 1
           a == [list |-> list, at |-> 1, prev |-> 0, found |-> 0]
           S == FindState(list, u)
           F == [s \in S |-> FindStep(u, s)]
           Body(P) == [i \in 0..n |-> IF i = 0 THEN a ELSE FindStep(u, P[i - 1])]
           P == FindPass(list, u)
<1>1. n \in Nat /\ a \in S /\ Left(a) = n - 1
  BY DEF FindState, PartOf, Left
<1>2. F \in [S -> S] /\ \A s \in S : F[s] = FindStep(u, s)
  BY FindTurn
<1>3. P = CHOOSE M : M = Body(M)
  BY DEF FindPass
<1>4. \E M : M = Body(M)
  <2> HIDE DEF n, a, S, F, P
  <2>1. PICK M : Turns(S, F, a, n, M)
    BY <1>1, <1>2, LoopExists
  <2>2. \A i \in 0..n : M[i] = IF i = 0 THEN a ELSE FindStep(u, M[i - 1])
    BY <1>1, <1>2, <2>1 DEF Turns
  <2>3. M = Body(M)
    BY <2>1, <2>2 DEF Turns
  <2> HIDE DEF Body
  <2> QED BY <2>3
<1>5. P = Body(P)
  <2> HIDE DEF Body, P
  <2> QED BY <1>3, <1>4
<1> HIDE DEF n, a, S, F, P
<1>6. P[0] = a /\ \A i \in 1..n : P[i] = FindStep(u, P[i - 1])
  <2> DEFINE G(i) == IF i = 0 THEN a ELSE FindStep(u, P[i - 1])
  <2>1. P = [i \in 0..n |-> G(i)]
    BY <1>5
  <2> HIDE DEF G
  <2>2. \A i \in 0..n : P[i] = G(i)
    BY <2>1
  <2> QED BY <1>1, <2>2 DEF G
<1> HIDE DEF Body
<1>7. \A i \in 0..n : P[i] \in S
  <2>1. F \in [S -> S] /\ P[0] \in S /\ n \in Nat
    BY <1>1, <1>2, <1>6
  <2>2. \A i \in 1..n : P[i - 1] \in S => P[i] = F[P[i - 1]]
    BY <1>2, <1>6
  <2> QED BY ONLY <2>1, <2>2, LoopStays
<1>8. \A i \in 1..n : /\ Left(P[i - 1]) \in Nat
                      /\ Left(P[i]) = 0 \/ Left(P[i]) < Left(P[i - 1])
  BY <1>1, <1>6, <1>7, FindTurn DEF S
<1>9. Left(P[n]) = 0
  <2> DEFINE T == {k \in Nat : k <= n => Left(P[k]) = 0 \/ Left(P[k]) <= n - 1 - k}
  <2>1. 0 \in T
    BY <1>1, <1>6
  <2>2. ASSUME NEW k \in Nat, k \in T PROVE k + 1 \in T
    <3> SUFFICES ASSUME k + 1 <= n
                 PROVE  Left(P[k + 1]) = 0 \/ Left(P[k + 1]) <= n - 1 - (k + 1)
      OBVIOUS
    <3>1. k + 1 \in 1..n /\ (k + 1) - 1 = k
      BY <1>1
    <3>2. Left(P[k]) \in Nat /\ (Left(P[k + 1]) = 0 \/ Left(P[k + 1]) < Left(P[k]))
      BY <1>8, <3>1
    <3>3. P[k + 1] \in S
      BY <1>7, <3>1
    <3>4. Left(P[k + 1]) \in Nat
      BY <3>3, FindTurn DEF S
    <3>5. Left(P[k]) = 0 \/ Left(P[k]) <= n - 1 - k
      BY <2>2, <3>1, <1>1
    <3> QED BY <1>1, <3>2, <3>4, <3>5
  <2>3. \A k \in Nat : k \in T
    <3> HIDE DEF T
    <3> QED BY <2>1, <2>2, SetInduction
  <2>4. P[n] \in S
    BY <1>1, <1>7
  <2>5. Left(P[n]) \in Nat
    BY <2>4, FindTurn DEF S
  <2>6. Left(P[n]) = 0 \/ Left(P[n]) <= n - 1 - n
    BY <1>1, <2>3
  <2> QED BY <1>1, <2>5, <2>6
<1>10. P[n] \in FindState(list, u)
  BY <1>1, <1>7 DEF S
<1> DEFINE f == P[n]
<1> HIDE DEF f
<1>11. /\ PartOf(f.list, list)
       /\ f.found = 0 => \A i \in 1..Len(f.list) : u \notin Hits[f.list[i].mask]
  <2>1. f \in FindState(list, u) /\ Left(f) = 0
    BY <1>9, <1>10 DEF f
  <2>2. f.list \in Seq(Gline) /\ f.at \in Nat /\ f.prev = f.at - 1 /\ PartOf(f.list, list)
    BY <2>1 DEF FindState
  <2>3. ASSUME f.found = 0 PROVE \A i \in 1..Len(f.list) : u \notin Hits[f.list[i].mask]
    <3>1. f.prev = Len(f.list)
      BY <2>1, <2>2, <2>3 DEF Left
    <3>2. \A i \in 1..f.prev : u \notin Hits[f.list[i].mask]
      BY <2>1, <2>3 DEF FindState
    <3> QED BY <3>1, <3>2
  <2> QED BY <2>2, <2>3
<1> QED
  BY <1>11 DEF find_gline, f, P, n

-----------------------------------------------------------------------------
(* The commands.                                                           *)

(* Exactly finds the entry of a mask if there is one, Covering an entry.   *)
LEMMA ExactlyFinds ==
    ASSUME NEW list \in Seq(Gline), NEW m
    PROVE  LET at == Exactly(list, m) IN
           /\ at \in 0..Len(list)
           /\ at # 0 => list[at].mask = m
           /\ at = 0 => \A i \in 1..Len(list) : list[i].mask # m
<1> DEFINE I == {i \in 1..Len(list) : list[i].mask = m}
<1>1. Exactly(list, m) = IF I # {} THEN CHOOSE x \in I : \A y \in I : x <= y ELSE 0
  BY DEF Exactly, SelectInSeq, Min
<1>2. I # {} => \E x \in I : \A y \in I : x <= y
  <2>1. I \in SUBSET Nat
    OBVIOUS
  <2> HIDE DEF I
  <2> QED BY <2>1, LeastExists
<1> DEFINE at == IF I # {} THEN CHOOSE x \in I : \A y \in I : x <= y ELSE 0
<1>3. (I # {} => at \in I) /\ (I = {} => at = 0)
  <2> HIDE DEF I
  <2> QED BY <1>2
<1> HIDE DEF at
<1>4. /\ at \in 0..Len(list)
      /\ at # 0 => list[at].mask = m
      /\ at = 0 => \A i \in 1..Len(list) : list[i].mask # m
  BY <1>3
<1> QED
  BY <1>1, <1>4 DEF at

LEMMA CoveringFinds ==
    ASSUME NEW list \in Seq(Gline), NEW m
    PROVE  Covering(list, m) \in 0..Len(list)
<1> DEFINE I == {i \in 1..Len(list) : <<list[i].mask, m>> \in Covers}
<1>1. Covering(list, m) = IF I # {} THEN CHOOSE x \in I : \A y \in I : x <= y ELSE 0
  BY DEF Covering, SelectInSeq, Min
<1>2. I # {} => \E x \in I : \A y \in I : x <= y
  <2>1. I \in SUBSET Nat
    OBVIOUS
  <2> HIDE DEF I
  <2> QED BY <2>1, LeastExists
<1> DEFINE at == IF I # {} THEN CHOOSE x \in I : \A y \in I : x <= y ELSE 0
<1>3. (I # {} => at \in I) /\ (I = {} => at = 0)
  <2> HIDE DEF I
  <2> QED BY <1>2
<1> HIDE DEF at
<1>4. at \in 0..Len(list)
  <2>1. I \subseteq 1..Len(list) /\ Len(list) \in Nat
    OBVIOUS
  <2>2. at = 0 \/ at \in 1..Len(list)
    <3> HIDE DEF I
    <3> QED BY <1>3, <2>1
  <2>3. Len(list) \in Nat
    OBVIOUS
  <2> QED BY ONLY <2>2, <2>3
<1> QED
  BY <1>1, <1>4 DEF at

(* What the entries of a list bar, those of a part of it do.               *)
LEMMA PartBarred ==
    ASSUME NEW list, NEW f, NEW on, NEW sh, PartOf(f, list), Barred(list, on, sh)
    PROVE  Barred(f, on, sh)
  BY DEF PartOf, Barred

(* What a command starts from: the list after the purge.                   *)
LEMMA AfterPurge ==
    ASSUME GlineInv
    PROVE  LET list == Purged(gline) IN
           /\ list \in Seq(Gline) /\ Len(list) \in Nat /\ Len(list) <= MaxGlines
           /\ OneOfEach(list) /\ Barred(list, online, shaded)
<1>1. PartOf(Purged(gline), gline)
  BY PurgeKept DEF GlineInv
<1>2. Barred(Purged(gline), online, shaded)
  BY <1>1, PartBarred DEF GlineInv
<1>3. MaxGlines \in Nat
  BY GlineConstants
<1> QED
  BY <1>1, <1>2, <1>3 DEF PartOf, GlineInv

(* What a command has to see to.                                           *)
LEMMA BecomeKeeps ==
    ASSUME GlineInv, NEW list \in Seq(Gline), NEW gone, GlinesBecome(list, gone),
           Len(list) <= MaxGlines, OneOfEach(list), Barred(list, online \ gone, shaded \ gone)
    PROVE  GlineInv'
<1>1. gline' = list /\ online' = online \ gone /\ shaded' = shaded \ gone /\ gclock' = gclock
  BY DEF GlinesBecome
<1>2. lost' \subseteq Masks
  <2>1. \A x \in ToSet(gline) : x.mask \in Masks
    <3>1. \A i \in DOMAIN gline : gline[i] \in Gline
      BY DEF GlineInv
    <3> QED BY <3>1 DEF ToSet, Gline
  <2> QED BY <2>1 DEF GlinesBecome
<1> QED
  BY <1>1, <1>2 DEF GlineInv, OneOfEach, Barred

(* An entry whose mask stays may be changed if it is left in force only if *)
(* it was.                                                                 *)
LEMMA ChangeEntryKeeps ==
    ASSUME GlineInv, NEW list \in Seq(Gline), Len(list) <= MaxGlines, OneOfEach(list),
           Barred(list, online, shaded),
           NEW at \in 1..Len(list), NEW g \in Gline, g.mask = list[at].mask,
           g.active /\ ~g.wasOff => list[at].active /\ ~list[at].wasOff,
           GlinesBecome([list EXCEPT ![at] = g], {})
    PROVE  GlineInv'
<1> DEFINE l == [list EXCEPT ![at] = g]
<1>1. /\ l \in Seq(Gline) /\ Len(l) = Len(list)
      /\ \A i \in 1..Len(list) : l[i] = IF i = at THEN g ELSE list[i]
  OBVIOUS
<1>2. GlinesBecome(l, {})
  OBVIOUS
<1> HIDE DEF l
<1>3. OneOfEach(l)
  BY <1>1 DEF OneOfEach
<1>4. Barred(l, online \ {}, shaded \ {})
  BY <1>1 DEF Barred
<1> QED
  BY <1>1, <1>2, <1>3, <1>4, BecomeKeeps

(* A new entry, for a mask that is not in the list, with those it hits     *)
(* let go.                                                                 *)
LEMMA AddedKeeps ==
    ASSUME NEW list \in Seq(Gline), Len(list) < MaxGlines, OneOfEach(list),
           Barred(list, online, shaded), shaded \subseteq online,
           NEW g \in Gline, \A i \in 1..Len(list) : list[i].mask # g.mask
    PROVE  LET l == Added(list, g) IN
           /\ l \in Seq(Gline) /\ Len(l) <= MaxGlines /\ OneOfEach(l)
           /\ Barred(l, online \ KilledBy(g.mask), shaded \ KilledBy(g.mask))
<1> DEFINE l == Added(list, g)
<1>1. /\ l \in Seq(Gline) /\ Len(l) = Len(list) + 1
      /\ \A i \in 1..Len(l) : l[i] = IF i = 1 THEN g ELSE list[i - 1]
  BY DEF Added
<1>2. Len(list) \in Nat /\ MaxGlines \in Nat
  BY GlineConstants
<1> HIDE DEF l
<1>3. OneOfEach(l)
  <2> SUFFICES ASSUME NEW i \in 1..Len(l), NEW j \in 1..Len(l), l[i].mask = l[j].mask
               PROVE  i = j
    BY DEF OneOfEach
  <2>1. \A k \in 1..Len(l) : k # 1 => k - 1 \in 1..Len(list) /\ l[k] = list[k - 1]
    BY <1>1, <1>2
  <2>2. l[1] = g /\ 1 \in 1..Len(l)
    BY <1>1, <1>2
  <2>3. CASE i = 1 /\ j = 1
    BY <2>3
  <2>4. CASE i = 1 /\ j # 1
    BY <2>1, <2>2, <2>4
  <2>5. CASE i # 1 /\ j = 1
    BY <2>1, <2>2, <2>5
  <2>6. CASE i # 1 /\ j # 1
    <3>1. PICK a \in 1..Len(list) : a = i - 1 /\ l[i] = list[a]
      BY <2>1, <2>6
    <3>2. PICK b \in 1..Len(list) : b = j - 1 /\ l[j] = list[b]
      BY <2>1, <2>6
    <3>3. list[a].mask = list[b].mask
      BY <3>1, <3>2
    <3>4. a = b
      BY <3>3 DEF OneOfEach
    <3> QED BY <1>1, <1>2, <3>1, <3>2, <3>4
  <2> QED BY <2>3, <2>4, <2>5, <2>6
<1>4. Barred(l, online \ KilledBy(g.mask), shaded \ KilledBy(g.mask))
  <2> SUFFICES ASSUME NEW i \in 1..Len(l), l[i].active /\ ~l[i].wasOff
               PROVE  (online \ KilledBy(g.mask)) \cap Hits[l[i].mask] \subseteq shaded \ KilledBy(g.mask)
    BY DEF Barred
  <2>1. CASE i = 1
    BY <1>1, <2>1 DEF KilledBy
  <2>2. CASE i # 1
    <3>1. i - 1 \in 1..Len(list) /\ l[i] = list[i - 1]
      BY <1>1, <1>2, <2>2
    <3>2. online \cap Hits[l[i].mask] \subseteq shaded
      BY <3>1 DEF Barred
    <3> QED BY <3>2
  <2> QED BY <2>1, <2>2
<1>5. l \in Seq(Gline) /\ Len(l) <= MaxGlines
  BY <1>1, <1>2
<1> QED
  BY <1>3, <1>4, <1>5 DEF l

(* A service adds a G-line or gives it a new time.                         *)
LEMMA ServiceAddsKeeps ==
    ASSUME GlineInv, NEW m \in Masks, NEW span \in Spans, NEW lastmod \in LastMods, NEW hub \in BOOLEAN,
           ServiceAdds(m, span, lastmod, hub)
    PROVE  GlineInv'
<1> DEFINE list == Purged(gline)
           at   == Exactly(list, m)
           mod  == IF lastmod = 0 THEN gclock ELSE lastmod
           new  == GlineEntry(m, gclock + span, mod)
<1>1. /\ list \in Seq(Gline) /\ Len(list) \in Nat /\ Len(list) <= MaxGlines
      /\ OneOfEach(list) /\ Barred(list, online, shaded)
  BY AfterPurge
<1>2. gclock \in Nat /\ mod \in Nat /\ gclock + span \in Nat /\ MaxGlines \in Nat
  BY GlineConstants DEF GlineInv
<1>3. /\ at \in 0..Len(list)
      /\ at # 0 => list[at].mask = m
      /\ at = 0 => \A i \in 1..Len(list) : list[i].mask # m
  <2> HIDE DEF list
  <2> QED BY <1>1, ExactlyFinds
<1>4. /\ at # 0 \/ Len(list) < MaxGlines
      /\ IF at # 0
         THEN GlinesBecome([list EXCEPT ![at] = [list[at] EXCEPT !.expire = gclock + span, !.lastmod = mod]], {})
         ELSE IF lastmod = 0 /\ ~hub THEN GlinesBecome(list, {})
         ELSE GlinesBecome(Added(list, new), KilledBy(m))
  BY DEF ServiceAdds
<1>5. new \in Gline /\ new.mask = m
  BY <1>2 DEF GlineEntry, Gline
<1> HIDE DEF list, at, mod, new
<1>6. CASE at # 0
  <2> DEFINE g == [list[at] EXCEPT !.expire = gclock + span, !.lastmod = mod]
  <2>1. at \in 1..Len(list) /\ list[at] \in Gline
    BY <1>1, <1>3, <1>6
  <2>2. /\ g \in Gline /\ g.mask = list[at].mask
        /\ g.active = list[at].active /\ g.wasOff = list[at].wasOff
    BY <1>2, <2>1 DEF Gline
  <2>3. GlinesBecome([list EXCEPT ![at] = g], {})
    BY <1>4, <1>6
  <2> HIDE DEF g
  <2> QED BY <1>1, <2>1, <2>2, <2>3, ChangeEntryKeeps
<1>7. CASE at = 0 /\ lastmod = 0 /\ ~hub
  <2>1. GlinesBecome(list, {}) /\ Barred(list, online \ {}, shaded \ {})
    BY <1>1, <1>4, <1>7 DEF Barred
  <2> QED BY <1>1, <2>1, BecomeKeeps
<1>8. CASE at = 0 /\ ~(lastmod = 0 /\ ~hub)
  <2> DEFINE l == Added(list, new)
  <2>1. GlinesBecome(l, KilledBy(m)) /\ Len(list) < MaxGlines /\ shaded \subseteq online
    BY <1>4, <1>8 DEF GlineInv
  <2>2. /\ l \in Seq(Gline) /\ Len(l) <= MaxGlines /\ OneOfEach(l)
        /\ Barred(l, online \ KilledBy(m), shaded \ KilledBy(m))
    BY <1>1, <1>3, <1>5, <1>8, <2>1, AddedKeeps
  <2> HIDE DEF l
  <2> QED BY <2>1, <2>2, BecomeKeeps
<1> QED
  BY <1>6, <1>7, <1>8

(* A hub adds one in its burst, or has a newer one.                        *)
LEMMA BurstAddsKeeps ==
    ASSUME GlineInv, NEW m \in Masks, NEW span \in Spans, NEW lastmod \in LastMods,
           BurstAdds(m, span, lastmod)
    PROVE  GlineInv'
<1> DEFINE list == Purged(gline)
           at   == Exactly(list, m)
           new  == GlineEntry(m, gclock + span, lastmod)
<1>1. /\ list \in Seq(Gline) /\ Len(list) \in Nat /\ Len(list) <= MaxGlines
      /\ OneOfEach(list) /\ Barred(list, online, shaded)
  BY AfterPurge
<1>2. gclock \in Nat /\ lastmod \in Nat /\ gclock + span \in Nat /\ MaxGlines \in Nat
  BY GlineConstants DEF GlineInv
<1>3. /\ at \in 0..Len(list)
      /\ at # 0 => list[at].mask = m
      /\ at = 0 => \A i \in 1..Len(list) : list[i].mask # m
  <2> HIDE DEF list
  <2> QED BY <1>1, ExactlyFinds
<1>4. /\ at # 0 \/ Len(list) < MaxGlines
      /\ IF at = 0 THEN GlinesBecome(Added(list, new), KilledBy(m))
         ELSE \/ GlinesBecome(list, {})
              \/ GlinesBecome([list EXCEPT ![at] = [list[at] EXCEPT !.expire = gclock + span, !.lastmod = lastmod]], {})
  BY DEF BurstAdds
<1>5. new \in Gline /\ new.mask = m
  BY <1>2 DEF GlineEntry, Gline
<1> HIDE DEF list, at, new
<1>6. CASE GlinesBecome(list, {})
  <2>1. Barred(list, online \ {}, shaded \ {})
    BY <1>1 DEF Barred
  <2> QED BY <1>1, <1>6, <2>1, BecomeKeeps
<1>7. CASE /\ at # 0
           /\ GlinesBecome([list EXCEPT ![at] = [list[at] EXCEPT !.expire = gclock + span, !.lastmod = lastmod]], {})
  <2> DEFINE g == [list[at] EXCEPT !.expire = gclock + span, !.lastmod = lastmod]
  <2>1. at \in 1..Len(list) /\ list[at] \in Gline
    BY <1>1, <1>3, <1>7
  <2>2. /\ g \in Gline /\ g.mask = list[at].mask
        /\ g.active = list[at].active /\ g.wasOff = list[at].wasOff
    BY <1>2, <2>1 DEF Gline
  <2>3. GlinesBecome([list EXCEPT ![at] = g], {})
    BY <1>7
  <2> HIDE DEF g
  <2> QED BY <1>1, <2>1, <2>2, <2>3, ChangeEntryKeeps
<1>8. CASE at = 0
  <2> DEFINE l == Added(list, new)
  <2>1. GlinesBecome(l, KilledBy(m)) /\ Len(list) < MaxGlines /\ shaded \subseteq online
    BY <1>4, <1>8 DEF GlineInv
  <2>2. /\ l \in Seq(Gline) /\ Len(l) <= MaxGlines /\ OneOfEach(l)
        /\ Barred(l, online \ KilledBy(m), shaded \ KilledBy(m))
    BY <1>1, <1>3, <1>5, <1>8, <2>1, AddedKeeps
  <2> HIDE DEF l
  <2> QED BY <2>1, <2>2, BecomeKeeps
<1> QED
  BY <1>4, <1>6, <1>7, <1>8

(* A service removes one.                                                  *)
LEMMA ServiceRemovesKeeps ==
    ASSUME GlineInv, NEW m \in Masks, ServiceRemoves(m)
    PROVE  GlineInv'
<1> DEFINE list == Purged(gline)
           at   == Exactly(list, m)
           l    == IF at = 0 THEN list ELSE RemoveAt(list, at)
<1>1. /\ list \in Seq(Gline) /\ Len(list) \in Nat /\ Len(list) <= MaxGlines
      /\ OneOfEach(list) /\ Barred(list, online, shaded)
  BY AfterPurge
<1>2. at \in 0..Len(list)
  <2> HIDE DEF list
  <2> QED BY <1>1, ExactlyFinds
<1>3. GlinesBecome(l, {})
  BY DEF ServiceRemoves
<1> HIDE DEF list, at
<1>4. PartOf(l, list)
  <2>1. CASE at = 0
    BY <1>1, <2>1 DEF PartOf
  <2>2. CASE at # 0
    <3>1. at \in 1..Len(list) /\ l = free_gline(list, at, at)
      BY <1>1, <1>2, <2>2 DEF free_gline
    <3> HIDE DEF l
    <3> QED BY <1>1, <3>1, FreeIsPart
  <2> QED BY <2>1, <2>2
<1> HIDE DEF l
<1>5. Barred(l, online \ {}, shaded \ {})
  <2>1. Barred(l, online, shaded)
    BY <1>1, <1>4, PartBarred
  <2> QED BY <2>1 DEF Barred
<1>6. l \in Seq(Gline) /\ Len(l) <= MaxGlines /\ OneOfEach(l)
  <2>1. l \in Seq(Gline) /\ Len(l) \in Nat /\ MaxGlines \in Nat
    BY <1>4, GlineConstants DEF PartOf
  <2> QED BY <1>1, <1>4, <2>1 DEF PartOf
<1> QED
  BY <1>3, <1>5, <1>6, BecomeKeeps

(* An operator switches a G-line on or off or gives it more time.          *)
LEMMA OperGlineKeeps ==
    ASSUME GlineInv, NEW m \in Masks, NEW act, NEW span \in Spans \cup {0},
           OperGline(m, act, span)
    PROVE  GlineInv'
<1> DEFINE list   == Purged(gline)
           at     == Covering(list, m)
           expire == IF span = 0 THEN 0 ELSE gclock + span
           old    == list[at]
           longer == IF expire <= old.expire THEN 0 ELSE expire
           moved  == IF longer = 0 THEN old ELSE [old EXCEPT !.expire = longer]
           change == act # "" /\ (act = "+") # old.active
           g      == IF change THEN [moved EXCEPT !.active = act = "+", !.wasOff = TRUE] ELSE moved
<1>1. /\ list \in Seq(Gline) /\ Len(list) \in Nat /\ Len(list) <= MaxGlines
      /\ OneOfEach(list) /\ Barred(list, online, shaded)
  BY AfterPurge
<1>2. expire \in Nat
  <2>1. gclock \in Nat
    BY GlineConstants DEF GlineInv
  <2>2. span \in Nat
    BY GlineConstants
  <2>3. gclock + span \in Nat
    BY <2>1, <2>2
  <2> QED BY <2>3
<1>3. at \in 0..Len(list)
  <2> HIDE DEF list
  <2> QED BY <1>1, CoveringFinds
<1>4. IF at = 0 THEN GlinesBecome(list, {}) ELSE GlinesBecome([list EXCEPT ![at] = g], {})
  BY DEF OperGline
<1> HIDE DEF list, at, expire
<1>5. CASE at = 0
  <2>1. Barred(list, online \ {}, shaded \ {}) /\ GlinesBecome(list, {})
    BY <1>1, <1>4, <1>5 DEF Barred
  <2> QED BY <1>1, <2>1, BecomeKeeps
<1>6. CASE at # 0
  <2>1. at \in 1..Len(list) /\ old \in Gline
    <3>1. at \in 1..Len(list)
      BY <1>1, <1>3, <1>6
    <3> QED BY <1>1, <3>1
  <2>2. longer \in Nat
    BY <1>2
  <2> HIDE DEF old, longer, change
  <2>3. /\ moved \in Gline /\ moved.mask = old.mask
        /\ moved.active = old.active /\ moved.wasOff = old.wasOff
    BY <2>1, <2>2 DEF Gline
  <2> HIDE DEF moved
  <2>4. g \in Gline /\ g.mask = old.mask
    BY <2>3 DEF Gline
  <2>5. g.active /\ ~g.wasOff => old.active /\ ~old.wasOff
    BY <2>3 DEF Gline
  <2> HIDE DEF g
  <2>6. GlinesBecome([list EXCEPT ![at] = g], {})
    BY <1>4, <1>6
  <2> QED BY <1>1, <2>1, <2>4, <2>5, <2>6, ChangeEntryKeeps DEF old
<1> QED
  BY <1>5, <1>6

(* The server bans the address of a local user.                            *)
LEMMA SpamGlineKeeps ==
    ASSUME GlineInv, NEW u \in Persons, NEW m \in Masks, NEW span \in Spans, SpamGline(u, m, span)
    PROVE  GlineInv'
<1> DEFINE at  == Exactly(gline, m)
           new == GlineEntry(m, gclock + span, gclock)
           l   == Added(gline, new)
<1>1. gclock' = gclock /\ lost' = {} /\ (at # 0 \/ Len(gline) < MaxGlines)
  BY DEF SpamGline
<1>2. gline \in Seq(Gline) /\ (at = 0 => \A i \in 1..Len(gline) : gline[i].mask # m)
  BY ExactlyFinds DEF GlineInv
<1>3. new \in Gline /\ new.mask = m
  <2>1. gclock \in Nat /\ gclock + span \in Nat
    BY GlineConstants DEF GlineInv
  <2> QED BY <2>1 DEF GlineEntry, Gline
<1>4. CASE at # 0
  <2>1. UNCHANGED <<gline, online, shaded>>
    BY <1>4 DEF SpamGline
  <2> QED BY <1>1, <2>1 DEF GlineInv, OneOfEach, Barred
<1>5. CASE at = 0
  <2>1. gline' = l /\ online' = online \ KilledBy(m) /\ shaded' = shaded \ KilledBy(m)
    BY <1>5 DEF SpamGline
  <2>2. /\ l \in Seq(Gline) /\ Len(l) <= MaxGlines /\ OneOfEach(l)
        /\ Barred(l, online \ KilledBy(m), shaded \ KilledBy(m))
    <3> HIDE DEF new, at
    <3> QED BY <1>1, <1>2, <1>3, <1>5, AddedKeeps DEF GlineInv
  <2> HIDE DEF l
  <2> QED BY <1>1, <2>1, <2>2 DEF GlineInv, OneOfEach, Barred
<1> QED
  BY <1>4, <1>5

(* Somebody registers: whoever is let in without a hit has passed every    *)
(* entry that is left.                                                     *)
LEMMA RegistersKeeps ==
    ASSUME GlineInv, NEW u \in Persons, Registers(u)
    PROVE  GlineInv'
<1> DEFINE f == find_gline(gline, u)
<1>1. PartOf(f.list, gline) /\ (f.found = 0 => \A i \in 1..Len(f.list) : u \notin Hits[f.list[i].mask])
  BY FindKept DEF GlineInv
<1>2. /\ u \notin online /\ gline' = f.list /\ lost' = {} /\ gclock' = gclock
      /\ online' = IF f.found # 0 /\ f.list[f.found].active THEN online ELSE online \cup {u}
      /\ shaded' = IF f.found # 0 /\ ~f.list[f.found].active THEN shaded \cup {u} ELSE shaded
  BY DEF Registers
<1> HIDE DEF f
<1>3. gline' \in Seq(Gline) /\ Len(gline') <= MaxGlines /\ OneOfEach(gline')
  <2>1. /\ Len(f.list) \in Nat /\ Len(gline) \in Nat /\ MaxGlines \in Nat
        /\ Len(f.list) <= Len(gline) /\ Len(gline) <= MaxGlines
    BY <1>1, GlineConstants DEF GlineInv, PartOf
  <2>2. Len(f.list) <= MaxGlines
    BY <2>1
  <2> QED BY <1>1, <1>2, <2>2 DEF PartOf
<1>4. Barred(f.list, online, shaded)
  BY <1>1, PartBarred DEF GlineInv
<1>5. Barred(f.list, online', shaded')
  <2>1. CASE f.found = 0
    <3>1. online' = online \cup {u} /\ shaded' = shaded
      BY <1>2, <2>1
    <3> QED BY <1>1, <1>4, <2>1, <3>1 DEF Barred
  <2>2. CASE f.found # 0 /\ f.list[f.found].active
    BY <1>2, <1>4, <2>2 DEF Barred
  <2>3. CASE f.found # 0 /\ ~f.list[f.found].active
    <3>1. online' = online \cup {u} /\ shaded' = shaded \cup {u}
      BY <1>2, <2>3
    <3> QED BY <1>4, <3>1 DEF Barred
  <2> QED BY <2>1, <2>2, <2>3
<1>6. online' \subseteq Persons /\ shaded' \subseteq online'
  BY <1>2 DEF GlineInv
<1> QED
  BY <1>2, <1>3, <1>5, <1>6 DEF GlineInv, OneOfEach, Barred

(* A rehash looks at somebody who is online.                               *)
LEMMA RecheckedKeeps ==
    ASSUME GlineInv, NEW u \in Persons, Rechecked(u)
    PROVE  GlineInv'
<1> DEFINE f == find_gline(gline, u)
           gone == IF f.found # 0 /\ f.list[f.found].active THEN {u} ELSE {}
<1>1. PartOf(f.list, gline)
  BY FindKept DEF GlineInv
<1>2. /\ gline' = f.list /\ lost' = {} /\ gclock' = gclock
      /\ online' = online \ gone /\ shaded' = shaded \ gone
  BY DEF Rechecked
<1> HIDE DEF f, gone
<1>3. gline' \in Seq(Gline) /\ Len(gline') <= MaxGlines /\ OneOfEach(gline')
  <2>1. /\ Len(f.list) \in Nat /\ Len(gline) \in Nat /\ MaxGlines \in Nat
        /\ Len(f.list) <= Len(gline) /\ Len(gline) <= MaxGlines
    BY <1>1, GlineConstants DEF GlineInv, PartOf
  <2>2. Len(f.list) <= MaxGlines
    BY <2>1
  <2> QED BY <1>1, <1>2, <2>2 DEF PartOf
<1>4. Barred(f.list, online, shaded)
  BY <1>1, PartBarred DEF GlineInv
<1>5. Barred(gline', online', shaded')
  BY <1>2, <1>4 DEF Barred
<1>6. online' \subseteq Persons /\ shaded' \subseteq online'
  BY <1>2 DEF GlineInv
<1> QED
  BY <1>2, <1>3, <1>5, <1>6 DEF GlineInv, OneOfEach, Barred

-----------------------------------------------------------------------------
(* Nobody stays online under a G-line in force, and no mask is listed      *)
(* twice (add_gline, ms_gline, mo_gline, find_gline), for any lists, masks *)
(* and times, although m_gline's purge may leave expired entries behind    *)
(* and take good ones away.                                                *)
THEOREM NobodySlips == GlineSpec => []NoneSlips
<1>1. GlineInit => GlineInv
  BY GlineConstants DEF GlineInit, GlineInv, OneOfEach, Barred
<1>2. GlineInv /\ [GlineNext]_glineVars => GlineInv'
  <2> SUFFICES ASSUME GlineInv, [GlineNext]_glineVars PROVE GlineInv'
    OBVIOUS
  <2>1. CASE \E m \in Masks, span \in Spans : \E lastmod \in LastMods :
               (\E hub \in BOOLEAN : ServiceAdds(m, span, lastmod, hub)) \/ BurstAdds(m, span, lastmod)
    BY <2>1, ServiceAddsKeeps, BurstAddsKeeps
  <2>2. CASE \E m \in Masks, span \in Spans, u \in Persons : SpamGline(u, m, span)
    BY <2>2, SpamGlineKeeps
  <2>3. CASE \E m \in Masks : ServiceRemoves(m)
    BY <2>3, ServiceRemovesKeeps
  <2>4. CASE \E m \in Masks, act \in {"+", "-", ""}, span \in Spans \cup {0} : OperGline(m, act, span)
    BY <2>4, OperGlineKeeps
  <2>5. CASE \E u \in Persons : Registers(u)
    BY <2>5, RegistersKeeps
  <2>6. CASE \E u \in Persons : Rechecked(u)
    BY <2>6, RecheckedKeeps
  <2>7. CASE \E u \in Persons : Quits(u)
    BY <2>7 DEF Quits, GlineInv, OneOfEach, Barred
  <2>8. CASE GTick
    <3>1. gclock' \in 1..MaxGTime
      BY <2>8, GlineConstants DEF GTick, GlineInv
    <3> QED BY <2>8, <3>1 DEF GTick, GlineInv, OneOfEach, Barred
  <2>9. CASE UNCHANGED glineVars
    BY <2>9 DEF glineVars, GlineInv, OneOfEach, Barred
  <2> QED
    BY <2>1, <2>2, <2>3, <2>4, <2>5, <2>6, <2>7, <2>8, <2>9 DEF GlineNext
<1>3. GlineInv => NoneSlips
  <2> SUFFICES ASSUME GlineInv PROVE NoneSlips
    OBVIOUS
  <2>1. DOMAIN gline = 1..Len(gline) /\ \A i \in DOMAIN gline : gline[i] \in Gline
    BY DEF GlineInv
  <2>2. GlineTypeOK
    BY <2>1 DEF GlineInv, GlineTypeOK, Gline
  <2> QED BY <2>1, <2>2 DEF NoneSlips, GlineInv, OneOfEach, Barred
<1> QED
  BY <1>1, <1>2, <1>3, PTL DEF GlineSpec

=============================================================================
