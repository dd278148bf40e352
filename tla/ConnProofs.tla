---------------------------- MODULE ConnProofs ------------------------------
(***************************************************************************)
(* The tables of connections, for any number of clients, descriptors,      *)
(* addresses and bounds.  ConnInv is inductive and implies the invariants  *)
(* that the run conn checks.                                               *)
(*                                                                         *)
(* The tables that close_connection and the loops over loc_clients change  *)
(* are a record (Now), so the parts of the invariant speak of any such     *)
(* record; a loop is followed turn by turn (TurnKeeps).                    *)
(***************************************************************************)
EXTENDS Conn, TLAPS, FiniteSetTheorems, SequenceTheorems, WellFoundedInduction

Event == {NoEvent} \cup (Client \X {"conn", "auth"})
Tables ==
    [cl : [Client -> Record], loc : [Fd -> Client \cup {None}], high : 0..MaxFd,
     ev : [Fd -> Event], req : SUBSET [c : Client, type : {"ptr", "a"}],
     nr : [unknowns : Nat, users : Nat, servers : Nat]]

\* How long one has waited who is to go, and what the timer finds then.  A
\* look-up is given up once: afterwards there is none.
Patient(x) ==
    LET idle == ~x.dead /\ ~x.dns /\ x.auth = "no"
    IN  \/ x.waited = 0
        \/ x.waited = 1 /\ x.check = 0 /\ (x.dead \/ x.life = 1)
        \/ x.waited = 1 /\ x.check = 1 /\ idle
        \/ x.waited = 2 /\ x.check = 0 /\ x.life = 1 /\ idle

\* The record of a connection: nothing is left of one that has gone.
Fine(x) ==
    /\ x.st = None => x = Gone
    /\ x.auth # "no" => x.authfd # 0
    /\ Waiting(x) => Patient(x)

\* The descriptors of connection c.
Placed(s, c) ==
    LET x == s.cl[c]
    IN  /\ x.fd \in 1..s.high /\ s.loc[x.fd] = c /\ s.ev[x.fd] = <<c, "conn">>
        /\ x.authfd # 0 => s.loc[x.authfd] = None /\ s.ev[x.authfd] = <<c, "auth">>

FdsOK(s) ==
    /\ s \in Tables
    /\ \A c \in Client : Fine(s.cl[c]) /\ (s.cl[c].st # None => Placed(s, c))
    /\ \A f \in Fd : s.loc[f] # None => s.cl[s.loc[f]].fd = f

\* A request is of one that waits for it, and there is one of each.
ReqsOK(s) ==
    /\ \A q \in s.req : s.cl[q.c].st # None /\ s.cl[q.c].dns
    /\ \A q, r \in s.req : q.c = r.c => q = r

Count(k, S) == Cardinality({c \in Client : k[c].st \in S})
CountsOK(s) ==
    /\ s.nr.unknowns = Count(s.cl, Unknown) /\ s.nr.users = Count(s.cl, {"user"})
    /\ s.nr.servers = Count(s.cl, {"server"})

Sound(s) == FdsOK(s) /\ ReqsOK(s) /\ CountsOK(s)

HostsOK(k, q) == \A c \in Client : k[c].hostp # None => k[c].hostp \in ToSet(q)
Clear(k, g) == \A c \in Client : k[c].st = "user" => Home[c] \notin g

ConnInv ==
    /\ Sound(Now) /\ HostsOK(cl, cache) /\ Clear(cl, gline)
    /\ cache \in Seq(Addr) /\ gline \subseteq Addr /\ down \in BOOLEAN

-----------------------------------------------------------------------------
(* Numbers and loops.                                                      *)

(* Induction over the natural numbers, for a set.                          *)
LEMMA SetInduction ==
    ASSUME NEW S, 0 \in S, \A n \in Nat : n \in S => n + 1 \in S
    PROVE  \A n \in Nat : n \in S
<1> SUFFICES ASSUME NEW k \in Nat, k \notin S PROVE FALSE
  OBVIOUS
<1> DEFINE T == {n \in Nat : n \notin S}
           D == OpToRel(<, Nat)
<1>1. T \subseteq Nat /\ T # {}
  OBVIOUS
<1>2. IsWellFoundedOn(D, Nat)
  BY NatLessThanWellFounded
<1>3. PICK x \in T : \A y \in T : ~(<<y, x>> \in D)
  <2> HIDE DEF T, D
  <2> QED BY <1>1, <1>2, WFMin
<1>4. \A y \in T : ~(y < x)
  BY <1>3 DEF OpToRel
<1>5. x # 0 /\ x - 1 \in Nat
  OBVIOUS
<1>6. x - 1 \in S
  BY <1>4, <1>5
<1> QED
  BY <1>5, <1>6

(* A set of natural numbers has a least one.                               *)
LEMMA LeastExists ==
    ASSUME NEW T \in SUBSET Nat, T # {}
    PROVE  \E x \in T : \A y \in T : x <= y
<1> DEFINE D == OpToRel(<, Nat)
<1>1. IsWellFoundedOn(D, Nat)
  BY NatLessThanWellFounded
<1>2. PICK x \in T : \A y \in T : ~(<<y, x>> \in D)
  <2> HIDE DEF D
  <2> QED BY <1>1, WFMin
<1>3. \A y \in T : ~(y < x)
  BY <1>2 DEF OpToRel
<1> QED
  BY <1>3

(* ... and a bounded one a greatest.                                       *)
LEMMA GreatestExists ==
    ASSUME NEW h \in Nat, NEW T \in SUBSET (0..h), T # {}
    PROVE  \E x \in T : \A y \in T : x >= y
<1> DEFINE U == {n \in Nat : n <= h /\ h - n \in T}
<1>1. U \subseteq Nat /\ U # {}
  <2>1. PICK t \in T : TRUE
    OBVIOUS
  <2>2. h - t \in Nat /\ h - t <= h /\ h - (h - t) = t
    OBVIOUS
  <2> QED BY <2>1, <2>2
<1>2. PICK n \in U : \A m \in U : n <= m
  <2> HIDE DEF U
  <2> QED BY <1>1, LeastExists
<1>3. \A y \in T : h - n >= y
  <2> SUFFICES ASSUME NEW y \in T PROVE h - n >= y
    OBVIOUS
  <2>1. h - y \in U
    <3>1. h - (h - y) = y /\ h - y \in Nat /\ h - y <= h
      OBVIOUS
    <3> QED BY <3>1
  <2>2. n <= h - y
    BY <1>2, <2>1
  <2> QED BY <2>2
<1> QED
  BY <1>2, <1>3

(* highest_fd after a search from h down: nothing is above it, and it is   *)
(* taken unless it is 0.                                                   *)
LEMMA HighestIs ==
    ASSUME NEW l, NEW h \in Nat
    PROVE  /\ Highest(l, h) \in 0..h
           /\ \A f \in 1..h : l[f] # None => f <= Highest(l, h)
           /\ Highest(l, h) # 0 => l[Highest(l, h)] # None
<1> DEFINE T == {0} \cup {f \in 1..h : l[f] # None}
<1>1. T \in SUBSET (0..h) /\ T # {}
  OBVIOUS
<1>2. \E x \in T : \A y \in T : x >= y
  <2> HIDE DEF T
  <2> QED BY <1>1, GreatestExists
<1>3. Highest(l, h) \in T /\ \A y \in T : Highest(l, h) >= y
  <2>1. Highest(l, h) = CHOOSE x \in T : \A y \in T : x >= y
    BY DEF Highest, Max
  <2> HIDE DEF T
  <2> QED BY <1>2, <2>1
<1> QED
  BY <1>3

(* The descriptor the kernel hands out is nobody's.                        *)
LEMMA LowestIs ==
    ASSUME NEW k \in [Client -> Record]
    PROVE  /\ Lowest(k) \in 1..(MaxFd + 1)
           /\ \A c \in Client : Lowest(k) # k[c].fd /\ Lowest(k) # k[c].authfd
<1> DEFINE T == (1..(MaxFd + 1)) \ Open(k)
<1>0. MaxFd \in Nat
  BY ConnConstants
<1>1. \A c \in Client : k[c].fd \in 0..MaxFd /\ k[c].authfd \in 0..MaxFd
  BY DEF Record
<1>2. MaxFd + 1 \notin Open(k)
  BY <1>0, <1>1 DEF Open
<1>3. T \in SUBSET Nat /\ T # {}
  BY <1>0, <1>2
<1>4. \E x \in T : \A y \in T : x <= y
  <2> HIDE DEF T
  <2> QED BY <1>3, LeastExists
<1>5. Lowest(k) \in T
  <2>1. Lowest(k) = CHOOSE x \in T : \A y \in T : x <= y
    BY DEF Lowest, Least
  <2> HIDE DEF T
  <2> QED BY <1>4, <2>1
<1> QED
  BY <1>5 DEF Open

\* P holds the states of a loop of m turns from a: turn n leads from t to F[<<n, t>>].
Turns(U, F, a, m, P) ==
    P \in [0..m -> U] /\ P[0] = a /\ \A n \in 1..m : P[n] = F[<<n, P[n - 1]>>]

(* A loop whose body F leads from states in U to states in U has them.     *)
LEMMA LoopExists ==
    ASSUME NEW m \in Nat, NEW U, NEW F \in [(1..m) \X U -> U], NEW a \in U
    PROVE  \E P : Turns(U, F, a, m, P)
<1> DEFINE Goes(n, M) == Turns(U, F, a, n, M)
           T == {n \in Nat : n <= m => \E M : Goes(n, M)}
<1>1. 0 \in T
  <2>1. Goes(0, [i \in 0..0 |-> a])
    BY DEF Turns
  <2> QED BY <2>1
<1>2. ASSUME NEW n \in Nat, n \in T PROVE n + 1 \in T
  <2> SUFFICES ASSUME n + 1 <= m PROVE \E M : Goes(n + 1, M)
    OBVIOUS
  <2>1. PICK M : Goes(n, M)
    BY <1>2
  <2> DEFINE N == [i \in 0..(n + 1) |-> IF i = n + 1 THEN F[<<n + 1, M[n]>>] ELSE M[i]]
  <2>2. n + 1 \in 1..m /\ M[n] \in U
    BY <2>1 DEF Turns
  <2>3. F[<<n + 1, M[n]>>] \in U
    BY <2>2
  <2>4. N \in [0..(n + 1) -> U] /\ N[0] = a
    BY <2>1, <2>3 DEF Turns
  <2>5. ASSUME NEW i \in 1..(n + 1) PROVE N[i] = F[<<i, N[i - 1]>>]
    <3>1. CASE i = n + 1
      <4>1. N[n + 1] = F[<<n + 1, M[n]>>] /\ N[n] = M[n] /\ i - 1 = n
        BY <3>1
      <4> QED BY <3>1, <4>1
    <3>2. CASE i # n + 1
      <4>1. i \in 1..n /\ N[i] = M[i] /\ N[i - 1] = M[i - 1]
        BY <3>2
      <4> QED BY <2>1, <4>1 DEF Turns
    <3> QED BY <3>1, <3>2
  <2>6. Goes(n + 1, N)
    BY <2>4, <2>5 DEF Turns
  <2> HIDE DEF N
  <2> QED BY <2>6
<1> HIDE DEF T
<1>3. \A n \in Nat : n \in T
  BY <1>1, <1>2, SetInduction
<1>4. m \in T
  BY <1>3
<1> QED
  BY <1>4 DEF T

-----------------------------------------------------------------------------
(* Counters.                                                               *)

(* A counter stays when nobody changes sides ...                           *)
LEMMA CountStays ==
    ASSUME NEW k, NEW n, NEW S, \A c \in Client : n[c].st \in S <=> k[c].st \in S
    PROVE  Count(n, S) = Count(k, S)
<1>1. {c \in Client : n[c].st \in S} = {c \in Client : k[c].st \in S}
  OBVIOUS
<1> QED
  BY <1>1 DEF Count

LEMMA CountNat ==
    ASSUME NEW k, NEW S
    PROVE  IsFiniteSet({c \in Client : k[c].st \in S}) /\ Count(k, S) \in Nat
<1>1. {c \in Client : k[c].st \in S} \subseteq Client /\ IsFiniteSet(Client)
  BY ConnConstants
<1>2. IsFiniteSet({c \in Client : k[c].st \in S})
  BY <1>1, FS_Subset
<1> QED
  BY <1>2, FS_CardinalityType DEF Count

(* ... and goes up by one when c comes, which is when it goes down by one  *)
(* seen from the other side.                                               *)
LEMMA CountComes ==
    ASSUME NEW k, NEW n, NEW S, NEW c \in Client, \A d \in Client \ {c} : n[d].st = k[d].st,
           k[c].st \notin S, n[c].st \in S
    PROVE  Count(n, S) = Count(k, S) + 1
<1> DEFINE A == {d \in Client : k[d].st \in S}
           B == {d \in Client : n[d].st \in S}
<1>1. B = A \cup {c} /\ c \notin A
  OBVIOUS
<1>2. IsFiniteSet(A)
  BY CountNat
<1>3. Cardinality(B) = Cardinality(A) + 1
  <2> HIDE DEF A, B
  <2> QED BY <1>1, <1>2, FS_AddElement
<1> QED
  BY <1>3 DEF Count

-----------------------------------------------------------------------------
(* Host entries.                                                           *)

(* Of a list from which an entry is taken the others are left.             *)
LEMMA RemovedIs ==
    ASSUME NEW q \in Seq(Addr), NEW a
    PROVE  /\ RemoveFirst(q, a) \in Seq(Addr)
           /\ \A x \in ToSet(q) : x # a => x \in ToSet(RemoveFirst(q, a))
<1>1. CASE ~\E i \in 1..Len(q) : q[i] = a
  BY <1>1 DEF RemoveFirst
<1>2. CASE \E i \in 1..Len(q) : q[i] = a
  <2> DEFINE I == {i \in 1..Len(q) : q[i] = a}
             at == Min(I)
             u == SubSeq(q, 1, at - 1)
             v == SubSeq(q, at + 1, Len(q))
             r == RemoveFirst(q, a)
  <2>1. I \in SUBSET Nat /\ I # {}
    BY <1>2
  <2>2. at \in I
    <3>1. at = CHOOSE x \in I : \A y \in I : x <= y
      BY DEF Min
    <3>2. \E x \in I : \A y \in I : x <= y
      <4> HIDE DEF I
      <4> QED BY <2>1, LeastExists
    <3> HIDE DEF I, at
    <3> QED BY <3>1, <3>2
  <2>3. r = u \o v
    BY <1>2, <2>1 DEF RemoveFirst, RemoveAt, SelectInSeq
  <2>4. at \in 1..Len(q) /\ q[at] = a
    BY <2>2
  <2> HIDE DEF I, at
  <2>5. /\ u \in Seq(Addr) /\ Len(u) = at - 1 /\ \A i \in 1..(at - 1) : u[i] = q[i]
        /\ v \in Seq(Addr) /\ Len(v) = Len(q) - at /\ \A i \in 1..(Len(q) - at) : v[i] = q[i + at]
    BY <2>4
  <2> HIDE DEF u, v, r
  <2>6. r \in Seq(Addr) /\ Len(r) = Len(q) - 1
    <3>1. r \in Seq(Addr) /\ Len(r) = Len(u) + Len(v)
      BY <2>3, <2>5, ConcatProperties
    <3> QED BY <2>4, <2>5, <3>1
  <2>7. ASSUME NEW x \in ToSet(q), x # a PROVE x \in ToSet(r)
    <3>1. PICK i \in 1..Len(q) : q[i] = x
      BY DEF ToSet
    <3>2. i # at
      BY <2>4, <2>7, <3>1
    <3>3. CASE i < at
      <4>1. i \in 1..Len(r) /\ i <= Len(u)
        BY <2>4, <2>5, <2>6, <3>3
      <4>2. r[i] = u[i]
        BY <2>3, <2>5, <4>1, ConcatProperties
      <4>3. r[i] = x
        BY <2>4, <2>5, <3>1, <3>3, <4>2
      <4> QED BY <2>6, <4>1, <4>3 DEF ToSet
    <3>4. CASE i > at
      <4>1. i - 1 \in 1..Len(r) /\ i - 1 > Len(u) /\ (i - 1) - Len(u) = i - at
        BY <2>4, <2>5, <2>6, <3>4
      <4>2. r[i - 1] = v[i - at]
        BY <2>3, <2>5, <4>1, ConcatProperties
      <4>3. i - at \in 1..(Len(q) - at) /\ (i - at) + at = i
        BY <2>4, <3>4
      <4>4. r[i - 1] = x
        BY <2>5, <3>1, <4>2, <4>3
      <4> QED BY <2>6, <4>1, <4>4 DEF ToSet
    <3> QED BY <2>4, <3>2, <3>3, <3>4
  <2> QED BY <2>6, <2>7 DEF r
<1> QED
  BY <1>1, <1>2

(* update_list loses nobody.                                               *)
LEMMA TouchedIs ==
    ASSUME NEW q \in Seq(Addr), NEW a \in Addr
    PROVE  /\ Touched(q, a) \in Seq(Addr) /\ Len(Touched(q, a)) >= 1 /\ Touched(q, a)[1] = a
           /\ \A x \in ToSet(q) : x \in ToSet(Touched(q, a))
           /\ a \in ToSet(Touched(q, a))
<1> DEFINE r == RemoveFirst(q, a)
           t == Touched(q, a)
<1>1. r \in Seq(Addr) /\ \A x \in ToSet(q) : x # a => x \in ToSet(r)
  BY RemovedIs
<1>2. t = <<a>> \o r
  BY DEF Touched
<1> HIDE DEF r, t
<1>3. /\ t \in Seq(Addr) /\ Len(t) = Len(r) + 1 /\ t[1] = a
      /\ \A i \in 1..Len(r) : t[i + 1] = r[i]
  <2>1. <<a>> \in Seq(Addr) /\ Len(<<a>>) = 1 /\ <<a>>[1] = a
    OBVIOUS
  <2>2. t \in Seq(Addr) /\ Len(t) = 1 + Len(r)
    BY <1>1, <1>2, <2>1, ConcatProperties
  <2>3. t[1] = a
    BY <1>1, <1>2, <2>1, <2>2, ConcatProperties
  <2>4. ASSUME NEW i \in 1..Len(r) PROVE t[i + 1] = r[i]
    BY <1>1, <1>2, <2>1, <2>2, ConcatProperties
  <2> QED BY <1>1, <2>2, <2>3, <2>4
<1>4. a \in ToSet(t)
  BY <1>1, <1>3 DEF ToSet
<1>5. ASSUME NEW x \in ToSet(q), x # a PROVE x \in ToSet(t)
  <2>0. x \in ToSet(r)
    BY <1>1, <1>5
  <2>1. PICK i \in 1..Len(r) : r[i] = x
    BY <1>1, <2>0 DEF ToSet
  <2>2. i + 1 \in 1..Len(t) /\ t[i + 1] = x
    BY <1>1, <1>3, <2>1
  <2> QED BY <1>3, <2>2 DEF ToSet
<1>6. Len(t) >= 1
  BY <1>1, <1>3
<1> QED
  BY <1>3, <1>4, <1>5, <1>6 DEF t

(* add_to_cache lets go of at most the last entry, which is not the first. *)
LEMMA TrimmedIs ==
    ASSUME NEW q \in Seq(Addr), Len(q) >= 1
    PROVE  /\ Trimmed(q) \in Seq(Addr) /\ q[1] \in ToSet(Trimmed(q))
           /\ Evicted(q) = {} => Trimmed(q) = q
           /\ \A y : y \in Evicted(q) =>
                /\ Evicted(q) = {y}
                /\ \A x \in ToSet(q) : x # y => x \in ToSet(Trimmed(q))
<1>0. MaxCached \in Nat \ {0} /\ Len(q) \in Nat
  BY ConnConstants
<1>1. CASE Len(q) <= MaxCached
  BY <1>0, <1>1 DEF Trimmed, Evicted, ToSet
<1>2. CASE Len(q) > MaxCached
  <2> DEFINE t == Trimmed(q)
  <2>1. t = SubSeq(q, 1, Len(q) - 1) /\ Evicted(q) = {q[Len(q)]}
    BY <1>2 DEF Trimmed, Evicted, Front, Last
  <2> HIDE DEF t
  <2>2. t \in Seq(Addr) /\ Len(t) = Len(q) - 1 /\ \A i \in 1..(Len(q) - 1) : t[i] = q[i]
    BY <1>0, <1>2, <2>1
  <2>3. q[1] \in ToSet(t)
    BY <1>0, <1>2, <2>2 DEF ToSet
  <2>4. ASSUME NEW x \in ToSet(q), x # q[Len(q)] PROVE x \in ToSet(t)
    <3>1. PICK i \in 1..Len(q) : q[i] = x
      BY DEF ToSet
    <3>2. i \in 1..(Len(q) - 1)
      BY <1>0, <2>4, <3>1
    <3> QED BY <2>2, <3>1, <3>2 DEF ToSet
  <2> QED BY <2>1, <2>2, <2>3, <2>4 DEF t
<1> QED
  BY <1>0, <1>1, <1>2

-----------------------------------------------------------------------------
(* The record of one connection.                                           *)

LEMMA GoneFine == Gone \in Record /\ Fine(Gone) /\ Gone.st = None
<1>1. Gone \in Record
  BY ConnConstants DEF Gone, Record, None
<1> QED
  BY <1>1 DEF Gone, Fine, Waiting, Unknown, None

(* What is read puts the timer off.                                        *)
LEMMA HeardFine ==
    ASSUME NEW x \in Record, x.st # None, Fine(x)
    PROVE  /\ Heard(x) \in Record /\ Fine(Heard(x))
           /\ \A f \in {"st", "fd", "authfd", "dns", "auth", "hostp", "dead", "step", "in"} : Heard(x)[f] = x[f]
<1>1. Heard(x) \in Record
  <2>1. 0 \in 0..2 /\ 1 \in 0..1 /\ 0 \in 0..3
    OBVIOUS
  <2>2. [x EXCEPT !.age = 0, !.check = 1] \in Record
    BY <2>1 DEF Record
  <2>3. \A y \in Record : [y EXCEPT !.pinged = FALSE, !.waited = 0] \in Record
    BY <2>1 DEF Record
  <2>4. Heard(x) = [[x EXCEPT !.age = 0, !.check = 1] EXCEPT !.pinged = FALSE, !.waited = 0]
    BY DEF Heard
  <2> QED BY <2>2, <2>3, <2>4
<1>2. \A f \in {"st", "fd", "authfd", "dns", "auth", "hostp", "dead", "step", "in"} : Heard(x)[f] = x[f]
  BY DEF Heard, Record
<1>3. Fine(Heard(x))
  BY <1>2 DEF Heard, Record, Fine, Patient, Waiting
<1> QED
  BY <1>1, <1>2, <1>3

(* The end of a look-up.                                                   *)
LEMMA NoDnsFine ==
    ASSUME NEW x \in Record, x.st # None, Fine(x), NEW h \in Addr \cup {None}
    PROVE  LET y == [NoDns(x) EXCEPT !.hostp = h]
           IN  /\ y \in Record /\ Fine(y) /\ y.hostp = h
               /\ \A f \in {"st", "fd", "authfd", "auth", "dead", "step"} : y[f] = x[f]
<1> DEFINE y == [NoDns(x) EXCEPT !.hostp = h]
<1>1. y \in Record
  BY DEF NoDns, SetAccess, Record
<1>2. /\ y.hostp = h
      /\ \A f \in {"st", "fd", "authfd", "auth", "dead", "step", "waited", "check", "life"} : y[f] = x[f]
  BY DEF NoDns, SetAccess, Record
<1>3. y.dns = FALSE
  BY DEF NoDns, SetAccess, Record
<1>4. Fine(y)
  <2> HIDE DEF y
  <2> QED BY <1>1, <1>2, <1>3 DEF Record, Fine, Patient, Waiting
<1> QED
  BY <1>1, <1>2, <1>4

(* Fields that Fine does not speak of may change.                          *)
LEMMA AlikeFine ==
    ASSUME NEW x \in Record, x.st # None, Fine(x), NEW y \in Record,
           \A f \in {"st", "authfd", "dns", "auth", "dead", "waited", "check", "life"} : y[f] = x[f]
    PROVE  Fine(y)
<1>1. /\ y.st = x.st /\ y.authfd = x.authfd /\ y.dns = x.dns /\ y.auth = x.auth
      /\ y.dead = x.dead /\ y.waited = x.waited /\ y.check = x.check /\ y.life = x.life
  OBVIOUS
<1> QED
  BY <1>1 DEF Fine, Patient, Waiting

(* The end of an ident query.                                              *)
LEMMA NoAuthFine ==
    ASSUME NEW x \in Record, x.st # None, Fine(x)
    PROVE  /\ NoAuth(x) \in Record /\ Fine(NoAuth(x)) /\ NoAuth(x).authfd = 0
           /\ \A f \in {"st", "fd", "dns", "hostp", "dead", "step", "half", "torn"} : NoAuth(x)[f] = x[f]
<1> DEFINE y == NoAuth(x)
<1>1. y \in Record
  <2>1. 0 \in 0..MaxFd
    BY ConnConstants
  <2>2. [x EXCEPT !.auth = "no", !.authfd = 0] \in Record
    BY <2>1 DEF Record
  <2>3. \A z \in Record : SetAccess(z) \in Record
    BY DEF SetAccess, Record
  <2> QED BY <2>2, <2>3 DEF NoAuth
<1>2. /\ y.auth = "no" /\ y.authfd = 0
      /\ \A f \in {"st", "fd", "dns", "hostp", "dead", "step", "half", "torn", "waited", "check", "life"} : y[f] = x[f]
  BY DEF NoAuth, SetAccess, Record
<1>3. Fine(y)
  <2> HIDE DEF y
  <2> QED BY <1>1, <1>2 DEF Record, Fine, Patient, Waiting
<1> QED
  BY <1>1, <1>2, <1>3

-----------------------------------------------------------------------------
(* The tables.                                                             *)

(* Tables whose descriptors are those of s, ident queries given up apart.  *)
LEMMA SameFds ==
    ASSUME NEW s, FdsOK(s), NEW t \in Tables, t.loc = s.loc, t.high = s.high, t.ev = s.ev,
           \A c \in Client : /\ Fine(t.cl[c]) /\ t.cl[c].fd = s.cl[c].fd
                             /\ t.cl[c].authfd \in {0, s.cl[c].authfd}
                             /\ t.cl[c].st = None <=> s.cl[c].st = None
    PROVE  FdsOK(t)
<1>1. \A c \in Client : t.cl[c].st # None => Placed(t, c)
  BY DEF FdsOK, Placed
<1>2. ASSUME NEW f \in Fd, t.loc[f] # None PROVE t.cl[t.loc[f]].fd = f
  <2>1. t.loc[f] \in Client
    BY <1>2 DEF Tables
  <2> QED BY <1>2, <2>1 DEF FdsOK
<1> QED
  BY <1>1, <1>2 DEF FdsOK

(* ... and whose counters are.                                             *)
LEMMA SameCounts ==
    ASSUME NEW s, CountsOK(s), NEW t, t.nr = s.nr,
           \A c \in Client : \A S \in {Unknown, {"user"}, {"server"}} : t.cl[c].st \in S <=> s.cl[c].st \in S
    PROVE  CountsOK(t)
<1>1. \A S \in {Unknown, {"user"}, {"server"}} : Count(t.cl, S) = Count(s.cl, S)
  BY CountStays
<1> QED
  BY <1>1 DEF CountsOK

\* t may follow s: it is sound, nobody has got a host entry, and nobody has come on line
\* under a G-line.
Leads(s, t) ==
    /\ Sound(t)
    /\ \A d \in Client : /\ t.cl[d].hostp \in {None, s.cl[d].hostp}
                         /\ t.cl[d].st = "user" => s.cl[d].st = "user" \/ Home[d] \notin gline

LEMMA LeadsOn ==
    ASSUME NEW s, NEW t, NEW u, Leads(s, t), Leads(t, u) PROVE Leads(s, u)
  BY DEF Leads

LEMMA LeadsSelf ==
    ASSUME NEW s, Sound(s) PROVE Leads(s, s)
  BY DEF Leads

\* y may take the place of x.
Replaces(y, x) ==
    /\ y \in Record /\ Fine(y) /\ y.st # None
    /\ y.fd = x.fd /\ y.authfd \in {0, x.authfd} /\ y.hostp \in {None, x.hostp}

Counters == [unknowns : Nat, users : Nat, servers : Nat]

\* t is s with record y of connection c, requests r and counters n.
IsPut(t, s, c, y, r, n) ==
    /\ t \in Tables /\ t.loc = s.loc /\ t.high = s.high /\ t.ev = s.ev /\ t.req = r /\ t.nr = n
    /\ t.cl[c] = y /\ \A d \in Client : d # c => t.cl[d] = s.cl[d]

LEMMA PutIs ==
    ASSUME NEW s \in Tables, NEW c \in Client, NEW y \in Record
    PROVE  IsPut([s EXCEPT !.cl[c] = y], s, c, y, s.req, s.nr)
<1> DEFINE k == [s.cl EXCEPT ![c] = y]
           t == [s EXCEPT !.cl[c] = y]
<1>1. k \in [Client -> Record] /\ k[c] = y /\ \A d \in Client : d # c => k[d] = s.cl[d]
  BY DEF Tables
<1>2. t.cl = k /\ t.loc = s.loc /\ t.high = s.high /\ t.ev = s.ev /\ t.req = s.req /\ t.nr = s.nr
  BY DEF Tables
<1>3. t \in Tables
  BY DEF Tables
<1> HIDE DEF k, t
<1> QED
  BY <1>1, <1>2, <1>3 DEF IsPut, t

(* The record of one connection is rewritten, and it stays in its class.   *)
LEMMA Rewrites ==
    ASSUME NEW s, Sound(s), NEW c \in Client, s.cl[c].st # None,
           NEW y, Replaces(y, s.cl[c]), NEW r, r = s.req \/ r = del_queries(s.req, c),
           (y.dns <=> s.cl[c].dns) \/ r = del_queries(s.req, c),
           \A S \in {Unknown, {"user"}, {"server"}} : y.st \in S <=> s.cl[c].st \in S,
           NEW t, IsPut(t, s, c, y, r, s.nr)
    PROVE  Leads(s, t)
<1> DEFINE k == t.cl
<1>1. s \in Tables /\ y \in Record /\ s.nr \in Counters
  BY DEF Sound, FdsOK, Tables, Replaces, Counters
<1>2. r \subseteq s.req
  BY DEF del_queries
<1>3. /\ t \in Tables /\ t.loc = s.loc /\ t.high = s.high /\ t.ev = s.ev /\ t.req = r /\ t.nr = s.nr
      /\ k[c] = y /\ \A d \in Client : d # c => k[d] = s.cl[d]
  BY DEF IsPut
<1>4. FdsOK(t)
  <2>1. \A d \in Client : /\ Fine(k[d]) /\ k[d].fd = s.cl[d].fd
                          /\ k[d].authfd \in {0, s.cl[d].authfd}
                          /\ k[d].st = None <=> s.cl[d].st = None
    BY <1>3 DEF Sound, FdsOK, Replaces
  <2> QED BY <1>3, <2>1, SameFds DEF Sound
<1>5. CountsOK(t)
  <2>1. \A d \in Client : \A S \in {Unknown, {"user"}, {"server"}} : k[d].st \in S <=> s.cl[d].st \in S
    BY <1>3
  <2> QED BY <1>3, <2>1, SameCounts DEF Sound
<1>6. ReqsOK(t)
  <2>1. ASSUME NEW q \in r PROVE k[q.c].st # None /\ k[q.c].dns
    <3>1. q \in s.req /\ q.c \in Client
      BY <1>1, <1>2 DEF Tables
    <3>2. s.cl[q.c].st # None /\ s.cl[q.c].dns
      BY <3>1 DEF Sound, ReqsOK
    <3>3. CASE q.c # c
      BY <1>3, <3>1, <3>2, <3>3
    <3>4. CASE q.c = c
      <4>1. y.dns <=> s.cl[c].dns
        BY <2>1, <3>4 DEF del_queries
      <4> QED BY <1>3, <3>2, <3>4, <4>1 DEF Replaces
    <3> QED BY <3>3, <3>4
  <2>2. \A q, p \in r : q.c = p.c => q = p
    BY <1>2 DEF Sound, ReqsOK
  <2> QED BY <1>3, <2>1, <2>2 DEF ReqsOK
<1>7. ASSUME NEW d \in Client
      PROVE  k[d].hostp \in {None, s.cl[d].hostp} /\ (k[d].st = "user" => s.cl[d].st = "user")
  <2>1. y.st = "user" => s.cl[c].st = "user"
    OBVIOUS
  <2> QED BY <1>3, <2>1 DEF Replaces
<1> QED
  BY <1>4, <1>5, <1>6, <1>7 DEF Leads, Sound

LEMMA Counted ==
    ASSUME NEW s, Sound(s), NEW c \in Client, s.cl[c].st \in Unknown
    PROVE  s.nr \in Counters /\ s.nr.unknowns = Count(s.cl, Unknown) /\ Count(s.cl, Unknown) > 0
<1>1. c \in {d \in Client : s.cl[d].st \in Unknown} /\ IsFiniteSet({d \in Client : s.cl[d].st \in Unknown})
  BY CountNat
<1>2. Count(s.cl, Unknown) # 0
  BY <1>1, FS_EmptySet DEF Count
<1>3. Count(s.cl, Unknown) \in Nat
  BY CountNat
<1> QED
  BY <1>2, <1>3 DEF Sound, CountsOK, FdsOK, Tables, Counters

LEMMA PromotedPut ==
    ASSUME NEW s, Sound(s), NEW c \in Client, s.cl[c].st \in Unknown, NEW y \in Record, NEW st \in Registered
    PROVE  IsPut([s EXCEPT !.cl[c] = y, !.nr = Promoted(s.nr, st)], s, c, y, s.req, Promoted(s.nr, st))
<1> DEFINE n == Promoted(s.nr, st)
           k == [s.cl EXCEPT ![c] = y]
           t == [s EXCEPT !.cl[c] = y, !.nr = n]
<1>1. s.nr \in Counters /\ s.nr.unknowns > 0
  BY Counted
<1>2. n \in Counters
  <2>1. s.nr.unknowns - 1 \in Nat /\ s.nr.users + 1 \in Nat /\ s.nr.servers + 1 \in Nat
    BY <1>1 DEF Counters
  <2> QED BY <1>1, <2>1 DEF Counters, Promoted
<1>3. s \in Tables
  BY DEF Sound, FdsOK
<1> HIDE DEF n
<1>4. k \in [Client -> Record] /\ k[c] = y /\ \A d \in Client : d # c => k[d] = s.cl[d]
  BY <1>3 DEF Tables
<1>5. t.cl = k /\ t.loc = s.loc /\ t.high = s.high /\ t.ev = s.ev /\ t.req = s.req /\ t.nr = n
  BY <1>3 DEF Tables
<1>6. t \in Tables
  BY <1>2, <1>3 DEF Tables, Counters
<1> HIDE DEF k, t
<1> QED
  BY <1>4, <1>5, <1>6 DEF IsPut, t, n

(* ... or it registers.                                                    *)
LEMMA Promotes ==
    ASSUME NEW s, Sound(s), NEW c \in Client, s.cl[c].st \in Unknown,
           NEW y, Replaces(y, s.cl[c]), y.dns <=> s.cl[c].dns, NEW n,
           y.st \in Registered, y.st = "user" => Home[c] \notin gline, n = Promoted(s.nr, y.st),
           NEW t, IsPut(t, s, c, y, s.req, n)
    PROVE  Leads(s, t)
<1> DEFINE k == t.cl
<1>1. s \in Tables /\ y \in Record /\ s.nr \in Counters /\ s.cl[c].st # None
  BY DEF Sound, FdsOK, Tables, Replaces, Counters, Unknown, None
<1>2. /\ s.nr.unknowns = Count(s.cl, Unknown) /\ s.nr.users = Count(s.cl, {"user"})
      /\ s.nr.servers = Count(s.cl, {"server"})
  BY DEF Sound, CountsOK
<1>3. s.cl[c].st \notin {"user"} /\ s.cl[c].st \notin {"server"} /\ y.st \notin Unknown
  BY DEF Unknown, Registered
<1>4. /\ s.nr.unknowns \in Nat /\ s.nr.users \in Nat /\ s.nr.servers \in Nat
      /\ s.nr.unknowns # 0
  BY <1>2, Counted DEF Counters
<1>6. /\ t \in Tables /\ t.loc = s.loc /\ t.high = s.high /\ t.ev = s.ev /\ t.req = s.req /\ t.nr = n
      /\ k[c] = y /\ \A d \in Client : d # c => k[d] = s.cl[d]
  BY DEF IsPut
<1>7. FdsOK(t)
  <2>1. \A d \in Client : /\ Fine(k[d]) /\ k[d].fd = s.cl[d].fd
                          /\ k[d].authfd \in {0, s.cl[d].authfd}
                          /\ k[d].st = None <=> s.cl[d].st = None
    BY <1>1, <1>6 DEF Sound, FdsOK, Replaces
  <2> QED BY <1>6, <2>1, SameFds DEF Sound
<1>8. ReqsOK(t)
  <2>1. \A q \in s.req : q.c \in Client
    BY <1>1 DEF Tables
  <2>2. \A q \in s.req : k[q.c].st # None /\ k[q.c].dns
    BY <1>1, <1>6, <2>1 DEF Sound, ReqsOK, Replaces
  <2> QED BY <1>6, <2>2 DEF Sound, ReqsOK
<1>9. Count(s.cl, Unknown) = Count(k, Unknown) + 1 /\ Count(k, Unknown) \in Nat
  <2>1. k[c].st \notin Unknown /\ \A d \in Client \ {c} : s.cl[d].st = k[d].st
    BY <1>3, <1>6
  <2> HIDE DEF k
  <2>2. Count(s.cl, Unknown) = Count(k, Unknown) + 1
    BY ONLY <2>1, CountComes, c \in Client, s.cl[c].st \in Unknown
  <2> QED BY <2>2, CountNat
<1>10. ASSUME NEW S, s.cl[c].st \notin S
       PROVE  Count(k, S) = IF y.st \in S THEN Count(s.cl, S) + 1 ELSE Count(s.cl, S)
  <2>1. k[c].st = y.st /\ \A d \in Client \ {c} : k[d].st = s.cl[d].st
    BY <1>6
  <2> HIDE DEF k
  <2>2. CASE y.st \in S
    <3>1. Count(k, S) = Count(s.cl, S) + 1
      BY ONLY <1>10, <2>1, <2>2, CountComes, c \in Client
    <3> QED BY <2>2, <3>1
  <2>3. CASE y.st \notin S
    <3>1. \A d \in Client : k[d].st \in S <=> s.cl[d].st \in S
      BY <1>10, <2>1, <2>3
    <3> QED BY <2>3, <3>1, CountStays
  <2> QED BY <2>2, <2>3
<1>11. /\ Count(k, {"user"}) = IF y.st = "user" THEN s.nr.users + 1 ELSE s.nr.users
       /\ Count(k, {"server"}) = IF y.st = "server" THEN s.nr.servers + 1 ELSE s.nr.servers
  BY <1>2, <1>3, <1>10
<1>12. CountsOK(t)
  <2> HIDE DEF k
  <2>1. Count(k, Unknown) = s.nr.unknowns - 1
    BY <1>2, <1>4, <1>9
  <2>2. /\ n.unknowns = Count(k, Unknown) /\ n.users = Count(k, {"user"}) /\ n.servers = Count(k, {"server"})
    BY <1>1, <1>4, <1>11, <2>1 DEF Counters, Promoted, Registered
  <2> QED BY <1>6, <2>2 DEF CountsOK, k
<1>13. ASSUME NEW d \in Client
       PROVE  /\ k[d].hostp \in {None, s.cl[d].hostp}
              /\ k[d].st = "user" => s.cl[d].st = "user" \/ Home[d] \notin gline
  BY <1>6 DEF Replaces
<1> QED
  BY <1>7, <1>8, <1>12, <1>13 DEF Leads, Sound

-----------------------------------------------------------------------------
(* Leaving.                                                                *)

\* t is s without connection c: another may have its descriptor, if that was higher.
Without(s, c, t) ==
    /\ t.cl[c] = Gone /\ t.req = del_queries(s.req, c)
    /\ \A d \in Client \ {c} :
         /\ t.cl[d] = s.cl[d] \/ /\ t.cl[d] = [s.cl[d] EXCEPT !.fd = s.cl[c].fd]
                                 /\ s.cl[d].fd > s.cl[c].fd
         /\ t.cl[d].st = s.cl[d].st

LEMMA EventsDiffer ==
    ASSUME NEW c \in Client, NEW d \in Client
    PROVE  /\ <<c, "conn">> # <<d, "auth">> /\ <<c, "conn">> # NoEvent /\ <<c, "auth">> # NoEvent
           /\ c # d => <<c, "conn">> # <<d, "conn">> /\ <<c, "auth">> # <<d, "auth">>
  BY DEF NoEvent, None

LEMMA PlacedIs ==
    ASSUME NEW s, FdsOK(s), NEW c \in Client, s.cl[c].st # None
    PROVE  /\ s \in Tables /\ s.high \in Nat /\ s.cl[c] \in Record /\ c # None
           /\ s.cl[c].fd \in Fd /\ s.cl[c].fd \in 1..s.high
           /\ s.loc[s.cl[c].fd] = c /\ s.ev[s.cl[c].fd] = <<c, "conn">>
           /\ s.cl[c].authfd # 0 => /\ s.cl[c].authfd \in Fd
                                    /\ s.loc[s.cl[c].authfd] = None /\ s.ev[s.cl[c].authfd] = <<c, "auth">>
<1>1. s \in Tables /\ Placed(s, c)
  BY DEF FdsOK
<1>2. MaxFd \in Nat /\ s.high \in 0..MaxFd /\ s.cl[c] \in Record /\ c # None
  BY <1>1, ConnConstants DEF Tables
<1>3. s.cl[c].fd \in 0..MaxFd /\ s.cl[c].authfd \in 0..MaxFd
  BY <1>2 DEF Record
<1> QED
  BY <1>1, <1>2, <1>3 DEF Placed, Fd

(* close_connection when nobody is above: c leaves a hole.                 *)
LEMMA HoleKeeps ==
    ASSUME NEW s, FdsOK(s), NEW c \in Client, s.cl[c].st # None, NEW t \in Tables,
           t.cl = [s.cl EXCEPT ![c] = Gone],
           t.loc = [s.loc EXCEPT ![s.cl[c].fd] = None], t.high = Highest(t.loc, s.high),
           t.ev = [g \in Fd |-> IF s.ev[g][1] = c THEN NoEvent ELSE s.ev[g]]
    PROVE  FdsOK(t)
<1> DEFINE f == s.cl[c].fd
<1>1. s \in Tables /\ f \in Fd /\ s.high \in Nat
  BY PlacedIs
<1>2. Gone \in Record /\ Fine(Gone) /\ Gone.st = None
  BY GoneFine
<1>3. /\ \A g \in Fd : t.loc[g] = IF g = f THEN None ELSE s.loc[g]
      /\ \A d \in Client : t.cl[d] = IF d = c THEN Gone ELSE s.cl[d]
      /\ \A g \in Fd : t.ev[g] = IF s.ev[g][1] = c THEN NoEvent ELSE s.ev[g]
  BY <1>1 DEF Tables
<1>4. t.high \in Nat /\ \A g \in 1..s.high : t.loc[g] # None => g \in 1..t.high
  <2>1. /\ Highest(t.loc, s.high) \in 0..s.high
        /\ \A g \in 1..s.high : t.loc[g] # None => g <= Highest(t.loc, s.high)
    BY ONLY <1>1, HighestIs
  <2>2. t.high \in 0..s.high /\ \A g \in 1..s.high : t.loc[g] # None => g <= t.high
    BY <2>1
  <2> QED BY <1>1, <2>2
<1>5. ASSUME NEW d \in Client, t.cl[d].st # None PROVE Placed(t, d)
  <2>1. d # c /\ t.cl[d] = s.cl[d] /\ Placed(s, d)
    BY <1>2, <1>3, <1>5 DEF FdsOK
  <2>2. s.cl[d].fd \in Fd /\ s.loc[s.cl[d].fd] = d /\ d # None
    <3>1. s.cl[d].st # None
      BY <1>5, <2>1
    <3> QED BY <3>1, PlacedIs
  <2>3. s.cl[d].fd # f
    BY <2>1, <2>2 DEF FdsOK, Placed
  <2>4. t.loc[s.cl[d].fd] = d /\ s.cl[d].fd \in 1..t.high
    BY <1>3, <1>4, <2>1, <2>2, <2>3 DEF Placed
  <2>5. t.ev[s.cl[d].fd] = <<d, "conn">>
    BY <1>3, <2>1, <2>2 DEF Placed
  <2>6. ASSUME s.cl[d].authfd # 0
        PROVE  t.loc[s.cl[d].authfd] = None /\ t.ev[s.cl[d].authfd] = <<d, "auth">>
    <3>1. s.cl[d].authfd \in Fd
      BY <1>5, <2>1, <2>6, PlacedIs
    <3> QED BY <1>3, <2>1, <2>6, <3>1 DEF Placed
  <2> QED BY <2>1, <2>4, <2>5, <2>6 DEF Placed
<1>6. ASSUME NEW g \in Fd, t.loc[g] # None PROVE t.cl[t.loc[g]].fd = g
  <2>1. g # f /\ t.loc[g] = s.loc[g] /\ s.loc[g] \in Client /\ s.cl[s.loc[g]].fd = g
    BY <1>1, <1>3, <1>6 DEF FdsOK, Tables
  <2>2. s.loc[g] # c
    BY <2>1
  <2> QED BY <1>3, <2>1, <2>2
<1>7. \A d \in Client : Fine(t.cl[d])
  BY <1>2, <1>3 DEF FdsOK
<1> QED
  BY <1>5, <1>6, <1>7 DEF FdsOK

(* ... and when the one at the top moves into it.                          *)
LEMMA MoveKeeps ==
    ASSUME NEW s, FdsOK(s), NEW f \in Fd, s.loc[f] = None, s.ev[f] = NoEvent,
           s.high > f, s.loc[s.high] # None, NEW t \in Tables,
           \A d \in Client : t.cl[d] = IF d = s.loc[s.high] THEN [s.cl[d] EXCEPT !.fd = f] ELSE s.cl[d],
           t.loc = [s.loc EXCEPT ![f] = s.loc[s.high], ![s.high] = None],
           t.high = Highest(t.loc, s.high),
           t.ev = [s.ev EXCEPT ![s.high] = NoEvent, ![f] = <<s.loc[s.high], "conn">>]
    PROVE  FdsOK(t)
<1> DEFINE h == s.high
           m == s.loc[h]
<1>1. s \in Tables /\ h \in Fd /\ m \in Client /\ s.cl[m].fd = h /\ f # h
  <2>1. s \in Tables /\ h \in Fd /\ f # h
    BY DEF FdsOK, Tables, Fd
  <2> QED BY <2>1 DEF FdsOK, Tables
<1>2. m # None /\ s.cl[m] \in Record /\ s.cl[m].st # None /\ Placed(s, m)
  <2>1. m # None /\ s.cl[m] \in Record /\ Fine(s.cl[m])
    BY <1>1, ConnConstants DEF FdsOK, Tables
  <2>2. Gone.fd = 0 /\ 0 \notin Fd
    BY DEF Gone, Fd
  <2>3. s.cl[m].st # None
    BY <1>1, <2>1, <2>2 DEF Fine
  <2> QED BY <1>1, <2>1, <2>3 DEF FdsOK
<1>3. /\ \A g \in Fd : t.loc[g] = IF g = h THEN None ELSE IF g = f THEN m ELSE s.loc[g]
      /\ \A g \in Fd : t.ev[g] = IF g = f THEN <<m, "conn">> ELSE IF g = h THEN NoEvent ELSE s.ev[g]
  BY <1>1 DEF Tables
<1>4. t.high \in Nat /\ \A g \in 1..h : t.loc[g] # None => g \in 1..t.high
  <2>1. h \in Nat
    BY <1>1 DEF Fd
  <2>2. /\ Highest(t.loc, s.high) \in 0..h
        /\ \A g \in 1..h : t.loc[g] # None => g <= Highest(t.loc, s.high)
    BY ONLY <2>1, HighestIs
  <2>3. t.high \in 0..h /\ \A g \in 1..h : t.loc[g] # None => g <= t.high
    BY <2>2
  <2> QED BY <2>1, <2>3
<1> DEFINE y == [s.cl[m] EXCEPT !.fd = f]
<1>5. /\ t.cl[m] = y /\ y.fd = f
      /\ \A i \in {"st", "authfd", "dns", "auth", "dead", "waited", "check", "life"} : y[i] = s.cl[m][i]
  BY <1>1, <1>2 DEF Record
<1>6. y \in Record
  BY <1>2 DEF Record, Fd
<1>7. Fine(y)
  <2> HIDE DEF y
  <2>1. Fine(s.cl[m])
    BY <1>1 DEF FdsOK
  <2> QED BY <1>2, <1>5, <1>6, <2>1, AlikeFine
<1> HIDE DEF y
<1>8. ASSUME NEW d \in Client, t.cl[d].st # None PROVE Placed(t, d)
  <2>0. f \in 1..h
    BY <1>1 DEF Fd
  <2>1. CASE d = m
    <3>1. t.loc[f] = m /\ f \in 1..t.high /\ t.ev[f] = <<m, "conn">>
      BY <1>1, <1>2, <1>3, <1>4, <2>0
    <3>2. ASSUME y.authfd # 0 PROVE t.loc[y.authfd] = None /\ t.ev[y.authfd] = <<m, "auth">>
      <4>1. y.authfd = s.cl[m].authfd /\ y.authfd \in Fd
        BY <1>5, <1>6, <3>2, ConnConstants DEF Record, Fd
      <4>2. s.loc[y.authfd] = None /\ s.ev[y.authfd] = <<m, "auth">>
        BY <1>2, <3>2, <4>1 DEF Placed
      <4>3. y.authfd # h /\ y.authfd # f
        <5>1. s.ev[h] = <<m, "conn">>
          BY <1>1, <1>2 DEF Placed
        <5> QED BY <1>1, <4>2, <5>1, EventsDiffer
      <4> QED BY <1>3, <4>1, <4>2, <4>3
    <3> QED BY <1>5, <2>1, <3>1, <3>2 DEF Placed
  <2>2. CASE d # m
    <3>1. t.cl[d] = s.cl[d] /\ Placed(s, d) /\ s.cl[d] \in Record
      BY <1>1, <1>8, <2>2 DEF FdsOK, Tables
    <3>2. s.cl[d].fd \in 1..h /\ s.cl[d].fd \in Fd /\ s.loc[s.cl[d].fd] = d /\ d # None
      BY <1>1, <3>1, ConnConstants DEF Placed, Record, Fd
    <3>3. s.cl[d].fd # f /\ s.cl[d].fd # h
      BY <2>2, <3>1, <3>2 DEF Placed
    <3>4. t.loc[s.cl[d].fd] = d /\ t.ev[s.cl[d].fd] = <<d, "conn">>
      BY <1>3, <3>1, <3>2, <3>3 DEF Placed
    <3>5. s.cl[d].fd \in 1..t.high
      BY <1>4, <3>2, <3>4
    <3>6. ASSUME s.cl[d].authfd # 0
          PROVE  t.loc[s.cl[d].authfd] = None /\ t.ev[s.cl[d].authfd] = <<d, "auth">>
      <4>1. s.cl[d].authfd \in Fd
        BY <3>1, <3>6, ConnConstants DEF Record, Fd
      <4>2. s.loc[s.cl[d].authfd] = None /\ s.ev[s.cl[d].authfd] = <<d, "auth">>
        BY <3>1, <3>6 DEF Placed
      <4>3. s.cl[d].authfd # h /\ s.cl[d].authfd # f
        <5>1. s.ev[h] = <<m, "conn">>
          BY <1>1, <1>2 DEF Placed
        <5> QED BY <1>1, <4>2, <5>1, EventsDiffer
      <4> QED BY <1>3, <4>1, <4>2, <4>3
    <3> QED BY <3>1, <3>4, <3>5, <3>6 DEF Placed
  <2> QED BY <2>1, <2>2
<1>9. ASSUME NEW g \in Fd, t.loc[g] # None PROVE t.cl[t.loc[g]].fd = g
  <2>1. CASE g = f
    BY <1>1, <1>3, <1>5, <2>1
  <2>2. CASE g # f
    <3>1. g # h /\ t.loc[g] = s.loc[g] /\ s.loc[g] \in Client /\ s.cl[s.loc[g]].fd = g
      BY <1>1, <1>3, <1>9, <2>2 DEF FdsOK, Tables
    <3>2. s.loc[g] # m
      BY <1>1, <3>1
    <3> QED BY <3>1, <3>2
  <2> QED BY <2>1, <2>2
<1>10. \A d \in Client : Fine(t.cl[d])
  BY <1>1, <1>5, <1>7 DEF FdsOK
<1> QED
  BY <1>8, <1>9, <1>10 DEF FdsOK

(* close_connection.                                                       *)
LEMMA CloseKeeps ==
    ASSUME NEW s, FdsOK(s), NEW c \in Client, s.cl[c].st # None
    PROVE  FdsOK(close_connection(s, c)) /\ Without(s, c, close_connection(s, c))
           /\ close_connection(s, c).nr = s.nr
<1> DEFINE f == s.cl[c].fd
           loc1 == [s.loc EXCEPT ![f] = None]
           h == Highest(loc1, s.high)
           m == IF h > f THEN loc1[h] ELSE None
           ev1 == [g \in Fd |-> IF s.ev[g][1] = c THEN NoEvent ELSE s.ev[g]]
           kept == [s EXCEPT !.cl[c] = Gone, !.loc = loc1, !.high = h, !.ev = ev1,
                             !.req = del_queries(@, c)]
           loc2 == [loc1 EXCEPT ![f] = m, ![h] = None]
           ev2 == [ev1 EXCEPT ![h] = NoEvent, ![f] = <<m, "conn">>]
           h2 == Highest(loc2, h)
           moved == [kept EXCEPT !.cl[m].fd = f, !.loc = loc2, !.high = h2, !.ev = ev2]
<1>1. close_connection(s, c) = IF m = None THEN kept ELSE moved
  BY DEF close_connection
<1>2. s \in Tables /\ f \in Fd /\ s.high \in 0..MaxFd /\ MaxFd \in Nat /\ s.ev[f] = <<c, "conn">>
  BY PlacedIs, ConnConstants DEF Tables, FdsOK
<1>3. Gone \in Record /\ Gone.st = None
  BY GoneFine
<1>4. loc1 \in [Fd -> Client \cup {None}] /\ loc1[f] = None
  BY <1>2 DEF Tables
<1>5. /\ h \in 0..s.high /\ (\A g \in 1..s.high : loc1[g] # None => g <= h)
      /\ (h # 0 => loc1[h] # None)
  <2>1. s.high \in Nat
    BY <1>2
  <2> HIDE DEF loc1
  <2> QED BY ONLY <2>1, HighestIs
<1>6. h \in 0..MaxFd
  BY <1>2, <1>5
<1>7. ev1 \in [Fd -> Event] /\ ev1[f] = NoEvent
  <2>1. s.ev \in [Fd -> Event]
    BY <1>2 DEF Tables
  <2>2. NoEvent \in Event
    BY DEF Event
  <2>3. \A g \in Fd : (IF s.ev[g][1] = c THEN NoEvent ELSE s.ev[g]) \in Event
    BY <2>1, <2>2
  <2> QED BY <1>2, <2>3
<1>8. del_queries(s.req, c) \subseteq s.req
  BY DEF del_queries
<1> HIDE DEF loc1, h, ev1
<1>9. /\ kept.cl = [s.cl EXCEPT ![c] = Gone] /\ kept.loc = loc1 /\ kept.high = h
      /\ kept.ev = ev1 /\ kept.req = del_queries(s.req, c) /\ kept.nr = s.nr
  BY <1>2 DEF Tables
<1>10. kept \in Tables
  BY <1>2, <1>3, <1>4, <1>6, <1>7, <1>8 DEF Tables
<1> HIDE DEF kept
<1>11. FdsOK(kept)
  <2>1. /\ kept.cl = [s.cl EXCEPT ![c] = Gone]
        /\ kept.loc = [s.loc EXCEPT ![s.cl[c].fd] = None] /\ kept.high = Highest(kept.loc, s.high)
        /\ kept.ev = [g \in Fd |-> IF s.ev[g][1] = c THEN NoEvent ELSE s.ev[g]]
    BY <1>9 DEF loc1, h, ev1
  <2> QED BY <1>10, <2>1, HoleKeeps
<1>12. \A d \in Client : kept.cl[d] = IF d = c THEN Gone ELSE s.cl[d]
  BY <1>2, <1>9 DEF Tables
<1>13. CASE m = None
  <2>1. close_connection(s, c) = kept
    BY <1>1, <1>13
  <2>2. Without(s, c, kept)
    BY <1>9, <1>12 DEF Without
  <2> QED BY <1>9, <1>11, <2>1, <2>2
<1>14. CASE m # None
  <2>1. h > f /\ m = loc1[h] /\ h \in Fd
    BY <1>2, <1>6, <1>14 DEF Fd
  <2>2. m \in Client /\ kept.cl[m].fd = h /\ kept.loc[h] = m
    BY <1>4, <1>9, <1>11, <1>14, <2>1 DEF FdsOK
  <2>3. m # c
    BY <1>12, <2>1, <2>2 DEF Gone, Fd
  <2>4. loc2 \in [Fd -> Client \cup {None}] /\ ev2 \in [Fd -> Event]
    <3>1. <<m, "conn">> \in Event /\ NoEvent \in Event
      BY <2>2 DEF Event
    <3> QED BY <1>4, <1>7, <2>2, <3>1
  <2>5. h2 \in 0..MaxFd
    <3>1. h \in Nat /\ h <= MaxFd
      BY <1>2, <1>6
    <3>2. h2 \in 0..h
      <4> HIDE DEF loc2
      <4> QED BY ONLY <3>1, HighestIs
    <3> HIDE DEF h2, loc2
    <3> QED BY <1>2, <3>1, <3>2
  <2> DEFINE y == [kept.cl[m] EXCEPT !.fd = f]
  <2>6. y \in Record /\ y.st = kept.cl[m].st
    <3>1. f \in 0..MaxFd /\ kept.cl[m] \in Record
      BY <1>2, <1>10, <2>2 DEF Tables, Fd
    <3> HIDE DEF f
    <3> QED BY <3>1 DEF Record
  <2> HIDE DEF loc2, ev2, h2, m
  <2>7. /\ moved.cl = [kept.cl EXCEPT ![m] = y] /\ moved.loc = loc2 /\ moved.high = h2
        /\ moved.ev = ev2 /\ moved.req = kept.req /\ moved.nr = kept.nr
    BY <1>10, <2>2 DEF Tables
  <2>8. moved \in Tables
    <3>1. /\ moved = [kept EXCEPT !.cl = [kept.cl EXCEPT ![m] = y], !.loc = loc2, !.high = h2, !.ev = ev2]
      OBVIOUS
    <3>2. [kept.cl EXCEPT ![m] = y] \in [Client -> Record]
      BY <1>10, <2>2, <2>6 DEF Tables
    <3> HIDE DEF y, moved
    <3> QED BY <1>10, <2>4, <2>5, <3>1, <3>2 DEF Tables
  <2>9. \A d \in Client : moved.cl[d] = IF d = m THEN [kept.cl[d] EXCEPT !.fd = f] ELSE kept.cl[d]
    BY <1>10, <2>2, <2>7 DEF Tables
  <2> HIDE DEF moved
  <2>10. FdsOK(moved)
    <3>1. kept.loc[f] = None /\ kept.ev[f] = NoEvent /\ kept.high > f /\ kept.loc[kept.high] = m /\ m # None
      BY <1>4, <1>7, <1>9, <1>14, <2>1, <2>2
    <3>2. /\ moved.loc = [kept.loc EXCEPT ![f] = kept.loc[kept.high], ![kept.high] = None]
          /\ moved.high = Highest(moved.loc, kept.high)
          /\ moved.ev = [kept.ev EXCEPT ![kept.high] = NoEvent, ![f] = <<kept.loc[kept.high], "conn">>]
      BY <1>9, <2>7, <3>1 DEF loc2, h2, ev2
    <3>3. \A d \in Client : moved.cl[d] = IF d = kept.loc[kept.high] THEN [kept.cl[d] EXCEPT !.fd = f] ELSE kept.cl[d]
      BY <2>9, <3>1
    <3>4. f \in Fd /\ kept.loc[kept.high] # None
      BY <1>2, <3>1
    <3> HIDE DEF f, y
    <3> QED BY ONLY <1>11, <2>8, <3>1, <3>2, <3>3, <3>4, MoveKeeps
  <2>11. Without(s, c, moved)
    <3>1. moved.cl[c] = Gone /\ moved.req = del_queries(s.req, c)
      BY <1>9, <1>12, <2>3, <2>7, <2>9
    <3>2. ASSUME NEW d \in Client, d # c
          PROVE  /\ moved.cl[d] = s.cl[d] \/ (moved.cl[d] = [s.cl[d] EXCEPT !.fd = f] /\ s.cl[d].fd > f)
                 /\ moved.cl[d].st = s.cl[d].st
      <4>1. kept.cl[d] = s.cl[d]
        BY <1>12, <3>2
      <4>2. CASE d # m
        BY <2>9, <4>1, <4>2
      <4>3. CASE d = m
        <5>1. moved.cl[d] = [s.cl[d] EXCEPT !.fd = f] /\ s.cl[d].fd = h
          BY <2>2, <2>9, <4>1, <4>3
        <5>2. moved.cl[d].st = s.cl[d].st
          BY <2>6, <4>1, <4>3, <5>1
        <5> QED BY <2>1, <5>1, <5>2
      <4> QED BY <4>2, <4>3
    <3> QED BY <3>1, <3>2 DEF Without
  <2>12. close_connection(s, c) = moved
    BY <1>1, <1>14 DEF moved
  <2> QED BY <1>9, <2>7, <2>10, <2>11, <2>12
<1> QED
  BY <1>13, <1>14

(* exit_client.                                                            *)
LEMMA ExitKeeps ==
    ASSUME NEW s, Sound(s), NEW c \in Client, s.cl[c].st # None
    PROVE  Leads(s, exit_client(s, c)) /\ Without(s, c, exit_client(s, c))
<1> DEFINE u == close_connection(s, c)
           t == exit_client(s, c)
           n == Uncounted(s.nr, s.cl[c].st)
<1>1. FdsOK(u) /\ Without(s, c, u) /\ u.nr = s.nr
  BY CloseKeeps DEF Sound
<1>2. t = [u EXCEPT !.nr = n]
  BY DEF exit_client
<1>3. s \in Tables /\ u \in Tables
  BY <1>1 DEF Sound, FdsOK
<1>4. s.cl[c].st \in Unknown \cup Registered
  BY <1>3 DEF Tables, Record
<1>5. t.cl[c] = Gone /\ Gone.st = None /\ \A d \in Client \ {c} : t.cl[d].st = s.cl[d].st
  <2>1. t.cl = u.cl
    BY <1>2, <1>3 DEF Tables
  <2>2. Gone.st = None
    BY GoneFine
  <2> QED BY <1>1, <2>1, <2>2 DEF Without
<1>6. \A S \in {Unknown, {"user"}, {"server"}} :
         /\ Count(t.cl, S) \in Nat
         /\ Count(s.cl, S) = IF s.cl[c].st \in S THEN Count(t.cl, S) + 1 ELSE Count(t.cl, S)
  <2> SUFFICES ASSUME NEW S \in {Unknown, {"user"}, {"server"}}
               PROVE  /\ Count(t.cl, S) \in Nat
                      /\ Count(s.cl, S) = IF s.cl[c].st \in S THEN Count(t.cl, S) + 1 ELSE Count(t.cl, S)
    OBVIOUS
  <2>1. None \notin S
    BY DEF Unknown, None
  <2>2. Count(t.cl, S) \in Nat
    BY CountNat
  <2> HIDE DEF t
  <2>3. CASE s.cl[c].st \in S
    <3>1. t.cl[c].st \notin S /\ \A d \in Client \ {c} : s.cl[d].st = t.cl[d].st
      BY <1>5, <2>1
    <3>2. Count(s.cl, S) = Count(t.cl, S) + 1
      BY ONLY <2>3, <3>1, CountComes, c \in Client
    <3> QED BY <2>2, <2>3, <3>2
  <2>4. CASE s.cl[c].st \notin S
    <3>1. \A d \in Client : s.cl[d].st \in S <=> t.cl[d].st \in S
      BY <1>5, <2>1, <2>4
    <3>2. Count(s.cl, S) = Count(t.cl, S)
      BY <3>1, CountStays
    <3> QED BY <2>2, <2>4, <3>2
  <2> QED BY <2>3, <2>4
<1>7. /\ n \in [unknowns : Nat, users : Nat, servers : Nat]
      /\ n.unknowns = Count(t.cl, Unknown) /\ n.users = Count(t.cl, {"user"})
      /\ n.servers = Count(t.cl, {"server"})
  <2> DEFINE a == Count(t.cl, Unknown)
             b == Count(t.cl, {"user"})
             e == Count(t.cl, {"server"})
  <2>1. /\ a \in Nat /\ b \in Nat /\ e \in Nat /\ s.nr \in [unknowns : Nat, users : Nat, servers : Nat]
        /\ s.nr.unknowns = IF s.cl[c].st \in Unknown THEN a + 1 ELSE a
        /\ s.nr.users = IF s.cl[c].st = "user" THEN b + 1 ELSE b
        /\ s.nr.servers = IF s.cl[c].st = "server" THEN e + 1 ELSE e
    BY <1>3, <1>6 DEF Sound, CountsOK, Tables
  <2> HIDE DEF a, b, e, t
  <2>2. CASE s.cl[c].st = "user"
    <3>1. n = [s.nr EXCEPT !.users = @ - 1] /\ s.cl[c].st \notin Unknown
      BY <2>2 DEF Uncounted, Unknown
    <3> HIDE DEF n
    <3> QED BY <2>1, <2>2, <3>1 DEF a, b, e
  <2>3. CASE s.cl[c].st = "server"
    <3>1. n = [s.nr EXCEPT !.servers = @ - 1] /\ s.cl[c].st \notin Unknown
      BY <2>3 DEF Uncounted, Unknown
    <3> HIDE DEF n
    <3> QED BY <2>1, <2>3, <3>1 DEF a, b, e
  <2>4. CASE s.cl[c].st \in Unknown
    <3>1. n = [s.nr EXCEPT !.unknowns = @ - 1] /\ s.cl[c].st # "user" /\ s.cl[c].st # "server"
      BY <2>4 DEF Uncounted, Unknown
    <3> HIDE DEF n
    <3> QED BY <2>1, <2>4, <3>1 DEF a, b, e
  <2> QED BY <1>4, <2>2, <2>3, <2>4 DEF Registered
<1> HIDE DEF n, u, t
<1>8. /\ t \in Tables /\ t.cl = u.cl /\ t.loc = u.loc /\ t.high = u.high /\ t.ev = u.ev /\ t.req = u.req
      /\ t.nr = n
  BY <1>2, <1>3, <1>7 DEF Tables
<1>9. FdsOK(t)
  BY <1>1, <1>8 DEF FdsOK, Placed
<1>10. Without(s, c, t)
  BY <1>1, <1>8 DEF Without
<1>11. CountsOK(t)
  BY <1>7, <1>8 DEF CountsOK
<1>12. \A d \in Client : d # c => t.cl[d].dns = s.cl[d].dns /\ t.cl[d].hostp = s.cl[d].hostp
  <2>1. \A d \in Client : [s.cl[d] EXCEPT !.fd = s.cl[c].fd].dns = s.cl[d].dns
                          /\ [s.cl[d] EXCEPT !.fd = s.cl[c].fd].hostp = s.cl[d].hostp
    BY <1>3 DEF Tables, Record
  <2> QED BY <1>10, <2>1 DEF Without
<1>13. ReqsOK(t)
  <2>1. t.req \subseteq s.req /\ \A q \in t.req : q.c # c /\ q.c \in Client
    BY <1>3, <1>10 DEF Without, del_queries, Tables
  <2> QED BY <1>5, <1>12, <2>1 DEF Sound, ReqsOK, t
<1>14. \A d \in Client : t.cl[d].hostp \in {None, s.cl[d].hostp} /\ (t.cl[d].st = "user" => s.cl[d].st = "user")
  BY <1>5, <1>12 DEF Gone, None
<1> QED
  BY <1>9, <1>10, <1>11, <1>13, <1>14 DEF Leads, Sound, t

-----------------------------------------------------------------------------
(* The loops over loc_clients.                                             *)

\* P holds the tables after each turn of a loop over fds, which exits at most whom it finds there.
Sweeps(s, fds, P) ==
    /\ P[0] = s
    /\ \A n \in 1..Len(fds) :
         \/ P[n] = P[n - 1]
         \/ P[n - 1].loc[fds[n]] # None /\ P[n] = exit_client(P[n - 1], P[n - 1].loc[fds[n]])

(* A turn, at descriptor f.                                                *)
LEMMA TurnKeeps ==
    ASSUME NEW s, Sound(s), NEW f \in Fd, s.loc[f] # None
    PROVE  /\ s.loc[f] \in Client /\ s.cl[s.loc[f]].st # None /\ s.cl[s.loc[f]].fd = f
           /\ Leads(s, exit_client(s, s.loc[f])) /\ Without(s, s.loc[f], exit_client(s, s.loc[f]))
<1> DEFINE c == s.loc[f]
<1>1. c \in Client /\ s.cl[c].fd = f /\ Fine(s.cl[c])
  BY DEF Sound, FdsOK, Tables
<1>2. s.cl[c].st # None
  <2>1. Gone.fd = 0 /\ 0 \notin Fd
    BY DEF Gone, Fd
  <2> QED BY <1>1, <2>1 DEF Fine
<1> HIDE DEF c
<1>3. Leads(s, exit_client(s, c)) /\ Without(s, c, exit_client(s, c))
  BY <1>1, <1>2, ExitKeeps
<1> QED
  BY <1>1, <1>2, <1>3 DEF c

(* Such a loop keeps the tables sound.                                     *)
LEMMA SweepStays ==
    ASSUME NEW s, Sound(s), NEW fds \in Seq(Fd), NEW P, Sweeps(s, fds, P)
    PROVE  \A n \in 0..Len(fds) : Leads(s, P[n])
<1> DEFINE T == {n \in Nat : n <= Len(fds) => Leads(s, P[n])}
<1>0. Len(fds) \in Nat
  OBVIOUS
<1>1. 0 \in T
  BY LeadsSelf DEF Sweeps
<1>2. ASSUME NEW n \in Nat, n \in T PROVE n + 1 \in T
  <2> SUFFICES ASSUME n + 1 <= Len(fds) PROVE Leads(s, P[n + 1])
    OBVIOUS
  <2>1. n + 1 \in 1..Len(fds) /\ (n + 1) - 1 = n /\ Leads(s, P[n]) /\ fds[n + 1] \in Fd
    BY <1>0, <1>2
  <2> DEFINE f == fds[n + 1]
             t == P[n]
  <2>2. P[n + 1] = t \/ (t.loc[f] # None /\ P[n + 1] = exit_client(t, t.loc[f]))
    BY <2>1 DEF Sweeps
  <2>3. Sound(t) /\ f \in Fd /\ Leads(s, t)
    BY <2>1 DEF Leads
  <2> HIDE DEF f, t
  <2>4. CASE t.loc[f] # None /\ P[n + 1] = exit_client(t, t.loc[f])
    <3>1. Leads(t, exit_client(t, t.loc[f]))
      BY <2>3, <2>4, TurnKeeps
    <3> QED BY <2>3, <2>4, <3>1, LeadsOn
  <2> QED BY <2>2, <2>3, <2>4
<1> HIDE DEF T
<1>3. \A n \in Nat : n \in T
  BY <1>1, <1>2, SetInduction
<1> QED
  BY <1>0, <1>3 DEF T

\* P holds the tables after each turn of a loop over fds, which exits whom G says.
Chosen(s, fds, G, P) ==
    /\ P = [n \in 0..Len(fds) |-> P[n]] /\ P[0] = s
    /\ \A n \in 0..Len(fds) : Sound(P[n])
    /\ \A n \in 1..Len(fds) :
         P[n] = IF P[n - 1].loc[fds[n]] # None /\ <<P[n - 1], P[n - 1].loc[fds[n]]>> \in G
                THEN exit_client(P[n - 1], P[n - 1].loc[fds[n]]) ELSE P[n - 1]

(* There is one for every G.                                               *)
LEMMA SweepExists ==
    ASSUME NEW s, Sound(s), NEW fds \in Seq(Fd), NEW G
    PROVE  \E P : Chosen(s, fds, G, P)
<1> DEFINE m == Len(fds)
           U == {t \in Tables : Sound(t)}
           Turn(n, t) == IF t.loc[fds[n]] # None /\ <<t, t.loc[fds[n]]>> \in G
                         THEN exit_client(t, t.loc[fds[n]]) ELSE t
           F == [p \in (1..m) \X U |-> Turn(p[1], p[2])]
<1>1. m \in Nat /\ s \in U
  BY DEF Sound, FdsOK
<1>2. ASSUME NEW n \in 1..m, NEW t \in U PROVE Turn(n, t) \in U /\ F[<<n, t>>] = Turn(n, t)
  <2>1. fds[n] \in Fd /\ Sound(t)
    BY <1>2
  <2>2. CASE t.loc[fds[n]] # None
    <3>1. Sound(exit_client(t, t.loc[fds[n]]))
      BY <2>1, <2>2, TurnKeeps DEF Leads
    <3>2. exit_client(t, t.loc[fds[n]]) \in U
      BY <3>1 DEF Sound, FdsOK
    <3>3. Turn(n, t) \in U
      BY <1>2, <3>2
    <3> HIDE DEF Turn, U
    <3> QED BY <3>3
  <2>3. CASE t.loc[fds[n]] = None
    <3>1. Turn(n, t) \in U
      BY <1>2, <2>3
    <3> HIDE DEF Turn, U
    <3> QED BY <3>1
  <2> QED BY <2>2, <2>3
<1>3. F \in [(1..m) \X U -> U]
  <2> HIDE DEF Turn, U, m
  <2> QED BY <1>2
<1> HIDE DEF Turn, U, F, m
<1>4. PICK P : Turns(U, F, s, m, P)
  BY <1>1, <1>3, LoopExists
<1>5. \A n \in 0..m : P[n] \in U /\ Sound(P[n])
  BY <1>4 DEF U, Turns
<1>6. \A n \in 1..m : P[n] = Turn(n, P[n - 1])
  BY <1>1, <1>2, <1>4, <1>5 DEF Turns
<1>7. P = [n \in 0..m |-> P[n]] /\ P[0] = s
  BY <1>4 DEF Turns
<1> QED
  BY <1>5, <1>6, <1>7 DEF m, Turn, Chosen

(* What the loop of m_close does.                                       *)
LEMMA CloseSweep ==
    ASSUME NEW s, Sound(s), NEW fds \in Seq(Fd)
    PROVE  Leads(s, SweepUnknown(s, fds))
<1> DEFINE m == Len(fds)
           Hit(t, c) == t.cl[c].st \in Unknown
           Turn(t, f) == IF t.loc[f] # None /\ Hit(t, t.loc[f]) THEN exit_client(t, t.loc[f]) ELSE t
           Body(P) == [n \in 0..m |-> IF n = 0 THEN s ELSE Turn(P[n - 1], fds[n])]
           P == CHOOSE M : M = Body(M)
           G == {p \in Tables \X Client : Hit(p[1], p[2])}
<1>0. m \in Nat
  OBVIOUS
<1>1. SweepUnknown(s, fds) = P[m]
  BY DEF SweepUnknown, Sweep
<1>2. \E M : M = Body(M)
  <2>1. PICK M : Chosen(s, fds, G, M)
    <3> HIDE DEF G
    <3> QED BY SweepExists
  <2>2. ASSUME NEW n \in 1..m PROVE M[n] = Turn(M[n - 1], fds[n])
    <3> DEFINE t == M[n - 1]
               c == t.loc[fds[n]]
    <3>1. n - 1 \in 0..m /\ fds[n] \in Fd
      BY <1>0
    <3>2. t \in Tables
      BY <2>1, <3>1 DEF Chosen, Sound, FdsOK
    <3>3. c # None => c \in Client
      BY <3>1, <3>2 DEF Tables
    <3>4. c # None => (<<t, c>> \in G <=> Hit(t, c))
      BY <3>2, <3>3
    <3>5. M[n] = IF c # None /\ <<t, c>> \in G THEN exit_client(t, c) ELSE t
      BY <2>1 DEF Chosen
    <3> HIDE DEF Hit, G
    <3> QED BY <3>4, <3>5
  <2> HIDE DEF Turn
  <2>3. M = Body(M)
    <3> DEFINE V(n) == IF n = 0 THEN s ELSE Turn(M[n - 1], fds[n])
    <3>1. M = [n \in 0..m |-> M[n]] /\ M[0] = s
      BY <2>1 DEF Chosen
    <3>2. ASSUME NEW n \in 0..m PROVE M[n] = V(n)
      <4>1. CASE n = 0
        BY <3>1, <4>1
      <4>2. CASE n # 0
        <5>1. n \in 1..m
          BY ONLY <1>0, <4>2, n \in 0..m
        <5>2. M[n] = Turn(M[n - 1], fds[n])
          BY ONLY <2>2, <5>1
        <5> QED BY <4>2, <5>2
      <4> QED BY <4>1, <4>2
    <3> HIDE DEF V
    <3>3. M = [n \in 0..m |-> V(n)]
      BY ONLY <3>1, <3>2
    <3> QED BY ONLY <3>3 DEF Body, V
  <2> HIDE DEF Body
  <2> QED BY <2>3
<1>3. P = Body(P)
  <2> HIDE DEF Body
  <2> QED BY <1>2
<1> HIDE DEF P
<1>4. P[0] = s /\ \A n \in 1..m : P[n] = Turn(P[n - 1], fds[n])
  <2> DEFINE V(n) == IF n = 0 THEN s ELSE Turn(P[n - 1], fds[n])
  <2>1. P = [n \in 0..m |-> V(n)]
    BY <1>3
  <2> HIDE DEF V
  <2>2. \A n \in 0..m : P[n] = V(n)
    BY ONLY <2>1
  <2>3. P[0] = V(0) /\ \A n \in 1..m : P[n] = V(n)
    BY ONLY <1>0, <2>2
  <2> HIDE DEF Turn, Body
  <2> QED BY <2>3 DEF V
<1>5. Sweeps(s, fds, P)
  <2> HIDE DEF Hit
  <2> QED BY <1>4 DEF Sweeps
<1> HIDE DEF Turn, Body
<1> QED
  BY <1>0, <1>1, <1>5, SweepStays

\* P holds the tables after each turn of the loops that exit whom mask hits, up to t.
MaskPass(s, fds, mask, t, P) ==
    /\ t = P[Len(fds)] /\ Sweeps(s, fds, P)
    /\ \A n \in 1..Len(fds) :
         LET v == P[n - 1]
             c == v.loc[fds[n]]
         IN  c # None /\ (v.cl[c].st = "user" \/ v.cl[c].step = 1) /\ Home[c] \in mask
             => P[n] = exit_client(v, c)

(* ... and those of add_gline and rehash.                                  *)
LEMMA MaskSweep ==
    ASSUME NEW s, Sound(s), NEW fds \in Seq(Fd), NEW mask
    PROVE  \E P : MaskPass(s, fds, mask, SweepMask(s, fds, mask), P)
<1> DEFINE m == Len(fds)
           Hit(t, c) == (t.cl[c].st = "user" \/ t.cl[c].step = 1) /\ Home[c] \in mask
           Turn(t, f) == IF t.loc[f] # None /\ Hit(t, t.loc[f]) THEN exit_client(t, t.loc[f]) ELSE t
           Body(P) == [n \in 0..m |-> IF n = 0 THEN s ELSE Turn(P[n - 1], fds[n])]
           P == CHOOSE M : M = Body(M)
           G == {p \in Tables \X Client : Hit(p[1], p[2])}
<1>0. m \in Nat
  OBVIOUS
<1>1. SweepMask(s, fds, mask) = P[m]
  BY DEF SweepMask, Sweep
<1>2. \E M : M = Body(M)
  <2>1. PICK M : Chosen(s, fds, G, M)
    <3> HIDE DEF G
    <3> QED BY SweepExists
  <2>2. ASSUME NEW n \in 1..m PROVE M[n] = Turn(M[n - 1], fds[n])
    <3> DEFINE t == M[n - 1]
               c == t.loc[fds[n]]
    <3>1. n - 1 \in 0..m /\ fds[n] \in Fd
      BY <1>0
    <3>2. t \in Tables
      BY <2>1, <3>1 DEF Chosen, Sound, FdsOK
    <3>3. c # None => c \in Client
      BY <3>1, <3>2 DEF Tables
    <3>4. c # None => (<<t, c>> \in G <=> Hit(t, c))
      BY <3>2, <3>3
    <3>5. M[n] = IF c # None /\ <<t, c>> \in G THEN exit_client(t, c) ELSE t
      BY <2>1 DEF Chosen
    <3> HIDE DEF Hit, G
    <3> QED BY <3>4, <3>5
  <2> HIDE DEF Turn
  <2>3. M = Body(M)
    <3> DEFINE V(n) == IF n = 0 THEN s ELSE Turn(M[n - 1], fds[n])
    <3>1. M = [n \in 0..m |-> M[n]] /\ M[0] = s
      BY <2>1 DEF Chosen
    <3>2. ASSUME NEW n \in 0..m PROVE M[n] = V(n)
      <4>1. CASE n = 0
        BY <3>1, <4>1
      <4>2. CASE n # 0
        <5>1. n \in 1..m
          BY ONLY <1>0, <4>2, n \in 0..m
        <5>2. M[n] = Turn(M[n - 1], fds[n])
          BY ONLY <2>2, <5>1
        <5> QED BY <4>2, <5>2
      <4> QED BY <4>1, <4>2
    <3> HIDE DEF V
    <3>3. M = [n \in 0..m |-> V(n)]
      BY ONLY <3>1, <3>2
    <3> QED BY ONLY <3>3 DEF Body, V
  <2> HIDE DEF Body
  <2> QED BY <2>3
<1>3. P = Body(P)
  <2> HIDE DEF Body
  <2> QED BY <1>2
<1> HIDE DEF P
<1>4. P[0] = s /\ \A n \in 1..m : P[n] = Turn(P[n - 1], fds[n])
  <2> DEFINE V(n) == IF n = 0 THEN s ELSE Turn(P[n - 1], fds[n])
  <2>1. P = [n \in 0..m |-> V(n)]
    BY <1>3
  <2> HIDE DEF V
  <2>2. \A n \in 0..m : P[n] = V(n)
    BY ONLY <2>1
  <2>3. P[0] = V(0) /\ \A n \in 1..m : P[n] = V(n)
    BY ONLY <1>0, <2>2
  <2> HIDE DEF Turn, Body
  <2> QED BY <2>3 DEF V
<1>5. Sweeps(s, fds, P)
  <2> HIDE DEF Hit
  <2> QED BY <1>4 DEF Sweeps
<1>6. \A n \in 1..m : LET t == P[n - 1]
                         c == t.loc[fds[n]]
                     IN  c # None /\ Hit(t, c) => P[n] = exit_client(t, c)
  <2> HIDE DEF Hit
  <2> QED BY <1>4
<1> HIDE DEF Turn, Body
<1>7. MaskPass(s, fds, mask, P[m], P)
  BY <1>5, <1>6 DEF MaskPass
<1> QED
  BY <1>1, <1>7

LEMMA FdSeqs ==
    ASSUME NEW h \in 0..MaxFd
    PROVE  /\ Up(h) \in Seq(Fd) /\ Down(h) \in Seq(Fd) /\ Len(Up(h)) = h /\ Len(Down(h)) = h
           /\ \A n \in 1..h : Down(h)[n] = h + 1 - n
<1>1. h \in Nat /\ MaxFd \in Nat /\ h <= MaxFd
  BY ConnConstants
<1>2. \A n \in 1..h : n \in Fd /\ h + 1 - n \in Fd
  BY <1>1 DEF Fd
<1> QED
  BY <1>1, <1>2 DEF Up, Down

\* Whom mask hits and who is on line has a descriptor up to f at most.
Swept(t, mask, f) == \A c \in Client : t.cl[c].st = "user" /\ Home[c] \in mask => t.cl[c].fd <= f

(* One turn of the loop of add_gline: who moves into the hole has been     *)
(* looked at before.                                                       *)
LEMMA GlineTurn ==
    ASSUME NEW t, Sound(t), NEW mask, NEW f \in Fd, Swept(t, mask, f), NEW u,
           u = t \/ (t.loc[f] # None /\ u = exit_client(t, t.loc[f])),
           LET c == t.loc[f]
           IN  c # None /\ (t.cl[c].st = "user" \/ t.cl[c].step = 1) /\ Home[c] \in mask => u = exit_client(t, c)
    PROVE  Swept(u, mask, f - 1)
<1> DEFINE c == t.loc[f]
<1>0. t \in Tables /\ f \in Nat
  BY DEF Sound, FdsOK, Fd
<1>1. c # None => Without(t, c, exit_client(t, c)) /\ c \in Client /\ t.cl[c].fd = f
  BY TurnKeeps
<1>2. Gone.st # "user"
  BY DEF Gone, None
<1> SUFFICES ASSUME NEW d \in Client, u.cl[d].st = "user", Home[d] \in mask
             PROVE  u.cl[d].fd <= f - 1
  BY DEF Swept
<1>3. CASE c # None /\ u = exit_client(t, c)
  <2>1. d # c
    BY <1>1, <1>2, <1>3 DEF Without
  <2>2. /\ u.cl[d] = t.cl[d] \/ t.cl[d].fd > f
        /\ t.cl[d].st = "user"
    BY <1>1, <1>3, <2>1 DEF Without
  <2>3. t.cl[d].fd <= f /\ t.cl[d].fd \in Nat /\ t.loc[t.cl[d].fd] = d
    <3>1. t.cl[d].st # None
      BY <2>2 DEF None
    <3> QED BY <2>2, <3>1, PlacedIs DEF Swept, Sound, Fd
  <2>4. t.cl[d].fd # f
    BY <2>1, <2>3
  <2> QED BY <1>0, <2>2, <2>3, <2>4
<1>4. CASE u = t
  <2>1. t.cl[d].fd <= f /\ t.cl[d].fd \in Nat /\ t.loc[t.cl[d].fd] = d /\ d # None
    <3>1. t.cl[d].st # None
      BY <1>4 DEF None
    <3> QED BY <1>4, <3>1, PlacedIs DEF Swept, Sound, Fd
  <2>2. t.cl[d].fd # f
    <3> SUFFICES ASSUME t.cl[d].fd = f PROVE FALSE
      OBVIOUS
    <3>1. c = d
      BY <2>1
    <3>2. u = exit_client(t, c)
      BY <1>4, <2>1, <3>1
    <3>3. u.cl[d] = Gone
      BY <1>1, <2>1, <3>1, <3>2 DEF Without
    <3> QED BY <1>2, <3>3
  <2> QED BY <1>0, <1>4, <2>1, <2>2
<1> QED
  BY <1>3, <1>4

(* The loops keep the tables sound.                                        *)
LEMMA MaskKeeps ==
    ASSUME NEW s, Sound(s), NEW fds \in Seq(Fd), NEW mask
    PROVE  Leads(s, SweepMask(s, fds, mask))
<1>1. PICK P : MaskPass(s, fds, mask, SweepMask(s, fds, mask), P)
  BY MaskSweep
<1>2. Len(fds) \in 0..Len(fds)
  OBVIOUS
<1> QED
  BY <1>1, <1>2, SweepStays DEF MaskPass

(* The loop of add_gline leaves nobody whom the mask hits.                 *)
LEMMA GlineSweep ==
    ASSUME NEW s, Sound(s), NEW mask
    PROVE  LET t == SweepMask(s, Down(s.high), mask)
           IN  Leads(s, t) /\ Clear(t.cl, mask)
<1> DEFINE h == s.high
           fds == Down(h)
           t == SweepMask(s, fds, mask)
<1>1. h \in 0..MaxFd /\ h \in Nat
  BY ConnConstants DEF Sound, FdsOK, Tables
<1>2. fds \in Seq(Fd) /\ Len(fds) = h /\ \A n \in 1..h : fds[n] = h + 1 - n
  BY <1>1, FdSeqs
<1> HIDE DEF fds
<1>3. PICK P : MaskPass(s, fds, mask, t, P)
  BY <1>2, MaskSweep
<1> HIDE DEF t
<1>4. \A n \in 0..h : Leads(s, P[n])
  BY <1>2, <1>3, SweepStays DEF MaskPass
<1> DEFINE T == {n \in Nat : n <= h => Swept(P[n], mask, h - n)}
<1>5. 0 \in T
  <2>1. P[0] = s
    BY <1>3 DEF MaskPass, Sweeps
  <2>2. ASSUME NEW c \in Client, s.cl[c].st = "user" PROVE s.cl[c].fd <= h
    <3>1. s.cl[c].st # None
      BY <2>2 DEF None
    <3> QED BY <1>1, <3>1, PlacedIs DEF Sound
  <2> QED BY <1>1, <2>1, <2>2 DEF Swept
<1>6. ASSUME NEW n \in Nat, n \in T PROVE n + 1 \in T
  <2> SUFFICES ASSUME n + 1 <= h PROVE Swept(P[n + 1], mask, h - (n + 1))
    OBVIOUS
  <2> DEFINE f == h - n
             v == P[n]
             u == P[n + 1]
  <2>1. n + 1 \in 1..h /\ n \in 0..h /\ (n + 1) - 1 = n /\ fds[n + 1] = f /\ f - 1 = h - (n + 1)
    BY <1>1, <1>2
  <2>2. fds[n + 1] \in Fd
    BY <1>2, <2>1
  <2>3. Sound(v) /\ Swept(v, mask, f)
    BY <1>1, <1>4, <1>6, <2>1 DEF Leads
  <2>4. u = v \/ (v.loc[f] # None /\ u = exit_client(v, v.loc[f]))
    BY <1>2, <1>3, <2>1 DEF MaskPass, Sweeps
  <2>5. LET c == v.loc[f]
        IN  c # None /\ (v.cl[c].st = "user" \/ v.cl[c].step = 1) /\ Home[c] \in mask => u = exit_client(v, c)
    BY <1>2, <1>3, <2>1 DEF MaskPass
  <2>6. f \in Fd
    BY <2>1, <2>2
  <2> HIDE DEF f, u, v
  <2>7. Swept(u, mask, f - 1)
    BY <2>3, <2>4, <2>5, <2>6, GlineTurn
  <2> QED BY <2>1, <2>7 DEF u
<1>7. \A n \in Nat : n \in T
  <2> HIDE DEF T
  <2> QED BY <1>5, <1>6, SetInduction
<1>8. Swept(t, mask, 0)
  <2>1. h \in T /\ h - h = 0
    BY <1>1, <1>7
  <2> QED BY <1>1, <1>2, <1>3, <2>1 DEF MaskPass
<1>9. Leads(s, t)
  BY <1>1, <1>2, <1>3, <1>4 DEF MaskPass
<1>10. Clear(t.cl, mask)
  <2> SUFFICES ASSUME NEW c \in Client, t.cl[c].st = "user", Home[c] \in mask PROVE FALSE
    BY DEF Clear
  <2>1. t.cl[c].st # None
    BY DEF None
  <2>2. t.cl[c].fd \in Fd
    BY <1>9, <2>1, PlacedIs DEF Leads, Sound
  <2>3. t.cl[c].fd <= 0
    BY <1>8 DEF Swept
  <2> QED BY <2>2, <2>3 DEF Fd
<1> QED
  BY <1>9, <1>10 DEF t, fds

-----------------------------------------------------------------------------
(* Steps.                                                                  *)

LEMMA NowIs ==
    ASSUME ConnInv
    PROVE  /\ Now \in Tables /\ Sound(Now) /\ Leads(Now, Now)
           /\ Now.cl = cl /\ Now.loc = loc /\ Now.high = high /\ Now.ev = ev /\ Now.req = req /\ Now.nr = nr
<1>1. Now.cl = cl /\ Now.loc = loc /\ Now.high = high /\ Now.ev = ev /\ Now.req = req /\ Now.nr = nr
  BY DEF Now
<1>2. Sound(Now)
  BY DEF ConnInv
<1> HIDE DEF Now
<1> QED
  BY <1>1, <1>2, LeadsSelf DEF Sound, FdsOK

LEMMA BecomesIs ==
    ASSUME NEW t \in Tables, Becomes(t) PROVE Now' = t
<1>1. t = [cl |-> t.cl, loc |-> t.loc, high |-> t.high, ev |-> t.ev, req |-> t.req, nr |-> t.nr]
  BY DEF Tables
<1> QED
  BY <1>1 DEF Becomes, Now

(* A step to tables that may follow.                                       *)
LEMMA StepKeeps ==
    ASSUME ConnInv, NEW t, Leads(Now, t), Becomes(t), UNCHANGED <<cache, gline, down>>
    PROVE  ConnInv'
<1>1. t \in Tables /\ Sound(t)
  BY DEF Leads, Sound, FdsOK
<1>2. Now' = t /\ cl' = t.cl
  BY <1>1, BecomesIs DEF Becomes
<1>3. Sound(Now)'
  BY <1>1, <1>2
<1>4. \A d \in Client : cl'[d].hostp \in {None, cl[d].hostp}
                        /\ (cl'[d].st = "user" => cl[d].st = "user" \/ Home[d] \notin gline)
  BY <1>2, NowIs DEF Leads
<1>5. HostsOK(cl, cache)'
  BY <1>4 DEF ConnInv, HostsOK
<1>6. Clear(cl, gline)'
  BY <1>4 DEF ConnInv, Clear
<1> QED
  BY <1>3, <1>5, <1>6 DEF ConnInv

(* One record is rewritten where Fine does not look.                       *)
LEMMA RewritesAlike ==
    ASSUME NEW s, Sound(s), NEW c \in Client, s.cl[c].st # None, NEW y \in Record,
           \A f \in {"st", "fd", "authfd", "dns", "auth", "dead", "waited", "check", "life", "hostp"} :
              y[f] = s.cl[c][f],
           NEW t, IsPut(t, s, c, y, s.req, s.nr)
    PROVE  Leads(s, t)
<1>1. s.cl[c] \in Record /\ Fine(s.cl[c])
  BY DEF Sound, FdsOK, Tables
<1>2. Fine(y)
  BY <1>1, AlikeFine
<1>3. y.st = s.cl[c].st /\ y.fd = s.cl[c].fd /\ y.authfd = s.cl[c].authfd /\ y.hostp = s.cl[c].hostp
      /\ y.dns = s.cl[c].dns
  OBVIOUS
<1>4. Replaces(y, s.cl[c])
  BY <1>2, <1>3 DEF Replaces
<1> QED
  BY <1>3, <1>4, Rewrites

(* register_user.                                                          *)
LEMMA RegistersKeeps ==
    ASSUME NEW s, Sound(s), NEW c \in Client, s.cl[c].st \in Unknown, NEW p
    PROVE  Leads(s, Registers(s, c, p))
<1>0. s \in Tables /\ s.cl[c] \in Record /\ Fine(s.cl[c]) /\ s.cl[c].st # None
  BY DEF Sound, FdsOK, Tables, Unknown, None
<1>1. CASE ~(p /\ Home[c] \notin gline)
  <2>1. Registers(s, c, p) = exit_client(s, c)
    BY <1>1 DEF Registers
  <2> QED BY <1>0, <2>1, ExitKeeps
<1>2. CASE p /\ Home[c] \notin gline
  <2> DEFINE x == s.cl[c]
             y == [x EXCEPT !.st = "user", !.step = 0]
             n == Promoted(s.nr, "user")
  <2>1. Registers(s, c, p) = [s EXCEPT !.cl[c] = y, !.nr = n]
    BY <1>2 DEF Registers
  <2>3. y \in Record
    <3>1. "user" \in Unknown \cup Registered \cup {None} /\ 0 \in 0..1
      BY DEF Registered
    <3> QED BY <1>0, <3>1 DEF Record
  <2>4. /\ y.st = "user" /\ y.fd = x.fd /\ y.authfd = x.authfd /\ y.dns = x.dns /\ y.hostp = x.hostp
        /\ y.auth = x.auth /\ y.dead = x.dead /\ y.waited = x.waited /\ y.check = x.check /\ y.life = x.life
    BY <1>0 DEF Record
  <2>5. Fine(y)
    <3> HIDE DEF y
    <3>1. y.st # None /\ (Waiting(y) => Waiting(x))
      BY <2>4 DEF Waiting, None
    <3> QED BY <1>0, <2>4, <3>1 DEF Fine, Patient
  <2> HIDE DEF y, n
  <2>6. Replaces(y, x)
    BY <2>3, <2>4, <2>5 DEF Replaces, None
  <2>7. IsPut(Registers(s, c, p), s, c, y, s.req, n)
    <3>1. "user" \in Registered /\ y \in Record
      BY <2>3 DEF Registered
    <3>2. IsPut([s EXCEPT !.cl[c] = y, !.nr = Promoted(s.nr, "user")], s, c, y, s.req, Promoted(s.nr, "user"))
      BY <3>1, PromotedPut
    <3> QED BY <2>1, <3>2 DEF n
  <2>8. /\ y.st \in Registered /\ (y.st = "user" => Home[c] \notin gline) /\ (y.dns <=> x.dns)
        /\ n = Promoted(s.nr, y.st)
    BY <1>2, <2>4 DEF n, Registered
  <2> QED BY <2>6, <2>7, <2>8, Promotes
<1> QED
  BY <1>1, <1>2

(* read_packet.                                                            *)
LEMMA ReadPacketKeeps ==
    ASSUME NEW s, Sound(s), NEW c \in Client, s.cl[c].st # None, NEW p
    PROVE  Leads(s, read_packet(s, c, p))
<1> DEFINE x == s.cl[c]
           y == [x EXCEPT !.in = 0, !.timer = FALSE]
           t == [s EXCEPT !.cl[c].in = 0, !.cl[c].timer = FALSE]
<1>0. s \in Tables /\ x \in Record /\ MaxLines \in Nat
  BY ConnConstants DEF Sound, FdsOK, Tables
<1>1. t = [s EXCEPT !.cl[c] = y]
  OBVIOUS
<1>2. y \in Record /\ y.step \in 0..1
  <2>1. 0 \in 0..MaxLines
    BY <1>0
  <2> QED BY <1>0, <2>1 DEF Record
<1>3. \A f \in {"st", "fd", "authfd", "dns", "auth", "dead", "waited", "check", "life", "hostp"} : y[f] = x[f]
  BY <1>0 DEF Record
<1>4. t.cl[c] = y
  BY <1>0 DEF Tables
<1>5. Leads(s, t)
  <2> HIDE DEF y, t
  <2>1. IsPut(t, s, c, y, s.req, s.nr)
    BY <1>0, <1>1, <1>2, PutIs
  <2> QED BY <1>2, <1>3, <2>1, RewritesAlike
<1> DEFINE z == [y EXCEPT !.step = 1]
           u == [t EXCEPT !.cl[c].step = 1]
<1>6. Leads(t, u)
  <2>1. z \in Record
    <3> HIDE DEF y
    <3> QED BY <1>2 DEF Record
  <2>2. \A f \in {"st", "fd", "authfd", "dns", "auth", "dead", "waited", "check", "life", "hostp"} : z[f] = y[f]
    <3> HIDE DEF y
    <3> QED BY <1>2 DEF Record
  <2>3. IsPut(u, t, c, z, t.req, t.nr)
    <3>1. t \in Tables
      BY <1>5 DEF Leads, Sound, FdsOK
    <3> HIDE DEF t, y
    <3>2. u = [t EXCEPT !.cl[c] = z]
      BY <1>4
    <3> HIDE DEF u, z
    <3> QED BY <2>1, <3>1, <3>2, PutIs
  <2>4. Sound(t) /\ t.cl[c].st # None
    <3>1. y.st = x.st
      BY <1>3
    <3> HIDE DEF y, t
    <3> QED BY <1>4, <1>5, <3>1 DEF Leads
  <2> HIDE DEF z, u, y, t
  <2> QED BY <1>4, <2>1, <2>2, <2>3, <2>4, RewritesAlike
<1>7. x.st = "unknown" => Leads(t, Registers(t, c, p))
  <2>1. y.st = x.st
    BY <1>3
  <2> HIDE DEF t, y
  <2> QED BY <1>4, <1>5, <2>1, RegistersKeeps DEF Leads, Unknown
<1>8. \/ read_packet(s, c, p) \in {s, t, u}
      \/ x.st = "unknown" /\ read_packet(s, c, p) = Registers(t, c, p)
  BY DEF read_packet, Parsed
<1> HIDE DEF t, u
<1> QED
  BY <1>5, <1>6, <1>7, <1>8, LeadsOn, LeadsSelf

-----------------------------------------------------------------------------
(* Reading, and time.                                                      *)

LEMMA HereIs ==
    ASSUME ConnInv, NEW c \in Client, Here(c)
    PROVE  /\ Now \in Tables /\ Sound(Now) /\ Now.cl = cl /\ cl[c] \in Record /\ Fine(cl[c])
           /\ cl[c].st # None /\ ~down
  BY NowIs DEF Here, Sound, FdsOK, Tables

LEMMA ReadStep ==
    ASSUME ConnInv, NEW c \in Client, NEW e, NEW p, Read(c, e, p)
    PROVE  ConnInv'
<1>0. Here(c) /\ UNCHANGED <<cache, gline, down>>
  BY DEF Read
<1>1. /\ Now \in Tables /\ Sound(Now) /\ Now.cl = cl /\ cl[c] \in Record /\ Fine(cl[c])
      /\ cl[c].st # None /\ ~down
  BY <1>0, HereIs
<1>2. CASE cl[c].dead \/ e
  <2>1. Becomes(exit_client(Now, c))
    BY <1>2 DEF Read
  <2> QED BY <1>0, <1>1, <2>1, ExitKeeps, StepKeeps
<1>3. CASE ~(cl[c].dead \/ e)
  <2> DEFINE h == Heard(cl[c])
             x == [h EXCEPT !.in = @ + 1]
             s == [Now EXCEPT !.cl[c] = x]
  <2>1. cl[c].in < MaxLines /\ Becomes(read_packet(s, c, p))
    BY <1>3 DEF Read
  <2>2. /\ h \in Record /\ Fine(h)
        /\ \A f \in {"st", "fd", "authfd", "dns", "auth", "hostp", "dead", "step", "in"} : h[f] = cl[c][f]
    BY <1>1, HeardFine
  <2> HIDE DEF h
  <2>3. x \in Record
    <3>1. h.in \in 0..MaxLines /\ h.in < MaxLines /\ MaxLines \in Nat
      BY <2>1, <2>2, ConnConstants DEF Record
    <3>2. h.in + 1 \in 0..MaxLines
      BY <3>1
    <3> QED BY <2>2, <3>2 DEF Record
  <2>4. \A f \in {"st", "fd", "authfd", "dns", "auth", "hostp", "dead", "waited", "check", "life"} : x[f] = h[f]
    BY <2>2 DEF Record
  <2> HIDE DEF x
  <2>5. Fine(x)
    <3>1. h.st # None
      BY <1>1, <2>2
    <3> QED BY <2>2, <2>3, <2>4, <3>1, AlikeFine
  <2>6. x.st = cl[c].st /\ x.dns = cl[c].dns /\ Replaces(x, cl[c])
    BY <1>1, <2>2, <2>3, <2>4, <2>5 DEF Replaces
  <2>7. Leads(Now, s) /\ s.cl[c] = x
    <3>1. s = [Now EXCEPT !.cl[c] = x]
      OBVIOUS
    <3> HIDE DEF s
    <3>2. IsPut(s, Now, c, x, Now.req, Now.nr)
      BY <1>1, <2>3, <3>1, PutIs
    <3>3. Leads(Now, s)
      BY <1>1, <2>6, <3>2, Rewrites
    <3> QED BY <3>2, <3>3 DEF IsPut
  <2> HIDE DEF s
  <2>8. Leads(s, read_packet(s, c, p))
    BY <1>1, <2>6, <2>7, ReadPacketKeeps DEF Leads
  <2>9. Leads(Now, read_packet(s, c, p))
    BY <2>7, <2>8, LeadsOn
  <2> QED BY <1>0, <2>1, <2>9, StepKeeps
<1> QED
  BY <1>2, <1>3

LEMMA TimerStep ==
    ASSUME ConnInv, NEW c \in Client, NEW p, Timer(c, p)
    PROVE  ConnInv'
<1> DEFINE x == [cl[c] EXCEPT !.timer = FALSE]
           s == [Now EXCEPT !.cl[c].timer = FALSE]
<1>0. /\ Here(c) /\ UNCHANGED <<cache, gline, down>>
      /\ Becomes(exit_client(s, c)) \/ Becomes(read_packet(s, c, p))
  BY DEF Timer
<1>1. /\ Now \in Tables /\ Sound(Now) /\ Now.cl = cl /\ cl[c] \in Record /\ Fine(cl[c])
      /\ cl[c].st # None /\ ~down
  BY <1>0, HereIs
<1>2. s = [Now EXCEPT !.cl[c] = x]
  BY <1>1
<1>3. x \in Record
  BY <1>1 DEF Record
<1>4. \A f \in {"st", "fd", "authfd", "dns", "auth", "dead", "waited", "check", "life", "hostp"} : x[f] = cl[c][f]
  BY <1>1 DEF Record
<1> HIDE DEF x, s
<1>5. IsPut(s, Now, c, x, Now.req, Now.nr)
  BY <1>1, <1>2, <1>3, PutIs
<1>6. Leads(Now, s)
  BY <1>1, <1>3, <1>4, <1>5, RewritesAlike
<1>7. Sound(s) /\ s.cl[c].st # None
  BY <1>1, <1>4, <1>5, <1>6 DEF Leads, IsPut
<1>8. Leads(Now, exit_client(s, c)) /\ Leads(Now, read_packet(s, c, p))
  BY <1>6, <1>7, ExitKeeps, ReadPacketKeeps, LeadsOn
<1> QED
  BY <1>0, <1>8, StepKeeps

LEMMA ReadServerStep ==
    ASSUME ConnInv, NEW c \in Client, NEW what, NEW p, ReadServer(c, what, p)
    PROVE  ConnInv'
<1> DEFINE h == Heard(cl[c])
           x == [h EXCEPT !.half = what = "half"]
           s == [Now EXCEPT !.cl[c] = x]
           u == [s EXCEPT !.cl[c].torn = FALSE]
           y == [s.cl[c] EXCEPT !.st = "server"]
           v == [s EXCEPT !.cl[c] = y, !.nr = Promoted(@, "server")]
<1>0. /\ Here(c) /\ UNCHANGED <<cache, gline, down>> /\ cl[c].st \in {"handshake", "server"}
      /\ \/ Becomes(exit_client(Now, c)) \/ Becomes(u)
         \/ (cl[c].st # "server" /\ Becomes(v)) \/ Becomes(exit_client(s, c))
  BY DEF ReadServer
<1>1. /\ Now \in Tables /\ Sound(Now) /\ Now.cl = cl /\ cl[c] \in Record /\ Fine(cl[c])
      /\ cl[c].st # None /\ ~down
  BY <1>0, HereIs
<1>2. /\ h \in Record /\ Fine(h)
      /\ \A f \in {"st", "fd", "authfd", "dns", "auth", "hostp", "dead", "step", "in"} : h[f] = cl[c][f]
  BY <1>1, HeardFine
<1> HIDE DEF h
<1>3. x \in Record
  <2>1. (what = "half") \in BOOLEAN
    OBVIOUS
  <2> QED BY <1>2, <2>1 DEF Record
<1>4. \A f \in {"st", "fd", "authfd", "dns", "auth", "hostp", "dead", "waited", "check", "life"} : x[f] = h[f]
  BY <1>2 DEF Record
<1>5. s = [Now EXCEPT !.cl[c] = x]
  OBVIOUS
<1> HIDE DEF x
<1>6. Fine(x)
  <2>1. h.st # None
    BY <1>1, <1>2
  <2> QED BY <1>2, <1>3, <1>4, <2>1, AlikeFine
<1>7. x.st = cl[c].st /\ x.dns = cl[c].dns /\ Replaces(x, cl[c])
  BY <1>1, <1>2, <1>3, <1>4, <1>6 DEF Replaces
<1>8. u = [s EXCEPT !.cl[c] = [s.cl[c] EXCEPT !.torn = FALSE]]
  <2> HIDE DEF s
  <2> QED OBVIOUS
<1>9. v = [s EXCEPT !.cl[c] = y, !.nr = Promoted(s.nr, "server")]
  <2> HIDE DEF s
  <2> QED OBVIOUS
<1> HIDE DEF s, u, v, y
<1>10. IsPut(s, Now, c, x, Now.req, Now.nr)
  BY <1>1, <1>3, <1>5, PutIs
<1>11. Leads(Now, s) /\ s.cl[c] = x /\ s \in Tables /\ Sound(s) /\ s.cl[c].st # None
  <2>1. Leads(Now, s)
    BY <1>1, <1>7, <1>10, Rewrites
  <2> QED BY <1>1, <1>7, <1>10, <2>1 DEF IsPut, Leads
<1>12. Leads(s, u)
  <2> DEFINE z == [x EXCEPT !.torn = FALSE]
  <2>1. z \in Record
    BY <1>3 DEF Record
  <2>2. \A f \in {"st", "fd", "authfd", "dns", "auth", "dead", "waited", "check", "life", "hostp"} : z[f] = x[f]
    BY <1>3 DEF Record
  <2>3. u = [s EXCEPT !.cl[c] = z]
    BY <1>8, <1>11
  <2> HIDE DEF z
  <2>4. IsPut(u, s, c, z, s.req, s.nr)
    BY <1>11, <2>1, <2>3, PutIs
  <2> QED BY <1>11, <2>1, <2>2, <2>4, RewritesAlike
<1>13. ASSUME cl[c].st # "server" PROVE Leads(s, v)
  <2>0. y = [x EXCEPT !.st = "server"]
    BY <1>11 DEF y
  <2>1. y \in Record /\ y.st = "server" /\ y.st # None
    <3>1. "server" \in Unknown \cup Registered \cup {None}
      BY DEF Registered
    <3> QED BY <1>3, <2>0, <3>1 DEF Record, None
  <2>2. /\ y.fd = x.fd /\ y.authfd = x.authfd /\ y.dns = x.dns /\ y.hostp = x.hostp
        /\ y.auth = x.auth /\ y.dead = x.dead /\ y.waited = x.waited /\ y.check = x.check /\ y.life = x.life
    BY <1>3, <2>0 DEF Record
  <2>3. Fine(y)
    <3>1. Waiting(y) => Waiting(x)
      BY <2>1, <2>2 DEF Waiting
    <3> QED BY <1>6, <2>1, <2>2, <3>1 DEF Fine, Patient
  <2>4. Replaces(y, s.cl[c])
    BY <1>11, <2>1, <2>2, <2>3 DEF Replaces
  <2>5. s.cl[c].st \in Unknown
    BY <1>0, <1>7, <1>11, <1>13 DEF Unknown
  <2>6. IsPut(v, s, c, y, s.req, Promoted(s.nr, "server"))
    <3>1. "server" \in Registered
      BY DEF Registered
    <3> QED BY <1>9, <1>11, <2>1, <2>5, <3>1, PromotedPut
  <2>7. y.st \in Registered /\ y.st # "user" /\ (y.dns <=> s.cl[c].dns)
    BY <1>11, <2>1, <2>2 DEF Registered
  <2> QED BY <1>11, <2>1, <2>4, <2>5, <2>6, <2>7, Promotes
<1>14. /\ Leads(Now, exit_client(Now, c)) /\ Leads(Now, u) /\ Leads(Now, exit_client(s, c))
       /\ cl[c].st # "server" => Leads(Now, v)
  BY <1>1, <1>11, <1>12, <1>13, ExitKeeps, LeadsOn
<1> QED
  BY <1>0, <1>14, StepKeeps

LEMMA PrimedKeeps ==
    ASSUME ConnInv, Leads(Now, Now'), UNCHANGED <<cache, gline, down>>
    PROVE  ConnInv'
<1> DEFINE t == Now'
<1>1. Becomes(t)
  BY DEF Becomes, Now
<1>2. Leads(Now, t)
  OBVIOUS
<1> HIDE DEF t
<1> QED
  BY <1>1, <1>2, StepKeeps

(* Many records are rewritten.                                             *)
LEMMA RewritesAll ==
    ASSUME NEW s, Sound(s), NEW t \in Tables, t.loc = s.loc, t.high = s.high, t.ev = s.ev,
           t.req = s.req, t.nr = s.nr,
           \A c \in Client : /\ Fine(t.cl[c]) /\ t.cl[c].st = s.cl[c].st /\ t.cl[c].fd = s.cl[c].fd
                             /\ t.cl[c].authfd = s.cl[c].authfd /\ t.cl[c].dns = s.cl[c].dns
                             /\ t.cl[c].hostp \in {None, s.cl[c].hostp}
    PROVE  Leads(s, t)
<1>1. FdsOK(t)
  BY SameFds DEF Sound
<1>2. CountsOK(t)
  <2>1. \A c \in Client : \A S \in {Unknown, {"user"}, {"server"}} : t.cl[c].st \in S <=> s.cl[c].st \in S
    OBVIOUS
  <2> QED BY <2>1, SameCounts DEF Sound
<1>3. ReqsOK(t)
  <2>1. \A q \in s.req : q.c \in Client
    BY DEF Tables
  <2> QED BY <2>1 DEF Sound, ReqsOK
<1> QED
  BY <1>1, <1>2, <1>3 DEF Leads, Sound

LEMMA DeadLinkStep ==
    ASSUME ConnInv, NEW c \in Client, DeadLink(c)
    PROVE  ConnInv'
<1> DEFINE x == cl[c]
           y == [x EXCEPT !.dead = TRUE, !.in = 0, !.waited = 0]
<1>0. /\ Here(c) /\ cl' = [cl EXCEPT ![c] = y]
      /\ UNCHANGED <<loc, high, ev, req, cache, nr, gline, down>>
  BY DEF DeadLink
<1>1. /\ Now \in Tables /\ Sound(Now) /\ Now.cl = cl /\ cl[c] \in Record /\ Fine(cl[c])
      /\ cl[c].st # None /\ ~down
  BY <1>0, HereIs
<1>2. y \in Record
  <2>1. 0 \in 0..MaxLines /\ 0 \in 0..3
    BY ConnConstants
  <2> QED BY <1>1, <2>1 DEF Record
<1>3. /\ y.st = x.st /\ y.fd = x.fd /\ y.authfd = x.authfd /\ y.dns = x.dns /\ y.auth = x.auth
      /\ y.hostp = x.hostp /\ y.waited = 0
  BY <1>1 DEF Record
<1> HIDE DEF y
<1>4. Replaces(y, x)
  BY <1>1, <1>2, <1>3 DEF Replaces, Fine, Patient
<1>5. Now' = [Now EXCEPT !.cl[c] = y]
  BY <1>0 DEF Now
<1>6. IsPut(Now', Now, c, y, Now.req, Now.nr)
  <2> DEFINE t == Now'
  <2>1. t = [Now EXCEPT !.cl[c] = y]
    BY <1>5
  <2> HIDE DEF t
  <2>2. IsPut(t, Now, c, y, Now.req, Now.nr)
    BY <1>1, <1>2, <2>1, PutIs
  <2> QED BY <2>2 DEF t
<1>7. Leads(Now, Now')
  BY <1>1, <1>3, <1>4, <1>6, Rewrites
<1> QED
  BY <1>0, <1>7, PrimedKeeps

LEMMA TickStep ==
    ASSUME ConnInv, Tick
    PROVE  ConnInv'
<1> DEFINE Y(c) == [cl[c] EXCEPT !.age = IF Pingable(cl[c]) /\ @ < 2 THEN @ + 1 ELSE @,
                                 !.life = IF Pingable(cl[c]) THEN 0 ELSE 1, !.check = 0,
                                 !.waited = IF Waiting(cl[c]) THEN @ + 1 ELSE 0]
<1>0. /\ cl' = [c \in Client |-> IF cl[c].st = None THEN cl[c] ELSE Y(c)]
      /\ \A c \in Client : cl[c].st # None => cl[c].check > 0
      /\ UNCHANGED <<loc, high, ev, req, cache, nr, gline, down>>
  BY DEF Tick
<1>1. /\ Now \in Tables /\ Sound(Now) /\ Now.cl = cl
      /\ \A c \in Client : cl[c] \in Record /\ Fine(cl[c])
  BY NowIs DEF Sound, FdsOK, Tables
<1>2. ASSUME NEW c \in Client, cl[c].st # None
      PROVE  /\ Y(c) \in Record /\ Fine(Y(c)) /\ Y(c).st = cl[c].st /\ Y(c).fd = cl[c].fd
             /\ Y(c).authfd = cl[c].authfd /\ Y(c).dns = cl[c].dns /\ Y(c).hostp = cl[c].hostp
  <2> DEFINE x == cl[c]
             a == IF Pingable(x) /\ x.age < 2 THEN x.age + 1 ELSE x.age
             l == IF Pingable(x) THEN 0 ELSE 1
             w == IF Waiting(x) THEN x.waited + 1 ELSE 0
             y == [x EXCEPT !.age = a, !.life = l, !.check = 0, !.waited = w]
  <2>1. x \in Record /\ Fine(x) /\ x.check = 1
    <3>1. x \in Record /\ Fine(x) /\ x.check > 0
      BY <1>0, <1>1, <1>2
    <3>2. x.check \in 0..1
      BY <3>1 DEF Record
    <3> QED BY <3>1, <3>2
  <2>2. a \in 0..2 /\ l \in 0..1 /\ 0 \in 0..1
    <3>1. x.age \in 0..2
      BY <2>1 DEF Record
    <3> QED BY <3>1
  <2>3. w \in 0..3 /\ (Waiting(x) => w = x.waited + 1 /\ (x.waited = 0 \/ (x.waited = 1 /\ ~x.dead /\ ~x.dns /\ x.auth = "no")))
    BY <2>1 DEF Fine, Patient
  <2>4. Y(c) = y
    OBVIOUS
  <2>5. Waiting(x) /\ ~x.dead => l = 1
    <3>1. Waiting(x) /\ ~x.dead => ~Pingable(x)
      BY DEF Waiting, Pingable, Registered
    <3> QED BY <3>1
  <2> HIDE DEF a, l, w, Y
  <2>6. y \in Record
    BY <2>1, <2>2, <2>3 DEF Record
  <2>7. /\ y.st = x.st /\ y.fd = x.fd /\ y.authfd = x.authfd /\ y.dns = x.dns /\ y.hostp = x.hostp
        /\ y.auth = x.auth /\ y.dead = x.dead /\ y.life = l /\ y.check = 0 /\ y.waited = w
    BY <2>1 DEF Record
  <2> HIDE DEF y
  <2>8. Waiting(y) => Waiting(x)
    BY <2>7 DEF Waiting
  <2>9. Waiting(y) => Patient(y)
    <3> SUFFICES ASSUME Waiting(y) PROVE Patient(y)
      OBVIOUS
    <3>1. CASE x.waited = 0
      BY <2>3, <2>5, <2>7, <2>8, <3>1 DEF Patient
    <3>2. CASE x.waited = 1
      BY <2>3, <2>5, <2>7, <2>8, <3>2 DEF Patient
    <3> QED BY <2>3, <2>8, <3>1, <3>2
  <2>10. Fine(y)
    BY <1>2, <2>1, <2>7, <2>9 DEF Fine
  <2> QED BY <2>4, <2>6, <2>7, <2>10
<1>3. ASSUME NEW c \in Client
      PROVE  /\ cl'[c] \in Record /\ Fine(cl'[c]) /\ cl'[c].st = cl[c].st /\ cl'[c].fd = cl[c].fd
             /\ cl'[c].authfd = cl[c].authfd /\ cl'[c].dns = cl[c].dns /\ cl'[c].hostp = cl[c].hostp
  <2> HIDE DEF Y
  <2>1. cl'[c] = IF cl[c].st = None THEN cl[c] ELSE Y(c)
    BY <1>0
  <2> QED BY <1>1, <1>2, <2>1
<1>4. cl' \in [Client -> Record]
  <2> HIDE DEF Y
  <2> QED BY <1>0, <1>3
<1>5. Now' \in Tables
  BY <1>0, <1>1, <1>4 DEF Now, Tables
<1>6. /\ Now'.cl = cl' /\ Now'.loc = Now.loc /\ Now'.high = Now.high /\ Now'.ev = Now.ev
      /\ Now'.req = Now.req /\ Now'.nr = Now.nr
  BY <1>0 DEF Now
<1>7. Leads(Now, Now')
  BY <1>1, <1>3, <1>5, <1>6, RewritesAll
<1> QED
  BY <1>0, <1>7, PrimedKeeps

LEMMA CheckPingStep ==
    ASSUME ConnInv, NEW c \in Client, CheckPing(c)
    PROVE  ConnInv'
<1> DEFINE s == Now
           x == cl[c]
           y == [x EXCEPT !.check = 1]
           t == [s EXCEPT !.cl[c].check = 1]
           z == [y EXCEPT !.pinged = TRUE, !.age = 1]
           v == [t EXCEPT !.cl[c].pinged = TRUE, !.cl[c].age = 1]
           w == SetAccess([x EXCEPT !.authfd = 0, !.dns = FALSE, !.auth = "no",
                             !.half = FALSE, !.torn = x.torn \/ (x.half /\ x.authfd # 0),
                             !.age = 0, !.life = 0, !.check = 1])
           u == [t EXCEPT !.req = del_queries(@, c), !.cl[c] = w]
           late == x.st \in {"unknown", "connecting"} /\ x.life = 1
<1>0. /\ Here(c) /\ x.check = 0 /\ UNCHANGED <<cache, gline, down>> /\ Becomes(check_ping(s, c))
  BY DEF CheckPing
<1>1. /\ s \in Tables /\ Sound(s) /\ s.cl = cl /\ x \in Record /\ Fine(x) /\ x.st # None /\ ~down
  BY <1>0, HereIs
<1>2. \/ check_ping(s, c) = exit_client(s, c)
      \/ ~x.dead /\ x.st \in Unknown /\ (x.dns \/ x.auth # "no") /\ check_ping(s, c) = u
      \/ ~x.dead /\ ~late /\ check_ping(s, c) \in {t, v}
  <2> HIDE DEF s
  <2> QED BY <1>1 DEF check_ping, Registered
<1> HIDE DEF s
<1>3. y \in Record /\ z \in Record
  <2>1. 1 \in 0..1 /\ 1 \in 0..2
    OBVIOUS
  <2>2. y \in Record
    BY <1>1, <2>1 DEF Record
  <2> HIDE DEF y
  <2> QED BY <2>1, <2>2 DEF Record
<1>4. /\ y.st = x.st /\ y.fd = x.fd /\ y.authfd = x.authfd /\ y.dns = x.dns /\ y.hostp = x.hostp
      /\ y.auth = x.auth /\ y.dead = x.dead /\ y.waited = x.waited /\ y.life = x.life /\ y.check = 1
  BY <1>1 DEF Record
<1>5. \A f \in {"st", "fd", "authfd", "dns", "auth", "dead", "waited", "check", "life", "hostp"} : z[f] = y[f]
  <2> HIDE DEF y
  <2> QED BY <1>3 DEF Record
<1>6. t = [s EXCEPT !.cl[c] = y] /\ u = [[s EXCEPT !.cl[c] = w] EXCEPT !.req = del_queries(s.req, c)]
  <2> HIDE DEF w
  <2> QED BY <1>1 DEF Tables
<1>7. ASSUME ~x.dead, ~late PROVE Leads(s, t) /\ Leads(s, v)
  <2> HIDE DEF y
  <2>1. Waiting(x) => x.waited = 0
    BY <1>0, <1>1, <1>7 DEF Waiting, Fine, Patient
  <2>2. Fine(y)
    BY <1>1, <1>4, <2>1 DEF Fine, Waiting, Patient
  <2>3. Replaces(y, s.cl[c])
    BY <1>1, <1>3, <1>4, <2>2 DEF Replaces
  <2> HIDE DEF t
  <2>4. IsPut(t, s, c, y, s.req, s.nr)
    BY <1>1, <1>3, <1>6, PutIs
  <2>5. Leads(s, t)
    BY <1>1, <1>4, <2>3, <2>4, Rewrites
  <2>6. Sound(t) /\ t \in Tables /\ t.cl[c] = y /\ y.st # None
    BY <1>1, <1>4, <2>4, <2>5 DEF Leads, IsPut
  <2>7. v = [t EXCEPT !.cl[c] = z]
    BY <2>6
  <2> HIDE DEF v, z
  <2>8. IsPut(v, t, c, z, t.req, t.nr)
    BY <1>3, <2>6, <2>7, PutIs
  <2>9. Leads(t, v)
    BY <1>3, <1>5, <2>6, <2>8, RewritesAlike
  <2> QED BY <2>5, <2>9, LeadsOn
<1>8. ASSUME ~x.dead, x.st \in Unknown, x.dns \/ x.auth # "no" PROVE Leads(s, u)
  <2> DEFINE to == x.torn \/ (x.half /\ x.authfd # 0)
             w1 == [x EXCEPT !.authfd = 0, !.dns = FALSE, !.auth = "no", !.half = FALSE]
             w2 == [w1 EXCEPT !.torn = to, !.age = 0]
  <2>0. w = [w2 EXCEPT !.life = 0, !.check = 1, !.timer = TRUE]
    BY <1>1 DEF SetAccess
  <2>1. 0 \in 0..MaxFd /\ 0 \in 0..2 /\ 0 \in 0..1 /\ 1 \in 0..1 /\ to \in BOOLEAN
    <3>1. x.torn \in BOOLEAN /\ x.half \in BOOLEAN
      BY <1>1 DEF Record
    <3> QED BY <3>1, ConnConstants
  <2> HIDE DEF to, w
  <2>2. /\ w1 \in Record /\ w1.st = x.st /\ w1.fd = x.fd /\ w1.authfd = 0 /\ ~w1.dns /\ w1.auth = "no"
        /\ w1.dead = x.dead /\ w1.waited = x.waited /\ w1.hostp = x.hostp
    BY <1>1, <2>1 DEF Record
  <2> HIDE DEF w1
  <2>3. /\ w2 \in Record
        /\ \A f \in {"st", "fd", "authfd", "dns", "auth", "dead", "waited", "hostp"} : w2[f] = w1[f]
    <3>0. \A b \in BOOLEAN : [w1 EXCEPT !.torn = b, !.age = 0] \in Record
      <4>0. w1 \in Record /\ 0 \in 0..2
        BY <2>1, <2>2
      <4>1. /\ [w1 EXCEPT !.torn = TRUE, !.age = 0] \in Record
            /\ [w1 EXCEPT !.torn = FALSE, !.age = 0] \in Record
        BY ONLY <4>0 DEF Record
      <4> QED BY <4>1
    <3>1. w2 \in Record
      BY <2>1, <3>0, Zenon
    <3> QED BY <2>2, <3>1 DEF Record
  <2> HIDE DEF w2
  <2>4. /\ w \in Record /\ w.st = x.st /\ w.fd = x.fd /\ w.authfd = 0 /\ ~w.dns /\ w.auth = "no"
        /\ w.dead = x.dead /\ w.waited = x.waited /\ w.hostp = x.hostp /\ w.check = 1
    <3>1. w \in Record
      BY <2>0, <2>1, <2>3 DEF Record
    <3>2. \A f \in {"st", "fd", "authfd", "dns", "auth", "dead", "waited", "hostp"} : w[f] = w2[f]
      BY <2>0, <2>3 DEF Record
    <3>3. w.check = 1
      BY <2>0, <2>3 DEF Record
    <3> QED BY <2>2, <2>3, <3>1, <3>2, <3>3
  <2>5. Waiting(w) => w.waited \in {0, 1}
    <3>1. Waiting(w) => Waiting(x)
      BY <2>4 DEF Waiting
    <3> QED BY <1>0, <1>1, <1>8, <2>4, <3>1 DEF Fine, Patient
  <2>6. Fine(w)
    BY <1>1, <1>8, <2>4, <2>5 DEF Fine, Patient
  <2>7. Replaces(w, s.cl[c])
    BY <1>1, <2>4, <2>6 DEF Replaces
  <2>8. IsPut(u, s, c, w, del_queries(s.req, c), s.nr)
    <3> DEFINE a == [s EXCEPT !.cl[c] = w]
               r == del_queries(s.req, c)
    <3>1. IsPut(a, s, c, w, s.req, s.nr)
      BY <1>1, <2>4, PutIs
    <3>2. u = [a EXCEPT !.req = r]
      BY <1>6
    <3>3. r \subseteq [c : Client, type : {"ptr", "a"}]
      BY <1>1 DEF Tables, del_queries
    <3> HIDE DEF a, r, u
    <3>4. a \in Tables
      BY <3>1 DEF IsPut
    <3>5. /\ u \in Tables /\ u.loc = a.loc /\ u.high = a.high /\ u.ev = a.ev /\ u.req = r /\ u.nr = a.nr
          /\ u.cl = a.cl
      BY <3>2, <3>3, <3>4 DEF Tables
    <3> QED BY <3>1, <3>5 DEF IsPut, r
  <2> HIDE DEF u
  <2>9. \A S \in {Unknown, {"user"}, {"server"}} : w.st \in S <=> s.cl[c].st \in S
    BY <1>1, <2>4
  <2>10. s.cl[c].st # None
    BY <1>1
  <2> QED BY <1>1, <2>7, <2>8, <2>9, <2>10, Rewrites
<1> HIDE DEF t, u, v, late, x
<1>9. Leads(s, check_ping(s, c))
  BY <1>1, <1>2, <1>7, <1>8, ExitKeeps DEF x
<1> QED
  BY <1>0, <1>9, StepKeeps DEF s

-----------------------------------------------------------------------------
(* The commands that let many go.                                          *)

LEMMA CloseStep ==
    ASSUME ConnInv, Close
    PROVE  ConnInv'
<1>0. Becomes(SweepUnknown(Now, Down(high))) /\ UNCHANGED <<cache, gline, down>>
  BY DEF Close
<1>1. Sound(Now) /\ high \in 0..MaxFd
  BY NowIs DEF Tables
<1>2. Leads(Now, SweepUnknown(Now, Down(high)))
  BY <1>1, FdSeqs, CloseSweep
<1> QED
  BY <1>0, <1>2, StepKeeps

LEMMA GlineStep ==
    ASSUME ConnInv, NEW mask \in SUBSET Addr, Gline(mask)
    PROVE  ConnInv'
<1> DEFINE t == SweepMask(Now, Down(high), mask)
<1>0. Becomes(t) /\ UNCHANGED <<cache, down>> /\ gline' = gline \cup mask
  BY DEF Gline, GlineFds
<1>1. Sound(Now) /\ Now.high = high /\ Now.cl = cl
  BY NowIs
<1>2. Leads(Now, t) /\ Clear(t.cl, mask)
  BY <1>1, GlineSweep
<1> HIDE DEF t
<1>3. t \in Tables /\ Sound(t)
  BY <1>2 DEF Leads, Sound, FdsOK
<1>4. Now' = t /\ cl' = t.cl
  BY <1>0, <1>3, BecomesIs DEF Becomes
<1>5. \A d \in Client : cl'[d].hostp \in {None, cl[d].hostp}
                        /\ (cl'[d].st = "user" => cl[d].st = "user" \/ Home[d] \notin gline)
  BY <1>1, <1>2, <1>4 DEF Leads
<1>6. Sound(Now)' /\ cache' = cache /\ down' = down
  BY <1>0, <1>3, <1>4
<1>7. HostsOK(cl, cache)'
  BY <1>0, <1>5 DEF ConnInv, HostsOK
<1>8. Clear(cl, gline)'
  BY <1>0, <1>2, <1>4, <1>5 DEF ConnInv, Clear
<1>9. (cache \in Seq(Addr) /\ gline \subseteq Addr /\ down \in BOOLEAN)'
  BY <1>0 DEF ConnInv
<1> QED
  BY <1>6, <1>7, <1>8, <1>9 DEF ConnInv

(* Nobody keeps a host entry: whoever is there has a descriptor up to      *)
(* highest_fd.                                                             *)
LEMMA RehashStep ==
    ASSUME ConnInv, NEW mask \in SUBSET Addr, Rehash(mask)
    PROVE  ConnInv'
<1> DEFINE Y(c) == IF cl[c].fd \in 1..high THEN [cl[c] EXCEPT !.hostp = None] ELSE cl[c]
           k == [c \in Client |-> Y(c)]
           s == [Now EXCEPT !.cl = k]
           t == SweepMask(s, Up(high), mask)
<1>0. Becomes(t) /\ UNCHANGED <<gline, down>> /\ cache' = <<>>
  BY DEF Rehash
<1>1. /\ Now \in Tables /\ Sound(Now) /\ Now.high = high /\ Now.cl = cl
      /\ \A c \in Client : cl[c] \in Record /\ Fine(cl[c])
  BY NowIs DEF Sound, FdsOK, Tables
<1>2. ASSUME NEW c \in Client
      PROVE  /\ Y(c) \in Record /\ Fine(Y(c)) /\ Y(c).hostp = None /\ Y(c).st = cl[c].st /\ Y(c).fd = cl[c].fd
             /\ Y(c).authfd = cl[c].authfd /\ Y(c).dns = cl[c].dns
  <2>1. CASE cl[c].st = None
    <3>1. cl[c] = Gone
      BY <1>1, <2>1 DEF Fine
    <3>2. Y(c) = cl[c]
      BY <3>1 DEF Gone
    <3> QED BY <1>1, <3>1, <3>2, GoneFine DEF Gone
  <2>2. CASE cl[c].st # None
    <3> DEFINE x == cl[c]
               y == [x EXCEPT !.hostp = None]
    <3>1. Y(c) = y
      BY <1>1, <2>2, PlacedIs DEF Sound
    <3>2. x \in Record /\ Fine(x) /\ x.st # None
      BY <1>1, <2>2
    <3> HIDE DEF x
    <3>3. y \in Record /\ y.hostp = None
      BY <3>2 DEF Record
    <3>4. \A f \in {"st", "fd", "authfd", "dns", "auth", "dead", "waited", "check", "life"} : y[f] = x[f]
      BY <3>2 DEF Record
    <3> HIDE DEF y, Y
    <3>5. Fine(y)
      BY <3>2, <3>3, <3>4, AlikeFine
    <3>6. y.st = x.st /\ y.fd = x.fd /\ y.authfd = x.authfd /\ y.dns = x.dns
      BY <3>4
    <3> QED BY <3>1, <3>3, <3>5, <3>6 DEF x
  <2> QED BY <2>1, <2>2
<1> HIDE DEF Y
<1>3. k \in [Client -> Record] /\ \A c \in Client : k[c] = Y(c)
  BY <1>2
<1> HIDE DEF k
<1>4. /\ s \in Tables /\ s.cl = k /\ s.loc = Now.loc /\ s.high = Now.high /\ s.ev = Now.ev /\ s.req = Now.req
      /\ s.nr = Now.nr
  <2> DEFINE n == Now
  <2>1. n \in Tables
    BY <1>1
  <2> HIDE DEF n
  <2>2. LET a == [n EXCEPT !.cl = k]
        IN  /\ a \in Tables /\ a.cl = k /\ a.loc = n.loc /\ a.high = n.high /\ a.ev = n.ev /\ a.req = n.req
            /\ a.nr = n.nr
    BY <1>3, <2>1 DEF Tables
  <2> QED BY <2>2 DEF n
<1> HIDE DEF s
<1>5. Leads(Now, s)
  BY <1>1, <1>2, <1>3, <1>4, RewritesAll
<1>6. Sound(s) /\ high \in 0..MaxFd
  BY <1>1, <1>5 DEF Leads, Tables
<1>7. Leads(s, t)
  <2>1. Up(high) \in Seq(Fd)
    BY <1>6, FdSeqs
  <2> QED BY <1>6, <2>1, MaskKeeps
<1> HIDE DEF t
<1>8. Leads(Now, t)
  BY <1>5, <1>7, LeadsOn
<1>9. t \in Tables /\ Sound(t)
  BY <1>7 DEF Leads, Sound, FdsOK
<1>10. Now' = t /\ cl' = t.cl
  BY <1>0, <1>9, BecomesIs DEF Becomes
<1>11. Sound(Now)' /\ gline' = gline /\ down' = down
  BY <1>0, <1>9, <1>10
<1>12. \A d \in Client : cl'[d].hostp = None
  BY <1>2, <1>3, <1>4, <1>7, <1>10 DEF Leads
<1>13. HostsOK(cl, cache)'
  BY <1>12 DEF HostsOK
<1>14. Clear(cl, gline)'
  BY <1>0, <1>1, <1>8, <1>10 DEF ConnInv, Clear, Leads
<1>15. (cache \in Seq(Addr) /\ gline \subseteq Addr /\ down \in BOOLEAN)'
  BY <1>0 DEF ConnInv
<1> QED
  BY <1>11, <1>13, <1>14, <1>15 DEF ConnInv

-----------------------------------------------------------------------------
(* Host names.                                                             *)

LEMMA HostStep ==
    ASSUME ConnInv, Sound(Now)', UNCHANGED <<gline, down>>, cache' \in Seq(Addr), HostsOK(cl, cache)',
           \A d \in Client : cl'[d].st = cl[d].st
    PROVE  ConnInv'
  BY DEF ConnInv, Clear

\* k differs from cl in host entries that are gone.
Loses(k) ==
    /\ k \in [Client -> Record]
    /\ \A d \in Client : /\ Fine(k[d]) /\ k[d].st = cl[d].st /\ k[d].fd = cl[d].fd /\ k[d].authfd = cl[d].authfd
                         /\ k[d].dns = cl[d].dns /\ k[d].hostp \in {None, cl[d].hostp}

(* rem_cache finds everybody who points to the entry.                      *)
LEMMA FreedIs ==
    ASSUME ConnInv, NEW a \in Addr
    PROVE  Loses(Freed(cl, a)) /\ \A d \in Client : Freed(cl, a)[d].hostp # a
<1>1. /\ Sound(Now) /\ Now.high = high /\ Now.cl = cl /\ a # None
      /\ \A c \in Client : cl[c] \in Record /\ Fine(cl[c])
  BY NowIs, ConnConstants DEF Sound, FdsOK, Tables
<1> DEFINE k == Freed(cl, a)
<1>2. ASSUME NEW c \in Client
      PROVE  /\ k[c] \in Record /\ Fine(k[c]) /\ k[c].st = cl[c].st /\ k[c].fd = cl[c].fd
             /\ k[c].authfd = cl[c].authfd /\ k[c].dns = cl[c].dns /\ k[c].hostp \in {None, cl[c].hostp}
             /\ k[c].hostp # a
  <2> DEFINE x == cl[c]
             y == [x EXCEPT !.hostp = None]
  <2>1. k[c] = IF x.hostp = a /\ x.fd \in 1..high THEN y ELSE x
    BY DEF Freed
  <2>2. x \in Record /\ Fine(x) /\ a # None
    BY <1>1
  <2>3. x.hostp = a => x.st # None /\ x.fd \in 1..high
    <3>1. x.hostp = a => x.st # None
      BY <2>2 DEF Fine, Gone
    <3>2. x.st # None => x.fd \in 1..high
      BY <1>1, PlacedIs DEF Sound
    <3> QED BY <3>1, <3>2
  <2> HIDE DEF x
  <2>4. y \in Record /\ y.hostp = None
    BY <2>2 DEF Record
  <2>5. \A f \in {"st", "fd", "authfd", "dns", "auth", "dead", "waited", "check", "life"} : y[f] = x[f]
    BY <2>2 DEF Record
  <2> HIDE DEF y, k
  <2>6. CASE x.hostp = a
    <3>1. k[c] = y /\ x.st # None
      BY <2>1, <2>3, <2>6
    <3>2. Fine(y)
      BY <2>2, <2>4, <2>5, <3>1, AlikeFine
    <3>3. y.st = x.st /\ y.fd = x.fd /\ y.authfd = x.authfd /\ y.dns = x.dns
      BY <2>5
    <3> QED BY <2>2, <2>4, <3>1, <3>2, <3>3 DEF x
  <2>7. CASE x.hostp # a
    BY <2>1, <2>2, <2>7 DEF x
  <2> QED BY <2>6, <2>7
<1>3. k \in [Client -> Record]
  <2>1. k = [c \in Client |-> k[c]]
    BY DEF Freed
  <2> HIDE DEF k
  <2> QED BY <1>2, <2>1
<1> QED
  BY <1>2, <1>3 DEF Loses

(* The look-up of c has ended with record y, and others may have lost the  *)
(* entry that had to make room.                                            *)
LEMMA AnswerKeeps ==
    ASSUME ConnInv, NEW k, Loses(k), NEW c \in Client, cl[c].st # None,
           NEW y \in Record, Fine(y), y.st = cl[c].st, y.fd = cl[c].fd, y.authfd = cl[c].authfd,
           cl' = [k EXCEPT ![c] = y], req' = del_queries(req, c), UNCHANGED <<loc, high, ev, nr>>
    PROVE  Sound(Now)' /\ \A d \in Client : cl'[d].st = cl[d].st
<1> DEFINE s == Now
           t == Now'
<1>1. /\ s \in Tables /\ Sound(s) /\ s.cl = cl /\ s.loc = loc /\ s.high = high /\ s.ev = ev /\ s.req = req
      /\ s.nr = nr
  BY NowIs
<1>2. /\ t.cl = cl' /\ t.loc = s.loc /\ t.high = s.high /\ t.ev = s.ev /\ t.nr = s.nr
      /\ t.req = del_queries(s.req, c)
  BY DEF Now
<1>3. /\ cl' \in [Client -> Record] /\ cl'[c] = y /\ \A d \in Client : d # c => cl'[d] = k[d]
  BY DEF Loses
<1>4. \A d \in Client : /\ Fine(cl'[d]) /\ cl'[d].st = cl[d].st /\ cl'[d].fd = cl[d].fd
                        /\ cl'[d].authfd = cl[d].authfd
                        /\ (d # c => cl'[d].dns = cl[d].dns)
  BY <1>3 DEF Loses
<1>5. t \in Tables
  <2>1. del_queries(req, c) \subseteq req
    BY DEF del_queries
  <2>2. loc' = loc /\ high' = high /\ ev' = ev /\ nr' = nr
    OBVIOUS
  <2> QED BY <1>1, <1>3, <2>1, <2>2 DEF Now, Tables
<1> HIDE DEF s, t
<1>6. FdsOK(t)
  <2>1. \A d \in Client : /\ Fine(t.cl[d]) /\ t.cl[d].fd = s.cl[d].fd /\ t.cl[d].authfd \in {0, s.cl[d].authfd}
                          /\ t.cl[d].st = None <=> s.cl[d].st = None
    BY <1>1, <1>2, <1>4
  <2> QED BY <1>1, <1>2, <1>5, <2>1, SameFds DEF Sound
<1>7. CountsOK(t)
  <2>1. \A d \in Client : \A S \in {Unknown, {"user"}, {"server"}} : t.cl[d].st \in S <=> s.cl[d].st \in S
    BY <1>1, <1>2, <1>4
  <2> QED BY <1>1, <1>2, <2>1, SameCounts DEF Sound
<1>8. ReqsOK(t)
  <2>1. \A q \in t.req : q \in s.req /\ q.c \in Client /\ q.c # c
    BY <1>1, <1>2 DEF del_queries, Tables
  <2>2. \A q \in s.req : s.cl[q.c].st # None /\ s.cl[q.c].dns
    BY <1>1 DEF Sound, ReqsOK
  <2>3. \A q, p \in s.req : q.c = p.c => q = p
    BY <1>1 DEF Sound, ReqsOK
  <2>4. \A q \in t.req : t.cl[q.c].st # None /\ t.cl[q.c].dns
    BY <1>1, <1>2, <1>4, <2>1, <2>2
  <2> QED BY <2>1, <2>3, <2>4 DEF ReqsOK
<1>9. Sound(t)
  BY <1>6, <1>7, <1>8 DEF Sound
<1> QED
  BY <1>4, <1>9 DEF t

LEMMA AskedIs ==
    ASSUME ConnInv, NEW q \in req
    PROVE  /\ q.c \in Client /\ q.type \in {"ptr", "a"} /\ q = [c |-> q.c, type |-> q.type]
           /\ cl[q.c] \in Record /\ Fine(cl[q.c]) /\ cl[q.c].st # None /\ cl[q.c].dns
           /\ req \ {q} = del_queries(req, q.c) /\ Loses(cl)
<1>1. Sound(Now) /\ Now.cl = cl /\ Now.req = req /\ Now \in Tables
  BY NowIs
<1>2. /\ q.c \in Client /\ q.type \in {"ptr", "a"} /\ q = [c |-> q.c, type |-> q.type]
  BY <1>1 DEF Tables
<1>3. /\ cl[q.c] \in Record /\ Fine(cl[q.c]) /\ cl[q.c].st # None /\ cl[q.c].dns /\ Loses(cl)
  BY <1>1, <1>2 DEF Sound, FdsOK, Tables, ReqsOK, Loses
<1>4. req \ {q} = del_queries(req, q.c)
  BY <1>1 DEF Sound, ReqsOK, del_queries
<1> QED
  BY <1>2, <1>3, <1>4

LEMMA DnsUnknownStep ==
    ASSUME ConnInv, NEW q \in req, DnsUnknown(q)
    PROVE  ConnInv'
<1> DEFINE c == q.c
           y == [NoDns(cl[c]) EXCEPT !.hostp = None]
<1>0. /\ req' = del_queries(req, c) /\ cl' = [cl EXCEPT ![c] = y]
      /\ UNCHANGED <<loc, high, ev, nr, gline, down, cache>>
  BY DEF DnsUnknown, Answered, Still
<1>1. c \in Client /\ cl[c] \in Record /\ Fine(cl[c]) /\ cl[c].st # None /\ Loses(cl)
  BY AskedIs
<1>2. /\ y \in Record /\ Fine(y) /\ y.hostp = None
      /\ \A f \in {"st", "fd", "authfd", "auth", "dead", "step"} : y[f] = cl[c][f]
  BY <1>1, NoDnsFine
<1> HIDE DEF y, c
<1>3. y.st = cl[c].st /\ y.fd = cl[c].fd /\ y.authfd = cl[c].authfd
  BY <1>2
<1>4. Sound(Now)' /\ \A d \in Client : cl'[d].st = cl[d].st
  BY <1>0, <1>1, <1>2, <1>3, AnswerKeeps
<1>5. HostsOK(cl, cache)'
  BY <1>0, <1>1, <1>2 DEF ConnInv, HostsOK, Loses
<1>6. cache' \in Seq(Addr)
  BY <1>0 DEF ConnInv
<1> QED
  BY <1>0, <1>4, <1>5, <1>6, HostStep

LEMMA DnsTimeoutStep ==
    ASSUME ConnInv, NEW q \in req, DnsTimeout(q)
    PROVE  ConnInv'
<1> DEFINE c == q.c
           x == cl[c]
           y == NoDns(x)
<1>0. /\ req' = req \ {q} /\ cl' = [cl EXCEPT ![c] = y]
      /\ UNCHANGED <<loc, high, ev, nr, gline, down, cache>>
  BY DEF DnsTimeout, Still
<1>1. /\ c \in Client /\ x \in Record /\ Fine(x) /\ x.st # None /\ Loses(cl)
      /\ req' = del_queries(req, c)
  BY <1>0, AskedIs
<1>2. /\ y \in Record /\ y.dns = FALSE
      /\ \A f \in {"st", "fd", "authfd", "auth", "dead", "waited", "check", "life", "hostp"} : y[f] = x[f]
  <2> HIDE DEF x
  <2> QED BY <1>1 DEF NoDns, SetAccess, Record
<1> HIDE DEF y, c
<1>3. /\ y.st = x.st /\ y.fd = x.fd /\ y.authfd = x.authfd /\ y.hostp = x.hostp /\ y.auth = x.auth
      /\ y.dead = x.dead /\ y.waited = x.waited /\ y.check = x.check /\ y.life = x.life
  BY <1>2
<1>4. Fine(y)
  <2> HIDE DEF x
  <2> QED BY <1>1, <1>2, <1>3 DEF Record, Fine, Patient, Waiting
<1>5. Sound(Now)' /\ \A d \in Client : cl'[d].st = cl[d].st
  BY <1>0, <1>1, <1>2, <1>3, <1>4, AnswerKeeps
<1>6. HostsOK(cl, cache)'
  BY <1>0, <1>1, <1>3 DEF ConnInv, HostsOK, Loses
<1>7. cache' \in Seq(Addr)
  BY <1>0 DEF ConnInv
<1> QED
  BY <1>0, <1>5, <1>6, <1>7, HostStep

LEMMA DnsAddressStep ==
    ASSUME ConnInv, NEW q \in req, DnsAddress(q)
    PROVE  ConnInv'
<1> DEFINE c == q.c
           a == Home[c]
           new == Touched(cache, a)
           out == Evicted(new)
           kept == IF out = {} THEN cl ELSE Freed(cl, CHOOSE x \in out : TRUE)
           y == [NoDns(kept[c]) EXCEPT !.hostp = a]
<1>0. /\ req' = del_queries(req, c) /\ cl' = [kept EXCEPT ![c] = y] /\ cache' = Trimmed(new)
      /\ UNCHANGED <<loc, high, ev, nr, gline, down>>
  BY DEF DnsAddress, Still
<1>1. c \in Client /\ cl[c] \in Record /\ Fine(cl[c]) /\ cl[c].st # None /\ Loses(cl)
  BY AskedIs
<1>2. a \in Addr /\ cache \in Seq(Addr) /\ HostsOK(cl, cache)
  BY <1>1, ConnConstants DEF ConnInv
<1>3. /\ new \in Seq(Addr) /\ Len(new) >= 1 /\ new[1] = a
      /\ \A x \in ToSet(cache) : x \in ToSet(new)
  BY <1>2, TouchedIs
<1> HIDE DEF c, a, new
<1>4. /\ Trimmed(new) \in Seq(Addr) /\ a \in ToSet(Trimmed(new))
      /\ Evicted(new) = {} => Trimmed(new) = new
      /\ \A z : z \in Evicted(new) =>
           Evicted(new) = {z} /\ \A x \in ToSet(new) : x # z => x \in ToSet(Trimmed(new))
  BY <1>3, TrimmedIs
<1>5. Loses(kept) /\ \A d \in Client : kept[d].hostp # None => kept[d].hostp \in ToSet(Trimmed(new))
  <2>1. CASE out = {}
    <3>1. kept = cl /\ Trimmed(new) = new
      BY <1>4, <2>1
    <3> QED BY <1>1, <1>2, <1>3, <3>1 DEF HostsOK
  <2>2. CASE out # {}
    <3>1. PICK z \in out : z = CHOOSE x \in out : TRUE
      <4> HIDE DEF out
      <4> QED BY <2>2
    <3>2. kept = Freed(cl, z)
      BY <2>2, <3>1
    <3>3. z \in Addr
      <4>1. new \in Seq(Addr) /\ Len(new) \in 1..Len(new)
        BY <1>3
      <4>2. out \subseteq {new[Len(new)]}
        BY DEF Evicted, Last
      <4> QED BY <3>1, <4>1, <4>2
    <3>4. Loses(kept) /\ \A d \in Client : kept[d].hostp # z
      BY <3>2, <3>3, FreedIs
    <3>5. \A x \in ToSet(new) : x # z => x \in ToSet(Trimmed(new))
      BY <1>4, <3>1
    <3> HIDE DEF kept, out
    <3>6. ASSUME NEW d \in Client, kept[d].hostp # None PROVE kept[d].hostp \in ToSet(Trimmed(new))
      <4>1. kept[d].hostp = cl[d].hostp /\ cl[d].hostp # None
        BY <3>4, <3>6 DEF Loses
      <4>2. cl[d].hostp \in ToSet(new)
        BY <1>2, <1>3, <4>1 DEF HostsOK
      <4> QED BY <3>4, <3>5, <4>1, <4>2
    <3> QED BY <3>4, <3>6
  <2> QED BY <2>1, <2>2
<1> HIDE DEF kept, out
<1>6. kept[c] \in Record /\ Fine(kept[c]) /\ kept[c].st = cl[c].st /\ kept[c].fd = cl[c].fd
      /\ kept[c].authfd = cl[c].authfd
  BY <1>1, <1>5 DEF Loses
<1>7. /\ y \in Record /\ Fine(y) /\ y.hostp = a
      /\ \A f \in {"st", "fd", "authfd", "auth", "dead", "step"} : y[f] = kept[c][f]
  BY <1>1, <1>2, <1>6, NoDnsFine
<1> HIDE DEF y
<1>8. y.st = cl[c].st /\ y.fd = cl[c].fd /\ y.authfd = cl[c].authfd
  BY <1>6, <1>7
<1>9. Sound(Now)' /\ \A d \in Client : cl'[d].st = cl[d].st
  BY <1>0, <1>1, <1>5, <1>7, <1>8, AnswerKeeps
<1>10. HostsOK(cl, cache)'
  <2>1. \A d \in Client : cl'[d] = IF d = c THEN y ELSE kept[d]
    BY <1>0, <1>1, <1>5 DEF Loses
  <2> QED BY <1>0, <1>4, <1>5, <1>7, <2>1 DEF HostsOK
<1>11. cache' \in Seq(Addr)
  BY <1>0, <1>4
<1> QED
  BY <1>0, <1>9, <1>10, <1>11, HostStep

LEMMA DnsNameStep ==
    ASSUME ConnInv, NEW q \in req, NEW a \in Addr, DnsName(q, a)
    PROVE  ConnInv'
<1> DEFINE c == q.c
           y == [NoDns(cl[c]) EXCEPT !.hostp = a]
<1>0. UNCHANGED <<loc, high, ev, nr, gline, down>>
  BY DEF DnsName, Still
<1>1. c \in Client /\ cl[c] \in Record /\ Fine(cl[c]) /\ cl[c].st # None /\ cl[c].dns /\ Loses(cl)
  BY AskedIs
<1>2. CASE Cached(a)
  <2>0. req' = del_queries(req, c) /\ cl' = [cl EXCEPT ![c] = y] /\ cache' = Touched(cache, a)
    BY <1>2 DEF DnsName, Answered
  <2>1. /\ y \in Record /\ Fine(y) /\ y.hostp = a
        /\ \A f \in {"st", "fd", "authfd", "auth", "dead", "step"} : y[f] = cl[c][f]
    BY <1>1, NoDnsFine
  <2> HIDE DEF y, c
  <2>2. y.st = cl[c].st /\ y.fd = cl[c].fd /\ y.authfd = cl[c].authfd
    BY <2>1
  <2>3. Sound(Now)' /\ \A d \in Client : cl'[d].st = cl[d].st
    BY <1>0, <1>1, <2>0, <2>1, <2>2, AnswerKeeps
  <2>4. cache' \in Seq(Addr) /\ a \in ToSet(cache') /\ \A x \in ToSet(cache) : x \in ToSet(cache')
    BY <2>0, TouchedIs DEF ConnInv
  <2>5. \A d \in Client : cl'[d] = IF d = c THEN y ELSE cl[d]
    BY <1>1, <2>0 DEF Loses
  <2>6. HostsOK(cl, cache)'
    BY <2>1, <2>4, <2>5 DEF ConnInv, HostsOK
  <2> QED BY <1>0, <2>3, <2>4, <2>6, HostStep
<1>3. CASE ~Cached(a)
  <2> DEFINE p == [q EXCEPT !.type = "a"]
  <2>0. req' = (req \ {q}) \cup {p} /\ UNCHANGED <<cl, cache>>
    BY <1>3 DEF DnsName
  <2>1. p \in [c : Client, type : {"ptr", "a"}] /\ p.c = c
    <3>1. q = [c |-> q.c, type |-> q.type] /\ q.c \in Client
      BY AskedIs
    <3>2. p = [c |-> q.c, type |-> "a"]
      BY <3>1
    <3> QED BY <3>1, <3>2
  <2> HIDE DEF p, c
  <2>2. Sound(Now) /\ Now \in Tables /\ Now.req = req /\ Now.cl = cl
    BY NowIs
  <2>3. /\ Now'.cl = Now.cl /\ Now'.loc = Now.loc /\ Now'.high = Now.high /\ Now'.ev = Now.ev
        /\ Now'.req = req' /\ Now'.nr = Now.nr
    BY <1>0, <2>0 DEF Now
  <2>4. Now' \in Tables
    <3>1. req' \subseteq [c : Client, type : {"ptr", "a"}]
      BY <2>0, <2>1, <2>2 DEF Tables
    <3> QED BY <1>0, <2>0, <2>2, <3>1 DEF Now, Tables
  <2>5. Sound(Now')
    <3> DEFINE t == Now'
               s == Now
    <3>1. t \in Tables /\ t.cl = s.cl /\ t.loc = s.loc /\ t.high = s.high /\ t.ev = s.ev /\ t.nr = s.nr /\ t.req = req'
      BY <2>3, <2>4
    <3>2. Sound(s) /\ s.req = req /\ s.cl = cl
      BY <2>2
    <3> HIDE DEF s, t
    <3>3. FdsOK(t)
      <4>1. \A d \in Client : Fine(t.cl[d])
        BY <3>1, <3>2 DEF Sound, FdsOK
      <4> QED BY <3>1, <3>2, <4>1, SameFds DEF Sound
    <3>4. CountsOK(t)
      BY <3>1, <3>2, SameCounts DEF Sound
    <3>5. ReqsOK(t)
      <4>1. \A z \in req' : z = p \/ (z \in req /\ z.c # c)
        BY <2>0, AskedIs DEF c, del_queries
      <4>2. \A z \in req : cl[z.c].st # None /\ cl[z.c].dns
        BY <3>2 DEF Sound, ReqsOK
      <4>3. \A z, w \in req : z.c = w.c => z = w
        BY <3>2 DEF Sound, ReqsOK
      <4>4. \A z \in t.req : t.cl[z.c].st # None /\ t.cl[z.c].dns
        BY <1>1, <2>1, <3>1, <3>2, <4>1, <4>2
      <4>5. \A z, w \in t.req : z.c = w.c => z = w
        BY <2>1, <3>1, <4>1, <4>3
      <4> QED BY <4>4, <4>5 DEF ReqsOK
    <3>6. Sound(t)
      BY <3>3, <3>4, <3>5 DEF Sound
    <3> QED BY <3>6 DEF t
  <2>6. HostsOK(cl, cache)' /\ cache' \in Seq(Addr)
    BY <2>0 DEF ConnInv, HostsOK
  <2> QED BY <1>0, <2>0, <2>5, <2>6, HostStep
<1> QED
  BY <1>2, <1>3

LEMMA ExpireStep ==
    ASSUME ConnInv, NEW a \in Addr, Expire(a)
    PROVE  ConnInv'
<1> DEFINE k == Freed(cl, a)
<1>0. cl' = k /\ cache' = RemoveFirst(cache, a) /\ UNCHANGED <<loc, high, ev, nr, req, gline, down>>
  BY DEF Expire, Still
<1>1. Loses(k) /\ \A d \in Client : k[d].hostp # a
  BY FreedIs
<1> HIDE DEF k
<1>2. Sound(Now) /\ Now \in Tables /\ Now.cl = cl
  BY NowIs
<1>3. /\ Now'.cl = k /\ Now'.loc = Now.loc /\ Now'.high = Now.high /\ Now'.ev = Now.ev
      /\ Now'.req = Now.req /\ Now'.nr = Now.nr
  BY <1>0 DEF Now
<1>4. Now' \in Tables
  BY <1>0, <1>1, <1>2 DEF Now, Tables, Loses
<1>5. Leads(Now, Now')
  BY <1>1, <1>2, <1>3, <1>4, RewritesAll DEF Loses
<1>6. Sound(Now') /\ \A d \in Client : cl'[d].st = cl[d].st
  BY <1>0, <1>1, <1>5 DEF Leads, Loses
<1>7. cache' \in Seq(Addr) /\ \A x \in ToSet(cache) : x # a => x \in ToSet(cache')
  BY <1>0, RemovedIs DEF ConnInv
<1>8. HostsOK(cl, cache)'
  BY <1>0, <1>1, <1>7 DEF ConnInv, HostsOK, Loses
<1> QED
  BY <1>0, <1>6, <1>7, <1>8, HostStep

-----------------------------------------------------------------------------
(* Ident.                                                                  *)

(* The query of c has ended: its descriptor and its event are gone, and    *)
(* highest_fd comes down if it was the highest.                            *)
LEMMA AuthEnds ==
    ASSUME ConnInv, NEW c \in Client, Here(c), cl[c].auth # "no",
           NEW y \in Record, Fine(y), y.authfd = 0,
           y.fd = cl[c].fd, y.st = cl[c].st, y.dns = cl[c].dns, y.hostp = cl[c].hostp,
           cl' = [cl EXCEPT ![c] = y], ev' = [ev EXCEPT ![cl[c].authfd] = NoEvent],
           high' = IF high = cl[c].authfd THEN Highest(loc, high) ELSE high,
           UNCHANGED <<loc, req, cache, nr, gline, down>>
    PROVE  ConnInv'
<1> DEFINE s == Now
           t == Now'
           g == cl[c].authfd
<1>1. /\ s \in Tables /\ Sound(s) /\ s.cl = cl /\ s.loc = loc /\ s.high = high /\ s.ev = ev /\ s.req = req
      /\ s.nr = nr /\ cl[c].st # None /\ Fine(cl[c])
  BY NowIs, HereIs
<1>2. /\ t.cl = cl' /\ t.loc = loc /\ t.high = high' /\ t.ev = ev' /\ t.nr = nr /\ t.req = req
  BY DEF Now
<1>3. g # 0 /\ g \in Fd /\ loc[g] = None /\ ev[g] = <<c, "auth">> /\ high \in Nat /\ MaxFd \in Nat /\ high \in 0..MaxFd
  <2>1. g # 0
    BY <1>1 DEF Fine
  <2> QED BY <1>1, <2>1, PlacedIs, ConnConstants DEF Sound, Tables
<1>4. /\ high' \in 0..high /\ \A f \in 1..high : loc[f] # None => f <= high'
  <2>1. /\ Highest(loc, high) \in 0..high
        /\ \A f \in 1..high : loc[f] # None => f <= Highest(loc, high)
    BY <1>3, HighestIs
  <2> QED BY <1>3, <2>1
<1>5. /\ cl' \in [Client -> Record] /\ cl'[c] = y /\ \A d \in Client : d # c => cl'[d] = cl[d]
  BY <1>1 DEF Tables
<1>6. /\ ev' \in [Fd -> Event] /\ \A f \in Fd : f # g => ev'[f] = ev[f]
  <2>1. ev \in [Fd -> Event] /\ NoEvent \in Event
    BY <1>1 DEF Tables, Event
  <2> HIDE DEF g
  <2> QED BY <1>3, <2>1 DEF g
<1>7. t \in Tables
  <2>1. high' \in 0..MaxFd
    BY <1>3, <1>4
  <2>2. loc' = loc /\ nr' = nr /\ req' = req
    OBVIOUS
  <2> QED BY <1>1, <1>5, <1>6, <2>1, <2>2 DEF Now, Tables
<1>8. ASSUME NEW d \in Client, t.cl[d].st # None PROVE Placed(t, d)
  <2>1. cl[d].st # None /\ cl'[d].fd = cl[d].fd /\ cl'[d].authfd \in {0, cl[d].authfd}
        /\ (d = c => cl'[d].authfd = 0)
    BY <1>2, <1>5, <1>8
  <2>2. /\ cl[d].fd \in Fd /\ cl[d].fd \in 1..high /\ loc[cl[d].fd] = d /\ d # None /\ ev[cl[d].fd] = <<d, "conn">>
        /\ cl[d].authfd # 0 => /\ cl[d].authfd \in Fd /\ loc[cl[d].authfd] = None
                               /\ ev[cl[d].authfd] = <<d, "auth">>
    <3>1. FdsOK(s) /\ s.cl[d].st # None
      BY <1>1, <2>1 DEF Sound
    <3> HIDE DEF s
    <3> QED BY <1>1, <3>1, PlacedIs
  <2>3. cl[d].fd # g /\ cl[d].fd <= high' /\ (d # c /\ cl[d].authfd # 0 => cl[d].authfd # g)
    BY <1>3, <1>4, <2>2, EventsDiffer
  <2>4. cl[d].fd \in 1..high' /\ ev'[cl[d].fd] = <<d, "conn">>
    BY <1>3, <1>4, <1>6, <2>2, <2>3
  <2>5. cl'[d].authfd # 0 => loc[cl'[d].authfd] = None /\ ev'[cl'[d].authfd] = <<d, "auth">>
    BY <1>6, <2>1, <2>2, <2>3
  <2> HIDE DEF t
  <2> QED BY <1>2, <2>1, <2>2, <2>4, <2>5 DEF Placed
<1> HIDE DEF s, t, g
<1>9. FdsOK(t)
  <2>1. \A d \in Client : Fine(t.cl[d])
    BY <1>1, <1>2, <1>5 DEF Sound, FdsOK
  <2>2. ASSUME NEW f \in Fd, t.loc[f] # None PROVE t.cl[t.loc[f]].fd = f
    <3>1. t.loc[f] \in Client /\ t.loc[f] = loc[f]
      BY <1>2, <1>7, <2>2 DEF Tables
    <3>2. cl[loc[f]].fd = f
      BY <1>1, <2>2, <3>1 DEF Sound, FdsOK
    <3> QED BY <1>2, <1>5, <3>1, <3>2
  <2> QED BY <1>7, <1>8, <2>1, <2>2 DEF FdsOK
<1>10. \A d \in Client : cl'[d].st = cl[d].st /\ cl'[d].hostp = cl[d].hostp /\ cl'[d].dns = cl[d].dns
  BY <1>5
<1>11. CountsOK(t)
  <2>1. \A d \in Client : \A S \in {Unknown, {"user"}, {"server"}} : t.cl[d].st \in S <=> s.cl[d].st \in S
    BY <1>1, <1>2, <1>10
  <2>2. t.nr = s.nr /\ CountsOK(s)
    BY <1>1, <1>2 DEF Sound
  <2> QED BY <2>1, <2>2, SameCounts
<1>12. ReqsOK(t)
  <2>1. \A q \in req : q.c \in Client
    BY <1>1 DEF Tables
  <2> QED BY <1>1, <1>2, <1>10, <2>1 DEF Sound, ReqsOK
<1>13. Sound(t) /\ Sound(Now')
  BY <1>9, <1>11, <1>12 DEF Sound, t
<1>14. HostsOK(cl, cache)' /\ cache' \in Seq(Addr)
  BY <1>10 DEF ConnInv, HostsOK
<1> QED
  BY <1>10, <1>13, <1>14, HostStep

LEMMA SendAuthPortsStep ==
    ASSUME ConnInv, NEW c \in Client, NEW p, SendAuthPorts(c, p)
    PROVE  ConnInv'
<1> DEFINE x == cl[c]
<1>0. /\ Here(c) /\ x.auth = "write" /\ UNCHANGED <<loc, req, cache, nr, gline, down>>
  BY DEF SendAuthPorts
<1>1. /\ Now \in Tables /\ Sound(Now) /\ Now.cl = cl /\ x \in Record /\ Fine(x) /\ x.st # None /\ ~down
  BY <1>0, HereIs
<1>2. CASE p
  <2> DEFINE y == [x EXCEPT !.auth = "read"]
  <2>0. cl' = [cl EXCEPT ![c] = y] /\ UNCHANGED <<ev, high>>
    BY <1>2 DEF SendAuthPorts
  <2> HIDE DEF x
  <2>1. y \in Record /\ y.auth = "read"
    BY <1>1 DEF Record
  <2>2. \A f \in {"st", "fd", "authfd", "dns", "dead", "waited", "check", "life", "hostp"} : y[f] = x[f]
    BY <1>1 DEF Record
  <2> HIDE DEF y
  <2>3. /\ y.st = x.st /\ y.fd = x.fd /\ y.authfd = x.authfd /\ y.dns = x.dns /\ y.hostp = x.hostp
        /\ y.dead = x.dead /\ y.waited = x.waited /\ y.check = x.check /\ y.life = x.life
    BY <2>2
  <2>4. Fine(y)
    BY <1>0, <1>1, <2>1, <2>3 DEF Fine, Patient, Waiting
  <2>5. Replaces(y, Now.cl[c])
    BY <1>1, <2>1, <2>3, <2>4 DEF Replaces, x
  <2>6. Now' = [Now EXCEPT !.cl[c] = y]
    BY <1>0, <2>0 DEF Now
  <2>7. IsPut(Now', Now, c, y, Now.req, Now.nr)
    <3> DEFINE t == Now'
    <3>1. t = [Now EXCEPT !.cl[c] = y]
      BY <2>6
    <3> HIDE DEF t
    <3>2. IsPut(t, Now, c, y, Now.req, Now.nr)
      BY <1>1, <2>1, <3>1, PutIs
    <3> QED BY <3>2 DEF t
  <2>8. Leads(Now, Now')
    BY <1>1, <2>3, <2>5, <2>7, Rewrites DEF x
  <2> QED BY <1>0, <2>8, PrimedKeeps
<1>3. CASE ~p
  <2> DEFINE y == NoAuth(x)
  <2>0. /\ cl' = [cl EXCEPT ![c] = y] /\ ev' = [ev EXCEPT ![cl[c].authfd] = NoEvent]
        /\ high' = IF high = cl[c].authfd THEN Highest(loc, high) ELSE high
    BY <1>3 DEF SendAuthPorts
  <2>1. /\ y \in Record /\ Fine(y) /\ y.authfd = 0
        /\ \A f \in {"st", "fd", "dns", "hostp", "dead", "step", "half", "torn"} : y[f] = x[f]
    BY <1>1, NoAuthFine
  <2> HIDE DEF y
  <2>2. y.fd = x.fd /\ y.st = x.st /\ y.dns = x.dns /\ y.hostp = x.hostp
    BY <2>1
  <2>3. x.auth # "no"
    BY <1>0
  <2> QED BY <1>0, <2>0, <2>1, <2>2, <2>3, AuthEnds
<1> QED
  BY <1>2, <1>3

LEMMA ReadAuthPortsStep ==
    ASSUME ConnInv, NEW c \in Client, ReadAuthPorts(c)
    PROVE  ConnInv'
<1> DEFINE x == cl[c]
           n == NoAuth(x)
           y == [n EXCEPT !.half = FALSE, !.torn = x.torn \/ x.half]
<1>0. /\ Here(c) /\ x.auth = "read" /\ UNCHANGED <<loc, req, cache, nr, gline, down>>
      /\ cl' = [cl EXCEPT ![c] = y] /\ ev' = [ev EXCEPT ![cl[c].authfd] = NoEvent]
      /\ high' = IF high = cl[c].authfd THEN Highest(loc, high) ELSE high
  BY DEF ReadAuthPorts
<1>1. x \in Record /\ Fine(x) /\ x.st # None
  BY <1>0, HereIs
<1>2. /\ n \in Record /\ Fine(n) /\ n.authfd = 0
      /\ \A f \in {"st", "fd", "dns", "hostp", "dead", "step", "half", "torn"} : n[f] = x[f]
  BY <1>1, NoAuthFine
<1> HIDE DEF n
<1>3. (x.torn \/ x.half) \in BOOLEAN
  OBVIOUS
<1>4. y \in Record
  <2>0. n \in Record
    BY <1>2
  <2>1. /\ [n EXCEPT !.half = FALSE, !.torn = TRUE] \in Record
        /\ [n EXCEPT !.half = FALSE, !.torn = FALSE] \in Record
    BY ONLY <2>0 DEF Record
  <2>2. CASE x.torn \/ x.half
    <3>1. (x.torn \/ x.half) = TRUE
      BY <2>2
    <3> QED BY <2>1, <3>1
  <2>3. CASE ~(x.torn \/ x.half)
    <3>1. (x.torn \/ x.half) = FALSE
      BY <2>3
    <3> QED BY <2>1, <3>1
  <2> QED BY <2>2, <2>3
<1>5. \A f \in {"st", "fd", "authfd", "dns", "auth", "dead", "waited", "check", "life", "hostp"} : y[f] = n[f]
  BY <1>2 DEF Record
<1> HIDE DEF y
<1>6. n.st # None
  BY <1>1, <1>2
<1>7. Fine(y)
  BY <1>2, <1>4, <1>5, <1>6, AlikeFine
<1>8. y.fd = x.fd /\ y.st = x.st /\ y.dns = x.dns /\ y.hostp = x.hostp /\ y.authfd = 0 /\ x.auth # "no"
  BY <1>0, <1>2, <1>5
<1> QED
  BY <1>0, <1>4, <1>7, <1>8, AuthEnds

-----------------------------------------------------------------------------
(* Coming in.                                                              *)

\* No connection and no ident query has descriptor f.
Spare(k, f) == f \in Fd /\ \A d \in Client : k[d].fd # f /\ k[d].authfd # f

LEMMA LowestSpare ==
    ASSUME NEW k \in [Client -> Record], Lowest(k) < MaxFd \/ Lowest(k) < MaxClients \/ Lowest(k) < MaxFd - 1
    PROVE  Spare(k, Lowest(k))
<1>1. MaxFd \in Nat /\ MaxClients \in 1..MaxFd
  BY ConnConstants
<1>2. /\ Lowest(k) \in 1..(MaxFd + 1)
      /\ \A c \in Client : Lowest(k) # k[c].fd /\ Lowest(k) # k[c].authfd
  BY LowestIs
<1>3. Lowest(k) \in Fd
  BY <1>1, <1>2 DEF Fd
<1> QED
  BY <1>2, <1>3 DEF Spare

(* An ident query starts on a spare descriptor.                            *)
LEMMA AuthStarts ==
    ASSUME NEW s, Sound(s), NEW c \in Client, s.cl[c].st # None,
           Waiting(s.cl[c]) => s.cl[c].waited = 0, NEW f, Spare(s.cl, f),
           NEW t, t = [s EXCEPT !.cl[c].auth = "write", !.cl[c].authfd = f,
                                !.ev = [@ EXCEPT ![f] = <<c, "auth">>],
                                !.high = IF f > @ THEN f ELSE @]
    PROVE  Leads(s, t)
<1> DEFINE x == s.cl[c]
           y == [x EXCEPT !.auth = "write", !.authfd = f]
           e == [s.ev EXCEPT ![f] = <<c, "auth">>]
           k == [s.cl EXCEPT ![c] = y]
           h == IF f > s.high THEN f ELSE s.high
<1>0. /\ s \in Tables /\ x \in Record /\ Fine(x) /\ MaxFd \in Nat /\ s.high \in 0..MaxFd
      /\ f \in Fd /\ f \in 1..MaxFd /\ f \in 0..MaxFd /\ \A d \in Client : s.cl[d].fd # f /\ s.cl[d].authfd # f
  BY ConnConstants DEF Sound, FdsOK, Tables, Spare, Fd
<1>1. y \in Record /\ y.auth = "write" /\ y.authfd = f
  <2> HIDE DEF x
  <2> QED BY <1>0 DEF Record
<1>2. \A g \in {"st", "fd", "dns", "dead", "waited", "check", "life", "hostp"} : y[g] = x[g]
  <2> HIDE DEF x
  <2> QED BY <1>0 DEF Record
<1>3. t = [s EXCEPT !.cl = k, !.ev = e, !.high = h]
  BY <1>0 DEF Tables
<1> HIDE DEF y
<1>4. /\ y.st = x.st /\ y.fd = x.fd /\ y.dns = x.dns /\ y.hostp = x.hostp
      /\ y.dead = x.dead /\ y.waited = x.waited /\ y.check = x.check /\ y.life = x.life
  BY <1>2
<1>5. Fine(y) /\ y.st # None
  <2>1. Waiting(y) => y.waited = 0
    BY <1>4 DEF Waiting
  <2>2. y.authfd # 0
    BY <1>0, <1>1
  <2> QED BY <1>4, <2>1, <2>2 DEF Fine, Patient
<1>6. k \in [Client -> Record] /\ k[c] = y /\ \A d \in Client : d # c => k[d] = s.cl[d]
  BY <1>0, <1>1 DEF Tables
<1>7. e \in [Fd -> Event] /\ e[f] = <<c, "auth">> /\ \A g \in Fd : g # f => e[g] = s.ev[g]
  <2>1. s.ev \in [Fd -> Event] /\ <<c, "auth">> \in Event
    BY <1>0 DEF Tables, Event
  <2> QED BY <1>0, <2>1
<1>8. h \in 0..MaxFd /\ h >= s.high /\ h \in Nat /\ s.high \in Nat
  BY <1>0
<1> HIDE DEF k, e, h
<1>9. /\ t \in Tables /\ t.cl = k /\ t.loc = s.loc /\ t.high = h /\ t.ev = e /\ t.req = s.req /\ t.nr = s.nr
  BY <1>0, <1>3, <1>6, <1>7, <1>8 DEF Tables
<1>10. s.loc[f] = None
  <2>1. s.loc[f] # None => s.loc[f] \in Client /\ s.cl[s.loc[f]].fd = f
    BY <1>0 DEF Sound, FdsOK, Tables
  <2> QED BY <1>0, <2>1
<1>11. ASSUME NEW d \in Client, t.cl[d].st # None PROVE Placed(t, d)
  <2>1. /\ s.cl[d].st # None /\ k[d].fd = s.cl[d].fd
        /\ k[d].authfd = IF d = c THEN f ELSE s.cl[d].authfd
    BY <1>1, <1>4, <1>6, <1>9, <1>11
  <2>2. /\ s.cl[d].fd \in Fd /\ s.cl[d].fd \in 1..s.high /\ s.loc[s.cl[d].fd] = d
        /\ s.ev[s.cl[d].fd] = <<d, "conn">>
        /\ s.cl[d].authfd # 0 => /\ s.cl[d].authfd \in Fd /\ s.loc[s.cl[d].authfd] = None
                                 /\ s.ev[s.cl[d].authfd] = <<d, "auth">>
    BY <2>1, PlacedIs DEF Sound
  <2>3. s.cl[d].fd # f /\ s.cl[d].authfd # f
    BY <1>0
  <2>4. s.cl[d].fd \in 1..h /\ e[s.cl[d].fd] = <<d, "conn">>
    BY <1>7, <1>8, <2>2, <2>3
  <2>5. k[d].authfd # 0 => s.loc[k[d].authfd] = None /\ e[k[d].authfd] = <<d, "auth">>
    BY <1>7, <1>10, <2>1, <2>2, <2>3
  <2> QED BY <1>9, <2>1, <2>2, <2>4, <2>5 DEF Placed
<1>12. \A d \in Client : /\ t.cl[d].st = s.cl[d].st /\ t.cl[d].hostp = s.cl[d].hostp /\ t.cl[d].dns = s.cl[d].dns
                         /\ t.cl[d].fd = s.cl[d].fd /\ Fine(t.cl[d])
  BY <1>4, <1>5, <1>6, <1>9 DEF Sound, FdsOK
<1>13. FdsOK(t)
  <2>1. \A g \in Fd : s.loc[g] # None => s.loc[g] \in Client /\ s.cl[s.loc[g]].fd = g
    BY <1>0 DEF Sound, FdsOK, Tables
  <2>2. \A g \in Fd : t.loc[g] # None => t.cl[t.loc[g]].fd = g
    BY <1>9, <1>12, <2>1
  <2> QED BY <1>9, <1>11, <1>12, <2>2 DEF FdsOK
<1>14. CountsOK(t)
  <2>1. \A d \in Client : \A S \in {Unknown, {"user"}, {"server"}} : t.cl[d].st \in S <=> s.cl[d].st \in S
    BY <1>12
  <2>2. t.nr = s.nr /\ CountsOK(s)
    BY <1>9 DEF Sound
  <2> QED BY ONLY <2>1, <2>2, SameCounts
<1>15. ReqsOK(t)
  <2>1. \A q \in s.req : q.c \in Client
    BY <1>0 DEF Tables
  <2> QED BY <1>9, <1>12, <2>1 DEF Sound, ReqsOK
<1> QED
  BY <1>12, <1>13, <1>14, <1>15 DEF Leads, Sound

Reaches(s) == \E u : Leads(s, u) /\ Becomes(u)

LEMMA StartsIs ==
    ASSUME NEW s, Sound(s), NEW c \in Client, s.cl[c].st # None,
           Waiting(s.cl[c]) => s.cl[c].waited = 0, Starts(s, c)
    PROVE  \/ down' = TRUE /\ UNCHANGED <<cl, loc, high, ev, req, nr>>
           \/ down' = down /\ Reaches(s)
<1> DEFINE x == s.cl[c]
           f == Lowest(s.cl)
           y == [x EXCEPT !.timer = TRUE]
           none == [s EXCEPT !.cl[c] = IF x.dns THEN x ELSE SetAccess(x)]
           asks == [s EXCEPT !.cl[c].auth = "write", !.cl[c].authfd = f,
                             !.ev = [@ EXCEPT ![f] = <<c, "auth">>],
                             !.high = IF f > @ THEN f ELSE @]
<1>0. s \in Tables /\ x \in Record /\ s.cl \in [Client -> Record] /\ MaxFd \in Nat
  BY ConnConstants DEF Sound, FdsOK, Tables
<1>1. PICK u \in start_auth(s, c) :
         \/ down' = TRUE /\ UNCHANGED <<cl, loc, high, ev, req, nr>>
         \/ Becomes(u) /\ UNCHANGED down
  BY DEF Starts
<1>2. u = none \/ u = s \/ (f < MaxFd - 1 /\ u = asks)
  <2>1. f \in 1..(MaxFd + 1)
    BY <1>0, LowestIs
  <2> HIDE DEF f
  <2>2. ~(f >= MaxFd - 1) => f < MaxFd - 1
    BY <1>0, <2>1
  <2> HIDE DEF x, none, asks
  <2> QED BY <2>2 DEF start_auth, f, x, none, asks
<1>3. Leads(s, none)
  <2> DEFINE z == IF x.dns THEN x ELSE SetAccess(x)
  <2>1. SetAccess(x) = y
    BY DEF SetAccess
  <2>2. y \in Record /\ \A g \in {"st", "fd", "authfd", "dns", "auth", "dead", "waited", "check", "life", "hostp"} : y[g] = x[g]
    <3> HIDE DEF x
    <3> QED BY <1>0 DEF Record
  <2>3. z \in Record /\ \A g \in {"st", "fd", "authfd", "dns", "auth", "dead", "waited", "check", "life", "hostp"} : z[g] = x[g]
    <3> HIDE DEF x, y
    <3> QED BY <1>0, <2>1, <2>2
  <2>4. none = [s EXCEPT !.cl[c] = z]
    OBVIOUS
  <2> HIDE DEF z, none
  <2>5. IsPut(none, s, c, z, s.req, s.nr)
    BY <1>0, <2>3, <2>4, PutIs
  <2> QED BY <2>3, <2>5, RewritesAlike
<1>4. f < MaxFd - 1 => Leads(s, asks)
  <2> SUFFICES ASSUME f < MaxFd - 1 PROVE Leads(s, asks)
    OBVIOUS
  <2>1. Spare(s.cl, f)
    BY <1>0, LowestSpare
  <2>2. asks = [s EXCEPT !.cl[c].auth = "write", !.cl[c].authfd = f,
                         !.ev = [@ EXCEPT ![f] = <<c, "auth">>],
                         !.high = IF f > @ THEN f ELSE @]
    OBVIOUS
  <2> HIDE DEF asks, f
  <2> QED BY <2>1, <2>2, AuthStarts
<1> HIDE DEF none, asks, f
<1>5. Leads(s, u)
  BY <1>2, <1>3, <1>4, LeadsSelf
<1> QED
  BY <1>1, <1>5 DEF Reaches

\* t is s with the new connection c, its record x and its descriptor f.
Enters(s, t, c, f, x) ==
    /\ t \in Tables /\ t.cl = [s.cl EXCEPT ![c] = x] /\ t.loc = [s.loc EXCEPT ![f] = c]
    /\ t.high = (IF f > s.high THEN f ELSE s.high) /\ t.ev = [s.ev EXCEPT ![f] = <<c, "conn">>]
    /\ t.nr = [s.nr EXCEPT !.unknowns = s.nr.unknowns + 1]
    /\ t.req = s.req \/ (x.dns /\ t.req = s.req \cup {[c |-> c, type |-> "ptr"]})

(* A new connection takes a spare descriptor, and may ask for its name.    *)
LEMMA Arrives ==
    ASSUME NEW s, Sound(s), NEW c \in Client, s.cl[c].st = None, NEW f, Spare(s.cl, f),
           NEW x \in Record, Fine(x), x.st \in Unknown, x.fd = f, x.authfd = 0,
           NEW t, Enters(s, t, c, f, x)
    PROVE  Sound(t)
<1> USE DEF Enters
<1>0. /\ s \in Tables /\ MaxFd \in Nat /\ s.high \in 0..MaxFd
      /\ f \in Fd /\ f \in 1..MaxFd /\ \A d \in Client : s.cl[d].fd # f /\ s.cl[d].authfd # f
  BY ConnConstants DEF Sound, FdsOK, Tables, Spare, Fd
<1>1. t.cl[c] = x /\ \A d \in Client : d # c => t.cl[d] = s.cl[d]
  BY <1>0 DEF Tables
<1>2. t.loc[f] = c /\ \A g \in Fd : g # f => t.loc[g] = s.loc[g]
  BY <1>0 DEF Tables
<1>3. t.ev[f] = <<c, "conn">> /\ \A g \in Fd : g # f => t.ev[g] = s.ev[g]
  BY <1>0 DEF Tables
<1>4. t.high \in Nat /\ s.high \in Nat /\ t.high >= s.high /\ f <= t.high /\ f \in 1..t.high
  BY <1>0
<1>5. x.st # None
  BY DEF Unknown, None
<1>6. ASSUME NEW d \in Client, t.cl[d].st # None PROVE Placed(t, d)
  <2>1. CASE d = c
    BY <1>1, <1>2, <1>3, <1>4, <2>1 DEF Placed
  <2>2. CASE d # c
    <3>1. t.cl[d] = s.cl[d] /\ s.cl[d].st # None
      BY <1>1, <1>6, <2>2
    <3>2. /\ s.cl[d].fd \in Fd /\ s.cl[d].fd \in 1..s.high /\ s.loc[s.cl[d].fd] = d
          /\ s.ev[s.cl[d].fd] = <<d, "conn">>
          /\ s.cl[d].authfd # 0 => /\ s.cl[d].authfd \in Fd /\ s.loc[s.cl[d].authfd] = None
                                   /\ s.ev[s.cl[d].authfd] = <<d, "auth">>
      <4>1. FdsOK(s)
        BY DEF Sound
      <4> QED BY ONLY <3>1, <4>1, PlacedIs, d \in Client
    <3>3. s.cl[d].fd # f /\ s.cl[d].authfd # f
      BY <1>0
    <3>4. s.cl[d].fd \in 1..t.high /\ t.loc[s.cl[d].fd] = d /\ t.ev[s.cl[d].fd] = <<d, "conn">>
      BY <1>2, <1>3, <1>4, <3>2, <3>3
    <3>5. s.cl[d].authfd # 0 => t.loc[s.cl[d].authfd] = None /\ t.ev[s.cl[d].authfd] = <<d, "auth">>
      BY <1>2, <1>3, <3>2, <3>3
    <3> QED BY ONLY <3>1, <3>4, <3>5 DEF Placed
  <2> QED BY <2>1, <2>2
<1>7. FdsOK(t)
  <2>1. \A d \in Client : Fine(t.cl[d])
    BY <1>1 DEF Sound, FdsOK
  <2>2. ASSUME NEW g \in Fd, t.loc[g] # None PROVE t.cl[t.loc[g]].fd = g
    <3>1. CASE g = f
      BY <1>1, <1>2, <3>1
    <3>2. CASE g # f
      <4>1. t.loc[g] = s.loc[g] /\ s.loc[g] \in Client /\ s.cl[s.loc[g]].fd = g
        BY <1>0, <1>2, <2>2, <3>2 DEF Sound, FdsOK, Tables
      <4>2. s.loc[g] # c
        <5>1. s.cl[c] = Gone
          BY DEF Sound, FdsOK, Fine
        <5>2. s.cl[c].fd = 0
          BY <5>1 DEF Gone
        <5>3. g # 0
          BY DEF Fd
        <5> QED BY <4>1, <5>2, <5>3
      <4> QED BY <1>1, <4>1, <4>2
    <3> QED BY <3>1, <3>2
  <2> QED BY <1>6, <2>1, <2>2 DEF FdsOK
<1>8. ReqsOK(t)
  <2>1. \A q \in s.req : q.c \in Client /\ s.cl[q.c].st # None /\ s.cl[q.c].dns /\ q.c # c
    BY <1>0 DEF Tables, Sound, ReqsOK
  <2>2. \A q, r \in s.req : q.c = r.c => q = r
    BY DEF Sound, ReqsOK
  <2>3. \A q \in t.req : q \in s.req \/ (x.dns /\ q = [c |-> c, type |-> "ptr"])
    OBVIOUS
  <2>4. \A q \in t.req : t.cl[q.c].st # None /\ t.cl[q.c].dns
    BY <1>1, <1>5, <2>1, <2>3
  <2>5. \A q, r \in t.req : q.c = r.c => q = r
    BY <2>1, <2>2, <2>3
  <2> QED BY ONLY <2>4, <2>5 DEF ReqsOK
<1>9. CountsOK(t)
  <2> DEFINE k == t.cl
  <2>1. s.nr \in Counters /\ s.nr.unknowns = Count(s.cl, Unknown) /\ s.nr.users = Count(s.cl, {"user"})
        /\ s.nr.servers = Count(s.cl, {"server"})
    BY <1>0 DEF Tables, Counters, Sound, CountsOK
  <2>2. t.nr.unknowns = s.nr.unknowns + 1 /\ t.nr.users = s.nr.users /\ t.nr.servers = s.nr.servers
    BY <2>1 DEF Counters
  <2>3. k[c].st \in Unknown /\ s.cl[c].st \notin Unknown /\ \A d \in Client \ {c} : k[d].st = s.cl[d].st
    BY <1>1 DEF Unknown, None
  <2>4. \A S \in {{"user"}, {"server"}} : \A d \in Client : k[d].st \in S <=> s.cl[d].st \in S
    BY <1>1 DEF Unknown, None
  <2>5. Count(k, Unknown) = Count(s.cl, Unknown) + 1
    <3> HIDE DEF k
    <3> QED BY ONLY <2>3, CountComes, c \in Client
  <2>6. Count(k, {"user"}) = Count(s.cl, {"user"}) /\ Count(k, {"server"}) = Count(s.cl, {"server"})
    <3> HIDE DEF k
    <3> QED BY ONLY <2>4, CountStays
  <2> QED BY ONLY <2>1, <2>2, <2>5, <2>6 DEF CountsOK
<1> QED
  BY ONLY <1>7, <1>8, <1>9 DEF Sound

(* The process ends, and leaves the tables as they are.                    *)
LEMMA EndKeeps ==
    ASSUME ConnInv, UNCHANGED <<cl, loc, high, ev, req, nr, gline>>, down' \in BOOLEAN,
           cache' \in Seq(Addr), \A a \in ToSet(cache) : a \in ToSet(cache')
    PROVE  ConnInv'
<1>1. Now' = Now
  BY DEF Now
<1>2. Sound(Now')
  BY <1>1 DEF ConnInv
<1>3. HostsOK(cl, cache)' /\ Clear(cl, gline)'
  BY DEF ConnInv, HostsOK, Clear
<1> QED
  BY <1>2, <1>3 DEF ConnInv

(* A step by way of tables s, in which there may be a new host entry.      *)
LEMMA ComeKeeps ==
    ASSUME ConnInv, NEW s, Reaches(s), UNCHANGED <<gline, down>>, cache' \in Seq(Addr),
           HostsOK(s.cl, cache'), Clear(s.cl, gline)
    PROVE  ConnInv'
<1>1. PICK u : Leads(s, u) /\ Becomes(u)
  BY DEF Reaches
<1>2. u \in Tables /\ Sound(u)
  BY <1>1 DEF Leads, Sound, FdsOK
<1>3. Now' = u /\ cl' = u.cl
  BY <1>1, <1>2, BecomesIs DEF Becomes
<1>4. Sound(Now')
  BY <1>2, <1>3
<1>5. HostsOK(cl, cache)'
  BY <1>1, <1>3 DEF HostsOK, Leads
<1>6. Clear(cl, gline)'
  BY <1>1, <1>3 DEF Clear, Leads
<1> QED
  BY <1>4, <1>5, <1>6 DEF ConnInv

LEMMA ConnectStep ==
    ASSUME ConnInv, NEW c \in Client, Connect(c)
    PROVE  ConnInv'
<1> DEFINE f == Lowest(cl)
           x == [Gone EXCEPT !.st = "connecting", !.fd = f]
<1>0. cl[c].st = None /\ f < MaxClients /\ UNCHANGED <<req, cache, gline>>
  BY DEF Connect
<1>1. /\ Now \in Tables /\ Sound(Now) /\ Now.cl = cl /\ Now.loc = loc /\ Now.high = high /\ Now.ev = ev
      /\ Now.req = req /\ Now.nr = nr /\ cl \in [Client -> Record]
  BY NowIs DEF Tables
<1>2. CASE ~Clean(ev, f)
  <2>1. down' = TRUE /\ UNCHANGED <<cl, loc, high, ev, nr>>
    BY <1>2 DEF Connect
  <2> QED BY <1>0, <2>1, EndKeeps DEF ConnInv
<1>3. CASE Clean(ev, f)
  <2>0. /\ cl' = [cl EXCEPT ![c] = x] /\ loc' = [loc EXCEPT ![f] = c] /\ ev' = [ev EXCEPT ![f] = <<c, "conn">>]
        /\ high' = (IF f > high THEN f ELSE high)
        /\ nr' = [nr EXCEPT !.unknowns = @ + 1] /\ UNCHANGED down
    BY <1>3 DEF Connect
  <2>1. Spare(cl, f)
    BY <1>0, <1>1, LowestSpare
  <2>2. f \in Fd /\ f \in 0..MaxFd /\ MaxFd \in Nat /\ high \in 0..MaxFd
    BY <1>1, <2>1, ConnConstants DEF Spare, Fd, Tables
  <2> HIDE DEF f
  <2>3. /\ x \in Record /\ x.st = "connecting" /\ x.fd = f /\ x.authfd = 0 /\ x.auth = "no" /\ x.waited = 0
        /\ x.hostp = None
    <3>1. Gone \in Record /\ "connecting" \in Unknown \cup Registered \cup {None}
      BY GoneFine DEF Unknown
    <3>2. x \in Record
      BY <2>2, <3>1 DEF Record
    <3> QED BY <3>2 DEF Gone
  <2> HIDE DEF x
  <2>4. Fine(x) /\ x.st \in Unknown /\ x.st # "user"
    BY <2>3 DEF Fine, Patient, Unknown, None
  <2> DEFINE t == Now'
  <2>5. t.cl = cl' /\ t.loc = loc' /\ t.high = high' /\ t.ev = ev' /\ t.nr = nr' /\ t.req = req
    BY <1>0 DEF Now
  <2>6. t \in Tables
    <3>1. cl' \in [Client -> Record]
      BY <1>1, <2>0, <2>3
    <3>2. loc' \in [Fd -> Client \cup {None}]
      BY <1>1, <2>0 DEF Tables
    <3>3. ev' \in [Fd -> Event]
      BY <1>1, <2>0 DEF Tables, Event
    <3>4. high' \in 0..MaxFd
      BY <2>0, <2>2
    <3>5. nr' \in [unknowns : Nat, users : Nat, servers : Nat]
      BY <1>1, <2>0 DEF Tables
    <3>6. req' \in SUBSET [c : Client, type : {"ptr", "a"}]
      BY <1>0, <1>1 DEF Tables
    <3> QED BY <3>1, <3>2, <3>3, <3>4, <3>5, <3>6 DEF Now, Tables
  <2> HIDE DEF t
  <2>7. Sound(t)
    <3> DEFINE s == Now
    <3>1. Sound(s) /\ s.cl[c].st = None /\ Spare(s.cl, f)
      BY <1>0, <1>1, <2>1
    <3>2. Enters(s, t, c, f, x)
      BY <1>1, <2>0, <2>5, <2>6 DEF Enters
    <3>3. x \in Record /\ x.fd = f /\ x.authfd = 0
      BY <2>3
    <3> HIDE DEF s
    <3> QED BY ONLY <2>4, <3>1, <3>2, <3>3, Arrives, c \in Client
  <2>8. Reaches(t)
    <3>1. Becomes(t)
      BY <1>0, <2>5 DEF Becomes
    <3> QED BY <2>7, <3>1, LeadsSelf DEF Reaches
  <2>9. \A d \in Client : t.cl[d] = IF d = c THEN x ELSE cl[d]
    BY <1>1, <2>0, <2>5
  <2>10. HostsOK(t.cl, cache') /\ Clear(t.cl, gline) /\ cache' \in Seq(Addr)
    BY <1>0, <2>3, <2>4, <2>9 DEF ConnInv, HostsOK, Clear
  <2> QED BY <1>0, <2>0, <2>8, <2>10, ComeKeeps
<1> QED
  BY <1>2, <1>3

LEMMA ConnectedStep ==
    ASSUME ConnInv, NEW c \in Client, Connected(c)
    PROVE  ConnInv'
<1> DEFINE x == cl[c]
           y == [x EXCEPT !.st = "handshake", !.age = 0, !.pinged = TRUE]
           s == [Now EXCEPT !.cl[c] = y]
<1>0. Here(c) /\ x.st = "connecting" /\ ~x.dead /\ Starts(s, c) /\ UNCHANGED <<cache, gline>>
  BY DEF Connected
<1>1. /\ Now \in Tables /\ Sound(Now) /\ Now.cl = cl /\ x \in Record /\ Fine(x) /\ x.st # None /\ ~down
  BY <1>0, HereIs
<1>2. y \in Record /\ y.st = "handshake"
  <2>1. "handshake" \in Unknown \cup Registered \cup {None} /\ 0 \in 0..2
    BY DEF Unknown
  <2> HIDE DEF x
  <2> QED BY <1>1, <2>1 DEF Record
<1>3. \A g \in {"fd", "authfd", "dns", "auth", "dead", "waited", "check", "life", "hostp"} : y[g] = x[g]
  <2> HIDE DEF x
  <2> QED BY <1>1 DEF Record
<1>4. s = [Now EXCEPT !.cl[c] = y]
  OBVIOUS
<1> HIDE DEF y, s
<1>5. /\ y.fd = x.fd /\ y.authfd = x.authfd /\ y.hostp = x.hostp /\ y.dns = x.dns /\ y.auth = x.auth
      /\ y.dead = x.dead
  BY <1>3
<1>6. ~Waiting(y) /\ Fine(y) /\ y.st # None
  BY <1>0, <1>1, <1>2, <1>5 DEF Waiting, Fine, None
<1>7. IsPut(s, Now, c, y, Now.req, Now.nr)
  BY <1>1, <1>2, <1>4, PutIs
<1>8. Leads(Now, s)
  <2>1. Replaces(y, Now.cl[c])
    BY <1>1, <1>2, <1>5, <1>6 DEF Replaces
  <2>2. \A S \in {Unknown, {"user"}, {"server"}} : y.st \in S <=> Now.cl[c].st \in S
    BY <1>0, <1>1, <1>2 DEF Unknown
  <2>3. Now.cl[c].st # None /\ (y.dns <=> Now.cl[c].dns)
    BY <1>1, <1>5
  <2> QED BY <1>1, <1>7, <2>1, <2>2, <2>3, Rewrites
<1>9. Sound(s) /\ s.cl[c] = y
  BY <1>7, <1>8 DEF Leads, IsPut
<1>10. \/ down' = TRUE /\ UNCHANGED <<cl, loc, high, ev, req, nr>>
       \/ down' = down /\ Reaches(s)
  BY <1>0, <1>6, <1>9, StartsIs
<1>11. CASE down' = TRUE /\ UNCHANGED <<cl, loc, high, ev, req, nr>>
  BY <1>0, <1>11, EndKeeps DEF ConnInv
<1>12. CASE down' = down /\ Reaches(s)
  <2>1. HostsOK(s.cl, cache) /\ Clear(s.cl, gline)
    BY <1>1, <1>8 DEF Leads, ConnInv, HostsOK, Clear
  <2> QED BY <1>0, <1>12, <2>1, ComeKeeps DEF ConnInv
<1> QED
  BY <1>10, <1>11, <1>12

LEMMA AcceptStep ==
    ASSUME ConnInv, NEW c \in Client, NEW p \in BOOLEAN, Accept(c, p)
    PROVE  ConnInv'
<1> DEFINE f == Lowest(cl)
           a == Home[c]
           hit == Cached(a)
           x == [Gone EXCEPT !.st = "unknown", !.fd = f, !.dns = ~hit /\ ~p,
                             !.hostp = IF hit /\ ~p THEN a ELSE None]
           s == [Now EXCEPT !.cl[c] = x, !.loc = [@ EXCEPT ![f] = c],
                            !.high = IF f > @ THEN f ELSE @,
                            !.ev = [@ EXCEPT ![f] = <<c, "conn">>],
                            !.nr.unknowns = @ + 1]
           t == [s EXCEPT !.req = IF hit THEN @ ELSE @ \cup {[c |-> c, type |-> "ptr"]}]
<1>0. cl[c].st = None /\ f < MaxClients /\ gline' = gline
  BY DEF Accept
<1>1. /\ ~Clean(ev, f) => down' = TRUE /\ UNCHANGED <<cl, loc, high, ev, req, cache, nr>>
      /\ Clean(ev, f) /\ p => Becomes(exit_client(s, c)) /\ UNCHANGED <<cache, down>>
      /\ Clean(ev, f) /\ ~p => Starts(t, c) /\ cache' = IF hit THEN Touched(cache, a) ELSE cache
  BY DEF Accept
<1>2. /\ Now \in Tables /\ Sound(Now) /\ Now.cl = cl /\ Now.req = req /\ cl \in [Client -> Record]
  BY NowIs DEF Tables
<1>3. a \in Addr /\ cache \in Seq(Addr) /\ down \in BOOLEAN /\ HostsOK(cl, cache) /\ Clear(cl, gline)
  BY ConnConstants DEF ConnInv
<1>4. Spare(cl, f)
  BY <1>0, <1>2, LowestSpare
<1>5. f \in Fd /\ f \in 0..MaxFd /\ MaxFd \in Nat /\ Now.high \in 0..MaxFd
  BY <1>2, <1>4, ConnConstants DEF Spare, Fd, Tables
<1> HIDE DEF f, a
<1>6. /\ x \in Record /\ x.st = "unknown" /\ x.fd = f /\ x.authfd = 0 /\ x.auth = "no" /\ x.waited = 0
      /\ x.dns = (~hit /\ ~p) /\ x.hostp = IF hit /\ ~p THEN a ELSE None
  <2> DEFINE n == ~hit /\ ~p
             o == IF hit /\ ~p THEN a ELSE None
             z == [Gone EXCEPT !.st = "unknown", !.fd = f, !.hostp = o]
  <2>1. Gone \in Record /\ "unknown" \in Unknown \cup Registered \cup {None} /\ o \in Addr \cup {None}
    BY <1>3, GoneFine DEF Unknown
  <2>2. (n = TRUE \/ n = FALSE) /\ x = [z EXCEPT !.dns = n]
    BY DEF Gone
  <2> HIDE DEF o
  <2>3. z \in Record
    BY ONLY <1>5, <2>1 DEF Record
  <2>4. z.st = "unknown" /\ z.fd = f /\ z.authfd = 0 /\ z.auth = "no" /\ z.waited = 0 /\ z.hostp = o
    BY DEF Gone
  <2> HIDE DEF z
  <2>5. [z EXCEPT !.dns = TRUE] \in Record /\ [z EXCEPT !.dns = FALSE] \in Record
    BY ONLY <2>3 DEF Record
  <2> HIDE DEF n
  <2>6. \A b : /\ [z EXCEPT !.dns = b].st = z.st /\ [z EXCEPT !.dns = b].fd = z.fd
               /\ [z EXCEPT !.dns = b].authfd = z.authfd /\ [z EXCEPT !.dns = b].auth = z.auth
               /\ [z EXCEPT !.dns = b].waited = z.waited /\ [z EXCEPT !.dns = b].hostp = z.hostp
    BY ONLY <2>3 DEF Record
  <2>7. [z EXCEPT !.dns = n].dns = n
    <3>1. [z EXCEPT !.dns = TRUE].dns = TRUE /\ [z EXCEPT !.dns = FALSE].dns = FALSE
      BY ONLY <2>3 DEF Record
    <3> QED BY <2>2, <3>1
  <2>8. x \in Record
    BY <2>2, <2>5
  <2> HIDE DEF x
  <2> QED BY <2>2, <2>4, <2>6, <2>7, <2>8 DEF n, o
<1> HIDE DEF x
<1>7. Fine(x) /\ x.st \in Unknown /\ x.st # "user"
  BY <1>6 DEF Fine, Patient, Unknown, None
<1>8. Enters(Now, s, c, f, x) /\ s.req = req
  <2> DEFINE n == Now
             k == [n.cl EXCEPT ![c] = x]
             l == [n.loc EXCEPT ![f] = c]
             h == IF f > n.high THEN f ELSE n.high
             e == [n.ev EXCEPT ![f] = <<c, "conn">>]
             m == [n.nr EXCEPT !.unknowns = n.nr.unknowns + 1]
  <2>1. n \in Tables /\ n.req = req /\ n.high \in 0..MaxFd
    BY <1>2, <1>5
  <2> HIDE DEF n
  <2>2. s = [n EXCEPT !.cl = k, !.loc = l, !.high = h, !.ev = e, !.nr = m]
    BY <2>1 DEF n, Tables
  <2>3. k \in [Client -> Record]
    BY <1>6, <2>1 DEF Tables
  <2>4. l \in [Fd -> Client \cup {None}]
    BY <2>1 DEF Tables
  <2>5. h \in 0..MaxFd
    BY <1>5, <2>1
  <2>6. e \in [Fd -> Event]
    BY <2>1 DEF Tables, Event
  <2>7. m \in [unknowns : Nat, users : Nat, servers : Nat]
    BY <2>1 DEF Tables
  <2> HIDE DEF k, l, h, e, m, s
  <2>8. /\ s \in Tables /\ s.cl = k /\ s.loc = l /\ s.high = h /\ s.ev = e /\ s.nr = m /\ s.req = n.req
    BY <2>1, <2>2, <2>3, <2>4, <2>5, <2>6, <2>7 DEF Tables
  <2> QED BY <2>1, <2>8 DEF Enters, n, k, l, h, e, m
<1> HIDE DEF s
<1>9. ASSUME ~p PROVE Enters(Now, t, c, f, x) /\ t.cl = s.cl
  <2> DEFINE r == IF hit THEN s.req ELSE s.req \cup {[c |-> c, type |-> "ptr"]}
  <2>1. s \in Tables
    BY <1>8 DEF Enters
  <2>2. r \in SUBSET [c : Client, type : {"ptr", "a"}] /\ (r = s.req \/ (x.dns /\ r = s.req \cup {[c |-> c, type |-> "ptr"]}))
    <3>1. s.req \in SUBSET [c : Client, type : {"ptr", "a"}]
      BY <2>1 DEF Tables
    <3>2. CASE hit
      BY <3>1, <3>2
    <3>3. CASE ~hit
      <4>1. x.dns /\ r = s.req \cup {[c |-> c, type |-> "ptr"]}
        BY <1>6, <1>9, <3>3
      <4> QED BY <3>1, <4>1
    <3> QED BY <3>2, <3>3
  <2>3. t = [s EXCEPT !.req = r]
    OBVIOUS
  <2> HIDE DEF r, t
  <2>4. /\ t \in Tables /\ t.cl = s.cl /\ t.loc = s.loc /\ t.high = s.high /\ t.ev = s.ev /\ t.nr = s.nr /\ t.req = r
    BY <2>1, <2>2, <2>3 DEF Tables
  <2> QED BY <1>2, <1>8, <2>2, <2>4 DEF Enters
<1> HIDE DEF t, hit
<1>10. ASSUME NEW u, Enters(Now, u, c, f, x) PROVE Sound(u) /\ u.cl[c] = x /\ \A d \in Client : d # c => u.cl[d] = cl[d]
  <2>1. Spare(Now.cl, f) /\ Now.cl[c].st = None
    BY <1>0, <1>2, <1>4
  <2>2. Sound(Now) /\ x \in Record /\ x.fd = f /\ x.authfd = 0
    BY <1>2, <1>6
  <2>3. Sound(u)
    <3> DEFINE n == Now
    <3>1. Spare(n.cl, f) /\ n.cl[c].st = None /\ Sound(n) /\ Enters(n, u, c, f, x)
      BY <1>10, <2>1, <2>2
    <3> HIDE DEF n
    <3> QED BY ONLY <1>7, <2>2, <3>1, Arrives, c \in Client
  <2> QED BY <1>2, <1>10, <2>3 DEF Enters
<1>11. CASE ~Clean(ev, f)
  BY <1>0, <1>1, <1>3, <1>11, EndKeeps
<1>12. CASE Clean(ev, f) /\ p
  <2>1. Becomes(exit_client(s, c)) /\ UNCHANGED <<cache, down>>
    BY <1>1, <1>12
  <2>2. Sound(s) /\ s.cl[c] = x /\ \A d \in Client : d # c => s.cl[d] = cl[d]
    BY <1>8, <1>10
  <2>3. Reaches(s)
    <3>1. s.cl[c].st # None
      BY <1>6, <2>2 DEF None
    <3> QED BY <2>1, <2>2, <3>1, ExitKeeps DEF Reaches
  <2>4. HostsOK(s.cl, cache') /\ Clear(s.cl, gline)
    BY <1>3, <1>6, <1>7, <1>12, <2>1, <2>2 DEF HostsOK, Clear
  <2> QED BY <1>0, <1>3, <2>1, <2>3, <2>4, ComeKeeps
<1>13. CASE Clean(ev, f) /\ ~p
  <2>0. Starts(t, c) /\ cache' = IF hit THEN Touched(cache, a) ELSE cache
    BY <1>1, <1>13
  <2>1. cache' \in Seq(Addr) /\ (\A y \in ToSet(cache) : y \in ToSet(cache')) /\ (hit => a \in ToSet(cache'))
    BY <1>3, <2>0, TouchedIs
  <2>2. Sound(t) /\ t.cl[c] = x /\ \A d \in Client : d # c => t.cl[d] = cl[d]
    BY <1>9, <1>10, <1>13
  <2>3. \/ down' = TRUE /\ UNCHANGED <<cl, loc, high, ev, req, nr>>
        \/ down' = down /\ Reaches(t)
    <3>1. t.cl[c].st # None /\ t.cl[c].waited = 0
      BY <1>6, <2>2 DEF None
    <3> QED BY <2>0, <2>2, <3>1, StartsIs
  <2>4. CASE down' = TRUE /\ UNCHANGED <<cl, loc, high, ev, req, nr>>
    BY <1>0, <2>1, <2>4, EndKeeps
  <2>5. CASE down' = down /\ Reaches(t)
    <3>1. HostsOK(t.cl, cache') /\ Clear(t.cl, gline)
      BY <1>3, <1>6, <1>7, <2>1, <2>2 DEF HostsOK, Clear
    <3> QED BY <1>0, <2>1, <2>5, <3>1, ComeKeeps
  <2> QED BY <2>3, <2>4, <2>5
<1> QED
  BY <1>11, <1>12, <1>13

-----------------------------------------------------------------------------
(* The invariant.                                                          *)

LEMMA ConnInit == Init => ConnInv
<1> SUFFICES ASSUME Init PROVE ConnInv
  OBVIOUS
<1> DEFINE s == Now
<1>0. /\ MaxFd \in Nat /\ Gone \in Record /\ Fine(Gone) /\ Gone.st = None /\ Gone.hostp = None
  BY ConnConstants, GoneFine DEF Gone
<1>1. /\ s.cl = [c \in Client |-> Gone] /\ s.loc = [f \in Fd |-> None] /\ s.high = 0
      /\ s.ev = [f \in Fd |-> NoEvent] /\ s.req = {} /\ s.nr = [unknowns |-> 0, users |-> 0, servers |-> 0]
  BY DEF Now, Init
<1>2. s \in Tables
  <2>1. s = [cl |-> s.cl, loc |-> s.loc, high |-> s.high, ev |-> s.ev, req |-> s.req, nr |-> s.nr]
    BY DEF Now
  <2> HIDE DEF s
  <2>2. s.cl \in [Client -> Record] /\ s.loc \in [Fd -> Client \cup {None}] /\ s.high \in 0..MaxFd
    BY <1>0, <1>1
  <2>3. s.ev \in [Fd -> Event] /\ s.req \in SUBSET [c : Client, type : {"ptr", "a"}]
        /\ s.nr \in [unknowns : Nat, users : Nat, servers : Nat]
    BY <1>1 DEF Event
  <2> QED BY <2>1, <2>2, <2>3 DEF Tables
<1> HIDE DEF s
<1>3. FdsOK(s) /\ ReqsOK(s)
  BY <1>0, <1>1, <1>2 DEF FdsOK, ReqsOK
<1>4. ASSUME NEW S, None \notin S PROVE Count(s.cl, S) = 0
  <2>1. {c \in Client : s.cl[c].st \in S} = {}
    BY <1>0, <1>1, <1>4
  <2> QED BY <2>1, FS_EmptySet DEF Count
<1>5. CountsOK(s)
  <2>1. None \notin Unknown /\ None \notin {"user"} /\ None \notin {"server"}
    BY DEF Unknown, None
  <2>2. Count(s.cl, Unknown) = 0 /\ Count(s.cl, {"user"}) = 0 /\ Count(s.cl, {"server"}) = 0
    BY <1>4, <2>1
  <2> QED BY <1>1, <2>2 DEF CountsOK
<1>6. HostsOK(cl, cache) /\ Clear(cl, gline)
  BY <1>0 DEF Init, HostsOK, Clear, None
<1>7. Sound(Now)
  BY <1>3, <1>5 DEF Sound, s
<1>8. cache = <<>> /\ gline = {} /\ down = FALSE
  BY DEF Init
<1>9. cache \in Seq(Addr) /\ gline \subseteq Addr /\ down \in BOOLEAN
  <2>1. <<>> \in Seq(Addr)
    OBVIOUS
  <2> QED BY <1>8, <2>1
<1> QED
  BY <1>6, <1>7, <1>9 DEF ConnInv

LEMMA ConnNext == ConnInv /\ [Next]_vars => ConnInv'
<1> SUFFICES ASSUME ConnInv, [Next]_vars PROVE ConnInv'
  OBVIOUS
<1>1. ASSUME NEW q \in req, DnsUnknown(q) PROVE ConnInv'
  BY <1>1, DnsUnknownStep
<1>2. ASSUME NEW q \in req, DnsTimeout(q) PROVE ConnInv'
  BY <1>2, DnsTimeoutStep
<1>3. ASSUME NEW q \in req, DnsAddress(q) PROVE ConnInv'
  BY <1>3, DnsAddressStep
<1>4. ASSUME NEW q \in req, NEW a \in Addr, DnsName(q, a) PROVE ConnInv'
  BY <1>4, DnsNameStep
<1>5. ASSUME NEW a \in Addr, Expire(a) PROVE ConnInv'
  BY <1>5, ExpireStep
<1>6. ASSUME NEW mask \in SUBSET Addr, Gline(mask) PROVE ConnInv'
  BY <1>6, GlineStep
<1>7. ASSUME NEW mask \in SUBSET Addr, Rehash(mask) PROVE ConnInv'
  BY <1>7, RehashStep
<1>8. CASE Close
  BY <1>8, CloseStep
<1>9. CASE Tick
  BY <1>9, TickStep
<1>10. ASSUME NEW c \in Client, Connect(c) PROVE ConnInv'
  BY <1>10, ConnectStep
<1>11. ASSUME NEW c \in Client, Connected(c) PROVE ConnInv'
  BY <1>11, ConnectedStep
<1>12. ASSUME NEW c \in Client, ReadAuthPorts(c) PROVE ConnInv'
  BY <1>12, ReadAuthPortsStep
<1>13. ASSUME NEW c \in Client, DeadLink(c) PROVE ConnInv'
  BY <1>13, DeadLinkStep
<1>14. ASSUME NEW c \in Client, CheckPing(c) PROVE ConnInv'
  BY <1>14, CheckPingStep
<1>15. ASSUME NEW c \in Client, NEW p \in BOOLEAN, Accept(c, p) PROVE ConnInv'
  BY <1>15, AcceptStep
<1>16. ASSUME NEW c \in Client, NEW p \in BOOLEAN, SendAuthPorts(c, p) PROVE ConnInv'
  BY <1>16, SendAuthPortsStep
<1>17. ASSUME NEW c \in Client, NEW p \in BOOLEAN, Timer(c, p) PROVE ConnInv'
  BY <1>17, TimerStep
<1>18. ASSUME NEW c \in Client, NEW p \in BOOLEAN, NEW e \in BOOLEAN, Read(c, e, p) PROVE ConnInv'
  BY <1>18, ReadStep
<1>19. ASSUME NEW c \in Client, NEW what \in {"half", "rest", "whole", "eof"}, NEW p \in BOOLEAN,
              ReadServer(c, what, p)
       PROVE  ConnInv'
  BY <1>19, ReadServerStep
<1>20. CASE UNCHANGED vars
  <2>1. Now' = Now /\ cl' = cl /\ cache' = cache /\ gline' = gline /\ down' = down
    BY <1>20 DEF vars, Now
  <2> QED BY <2>1 DEF ConnInv, HostsOK, Clear
<1> QED
  BY <1>1, <1>2, <1>3, <1>4, <1>5, <1>6, <1>7, <1>8, <1>9, <1>10, <1>11, <1>12, <1>13, <1>14, <1>15,
     <1>16, <1>17, <1>18, <1>19, <1>20 DEF Next

LEMMA ConnAlways == Spec => []ConnInv
  BY ConnInit, ConnNext, PTL DEF Spec

LEMMA ConnInvIs ==
    ASSUME ConnInv
    PROVE  FdTable /\ NothingFreed /\ NrOf /\ NoneGlined /\ Settles
<1>1. /\ Now \in Tables /\ Sound(Now) /\ Now.cl = cl /\ Now.loc = loc /\ Now.high = high /\ Now.ev = ev
      /\ Now.req = req /\ Now.nr = nr
  BY NowIs
<1>2. TypeOK
  BY <1>1 DEF Tables, TypeOK, ConnInv, Event
<1>3. FdTable
  <2>1. ASSUME NEW c \in Client, cl[c].st # None
        PROVE  /\ cl[c].fd \in 1..high /\ loc[cl[c].fd] = c /\ ev[cl[c].fd] = <<c, "conn">>
               /\ cl[c].auth # "no" => cl[c].authfd # 0
               /\ cl[c].authfd # 0 => loc[cl[c].authfd] = None /\ ev[cl[c].authfd] = <<c, "auth">>
    BY <1>1, <2>1 DEF Sound, FdsOK, Placed, Fine
  <2>2. \A f \in Fd : loc[f] # None => cl[loc[f]].fd = f
    BY <1>1 DEF Sound, FdsOK
  <2> QED BY <1>2, <2>1, <2>2 DEF FdTable
<1>4. NothingFreed
  BY <1>1 DEF Sound, ReqsOK, ConnInv, HostsOK, NothingFreed, Cached
<1>5. NrOf
  <2>1. nr \in [unknowns : Nat, users : Nat, servers : Nat]
    BY <1>1 DEF Tables
  <2>2. nr = [unknowns |-> nr.unknowns, users |-> nr.users, servers |-> nr.servers]
    BY <2>1
  <2> QED BY <1>1, <2>2 DEF Sound, CountsOK, Count, NrOf
<1>6. NoneGlined
  BY DEF ConnInv, Clear, NoneGlined
<1>7. Settles
  BY <1>1 DEF Sound, FdsOK, Fine, Patient, Settles
<1> QED
  BY <1>3, <1>4, <1>5, <1>6, <1>7

(* The tables of descriptors agree, whatever order connections come, move  *)
(* and leave in (add_connection, close_connection, start_auth).            *)
THEOREM ConnFdTable == Spec => []FdTable
  BY ConnAlways, ConnInvIs, PTL

(* A late answer of the resolver finds the connection that waits for it,   *)
(* and no connection points to a host entry that has been freed            *)
(* (do_dns_async, rem_cache, del_queries).                                 *)
THEOREM ConnNothingFreed == Spec => []NothingFreed
  BY ConnAlways, ConnInvIs, PTL

(* The counters of querycmds.h count what they are declared to count.      *)
THEOREM ConnNrOf == Spec => []NrOf
  BY ConnAlways, ConnInvIs, PTL

(* The loop of add_gline from the top misses nobody, and nobody registers  *)
(* under a G-line afterwards.                                              *)
THEOREM ConnNoneGlined == Spec => []NoneGlined
  BY ConnAlways, ConnInvIs, PTL

(* No silent connection and no dead link stays for three ping intervals    *)
(* (event_checkping_callback).                                             *)
THEOREM ConnSettles == Spec => []Settles
  BY ConnAlways, ConnInvIs, PTL
=============================================================================
