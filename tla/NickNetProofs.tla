--------------------------- MODULE NickNetProofs ----------------------------
(***************************************************************************)
(* Collisions of nicks leave one holder at every server and take only      *)
(* users somebody had the better right against, for every tree of servers, *)
(* set of users and nicks, and number of turns, losses and seconds.        *)
(*                                                                         *)
(* A user is Excused once it has been ousted by a user or has a claim that *)
(* is worse than one of somebody else; RightOneKilled says that all who    *)
(* are killed are excused.  The argument is about the others.  They leave  *)
(* a table only by a QUIT, SQUIT or end of file on the link they came by,  *)
(* so what is in flight on that link leads from the entry of the receiver  *)
(* to the entry of the sender, change by change (Flow), and no line in     *)
(* between gives their nick to another.  A server that meets a change by   *)
(* somebody it does not know, a user introduced twice or two users of one  *)
(* nick from one side has therefore met excused users.  Phase is needed    *)
(* because the lines of a link that is half open, or closed at one end     *)
(* only, are not read or not answered.                                     *)
(***************************************************************************)
EXTENDS NickNet, TLAPS, FiniteSetTheorems

Better(d, c) == /\ c.user # d.user /\ c.nick = d.nick
                /\ IF Differ(c.user, d.user) THEN d.ts <= c.ts ELSE d.ts >= c.ts

Excused == {u \in User : u \in ousted \/ \E c, d \in claims : c.user = u /\ Better(d, c)}

-----------------------------------------------------------------------------
(* What a line does to the entry of a user.                                *)

ClaimsIn(x) == IF x.type = "NICK" THEN x.claims
               ELSE IF x.type = "CHANGE" THEN {x.claim} ELSE {}

Leaves(u, n, x) == \/ x.type = "QUIT" /\ x.user = u
                   \/ x.type = "SQUIT" /\ \E s \in x.servers : Home[u] \in Beyond(n, s)

\* Line x, parsed by n, takes the entry of u from a to b.
Step(u, n, x, a, b) ==
    /\ \A c \in ClaimsIn(x) :
         IF c.user = u
         THEN /\ b = At(c)
              /\ IF x.type = "NICK" THEN a = Gone ELSE a # Gone /\ a.nick # c.nick
         ELSE a.nick # c.nick /\ b.nick # c.nick
    /\ Leaves(u, n, x) => b = Gone
    /\ x.type # "EOF" /\ ~Leaves(u, n, x) /\ (\A c \in ClaimsIn(x) : c.user # u) => b = a

\* The lines of q take it from a to b.
Path(q, u, n, a, b) ==
    \E p \in [0..Len(q) -> Entry] :
        /\ p[0] = a /\ p[Len(q)] = b
        /\ \A i \in 1..Len(q) : Step(u, n, q[i], p[i - 1], p[i])

-----------------------------------------------------------------------------
(* The parts of the invariant, with channels c, tables tb, what has been   *)
(* announced en, known servers kn, claims cl and excused users ex.         *)

Holds(q, t) == \E i \in 1..Len(q) : q[i].type = t
Plain(q) == ~Holds(q, "SERVER") /\ ~Holds(q, "EOF")

\* q is the queue from m to n, r the one back; kn: what n knows, km: what m
\* knows.  m calls n; m has answered the call of n; n has closed the link.
Calling(m, n, q, r, kn, km) ==
    m \notin kn /\ n \notin km /\ q = <<SERVERMsg>> /\ r = <<>> /\ <<m, n>> \in Dials
Half(m, n, q, r, kn, km) ==
    /\ m \notin kn /\ n \in km /\ r = <<>> /\ <<n, m>> \in Dials
    /\ q # <<>> /\ q[1] = SERVERMsg
    /\ \A i \in 2..Len(q) : q[i].type \notin {"SERVER", "EOF"}
Closed(m, n, q, r, kn, km) ==
    /\ m \notin kn /\ n \in km /\ Plain(q)
    /\ r # <<>> /\ r[Len(r)] = EOFMsg
    /\ \A i \in 1..(Len(r) - 1) : r[i].type \notin {"SERVER", "EOF"}

Phase(m, n, q, r, kn, km) ==
    \/ m \notin kn /\ n \notin km /\ q = <<>> /\ r = <<>>
    \/ m \in kn /\ n \in km /\ Plain(q) /\ Plain(r)
    \/ Calling(m, n, q, r, kn, km) \/ Calling(n, m, r, q, km, kn)
    \/ Half(m, n, q, r, kn, km) \/ Half(n, m, r, q, km, kn)
    \/ Closed(m, n, q, r, kn, km) \/ Closed(n, m, r, q, km, kn)

Phases(c, kn) ==
    /\ \A m, n \in Server : m \notin Adjacent(n) => c[<<m, n>>] = <<>>
    /\ \A n \in Server : \A m \in Adjacent(n) :
         Phase(m, n, c[<<m, n>>], c[<<n, m>>], kn[n], kn[m])

\* A line on the way from m to n.
MsgOK(m, n, x, cl, ex) ==
    /\ \A c \in ClaimsIn(x) : c \in cl /\ From(n, c.user) = m
    /\ x.type = "KILL" => x.user \in ex
    /\ x.type \in {"INTRO", "SQUIT"} => \A s \in x.servers : s # m /\ Hop[n][s] = m
    /\ x.type = "SQUIT" => \E s \in Server : x.servers = {s}

Msgs(c, cl, ex) ==
    \A m, n \in Server : \A i \in 1..Len(c[<<m, n>>]) : MsgOK(m, n, c[<<m, n>>][i], cl, ex)

\* What m has announced to n of u.
Told(n, u, em, km) == IF n \in km THEN em[u] ELSE Gone

Flow(q, r, u, n, a, b) ==
    ~Holds(r, "EOF") =>
        \E z \in Entry : Path(q, u, n, a, z) /\ (~Holds(q, "EOF") => z = b)

Flows(c, tb, en, kn, ex) ==
    \A n \in Server : \A m \in Adjacent(n) : \A u \in User \ ex :
        From(n, u) = m => Flow(c[<<m, n>>], c[<<n, m>>], u, n, tb[n][u], Told(n, u, en[m], kn[m]))

Queue == Seq(Msg)
Chans == [Server \X Server -> Queue]
Tables == [Server -> [User -> Entry]]

Net(c, tb, en, kn, cl, ex) ==
    c \in Chans /\ Phases(c, kn) /\ Msgs(c, cl, ex) /\ Flows(c, tb, en, kn, ex)

Entered(tb, kn, cl) ==
    \A n \in Server, u \in User : tb[n][u] # Gone =>
        /\ tb[n][u].nick # NoNick
        /\ MakeClaim(u, tb[n][u].nick, tb[n][u].ts) \in cl
        /\ From(n, u) \in kn[n]

OneEach(tb) ==
    \A n \in Server, u, v \in User :
        tb[n][u].nick = tb[n][v].nick /\ tb[n][u].nick # NoNick => u = v

Knows(kn) == \A n \in Server : n \in kn[n] /\ \A s \in kn[n] : Hop[n][s] \in kn[n]

NickInv ==
    /\ TypeOK
    /\ OneEach(tab) /\ Entered(tab, known, claims) /\ Knows(known)
    /\ \A c \in claims : c.user \in signed
    /\ Net(chan, tab, tab, known, claims, Excused)
    /\ killed \subseteq Excused

-----------------------------------------------------------------------------
(* The tree.                                                               *)

(* Of two neighbours exactly one leads the other to a server.              *)
LEMMA Sides ==
    ASSUME NEW n \in Server, NEW m \in Adjacent(n), NEW s \in Server
    PROVE  /\ m \in Server /\ n # m /\ n \in Adjacent(m)
           /\ Hop[n][m] = m /\ Hop[m][n] = n
           /\ Hop[n][s] = m <=> Hop[m][s] # n
<1>1. m \in Server /\ n # m /\ Hop[n][m] = m /\ Hop[m][n] = n
  BY HopIsTree DEF Adjacent
<1>2. n \in Adjacent(m)
  BY <1>1 DEF Adjacent
<1>3. Hop[n][s] # m => Hop[m][s] = n
  BY <1>1, HopIsTree
<1>4. Hop[n][s] = m => Hop[m][s] # n
  BY <1>1, HopIsTree
<1> QED
  BY <1>1, <1>2, <1>3, <1>4

(* What lies beyond a neighbour m of n is what n reaches through m.        *)
LEMMA BeyondNeighbour ==
    ASSUME NEW n \in Server, NEW m \in Adjacent(n), NEW t \in Server
    PROVE  t \in Beyond(n, m) <=> Hop[n][t] = m
BY Sides, HopIsTree DEF Beyond

(* What lies beyond a server s that is not a neighbour: all of it is       *)
(* reached as s is, no neighbour is part of it, and the neighbours that    *)
(* do not lead there see the same.                                         *)
LEMMA BeyondFar ==
    ASSUME NEW n \in Server, NEW m \in Adjacent(n), NEW s \in Server,
           Hop[n][s] = m, s # m
    PROVE  /\ \A t \in Beyond(n, s) : t \in Server /\ Hop[n][t] = m /\ t # m
           /\ \A j \in Adjacent(n) : j \notin Beyond(n, s)
           /\ n \notin Beyond(n, s)
<1>1. m \in Server /\ n # m /\ Hop[n][m] = m /\ Hop[m][n] = n /\ s # n
  BY Sides, HopIsTree
<1>2. Hop[s][m] = Hop[s][n]
  <2>1. Hop[m][s] # n
    BY <1>1, Sides
  <2> QED BY <1>1, <2>1, HopIsTree
<1>3. \A t \in Server : Hop[s][t] # Hop[s][n] => Hop[n][t] = m
  BY <1>1, HopIsTree
<1>4. \A j \in Adjacent(n) : j # m => Hop[s][j] = Hop[s][n] /\ j # s
  BY <1>1, HopIsTree DEF Adjacent
<1> QED
  BY <1>1, <1>2, <1>3, <1>4 DEF Beyond

LEMMA BeyondSame ==
    ASSUME NEW n \in Server, NEW j \in Adjacent(n), NEW s \in Server,
           Hop[n][s] # j, s # n
    PROVE  Beyond(j, s) = Beyond(n, s) /\ Hop[j][s] = n
<1>1. j \in Server /\ n # j /\ Hop[n][j] = j /\ Hop[j][n] = n
  BY Sides
<1>2. Hop[j][s] = n
  BY Sides
<1>3. s # j
  BY <1>1
<1>4. Hop[s][j] = Hop[s][n]
  BY <1>1, <1>3, HopIsTree
<1> QED
  BY <1>2, <1>4 DEF Beyond

-----------------------------------------------------------------------------
(* Paths.                                                                  *)

(* No line changes nothing.                                                *)
LEMMA PathEmpty ==
    ASSUME NEW u, NEW n, NEW a \in Entry
    PROVE  /\ Path(<<>>, u, n, a, a)
           /\ \A b : Path(<<>>, u, n, a, b) => a = b
<1> DEFINE p == [i \in 0..Len(<<>>) |-> a]
<1>1. p \in [0..Len(<<>>) -> Entry] /\ p[0] = a /\ p[Len(<<>>)] = a
  OBVIOUS
<1>2. Path(<<>>, u, n, a, a)
  <2> HIDE DEF p
  <2> QED BY <1>1 DEF Path
<1> QED
  BY <1>2 DEF Path

(* A line more.                                                            *)
LEMMA PathAppend ==
    ASSUME NEW q \in Seq(Msg), NEW u, NEW n, NEW x \in Msg,
           NEW a, NEW b, NEW e \in Entry,
           Path(q, u, n, a, b), Step(u, n, x, b, e)
    PROVE  Path(Append(q, x), u, n, a, e)
<1> PICK p \in [0..Len(q) -> Entry] :
        /\ p[0] = a /\ p[Len(q)] = b
        /\ \A i \in 1..Len(q) : Step(u, n, q[i], p[i - 1], p[i])
  BY DEF Path
<1> DEFINE w == Append(q, x)
           o == [i \in 0..Len(w) |-> IF i = Len(q) + 1 THEN e ELSE p[i]]
<1>1. w \in Seq(Msg) /\ Len(w) = Len(q) + 1 /\ Len(q) \in Nat
      /\ (\A i \in 1..Len(q) : w[i] = q[i]) /\ w[Len(q) + 1] = x
  OBVIOUS
<1>2. o \in [0..Len(w) -> Entry] /\ o[0] = a /\ o[Len(w)] = e
      /\ o[Len(q)] = b /\ \A i \in 0..Len(q) : o[i] = p[i]
  BY <1>1
<1>3. ASSUME NEW i \in 1..Len(w) PROVE Step(u, n, w[i], o[i - 1], o[i])
  <2> HIDE DEF o, w
  <2>1. CASE i = Len(q) + 1
    <3>0. i - 1 = Len(q) /\ i = Len(w)
      BY <1>1, <2>1
    <3>1. o[i - 1] = b
      BY <1>2, <3>0, Zenon
    <3>2. o[i] = e
      BY <1>2, <3>0, Zenon
    <3>3. w[i] = x
      BY <1>1, <2>1, Zenon
    <3> QED BY <3>1, <3>2, <3>3, Zenon
  <2>2. CASE i \in 1..Len(q)
    <3>1. i - 1 \in 0..Len(q) /\ i \in 0..Len(q)
      BY <1>1, <2>2
    <3>2. o[i - 1] = p[i - 1] /\ o[i] = p[i] /\ w[i] = q[i]
      BY <1>1, <1>2, <2>2, <3>1
    <3> QED BY <3>2, <2>2
  <2> QED BY <1>1, <2>1, <2>2
<1> HIDE DEF o, w
<1>4. Path(w, u, n, a, e)
  BY <1>2, <1>3 DEF Path
<1> QED
  BY <1>4 DEF w

(* The first line and the rest.                                            *)
LEMMA PathTail ==
    ASSUME NEW q \in Seq(Msg), NEW u, NEW n, NEW a, NEW b, q # <<>>,
           Path(q, u, n, a, b)
    PROVE  \E e \in Entry : Step(u, n, Head(q), a, e) /\ Path(Tail(q), u, n, e, b)
<1> PICK p \in [0..Len(q) -> Entry] :
        /\ p[0] = a /\ p[Len(q)] = b
        /\ \A i \in 1..Len(q) : Step(u, n, q[i], p[i - 1], p[i])
  BY DEF Path
<1> DEFINE w == Tail(q)
           o == [i \in 0..Len(w) |-> p[i + 1]]
<1>1. Len(q) \in Nat \ {0} /\ w \in Seq(Msg) /\ Len(w) = Len(q) - 1
      /\ (\A i \in 1..Len(w) : w[i] = q[i + 1]) /\ Head(q) = q[1]
  OBVIOUS
<1>2. o \in [0..Len(w) -> Entry] /\ o[0] = p[1] /\ o[Len(w)] = b
      /\ \A i \in 0..Len(w) : o[i] = p[i + 1]
  BY <1>1
<1>3. ASSUME NEW i \in 1..Len(w) PROVE Step(u, n, w[i], o[i - 1], o[i])
  <2> HIDE DEF o, w
  <2>1. i - 1 \in 0..Len(w) /\ i \in 0..Len(w) /\ i + 1 \in 1..Len(q) /\ (i - 1) + 1 = i
        /\ (i + 1) - 1 = i
    BY <1>1
  <2>2. o[i - 1] = p[i] /\ o[i] = p[i + 1] /\ w[i] = q[i + 1]
    BY <1>1, <1>2, <2>1
  <2>3. Step(u, n, q[i + 1], p[(i + 1) - 1], p[i + 1])
    BY <2>1
  <2> QED BY <2>1, <2>2, <2>3
<1>4. Step(u, n, Head(q), a, p[1]) /\ p[1] \in Entry
  <2>1. 1 \in 1..Len(q) /\ 1 - 1 = 0
    BY <1>1
  <2>2. Step(u, n, q[1], p[1 - 1], p[1])
    BY <2>1
  <2> QED BY <1>1, <2>1, <2>2
<1> HIDE DEF o, w
<1>5. Path(w, u, n, p[1], b)
  BY <1>2, <1>3 DEF Path
<1> QED
  BY <1>4, <1>5 DEF w

(* Another first line.                                                     *)
LEMMA PathCons ==
    ASSUME NEW q \in Seq(Msg), NEW u, NEW n, NEW a \in Entry, NEW e \in Entry, NEW b,
           NEW x \in Msg, Step(u, n, x, a, e), Path(q, u, n, e, b)
    PROVE  Path(<<x>> \o q, u, n, a, b)
<1> PICK p \in [0..Len(q) -> Entry] :
        /\ p[0] = e /\ p[Len(q)] = b
        /\ \A i \in 1..Len(q) : Step(u, n, q[i], p[i - 1], p[i])
  BY DEF Path
<1> DEFINE w == <<x>> \o q
           o == [i \in 0..Len(w) |-> IF i = 0 THEN a ELSE p[i - 1]]
<1>1. Len(q) \in Nat /\ w \in Seq(Msg) /\ Len(w) = Len(q) + 1
      /\ (\A i \in 1..Len(q) : w[i + 1] = q[i]) /\ w[1] = x
  OBVIOUS
<1>2. o \in [0..Len(w) -> Entry] /\ o[0] = a /\ o[Len(w)] = b
      /\ \A i \in 1..Len(w) : o[i] = p[i - 1]
  BY <1>1
<1>3. ASSUME NEW i \in 1..Len(w) PROVE Step(u, n, w[i], o[i - 1], o[i])
  <2> HIDE DEF o, w
  <2>1. CASE i = 1
    <3>1. o[i - 1] = a /\ o[i] = e /\ w[i] = x
      BY <1>1, <1>2, <2>1
    <3> QED BY <3>1
  <2>2. CASE i # 1
    <3>1. i - 1 \in 1..Len(q) /\ i - 1 \in 1..Len(w) /\ (i - 1) + 1 = i
      BY <1>1, <2>2
    <3>2. o[i - 1] = p[(i - 1) - 1] /\ o[i] = p[i - 1] /\ w[i] = q[i - 1]
      BY <1>1, <1>2, <3>1
    <3> QED BY <3>1, <3>2
  <2> QED BY <2>1, <2>2
<1> HIDE DEF o, w
<1>4. Path(w, u, n, a, b)
  BY <1>2, <1>3 DEF Path
<1> QED
  BY <1>4 DEF w

-----------------------------------------------------------------------------
(* Queues and phases.                                                      *)

(* What an appended line adds to a queue.                                  *)
LEMMA AppendQueue ==
    ASSUME NEW q \in Queue, NEW x \in Msg
    PROVE  /\ Append(q, x) \in Queue /\ Append(q, x) # <<>>
           /\ Len(q) \in Nat /\ Len(Append(q, x)) = Len(q) + 1
           /\ \A i \in 1..Len(q) : Append(q, x)[i] = q[i]
           /\ Append(q, x)[Len(q) + 1] = x
           /\ \A t : Holds(Append(q, x), t) <=> Holds(q, t) \/ x.type = t
<1> DEFINE w == Append(q, x)
<1>1. /\ w \in Queue /\ w # <<>> /\ Len(q) \in Nat /\ Len(w) = Len(q) + 1
      /\ \A i \in 1..Len(q) : w[i] = q[i]
      /\ w[Len(q) + 1] = x
  BY DEF Queue
<1> HIDE DEF w
<1>2. ASSUME NEW t PROVE Holds(w, t) <=> Holds(q, t) \/ x.type = t
  <2>1. Holds(w, t) => Holds(q, t) \/ x.type = t
    <3> SUFFICES ASSUME NEW i \in 1..Len(w), w[i].type = t PROVE Holds(q, t) \/ x.type = t
      BY DEF Holds
    <3>1. i \in 1..Len(q) \/ i = Len(q) + 1
      BY <1>1
    <3> QED BY <1>1, <3>1 DEF Holds
  <2>2. Holds(q, t) => Holds(w, t)
    BY <1>1 DEF Holds
  <2>3. x.type = t => Holds(w, t)
    <3>1. Len(q) + 1 \in 1..Len(w)
      BY <1>1
    <3> QED BY <1>1, <3>1 DEF Holds
  <2> QED BY <2>1, <2>2, <2>3
<1> QED
  BY <1>1, <1>2 DEF w

(* A queue without its first line.                                         *)
LEMMA TailQueue ==
    ASSUME NEW q \in Queue, q # <<>>
    PROVE  /\ Tail(q) \in Queue /\ Head(q) \in Msg /\ Head(q) = q[1]
           /\ Len(q) \in Nat \ {0} /\ Len(Tail(q)) = Len(q) - 1
           /\ \A i \in 1..Len(Tail(q)) : Tail(q)[i] = q[i + 1]
           /\ \A t : Holds(q, t) <=> Head(q).type = t \/ Holds(Tail(q), t)
<1> DEFINE w == Tail(q)
<1>1. /\ w \in Queue /\ Head(q) \in Msg /\ Head(q) = q[1]
      /\ Len(q) \in Nat \ {0} /\ Len(w) = Len(q) - 1
      /\ \A i \in 1..Len(w) : w[i] = q[i + 1]
  BY DEF Queue
<1> HIDE DEF w
<1>2. ASSUME NEW t PROVE Holds(q, t) <=> Head(q).type = t \/ Holds(w, t)
  <2>1. Holds(q, t) => Head(q).type = t \/ Holds(w, t)
    <3> SUFFICES ASSUME NEW i \in 1..Len(q), q[i].type = t, i # 1 PROVE Holds(w, t)
      BY <1>1 DEF Holds
    <3>1. i - 1 \in 1..Len(w) /\ w[i - 1] = q[i]
      BY <1>1
    <3> QED BY <3>1 DEF Holds
  <2>2. Holds(w, t) => Holds(q, t)
    <3> SUFFICES ASSUME NEW i \in 1..Len(w), w[i].type = t PROVE Holds(q, t)
      BY DEF Holds
    <3>1. i + 1 \in 1..Len(q) /\ w[i] = q[i + 1]
      BY <1>1
    <3> QED BY <3>1 DEF Holds
  <2>3. Head(q).type = t => Holds(q, t)
    BY <1>1 DEF Holds
  <2> QED BY <2>1, <2>2, <2>3
<1> QED
  BY <1>1, <1>2 DEF w

(* A queue with another first line.                                        *)
LEMMA ConsQueue ==
    ASSUME NEW q \in Queue, NEW x \in Msg
    PROVE  /\ <<x>> \o q \in Queue /\ <<x>> \o q # <<>>
           /\ Head(<<x>> \o q) = x /\ Tail(<<x>> \o q) = q
BY DEF Queue

(* The two ends see one phase.                                             *)
LEMMA PhaseTurns ==
    ASSUME NEW m, NEW n, NEW q, NEW r, NEW kn, NEW km
    PROVE  Phase(m, n, q, r, kn, km) <=> Phase(n, m, r, q, km, kn)
BY DEF Phase

(* An open end sends a line.                                               *)
LEMMA PhaseSent ==
    ASSUME NEW m, NEW n, NEW q \in Queue, NEW r \in Queue, NEW kn, NEW km, NEW x \in Msg,
           x.type \notin {"SERVER", "EOF"}, n \in km, Phase(m, n, q, r, kn, km)
    PROVE  /\ Phase(m, n, Append(q, x), r, kn, km)
           /\ ~Holds(q, "EOF")
<1>1. \A t : Holds(Append(q, x), t) <=> Holds(q, t) \/ x.type = t
  BY AppendQueue
<1>2. CASE m \in kn /\ Plain(q) /\ Plain(r)
  BY <1>1, <1>2 DEF Phase, Plain
<1>3. CASE Half(m, n, q, r, kn, km)
  <2> DEFINE w == Append(q, x)
  <2>1. /\ w # <<>> /\ Len(q) \in Nat \ {0} /\ Len(w) = Len(q) + 1
        /\ \A i \in 1..Len(q) : w[i] = q[i]
        /\ w[Len(q) + 1] = x
    BY <1>3, AppendQueue DEF Half, Queue
  <2> HIDE DEF w
  <2>2. w[1] = SERVERMsg
    BY <2>1, <1>3 DEF Half
  <2>3. ASSUME NEW i \in 2..Len(w) PROVE w[i].type \notin {"SERVER", "EOF"}
    <3>1. CASE i = Len(q) + 1
      BY <2>1, <3>1
    <3>2. CASE i \in 2..Len(q)
      BY <2>1, <3>2, <1>3 DEF Half
    <3> QED BY <2>1, <3>1, <3>2
  <2>4. ~Holds(q, "EOF")
    <3> SUFFICES ASSUME NEW i \in 1..Len(q), q[i].type = "EOF" PROVE FALSE
      BY DEF Holds
    <3>1. i = 1 \/ i \in 2..Len(q)
      BY <2>1
    <3> QED BY <3>1, <1>3 DEF Half, SERVERMsg
  <2>5. Half(m, n, w, r, kn, km)
    BY <2>1, <2>2, <2>3, <1>3 DEF Half
  <2> QED BY <2>4, <2>5 DEF w, Phase
<1>4. CASE Closed(m, n, q, r, kn, km)
  BY <1>1, <1>4 DEF Phase, Closed, Plain
<1>5. \/ m \in kn /\ Plain(q) /\ Plain(r)
      \/ Half(m, n, q, r, kn, km)
      \/ Closed(m, n, q, r, kn, km)
  BY DEF Phase, Calling, Half, Closed
<1> QED
  BY <1>2, <1>3, <1>4, <1>5

(* An open end parses a line that neither opens nor closes the link.       *)
LEMMA PhaseParsed ==
    ASSUME NEW m, NEW n, NEW q \in Queue, NEW r \in Queue, NEW kn, NEW km,
           q # <<>>, Head(q).type \notin {"SERVER", "EOF"}, m \in kn,
           Phase(m, n, q, r, kn, km)
    PROVE  /\ Phase(m, n, Tail(q), r, kn, km)
           /\ \A x \in Msg : x.type \notin {"SERVER", "EOF"}
                => Phase(m, n, <<x>> \o Tail(q), r, kn, km)
           /\ ~Holds(r, "EOF")
<1>1. \A t : Holds(q, t) <=> Head(q).type = t \/ Holds(Tail(q), t)
  BY TailQueue
<1>0. Tail(q) \in Queue
  BY TailQueue
<1>2. ASSUME NEW x \in Msg, x.type \notin {"SERVER", "EOF"}
      PROVE  Plain(Tail(q)) => Plain(<<x>> \o Tail(q))
  <2> DEFINE v == <<x>> \o Tail(q)
  <2>1. v \in Queue /\ v # <<>> /\ Head(v) = x /\ Tail(v) = Tail(q)
    BY <1>0, <1>2, ConsQueue
  <2> HIDE DEF v
  <2>2. \A t : Holds(v, t) <=> x.type = t \/ Holds(Tail(q), t)
    BY <2>1, TailQueue
  <2> QED BY <2>2, <1>2 DEF Plain, v
<1>3. CASE n \in km /\ Plain(q) /\ Plain(r)
  BY <1>1, <1>2, <1>3 DEF Phase, Plain
<1>4. CASE Closed(n, m, r, q, km, kn)
  <2> DEFINE w == Tail(q)
  <2>1. /\ w \in Queue /\ Head(q) = q[1] /\ Len(q) \in Nat \ {0} /\ Len(w) = Len(q) - 1
        /\ \A i \in 1..Len(w) : w[i] = q[i + 1]
    BY TailQueue
  <2> HIDE DEF w
  <2>2. Len(q) > 1
    BY <2>1, <1>4 DEF Closed, EOFMsg
  <2>3. w # <<>> /\ w[Len(w)] = EOFMsg
    <3>1. Len(w) \in 1..Len(w) /\ Len(w) + 1 = Len(q)
      BY <2>1, <2>2
    <3>2. w[Len(w)] = q[Len(q)]
      BY <2>1, <3>1
    <3>3. w # <<>>
      BY <3>1
    <3> QED BY <3>2, <3>3, <1>4 DEF Closed
  <2>4. ASSUME NEW i \in 1..(Len(w) - 1) PROVE w[i].type \notin {"SERVER", "EOF"}
    <3>1. i + 1 \in 1..(Len(q) - 1) /\ w[i] = q[i + 1]
      BY <2>1
    <3> QED BY <3>1, <1>4 DEF Closed
  <2>5. Closed(n, m, r, w, km, kn)
    BY <2>3, <2>4, <1>4 DEF Closed
  <2>6. ASSUME NEW x \in Msg, x.type \notin {"SERVER", "EOF"}
        PROVE  Closed(n, m, r, <<x>> \o w, km, kn)
    <3> DEFINE v == <<x>> \o w
    <3>1. /\ v \in Queue /\ v # <<>> /\ Len(w) \in Nat \ {0} /\ Len(v) = Len(w) + 1 /\ v[1] = x
          /\ \A i \in 1..Len(w) : v[i + 1] = w[i]
      BY <2>1, <2>3, <2>6 DEF Queue
    <3> HIDE DEF v
    <3>2. v[Len(v)] = EOFMsg
      BY <3>1, <2>3
    <3>3. ASSUME NEW i \in 1..(Len(v) - 1) PROVE v[i].type \notin {"SERVER", "EOF"}
      <4>1. CASE i = 1
        BY <3>1, <4>1, <2>6
      <4>2. CASE i # 1
        <5>1. i - 1 \in 1..(Len(w) - 1) /\ i - 1 \in 1..Len(w) /\ (i - 1) + 1 = i
          BY <3>1, <4>2
        <5>2. v[i] = w[i - 1]
          BY <3>1, <5>1
        <5> QED BY <5>1, <5>2, <2>4
      <4> QED BY <4>1, <4>2
    <3>4. Closed(n, m, r, v, km, kn)
      BY <3>1, <3>2, <3>3, <1>4 DEF Closed
    <3> QED BY <3>4 DEF v
  <2> QED BY <2>5, <2>6, <1>4 DEF Phase, w, Closed, Plain
<1>5. (n \in km /\ Plain(q) /\ Plain(r)) \/ Closed(n, m, r, q, km, kn)
  BY DEF Phase, Calling, Half, Closed
<1> QED
  BY <1>3, <1>4, <1>5

-----------------------------------------------------------------------------
(* The network.                                                            *)

(* The queues after a line has been sent to some links.                    *)
LEMMA SentAt ==
    ASSUME NEW c \in Chans, NEW n \in Server, NEW T, NEW x \in Msg
    PROVE  /\ Sent(c, n, T, x) \in Chans
           /\ \A a, b \in Server : Sent(c, n, T, x)[<<a, b>>] =
                IF a = n /\ b \in T THEN Append(c[<<a, b>>], x) ELSE c[<<a, b>>]
<1>1. ASSUME NEW p \in Server \X Server
      PROVE  (IF p[1] = n /\ p[2] \in T THEN Append(c[p], x) ELSE c[p]) \in Queue
  BY AppendQueue DEF Chans
<1> QED
  BY <1>1 DEF Sent, Chans

(* A server tells some of its links something: what it has announced goes  *)
(* from en to fn.                                                          *)
LEMMA NetSent ==
    ASSUME NEW c, NEW tb \in Tables, NEW en \in Tables, NEW fn \in Tables, NEW kn, NEW cl, NEW ex,
           NEW n \in Server, NEW T, NEW x \in Msg,
           Net(c, tb, en, kn, cl, ex),
           T \subseteq Adjacent(n) \cap kn[n], x.type \notin {"SERVER", "EOF"},
           \A j \in T : MsgOK(n, j, x, cl, ex),
           \A a \in Server \ {n} : fn[a] = en[a],
           \A j \in Adjacent(n), u \in User \ ex :
               From(j, u) = n /\ j \in kn[n] =>
                   IF j \in T THEN Step(u, j, x, en[n][u], fn[n][u]) ELSE fn[n][u] = en[n][u]
    PROVE  Net(Sent(c, n, T, x), tb, fn, kn, cl, ex)
<1> DEFINE d == Sent(c, n, T, x)
<1>1. /\ c \in Chans /\ d \in Chans
      /\ \A a, b \in Server : d[<<a, b>>] =
                IF a = n /\ b \in T THEN Append(c[<<a, b>>], x) ELSE c[<<a, b>>]
  BY SentAt DEF Net
<1> HIDE DEF d
<1>2. \A a, b \in Server : c[<<a, b>>] \in Queue /\ d[<<a, b>>] \in Queue
  BY <1>1 DEF Chans
<1>3. Phases(d, kn)
  <2>1. ASSUME NEW a \in Server, NEW b \in Server, a \notin Adjacent(b)
        PROVE  d[<<a, b>>] = <<>>
    <3>1. c[<<a, b>>] = <<>>
      BY <2>1 DEF Net, Phases
    <3>2. a = n => b \notin Adjacent(n)
      BY <2>1, Sides
    <3> QED BY <1>1, <3>1, <3>2
  <2>2. ASSUME NEW b \in Server, NEW a \in Adjacent(b)
        PROVE  Phase(a, b, d[<<a, b>>], d[<<b, a>>], kn[b], kn[a])
    <3>0. a \in Server /\ a # b /\ Phase(a, b, c[<<a, b>>], c[<<b, a>>], kn[b], kn[a])
          /\ b \in Adjacent(a)
      BY Sides DEF Net, Phases
    <3>1. CASE a = n /\ b \in T
      <4>1. d[<<a, b>>] = Append(c[<<a, b>>], x) /\ d[<<b, a>>] = c[<<b, a>>]
        BY <1>1, <3>0, <3>1
      <4>2. b \in kn[a]
        BY <3>1
      <4> QED BY <1>2, <3>0, <4>1, <4>2, PhaseSent
    <3>2. CASE b = n /\ a \in T
      <4>1. d[<<b, a>>] = Append(c[<<b, a>>], x) /\ d[<<a, b>>] = c[<<a, b>>]
        BY <1>1, <3>0, <3>2
      <4>2. a \in kn[b]
        BY <3>2
      <4>3. Phase(b, a, c[<<b, a>>], c[<<a, b>>], kn[a], kn[b])
        BY <3>0, PhaseTurns
      <4>4. Phase(b, a, d[<<b, a>>], d[<<a, b>>], kn[a], kn[b])
        BY <1>2, <3>0, <4>1, <4>2, <4>3, PhaseSent
      <4> QED BY <4>4, PhaseTurns
    <3>3. CASE ~(a = n /\ b \in T) /\ ~(b = n /\ a \in T)
      <4>1. d[<<b, a>>] = c[<<b, a>>] /\ d[<<a, b>>] = c[<<a, b>>]
        BY <1>1, <3>0, <3>3
      <4> QED BY <3>0, <4>1
    <3> QED BY <3>1, <3>2, <3>3
  <2> QED BY <2>1, <2>2 DEF Phases
<1>4. Msgs(d, cl, ex)
  <2> SUFFICES ASSUME NEW a \in Server, NEW b \in Server, NEW i \in 1..Len(d[<<a, b>>])
               PROVE  MsgOK(a, b, d[<<a, b>>][i], cl, ex)
    BY DEF Msgs
  <2> DEFINE q == c[<<a, b>>]
             w == d[<<a, b>>]
  <2>0. \A k \in 1..Len(q) : MsgOK(a, b, q[k], cl, ex)
    BY DEF Net, Msgs
  <2>1. CASE a = n /\ b \in T
    <3>1. w = Append(q, x) /\ q \in Queue
      BY <1>1, <1>2, <2>1
    <3>2. /\ Len(q) \in Nat /\ Len(w) = Len(q) + 1
          /\ \A k \in 1..Len(q) : w[k] = q[k]
          /\ w[Len(q) + 1] = x
      BY <3>1, AppendQueue
    <3>3. i \in 1..Len(w)
      OBVIOUS
    <3> HIDE DEF q, w
    <3>4. i \in 1..Len(q) \/ i = Len(q) + 1
      BY <3>2, <3>3
    <3>5. MsgOK(a, b, w[i], cl, ex)
      BY <2>0, <2>1, <3>2, <3>4
    <3> QED BY <3>5 DEF w
  <2>2. CASE ~(a = n /\ b \in T)
    <3>1. w = q
      BY <1>1, <2>2
    <3> QED BY <2>0, <3>1
  <2> QED BY <2>1, <2>2
<1>5. Flows(d, tb, fn, kn, ex)
  <2> SUFFICES ASSUME NEW b \in Server, NEW a \in Adjacent(b), NEW u \in User \ ex, From(b, u) = a
               PROVE  Flow(d[<<a, b>>], d[<<b, a>>], u, b, tb[b][u], Told(b, u, fn[a], kn[a]))
    BY DEF Flows
  <2> DEFINE q == c[<<a, b>>]
             r == c[<<b, a>>]
             t == Told(b, u, en[a], kn[a])
  <2>0. a \in Server /\ a # b /\ b \in Adjacent(a) /\ q \in Queue /\ r \in Queue
        /\ Flow(q, r, u, b, tb[b][u], t)
        /\ Phase(a, b, q, r, kn[b], kn[a])
    BY <1>2, Sides DEF Net, Flows, Phases
  <2>1. CASE a = n /\ b \in T
    <3>1. d[<<a, b>>] = Append(q, x) /\ d[<<b, a>>] = r
      BY <1>1, <2>0, <2>1
    <3>2. b \in kn[a] /\ t = en[a][u] /\ Told(b, u, fn[a], kn[a]) = fn[a][u]
      BY <2>1 DEF Told
    <3>3. Step(u, b, x, en[a][u], fn[a][u]) /\ fn[a][u] \in Entry
      BY <2>0, <2>1, <3>2 DEF Tables
    <3>4. ~Holds(q, "EOF")
      BY <2>0, <3>2, PhaseSent
    <3> SUFFICES ASSUME ~Holds(r, "EOF")
                 PROVE  Path(Append(q, x), u, b, tb[b][u], fn[a][u])
      BY <3>1, <3>2, <3>3 DEF Flow
    <3>5. Path(q, u, b, tb[b][u], en[a][u])
      BY <2>0, <3>2, <3>4 DEF Flow
    <3> HIDE DEF q
    <3> QED BY <2>0, <3>3, <3>5, PathAppend DEF Queue
  <2>2. CASE ~(a = n /\ b \in T)
    <3>1. d[<<a, b>>] = q
      BY <1>1, <2>0, <2>2
    <3>2. Told(b, u, fn[a], kn[a]) = t
      BY <2>0, <2>2 DEF Told
    <3>3. Holds(r, "EOF") => Holds(d[<<b, a>>], "EOF")
      <4>1. d[<<b, a>>] = r \/ d[<<b, a>>] = Append(r, x)
        BY <1>1, <2>0
      <4>2. Holds(r, "EOF") => Holds(Append(r, x), "EOF")
        <5>1. r \in Queue
          BY <2>0
        <5> HIDE DEF r
        <5> QED BY <5>1, AppendQueue
      <4> HIDE DEF r
      <4> QED BY <4>1, <4>2
    <3> QED BY <2>0, <3>1, <3>2, <3>3 DEF Flow
  <2> QED BY <2>1, <2>2
<1> QED
  BY <1>1, <1>3, <1>4, <1>5 DEF Net, d

(* A server parses a line from m: its table goes from tb to tc.  Either    *)
(* the line is done with or another takes its place, the rest of a burst.  *)
LEMMA NetRead ==
    ASSUME NEW c, NEW tb \in Tables, NEW tc \in Tables, NEW en \in Tables, NEW kn, NEW cl, NEW ex,
           NEW n \in Server, NEW m \in Adjacent(n), NEW w \in Queue,
           Net(c, tb, en, kn, cl, ex), m \in kn[n],
           c[<<m, n>>] # <<>>, Head(c[<<m, n>>]).type \notin {"SERVER", "EOF"},
           \/ w = Tail(c[<<m, n>>])
           \/ \E x \in Msg : /\ x.type \notin {"SERVER", "EOF"} /\ MsgOK(m, n, x, cl, ex)
                             /\ w = <<x>> \o Tail(c[<<m, n>>]),
           \A a \in Server \ {n} : tc[a] = tb[a],
           \A u \in User \ ex : From(n, u) = m =>
               \A b \in Entry : Path(c[<<m, n>>], u, n, tb[n][u], b) => Path(w, u, n, tc[n][u], b),
           \A u \in User \ ex : From(n, u) # m /\ From(n, u) # n => tc[n][u] = tb[n][u]
    PROVE  Net([c EXCEPT ![<<m, n>>] = w], tc, en, kn, cl, ex)
<1> DEFINE d == [c EXCEPT ![<<m, n>>] = w]
           q == c[<<m, n>>]
           r == c[<<n, m>>]
<1>0. m \in Server /\ n # m /\ n \in Adjacent(m)
  BY Sides
<1>1. /\ c \in Chans /\ d \in Chans
      /\ \A a, b \in Server : d[<<a, b>>] = IF a = m /\ b = n THEN w ELSE c[<<a, b>>]
  BY <1>0 DEF Net, Chans
<1> HIDE DEF d
<1>2. /\ \A a, b \in Server : c[<<a, b>>] \in Queue /\ d[<<a, b>>] \in Queue
      /\ q \in Queue /\ r \in Queue
  BY <1>0, <1>1 DEF Chans
<1>p. Phase(m, n, q, r, kn[n], kn[m])
  BY DEF Net, Phases
<1>w. Phase(m, n, w, r, kn[n], kn[m]) /\ ~Holds(r, "EOF")
  <2> HIDE DEF q, r
  <2>1. q # <<>> /\ Head(q).type \notin {"SERVER", "EOF"}
    BY DEF q
  <2>2. /\ Phase(m, n, Tail(q), r, kn[n], kn[m]) /\ ~Holds(r, "EOF")
        /\ \A x \in Msg : x.type \notin {"SERVER", "EOF"}
                => Phase(m, n, <<x>> \o Tail(q), r, kn[n], kn[m])
    BY <1>2, <1>p, <2>1, PhaseParsed
  <2> QED BY <2>2 DEF q
<1>e. Holds(w, "EOF") <=> Holds(q, "EOF")
  <2> HIDE DEF q
  <2>1. q # <<>> /\ Head(q).type \notin {"SERVER", "EOF"}
    BY DEF q
  <2>2. Holds(q, "EOF") <=> Holds(Tail(q), "EOF")
    BY <1>2, <2>1, TailQueue
  <2>3. ASSUME NEW x \in Msg, x.type \notin {"SERVER", "EOF"}, w = <<x>> \o Tail(q)
        PROVE  Holds(w, "EOF") <=> Holds(Tail(q), "EOF")
    <3>1. Tail(q) \in Queue
      BY <1>2, <2>1, TailQueue
    <3>2. w # <<>> /\ Head(w) = x /\ Tail(w) = Tail(q)
      BY <2>3, <3>1, ConsQueue
    <3> QED BY <2>3, <3>2, TailQueue
  <2> QED BY <2>2, <2>3 DEF q
<1>3. Phases(d, kn)
  <2>1. ASSUME NEW a \in Server, NEW b \in Server, a \notin Adjacent(b)
        PROVE  d[<<a, b>>] = <<>>
    BY <1>1, <2>1 DEF Net, Phases
  <2>2. ASSUME NEW b \in Server, NEW a \in Adjacent(b)
        PROVE  Phase(a, b, d[<<a, b>>], d[<<b, a>>], kn[b], kn[a])
    <3>0. a \in Server /\ a # b /\ Phase(a, b, c[<<a, b>>], c[<<b, a>>], kn[b], kn[a])
      BY Sides DEF Net, Phases
    <3>1. CASE a = m /\ b = n
      <4>1. d[<<a, b>>] = w /\ d[<<b, a>>] = r
        BY <1>0, <1>1, <3>1
      <4> QED BY <1>w, <4>1, <3>1
    <3>2. CASE a = n /\ b = m
      <4>1. d[<<b, a>>] = w /\ d[<<a, b>>] = r
        BY <1>0, <1>1, <3>2
      <4>2. Phase(n, m, r, w, kn[m], kn[n])
        BY <1>w, PhaseTurns
      <4> QED BY <4>1, <4>2, <3>2
    <3>3. CASE ~(a = m /\ b = n) /\ ~(a = n /\ b = m)
      <4>1. d[<<b, a>>] = c[<<b, a>>] /\ d[<<a, b>>] = c[<<a, b>>]
        BY <1>1, <3>0, <3>3
      <4> QED BY <3>0, <4>1
    <3> QED BY <3>1, <3>2, <3>3
  <2> QED BY <2>1, <2>2 DEF Phases
<1>4. Msgs(d, cl, ex)
  <2>0. \A k \in 1..Len(q) : MsgOK(m, n, q[k], cl, ex)
    BY <1>0 DEF Net, Msgs
  <2>1. \A k \in 1..Len(Tail(q)) : MsgOK(m, n, Tail(q)[k], cl, ex)
    <3>1. q # <<>>
      OBVIOUS
    <3> HIDE DEF q
    <3>2. /\ Len(q) \in Nat \ {0} /\ Len(Tail(q)) = Len(q) - 1
          /\ \A i \in 1..Len(Tail(q)) : Tail(q)[i] = q[i + 1]
      BY <1>2, <3>1, TailQueue
    <3>3. \A i \in 1..Len(Tail(q)) : i + 1 \in 1..Len(q)
      BY <3>2
    <3> QED BY <2>0, <3>2, <3>3
  <2>2. \A k \in 1..Len(w) : MsgOK(m, n, w[k], cl, ex)
    <3>1. CASE w = Tail(q)
      BY <2>1, <3>1
    <3>2. ASSUME NEW x \in Msg, MsgOK(m, n, x, cl, ex), w = <<x>> \o Tail(q)
          PROVE  \A k \in 1..Len(w) : MsgOK(m, n, w[k], cl, ex)
      <4>1. Tail(q) \in Queue
        BY <1>2, TailQueue
      <4>2. w # <<>> /\ Head(w) = x /\ Tail(w) = Tail(q)
        BY <3>2, <4>1, ConsQueue
      <4> HIDE DEF q
      <4>3. /\ Len(w) \in Nat \ {0} /\ Len(Tail(w)) = Len(w) - 1
            /\ \A i \in 1..Len(Tail(w)) : Tail(w)[i] = w[i + 1]
            /\ w[1] = x
        BY <4>2, TailQueue
      <4> SUFFICES ASSUME NEW k \in 1..Len(w) PROVE MsgOK(m, n, w[k], cl, ex)
        OBVIOUS
      <4>4. CASE k = 1
        BY <3>2, <4>3, <4>4
      <4>5. CASE k # 1
        <5>1. k - 1 \in 1..Len(Tail(w)) /\ (k - 1) + 1 = k
          BY <4>3, <4>5
        <5>2. w[k] = Tail(w)[k - 1]
          BY <4>3, <5>1
        <5> QED BY <2>1, <4>2, <5>1, <5>2
      <4> QED BY <4>4, <4>5
    <3> QED BY <3>1, <3>2
  <2> SUFFICES ASSUME NEW a \in Server, NEW b \in Server, NEW i \in 1..Len(d[<<a, b>>])
               PROVE  MsgOK(a, b, d[<<a, b>>][i], cl, ex)
    BY DEF Msgs
  <2>3. CASE a = m /\ b = n
    BY <1>1, <2>2, <2>3
  <2>4. CASE ~(a = m /\ b = n)
    <3>1. d[<<a, b>>] = c[<<a, b>>]
      BY <1>1, <2>4
    <3> QED BY <3>1 DEF Net, Msgs
  <2> QED BY <2>3, <2>4
<1>5. Flows(d, tc, en, kn, ex)
  <2> SUFFICES ASSUME NEW b \in Server, NEW a \in Adjacent(b), NEW u \in User \ ex, From(b, u) = a
               PROVE  Flow(d[<<a, b>>], d[<<b, a>>], u, b, tc[b][u], Told(b, u, en[a], kn[a]))
    BY DEF Flows
  <2>0. a \in Server /\ a # b
        /\ Flow(c[<<a, b>>], c[<<b, a>>], u, b, tb[b][u], Told(b, u, en[a], kn[a]))
    BY Sides DEF Net, Flows
  <2>1. CASE a = m /\ b = n
    <3>1. d[<<a, b>>] = w /\ d[<<b, a>>] = r
      BY <1>0, <1>1, <2>1
    <3>2. \A e \in Entry : Path(q, u, n, tb[n][u], e) => Path(w, u, n, tc[n][u], e)
      BY <2>1
    <3> QED BY <1>e, <1>w, <2>0, <2>1, <3>1, <3>2 DEF Flow
  <2>2. CASE a = n /\ b = m
    <3>1. d[<<b, a>>] = w /\ d[<<a, b>>] = r /\ tc[b] = tb[b]
      BY <1>0, <1>1, <2>2
    <3> QED BY <1>e, <2>0, <2>2, <3>1 DEF Flow
  <2>3. CASE ~(a = m /\ b = n) /\ ~(a = n /\ b = m)
    <3>1. d[<<b, a>>] = c[<<b, a>>] /\ d[<<a, b>>] = c[<<a, b>>]
      BY <1>1, <2>0, <2>3
    <3>2. tc[b][u] = tb[b][u]
      BY <2>0, <2>3
    <3> QED BY <2>0, <3>1, <3>2
  <2> QED BY <2>1, <2>2, <2>3
<1> QED
  BY <1>1, <1>3, <1>4, <1>5 DEF Net, d

(* More claims and more excused users; another table or other knowledge    *)
(* where nothing depends on it.                                            *)
LEMMA NetWeaken ==
    ASSUME NEW c, NEW tb, NEW tc, NEW en, NEW fn, NEW kn, NEW kk, NEW cl, NEW cc, NEW ex, NEW xx,
           Net(c, tb, en, kn, cl, ex), cl \subseteq cc, ex \subseteq xx,
           \A n \in Server : \A m \in Adjacent(n) : m \in kn[n] <=> m \in kk[n],
           \A n \in Server, u \in User \ xx : From(n, u) # n => tc[n][u] = tb[n][u],
           \A m \in Server : \A n \in Adjacent(m) : \A u \in User \ xx :
               From(n, u) = m /\ n \in kn[m] => fn[m][u] = en[m][u]
    PROVE  Net(c, tc, fn, kk, cc, xx)
<1>1. Phases(c, kk)
  <2> SUFFICES ASSUME NEW b \in Server, NEW a \in Adjacent(b)
               PROVE  Phase(a, b, c[<<a, b>>], c[<<b, a>>], kk[b], kk[a])
    BY DEF Net, Phases
  <2>1. a \in Server /\ b \in Adjacent(a) /\ Phase(a, b, c[<<a, b>>], c[<<b, a>>], kn[b], kn[a])
    BY Sides DEF Net, Phases
  <2>2. (a \in kn[b] <=> a \in kk[b]) /\ (b \in kn[a] <=> b \in kk[a])
    BY <2>1
  <2> QED BY <2>1, <2>2 DEF Phase, Calling, Half, Closed
<1>2. Msgs(c, cc, xx)
  <2> SUFFICES ASSUME NEW a \in Server, NEW b \in Server, NEW i \in 1..Len(c[<<a, b>>])
               PROVE  MsgOK(a, b, c[<<a, b>>][i], cc, xx)
    BY DEF Msgs
  <2>1. MsgOK(a, b, c[<<a, b>>][i], cl, ex)
    BY DEF Net, Msgs
  <2> QED BY <2>1 DEF MsgOK
<1>3. Flows(c, tc, fn, kk, xx)
  <2> SUFFICES ASSUME NEW b \in Server, NEW a \in Adjacent(b), NEW u \in User \ xx, From(b, u) = a
               PROVE  Flow(c[<<a, b>>], c[<<b, a>>], u, b, tc[b][u], Told(b, u, fn[a], kk[a]))
    BY DEF Flows
  <2>1. a \in Server /\ a # b /\ b \in Adjacent(a)
        /\ Flow(c[<<a, b>>], c[<<b, a>>], u, b, tb[b][u], Told(b, u, en[a], kn[a]))
    BY Sides DEF Net, Flows
  <2>2. tc[b][u] = tb[b][u]
    BY <2>1
  <2>3. Told(b, u, fn[a], kk[a]) = Told(b, u, en[a], kn[a])
    BY <2>1 DEF Told
  <2> QED BY <2>1, <2>2, <2>3
<1> QED
  BY <1>1, <1>2, <1>3 DEF Net

-----------------------------------------------------------------------------
(* Lines that servers send.                                                *)

(* The lines are lines.                                                    *)
LEMMA MsgTypes ==
    /\ \A C \in SUBSET Claim : NICKMsg(C) \in Msg /\ NICKMsg(C).type = "NICK" /\ NICKMsg(C).claims = C
    /\ \A c \in Claim : CHANGEMsg(c) \in Msg /\ CHANGEMsg(c).type = "CHANGE" /\ CHANGEMsg(c).claim = c
    /\ \A u \in User : QUITMsg(u) \in Msg /\ QUITMsg(u).type = "QUIT" /\ QUITMsg(u).user = u
    /\ \A u \in User, b \in Server \cup Nick : /\ KILLMsg(b, u) \in Msg /\ KILLMsg(b, u).type = "KILL"
                                               /\ KILLMsg(b, u).user = u /\ KILLMsg(b, u).by = b
    /\ \A s \in Server : SQUITMsg(s) \in Msg /\ SQUITMsg(s).type = "SQUIT" /\ SQUITMsg(s).servers = {s}
    /\ \A S \in SUBSET Server : INTROMsg(S) \in Msg /\ INTROMsg(S).type = "INTRO" /\ INTROMsg(S).servers = S
    /\ SERVERMsg \in Msg /\ SERVERMsg.type = "SERVER"
    /\ EOFMsg \in Msg /\ EOFMsg.type = "EOF"
BY DEF Msg, NICKMsg, CHANGEMsg, QUITMsg, KILLMsg, SQUITMsg, INTROMsg, SERVERMsg, EOFMsg

(* Read back: what a line of a type holds.                                 *)
LEMMA MsgFields ==
    ASSUME NEW x \in Msg
    PROVE  /\ x.type = "NICK" => x.claims \subseteq Claim /\ x = NICKMsg(x.claims)
           /\ x.type = "CHANGE" => x.claim \in Claim
           /\ x.type = "QUIT" => x.user \in User
           /\ x.type = "KILL" => x.user \in User /\ x.by \in Server \cup Nick
           /\ x.type \in {"SQUIT", "INTRO"} => x.servers \subseteq Server
BY DEF Msg, NICKMsg

(* The end of an excused user.                                             *)
LEMMA NetExcused ==
    ASSUME NEW c, NEW tb \in Tables, NEW en \in Tables, NEW kn, NEW cl, NEW ex,
           NEW n \in Server, NEW T, NEW x \in Msg,
           Net(c, tb, en, kn, cl, ex), T \subseteq Adjacent(n) \cap kn[n],
           x.type \in {"KILL", "QUIT"}, x.user \in ex
    PROVE  Net(Sent(c, n, T, x), tb, en, kn, cl, ex)
<1>1. x.type \notin {"SERVER", "EOF"}
  OBVIOUS
<1>2. \A j \in T : MsgOK(n, j, x, cl, ex)
  BY DEF MsgOK, ClaimsIn
<1>3. \A j \in Adjacent(n), u \in User \ ex : Step(u, j, x, en[n][u], en[n][u])
  BY DEF Step, ClaimsIn, Leaves
<1> QED
  BY <1>1, <1>2, <1>3, NetSent

(* A user leaves; its server, or the link it came by, is m.                *)
LEMMA NetQuit ==
    ASSUME NEW c, NEW tb \in Tables, NEW en \in Tables, NEW fn \in Tables, NEW kn, NEW cl, NEW ex,
           NEW n \in Server, NEW u \in User, NEW T,
           Net(c, tb, en, kn, cl, ex),
           T = (Adjacent(n) \cap kn[n]) \ {From(n, u)},
           \A a \in Server \ {n} : fn[a] = en[a],
           \A v \in User \ ex : fn[n][v] = IF v = u THEN Gone ELSE en[n][v]
    PROVE  Net(Sent(c, n, T, QUITMsg(u)), tb, fn, kn, cl, ex)
<1> DEFINE x == QUITMsg(u)
<1>1. x \in Msg /\ x.type = "QUIT" /\ x.user = u
  BY MsgTypes
<1> HIDE DEF x
<1>2. \A j \in T : MsgOK(n, j, x, cl, ex)
  BY <1>1 DEF MsgOK, ClaimsIn
<1>3. ASSUME NEW j \in Adjacent(n), NEW v \in User \ ex, From(j, v) = n, j \in kn[n]
      PROVE  IF j \in T THEN Step(v, j, x, en[n][v], fn[n][v]) ELSE fn[n][v] = en[n][v]
  <2>1. CASE j \in T
    BY <1>1, <2>1 DEF Step, ClaimsIn, Leaves
  <2>2. CASE j \notin T
    <3>1. j = From(n, u)
      BY <1>3, <2>2
    <3>2. v # u
      BY <1>3, <3>1, Sides, NickConstants DEF From
    <3> QED BY <2>2, <3>2
  <2> QED BY <2>1, <2>2
<1> QED
  BY <1>1, <1>2, <1>3, NetSent DEF x

(* A claim is announced, by the server of its user or by one that heard of *)
(* it from m.                                                              *)
LEMMA NetClaim ==
    ASSUME NEW c, NEW tb \in Tables, NEW en \in Tables, NEW fn \in Tables, NEW kn, NEW cl, NEW ex,
           NEW n \in Server, NEW k \in Claim, NEW T, NEW x \in Msg,
           Net(c, tb, en, kn, cl, ex), k \in cl,
           \/ x = NICKMsg({k}) /\ (k.user \notin ex => en[n][k.user] = Gone)
           \/ x = CHANGEMsg(k) /\ (k.user \notin ex => /\ en[n][k.user] # Gone
                                                       /\ en[n][k.user].nick # k.nick),
           T = (Adjacent(n) \cap kn[n]) \ {From(n, k.user)},
           \A a \in Server \ {n} : fn[a] = en[a],
           \A v \in User \ ex : fn[n][v] = IF v = k.user THEN At(k) ELSE en[n][v],
           \A v \in User \ ex : v # k.user => en[n][v].nick # k.nick
    PROVE  Net(Sent(c, n, T, x), tb, fn, kn, cl, ex)
<1>0. k.user \in User
  BY DEF Claim
<1>1. x.type \in {"NICK", "CHANGE"} /\ ClaimsIn(x) = {k}
  BY MsgTypes DEF ClaimsIn
<1>2. ASSUME NEW j \in T PROVE MsgOK(n, j, x, cl, ex)
  <2>1. From(j, k.user) = n
    BY <1>0, Sides, NickConstants DEF From
  <2> QED BY <1>1, <2>1 DEF MsgOK
<1>3. ASSUME NEW j \in Adjacent(n), NEW v \in User \ ex, From(j, v) = n, j \in kn[n]
      PROVE  IF j \in T THEN Step(v, j, x, en[n][v], fn[n][v]) ELSE fn[n][v] = en[n][v]
  <2>1. CASE j \in T
    <3>1. ~Leaves(v, j, x)
      BY <1>1 DEF Leaves
    <3>2. CASE v = k.user
      <4>1. fn[n][v] = At(k) /\ (IF x.type = "NICK" THEN en[n][v] = Gone
                                 ELSE en[n][v] # Gone /\ en[n][v].nick # k.nick)
        BY <3>2, MsgTypes
      <4> QED BY <1>1, <2>1, <3>1, <3>2, <4>1 DEF Step
    <3>3. CASE v # k.user
      <4>1. fn[n][v] = en[n][v] /\ en[n][v].nick # k.nick
        BY <3>3
      <4> QED BY <1>1, <2>1, <3>1, <3>3, <4>1 DEF Step
    <3> QED BY <3>2, <3>3
  <2>2. CASE j \notin T
    <3>1. j = From(n, k.user)
      BY <1>3, <2>2
    <3>2. v # k.user
      BY <1>3, <3>1, Sides, NickConstants DEF From
    <3> QED BY <2>2, <3>2
  <2> QED BY <2>1, <2>2
<1>4. x.type \notin {"SERVER", "EOF"}
  BY <1>1
<1> QED
  BY <1>2, <1>3, <1>4, NetSent

(* Lines about servers concern no user.                                    *)
LEMMA NetIntro ==
    ASSUME NEW c, NEW tb \in Tables, NEW en \in Tables, NEW kn, NEW cl, NEW ex,
           NEW n \in Server, NEW T, NEW x \in Msg,
           Net(c, tb, en, kn, cl, ex), T \subseteq Adjacent(n) \cap kn[n],
           x.type = "INTRO", \A j \in T : \A s \in x.servers : s # n /\ Hop[j][s] = n
    PROVE  Net(Sent(c, n, T, x), tb, en, kn, cl, ex)
<1>1. \A j \in T : MsgOK(n, j, x, cl, ex)
  BY DEF MsgOK, ClaimsIn
<1>2. \A j \in Adjacent(n), u \in User \ ex : Step(u, j, x, en[n][u], en[n][u])
  BY DEF Step, ClaimsIn, Leaves
<1> QED
  BY <1>1, <1>2, NetSent

(* The loss of s is told to all but the link that leads there.             *)
LEMMA NetSquit ==
    ASSUME NEW c, NEW tb \in Tables, NEW en \in Tables, NEW fn \in Tables, NEW kn, NEW cl, NEW ex,
           NEW n \in Server, NEW s \in Server, NEW T,
           Net(c, tb, en, kn, cl, ex), s # n,
           T = (Adjacent(n) \cap kn[n]) \ {Hop[n][s]},
           \A a \in Server \ {n} : fn[a] = en[a],
           \A v \in User \ ex : fn[n][v] = IF Home[v] \in Beyond(n, s) THEN Gone ELSE en[n][v]
    PROVE  Net(Sent(c, n, T, SQUITMsg(s)), tb, fn, kn, cl, ex)
<1> DEFINE x == SQUITMsg(s)
<1>1. x \in Msg /\ x.type = "SQUIT" /\ x.servers = {s}
  BY MsgTypes
<1> HIDE DEF x
<1>2. ASSUME NEW j \in T PROVE MsgOK(n, j, x, cl, ex) /\ Beyond(j, s) = Beyond(n, s)
  <2>1. Hop[j][s] = n /\ Beyond(j, s) = Beyond(n, s)
    BY BeyondSame
  <2> QED BY <1>1, <2>1 DEF MsgOK, ClaimsIn
<1>3. ASSUME NEW j \in Adjacent(n), NEW v \in User \ ex, From(j, v) = n, j \in kn[n]
      PROVE  IF j \in T THEN Step(v, j, x, en[n][v], fn[n][v]) ELSE fn[n][v] = en[n][v]
  <2>1. CASE j \in T
    BY <1>1, <1>2, <2>1 DEF Step, ClaimsIn, Leaves
  <2>2. CASE j \notin T
    <3>1. j = Hop[n][s]
      BY <1>3, <2>2
    <3>2. Home[v] \in Server /\ Hop[n][Home[v]] # j
      BY <1>3, Sides, NickConstants DEF From
    <3>3. Home[v] \notin Beyond(n, s)
      <4>1. CASE s = j
        BY <3>2, <4>1, BeyondNeighbour
      <4>2. CASE s # j
        BY <3>1, <3>2, <4>2, BeyondFar
      <4> QED BY <4>1, <4>2
    <3> QED BY <2>2, <3>3
  <2> QED BY <2>1, <2>2
<1> QED
  BY <1>1, <1>2, <1>3, NetSent DEF x

-----------------------------------------------------------------------------
(* Lines that servers parse.                                               *)

(* A line that can take the entry a only to b is done with.                *)
LEMMA ReadPath ==
    ASSUME NEW q \in Queue, q # <<>>, NEW u, NEW n, NEW a, NEW b,
           \A e \in Entry : Step(u, n, Head(q), a, e) => e = b
    PROVE  \A z \in Entry : Path(q, u, n, a, z) => Path(Tail(q), u, n, b, z)
BY PathTail DEF Queue

(* A claim is taken from a burst.                                          *)
LEMMA CutPath ==
    ASSUME NEW q \in Queue, q # <<>>, NEW u, NEW n, NEW a \in Entry, NEW z \in Entry,
           Head(q).type = "NICK", NEW k \in Head(q).claims, Path(q, u, n, a, z)
    PROVE  LET w == IF Head(q).claims \ {k} = {} THEN Tail(q)
                    ELSE <<NICKMsg(Head(q).claims \ {k})>> \o Tail(q)
           IN  /\ k.user = u => a = Gone /\ Path(w, u, n, At(k), z)
               /\ k.user # u => a.nick # k.nick /\ Path(w, u, n, a, z)
<1> DEFINE C == Head(q).claims
           x == NICKMsg(C \ {k})
<1>1. Tail(q) \in Queue /\ Head(q) \in Msg
  BY TailQueue
<1>2. C \subseteq Claim
  BY <1>1, MsgFields
<1>3. x \in Msg /\ x.type = "NICK" /\ x.claims = C \ {k}
  BY <1>2, MsgTypes
<1> PICK e \in Entry : Step(u, n, Head(q), a, e) /\ Path(Tail(q), u, n, e, z)
  BY PathTail DEF Queue
<1>4. ClaimsIn(Head(q)) = C /\ ClaimsIn(x) = C \ {k}
  BY <1>3 DEF ClaimsIn
<1>5. ~Leaves(u, n, Head(q)) /\ ~Leaves(u, n, x)
  BY <1>3 DEF Leaves
<1>c. At(k) \in Entry /\ k.nick \in Nick
  BY <1>2 DEF At, Entry, Claim
<1> HIDE DEF x
<1>6. CASE k.user = u
  <2>1. a = Gone /\ e = At(k)
    BY <1>4, <1>6 DEF Step
  <2>2. \A j \in C : j.user = u => j = k
    <3> SUFFICES ASSUME NEW j \in C, j.user = u PROVE j = k
      OBVIOUS
    <3>1. At(j) = At(k)
      BY <1>4, <2>1 DEF Step
    <3>2. j.nick = k.nick /\ j.ts = k.ts
      BY <3>1 DEF At
    <3>3. j \in Claim /\ k \in Claim
      BY <1>2
    <3> QED BY <3>2, <3>3, <1>6 DEF Claim
  <2>3. Step(u, n, x, e, e)
    <3>1. \A j \in C \ {k} : j.user # u /\ e.nick # j.nick
      BY <1>4, <2>2 DEF Step
    <3> QED BY <1>3, <1>4, <1>5, <3>1 DEF Step
  <2>4. Path(<<x>> \o Tail(q), u, n, e, z)
    BY <1>1, <1>3, <2>3, PathCons DEF Queue
  <2> QED BY <1>6, <2>1, <2>4 DEF x
<1>7. CASE k.user # u
  <2>1. a.nick # k.nick
    BY <1>4, <1>7 DEF Step
  <2>2. Step(u, n, x, a, e)
    <3>1. (\A j \in C : j.user # u) <=> (\A j \in C \ {k} : j.user # u)
      BY <1>7
    <3> QED BY <1>3, <1>4, <1>5, <3>1 DEF Step
  <2>3. C \ {k} = {} => e = a
    BY <1>4, <1>5, <1>7 DEF Step
  <2>4. Path(<<x>> \o Tail(q), u, n, a, z)
    BY <1>1, <1>3, <2>2, PathCons DEF Queue
  <2> QED BY <1>7, <2>1, <2>3, <2>4 DEF x
<1> QED
  BY <1>6, <1>7

(* The first line of an open queue: what Net says of it.                   *)
LEMMA HeadLine ==
    ASSUME NEW c, NEW tb \in Tables, NEW en, NEW kn, NEW cl, NEW ex,
           NEW n \in Server, NEW m \in Server,
           Net(c, tb, en, kn, cl, ex), c[<<m, n>>] # <<>>
    PROVE  /\ m \in Adjacent(n) /\ n \in Adjacent(m)
           /\ c[<<m, n>>] \in Queue /\ Head(c[<<m, n>>]) \in Msg
           /\ MsgOK(m, n, Head(c[<<m, n>>]), cl, ex)
           /\ Phase(m, n, c[<<m, n>>], c[<<n, m>>], kn[n], kn[m])
           /\ m \in kn[n] => /\ ~Holds(c[<<n, m>>], "EOF")
                             /\ \A u \in User \ ex : From(n, u) = m =>
                                  /\ \E z \in Entry : Path(c[<<m, n>>], u, n, tb[n][u], z)
                                  /\ \E e \in Entry : Step(u, n, Head(c[<<m, n>>]), tb[n][u], e)
<1> DEFINE q == c[<<m, n>>]
           r == c[<<n, m>>]
<1>1. m \in Adjacent(n) /\ n \in Adjacent(m)
  BY Sides DEF Net, Phases
<1>2. q \in Queue /\ r \in Queue
  BY DEF Net, Chans
<1>3. Head(q) \in Msg /\ Head(q) = q[1] /\ Len(q) \in Nat \ {0}
  BY <1>2, TailQueue
<1>4. MsgOK(m, n, Head(q), cl, ex)
  BY <1>3 DEF Net, Msgs
<1>5. Phase(m, n, q, r, kn[n], kn[m])
  BY <1>1 DEF Net, Phases
<1>6. ASSUME m \in kn[n] PROVE ~Holds(r, "EOF")
  <2> HIDE DEF q, r
  <2>1. Plain(r)
    <3>1. q # <<>>
      BY DEF q
    <3>2. r = <<>> => Plain(r)
      BY DEF Plain, Holds
    <3> QED BY <1>5, <1>6, <3>1, <3>2 DEF Phase, Calling, Half, Closed
  <2> QED BY <2>1 DEF Plain
<1>7. ASSUME m \in kn[n], NEW u \in User \ ex, From(n, u) = m
      PROVE  /\ \E z \in Entry : Path(q, u, n, tb[n][u], z)
             /\ \E e \in Entry : Step(u, n, Head(q), tb[n][u], e)
  <2>1. PICK z \in Entry : Path(q, u, n, tb[n][u], z)
    BY <1>1, <1>6, <1>7 DEF Net, Flows, Flow
  <2>2. q # <<>>
    OBVIOUS
  <2> HIDE DEF q
  <2>3. \E e \in Entry : Step(u, n, Head(q), tb[n][u], e)
    BY <1>2, <2>1, <2>2, PathTail DEF Queue
  <2> QED BY <2>1, <2>3
<1> QED
  BY <1>1, <1>2, <1>3, <1>4, <1>5, <1>6, <1>7

-----------------------------------------------------------------------------
(* Tables.                                                                 *)

(* A table from which some users are taken.                                *)
LEMMA TabThin ==
    ASSUME NEW tb \in Tables, NEW kn, NEW cl, NEW n \in Server, NEW T \in [User -> Entry],
           OneEach(tb), Entered(tb, kn, cl),
           \A u \in User : T[u] = tb[n][u] \/ T[u] = Gone,
           NEW tc, tc = [tb EXCEPT ![n] = T]
    PROVE  tc \in Tables /\ OneEach(tc) /\ Entered(tc, kn, cl)
<1>1. tc \in Tables /\ tc[n] = T /\ \A a \in Server \ {n} : tc[a] = tb[a]
  BY DEF Tables
<1>2. \A a \in Server, u \in User : tc[a][u] = tb[a][u] \/ tc[a][u] = Gone
  BY <1>1
<1>3. Gone.nick = NoNick
  BY DEF Gone
<1>4. OneEach(tc)
  <2> SUFFICES ASSUME NEW a \in Server, NEW u \in User, NEW v \in User,
                      tc[a][u].nick = tc[a][v].nick, tc[a][u].nick # NoNick
               PROVE  u = v
    BY DEF OneEach
  <2>1. tc[a][u] = tb[a][u] /\ tc[a][v] = tb[a][v]
    BY <1>2, <1>3
  <2> QED BY <2>1 DEF OneEach
<1>5. Entered(tc, kn, cl)
  BY <1>2 DEF Entered
<1> QED
  BY <1>1, <1>4, <1>5

(* A table from which some users are taken and that gets a claim.          *)
LEMMA TabEnter ==
    ASSUME NEW tb \in Tables, NEW tc \in Tables, NEW kn, NEW cl, NEW n \in Server, NEW k \in Claim,
           OneEach(tb), Entered(tb, kn, cl),
           k \in cl, From(n, k.user) \in kn[n],
           \A a \in Server \ {n} : tc[a] = tb[a],
           tc[n][k.user] = At(k),
           \A u \in User : u # k.user => /\ tc[n][u] = tb[n][u] \/ tc[n][u] = Gone
                                        /\ tc[n][u].nick # k.nick
    PROVE  OneEach(tc) /\ Entered(tc, kn, cl)
<1>0. k.user \in User /\ k.nick \in Nick /\ At(k) \in Entry /\ At(k).nick = k.nick /\ At(k).ts = k.ts
      /\ k.nick # NoNick /\ MakeClaim(k.user, k.nick, k.ts) = k
  BY NickConstants DEF Claim, At, Entry, MakeClaim
<1>3. Gone.nick = NoNick
  BY DEF Gone
<1>4. OneEach(tc)
  <2> SUFFICES ASSUME NEW a \in Server, NEW u \in User, NEW v \in User,
                      tc[a][u].nick = tc[a][v].nick, tc[a][u].nick # NoNick
               PROVE  u = v
    BY DEF OneEach
  <2>1. CASE a # n
    BY <2>1 DEF OneEach
  <2>2. CASE a = n /\ (u = k.user \/ v = k.user)
    BY <1>0, <2>2
  <2>3. CASE a = n /\ u # k.user /\ v # k.user
    <3>1. tc[n][u] = tb[n][u] /\ tc[n][v] = tb[n][v]
      BY <1>3, <2>3
    <3> QED BY <2>3, <3>1 DEF OneEach
  <2> QED BY <2>1, <2>2, <2>3
<1>5. Entered(tc, kn, cl)
  <2> SUFFICES ASSUME NEW a \in Server, NEW u \in User, tc[a][u] # Gone
               PROVE  /\ tc[a][u].nick # NoNick
                      /\ MakeClaim(u, tc[a][u].nick, tc[a][u].ts) \in cl
                      /\ From(a, u) \in kn[a]
    BY DEF Entered
  <2>1. CASE a = n /\ u = k.user
    BY <1>0, <2>1
  <2>2. CASE ~(a = n /\ u = k.user)
    <3>1. tc[a][u] = tb[a][u]
      BY <2>2
    <3> QED BY <3>1 DEF Entered
  <2> QED BY <2>1, <2>2
<1> QED
  BY <1>4, <1>5

(* Nobody is ever cleared.                                                 *)
LEMMA MoreExcused ==
    ASSUME claims \subseteq claims', ousted \subseteq ousted'
    PROVE  Excused \subseteq Excused'
BY DEF Excused

(* The better claim excuses.                                               *)
LEMMA Beaten ==
    ASSUME NEW u \in User, NEW c \in claims, NEW d \in claims, c.user = u, Better(d, c)
    PROVE  u \in Excused
BY DEF Excused

-----------------------------------------------------------------------------
(* What users do.                                                          *)

(* What all proofs about a user's turn use.                                *)
LEMMA HomeFacts ==
    ASSUME NickInv, NEW u \in User
    PROVE  /\ Home[u] \in Server /\ tab \in Tables /\ chan \in Chans /\ From(Home[u], u) = Home[u]
           /\ Linked(Home[u]) = (Adjacent(Home[u]) \cap known[Home[u]]) \ {Home[u]}
           /\ Home[u] \in known[Home[u]]
           /\ Gone.nick = NoNick /\ Gone \in Entry
           /\ \A n \in Server, v \in User : tab[n][v] \in Entry /\ (tab[n][v] # Gone => tab[n][v].nick \in Nick)
<1>1. Home[u] \in Server /\ From(Home[u], u) = Home[u]
  BY NickConstants, HopIsTree DEF From
<1>2. tab \in Tables /\ chan \in Chans
  BY DEF NickInv, TypeOK, Tables, Chans, Queue
<1>3. Home[u] \notin Adjacent(Home[u])
  BY DEF Adjacent
<1>4. ASSUME NEW n \in Server, NEW v \in User
      PROVE  tab[n][v] \in Entry /\ (tab[n][v] # Gone => tab[n][v].nick \in Nick)
  <2>1. tab[n][v] \in Entry
    BY <1>2 DEF Tables
  <2>2. tab[n][v] # Gone => tab[n][v].nick # NoNick
    BY DEF NickInv, Entered
  <2> QED BY <2>1, <2>2 DEF Entry
<1>5. Gone.nick = NoNick /\ Gone \in Entry
  BY NickConstants DEF Gone, Entry
<1> QED
  BY <1>1, <1>2, <1>3, <1>4, <1>5 DEF Linked, NickInv, Knows

(* A user signs on.                                                        *)
LEMMA SignOnKeeps ==
    ASSUME NickInv, NEW u \in User, NEW k \in Nick, SignOn(u, k)
    PROVE  NickInv'
<1> DEFINE n == Home[u]
           c == MakeClaim(u, k, now)
<1>1. /\ n \in Server /\ tab \in Tables /\ chan \in Chans /\ From(n, u) = n
      /\ Linked(n) = (Adjacent(n) \cap known[n]) \ {n} /\ n \in known[n]
  BY HomeFacts
<1>2. c \in Claim /\ c.user = u /\ c.nick = k
  BY DEF NickInv, TypeOK, MakeClaim, Claim
<1>3. /\ u \notin signed /\ Holder(n, k) = {}
      /\ signed' = signed \cup {u} /\ claims' = claims \cup {c}
      /\ tab' = [tab EXCEPT ![n] = [tab[n] EXCEPT ![u] = At(c)]]
      /\ chan' = Sent(chan, n, Linked(n), NICKMsg({c}))
      /\ UNCHANGED <<known, now, turns, losses, killed, ousted, raced>>
  BY DEF SignOn, Keeps
<1> HIDE DEF n, c
<1>4. tab[n][u] = Gone
  BY <1>1, <1>3 DEF NickInv, Entered, MakeClaim
<1>5. \A v \in User : tab[n][v].nick # k
  BY <1>3 DEF Holder
<1>6. Excused \subseteq Excused'
  BY <1>3, MoreExcused
<1>7. Entered(tab, known, claims') /\ tab[n] \in [User -> Entry]
  BY <1>1, <1>3 DEF NickInv, Entered, Tables
<1>8. /\ tab' \in Tables /\ OneEach(tab') /\ Entered(tab', known, claims')
      /\ tab'[n][u] = At(c)
      /\ \A v \in User : v # u => tab'[n][v] = tab[n][v]
      /\ \A a \in Server \ {n} : tab'[a] = tab[a]
  <2>1. c \in claims' /\ From(n, c.user) \in known[n] /\ OneEach(tab)
    BY <1>1, <1>2, <1>3 DEF NickInv
  <2>2. tab' = [tab EXCEPT ![n] = [tab[n] EXCEPT ![c.user] = At(c)]]
    BY <1>2, <1>3
  <2>3. /\ tab' \in Tables /\ tab'[n][c.user] = At(c)
        /\ \A v \in User : v # c.user => tab'[n][v] = tab[n][v]
        /\ \A a \in Server \ {n} : tab'[a] = tab[a]
    BY <1>1, <1>2, <1>7, <2>2 DEF Tables, Claim, At, Entry
  <2>4. \A v \in User : v # c.user => tab'[n][v].nick # c.nick
    BY <1>2, <1>5, <2>3
  <2>5. OneEach(tab') /\ Entered(tab', known, claims')
    BY <1>1, <1>2, <1>7, <2>1, <2>3, <2>4, TabEnter
  <2> QED BY <1>2, <2>3, <2>5
<1>9. Net(chan, tab', tab, known, claims', Excused')
  <2>1. Net(chan, tab, tab, known, claims, Excused) /\ claims \subseteq claims'
    BY <1>3 DEF NickInv
  <2>2. \A a \in Server, v \in User \ Excused' : From(a, v) # a => tab'[a][v] = tab[a][v]
    BY <1>1, <1>8
  <2> QED BY <1>6, <2>1, <2>2, NetWeaken
<1>10. Net(chan', tab', tab', known, claims', Excused')
  <2> DEFINE x == NICKMsg({c})
  <2>1. x \in Msg
    BY <1>2, MsgTypes
  <2>2. \A v \in User \ Excused' : tab'[n][v] = IF v = c.user THEN At(c) ELSE tab[n][v]
    BY <1>2, <1>8
  <2>3. \A v \in User \ Excused' : v # c.user => tab[n][v].nick # c.nick
    BY <1>2, <1>5
  <2>4. c \in claims' /\ x = NICKMsg({c}) /\ (c.user \notin Excused' => tab[n][c.user] = Gone)
    BY <1>2, <1>3, <1>4
  <2> HIDE DEF x
  <2>5. Linked(n) = (Adjacent(n) \cap known[n]) \ {From(n, c.user)}
    BY <1>1, <1>2
  <2>6. Net(Sent(chan, n, Linked(n), x), tab', tab', known, claims', Excused')
    BY <1>1, <1>2, <1>8, <1>9, <2>1, <2>2, <2>3, <2>4, <2>5, NetClaim
  <2> QED BY <1>3, <2>6 DEF x
<1>11. TypeOK'
  BY <1>2, <1>3, <1>8, <1>10 DEF NickInv, TypeOK, Net, Chans, Queue, Tables
<1>12. \A d \in claims' : d.user \in signed'
  BY <1>2, <1>3 DEF NickInv
<1> QED
  BY <1>3, <1>6, <1>8, <1>10, <1>11, <1>12 DEF NickInv

(* A KILL with a QUIT behind it.                                           *)
LEMMA NetGhosted ==
    ASSUME NEW c, NEW tb \in Tables, NEW en \in Tables, NEW cl, NEW ex,
           NEW n \in Server, NEW h \in User, h \in ex, Net(c, tb, en, known, cl, ex)
    PROVE  Net(Ghosted(c, n, h), tb, en, known, cl, ex)
<1>1. Linked(n) \subseteq Adjacent(n) \cap known[n]
  BY DEF Linked
<1>2. /\ KILLMsg(n, h) \in Msg /\ KILLMsg(n, h).type = "KILL" /\ KILLMsg(n, h).user = h
      /\ QUITMsg(h) \in Msg /\ QUITMsg(h).type = "QUIT" /\ QUITMsg(h).user = h
  BY MsgTypes
<1>3. Net(Sent(c, n, Linked(n), KILLMsg(n, h)), tb, en, known, cl, ex)
  BY <1>1, <1>2, NetExcused
<1>4. Net(Sent(Sent(c, n, Linked(n), KILLMsg(n, h)), n, Linked(n), QUITMsg(h)), tb, en, known, cl, ex)
  BY <1>1, <1>2, <1>3, NetExcused
<1> QED
  BY <1>4 DEF Ghosted

(* The parts of the invariant make it.                                     *)
LEMMA SameClaims ==
    ASSUME NickInv, UNCHANGED <<known, signed, claims>>,
           tab' \in Tables, OneEach(tab'), Entered(tab', known, claims),
           Net(chan', tab', tab', known, claims, Excused'),
           killed' \subseteq Excused', ousted' \subseteq User,
           now' \in 1..MaxNow, turns' \in 0..MaxTurn, losses' \in 0..MaxLoss, raced' \in BOOLEAN
    PROVE  NickInv'
<1>1. Excused' \subseteq User
  BY DEF Excused
<1>2. TypeOK'
  BY <1>1 DEF NickInv, TypeOK, Net, Chans, Queue, Tables
<1> QED
  BY <1>2 DEF NickInv

(* A user has another killed.                                              *)
LEMMA GhostKeeps ==
    ASSUME NickInv, NEW u \in User, NEW h \in User, Ghost(u, h)
    PROVE  NickInv'
<1> DEFINE n == Home[u]
<1>1. n \in Server /\ tab \in Tables /\ chan \in Chans
  BY HomeFacts
<1>2. /\ tab' = [tab EXCEPT ![n] = Without(tab[n], {h})]
      /\ chan' = Ghosted(chan, n, h) /\ ousted' = ousted \cup {h}
      /\ UNCHANGED <<known, signed, now, losses, killed, claims>>
  BY DEF Ghost, Acts, Keeps
<1>3. turns' \in 0..MaxTurn /\ raced' \in BOOLEAN
  BY NickConstants DEF Ghost, Acts, NickInv, TypeOK
<1> HIDE DEF n
<1>4. Excused \subseteq Excused' /\ h \in Excused'
  BY <1>2, MoreExcused DEF Excused
<1>5. /\ Without(tab[n], {h}) \in [User -> Entry]
      /\ \A v \in User : Without(tab[n], {h})[v] = IF v = h THEN Gone ELSE tab[n][v]
  BY <1>1, NickConstants DEF Without, Tables, Entry, Gone
<1>6. tab' \in Tables /\ OneEach(tab') /\ Entered(tab', known, claims)
  BY <1>1, <1>2, <1>5, TabThin DEF NickInv
<1>7. \A a \in Server, v \in User \ Excused' : tab'[a][v] = tab[a][v]
  BY <1>1, <1>2, <1>4, <1>5 DEF Tables
<1>8. Net(chan, tab', tab', known, claims, Excused')
  <2>1. Net(chan, tab, tab, known, claims, Excused)
    BY DEF NickInv
  <2> QED BY <1>4, <1>7, <2>1, NetWeaken
<1>9. Net(chan', tab', tab', known, claims, Excused')
  BY <1>1, <1>2, <1>4, <1>6, <1>8, NetGhosted
<1>10. killed' \subseteq Excused' /\ ousted' \subseteq User /\ now' \in 1..MaxNow /\ losses' \in 0..MaxLoss
  BY <1>2, <1>4 DEF NickInv, TypeOK
<1> QED
  BY <1>2, <1>3, <1>6, <1>9, <1>10, SameClaims

(* A user takes another nick.                                              *)
LEMMA ChangeNickKeeps ==
    ASSUME NickInv, NEW u \in User, NEW k \in Nick, ChangeNick(u, k)
    PROVE  NickInv'
<1> DEFINE n == Home[u]
           c == MakeClaim(u, k, now)
           H == Holder(n, k)
<1>1. /\ n \in Server /\ tab \in Tables /\ chan \in Chans /\ From(n, u) = n
      /\ Linked(n) = (Adjacent(n) \cap known[n]) \ {n} /\ n \in known[n]
      /\ Gone.nick = NoNick /\ Gone \in Entry
  BY HomeFacts
<1>2. c \in Claim /\ c.user = u /\ c.nick = k
  BY DEF NickInv, TypeOK, MakeClaim, Claim
<1>3. /\ u \notin H /\ tab[n][u] # Gone
      /\ claims' = claims \cup {c} /\ ousted' = ousted \cup H
      /\ UNCHANGED <<known, signed, now, losses, killed>>
  BY DEF ChangeNick, Acts
<1>4. turns' \in 0..MaxTurn /\ raced' \in BOOLEAN
  BY NickConstants DEF ChangeNick, Acts, NickInv, TypeOK
<1>5. H \subseteq User /\ \A v \in User : v \in H <=> tab[n][v].nick = k
  BY DEF Holder
<1>6. PICK T, ch :
        /\ T \in [User -> Entry]
        /\ tab' = [tab EXCEPT ![n] = [T EXCEPT ![u] = At(c)]]
        /\ chan' = Sent(ch, n, Linked(n), CHANGEMsg(c))
        /\ \A v \in User : T[v] = IF v \in H THEN Gone ELSE tab[n][v]
        /\ ch = chan \/ \E h \in H : ch = Ghosted(chan, n, h)
  <2>1. tab[n] \in [User -> Entry] /\ Without(tab[n], H) \in [User -> Entry]
        /\ \A v \in User : Without(tab[n], H)[v] = IF v \in H THEN Gone ELSE tab[n][v]
    BY <1>1 DEF Without, Tables
  <2>2. CASE /\ H = {} /\ tab' = [tab EXCEPT ![n] = [tab[n] EXCEPT ![u] = At(c)]]
             /\ chan' = Sent(chan, n, Linked(n), CHANGEMsg(c))
    BY <2>1, <2>2
  <2>3. ASSUME NEW h \in H,
               tab' = [tab EXCEPT ![n] = [Without(tab[n], H) EXCEPT ![u] = At(c)]],
               chan' = Sent(Ghosted(chan, n, h), n, Linked(n), CHANGEMsg(c))
        PROVE  \E T, ch :
                /\ T \in [User -> Entry]
                /\ tab' = [tab EXCEPT ![n] = [T EXCEPT ![u] = At(c)]]
                /\ chan' = Sent(ch, n, Linked(n), CHANGEMsg(c))
                /\ \A v \in User : T[v] = IF v \in H THEN Gone ELSE tab[n][v]
                /\ ch = chan \/ \E i \in H : ch = Ghosted(chan, n, i)
    BY <2>1, <2>3
  <2> QED BY <2>2, <2>3 DEF ChangeNick, Keeps
<1> HIDE DEF n, c, H
<1>7. Excused \subseteq Excused' /\ H \subseteq Excused'
  BY <1>3, <1>5, MoreExcused DEF Excused
<1>8. Entered(tab, known, claims')
  BY <1>3 DEF NickInv, Entered
<1>9. /\ tab' \in Tables /\ OneEach(tab') /\ Entered(tab', known, claims')
      /\ tab'[n][u] = At(c)
      /\ \A v \in User : v # u => tab'[n][v] = IF v \in H THEN Gone ELSE tab[n][v]
      /\ \A a \in Server \ {n} : tab'[a] = tab[a]
  <2>1. c \in claims' /\ From(n, c.user) \in known[n] /\ OneEach(tab)
    BY <1>1, <1>2, <1>3 DEF NickInv
  <2>2. tab' \in Tables /\ tab'[n][u] = At(c)
        /\ (\A v \in User : v # u => tab'[n][v] = T[v])
        /\ (\A a \in Server \ {n} : tab'[a] = tab[a])
    BY <1>1, <1>2, <1>6 DEF Tables, Claim, At, Entry
  <2>3. \A v \in User : v # c.user => /\ tab'[n][v] = tab[n][v] \/ tab'[n][v] = Gone
                                      /\ tab'[n][v].nick # c.nick
    BY <1>1, <1>2, <1>5, <1>6, <2>2, NickConstants
  <2>4. tab'[n][c.user] = At(c)
    BY <1>2, <2>2
  <2>5. OneEach(tab') /\ Entered(tab', known, claims')
    BY <1>1, <1>2, <1>8, <2>1, <2>2, <2>3, <2>4, TabEnter
  <2> QED BY <1>6, <2>2, <2>5
<1>10. Net(chan, tab', tab, known, claims', Excused')
  <2>1. Net(chan, tab, tab, known, claims, Excused) /\ claims \subseteq claims'
    BY <1>3 DEF NickInv
  <2>2. \A a \in Server, v \in User \ Excused' : From(a, v) # a => tab'[a][v] = tab[a][v]
    BY <1>1, <1>7, <1>9
  <2> QED BY <1>7, <2>1, <2>2, NetWeaken
<1>11. Net(ch, tab', tab, known, claims', Excused')
  <2>1. ASSUME NEW h \in H, ch = Ghosted(chan, n, h)
        PROVE  Net(ch, tab', tab, known, claims', Excused')
    BY <1>1, <1>5, <1>7, <1>9, <1>10, <2>1, NetGhosted
  <2> QED BY <1>6, <1>10, <2>1
<1>12. Net(chan', tab', tab', known, claims', Excused')
  <2> DEFINE x == CHANGEMsg(c)
  <2>1. x \in Msg
    BY <1>2, MsgTypes
  <2>2. \A v \in User \ Excused' : tab'[n][v] = IF v = c.user THEN At(c) ELSE tab[n][v]
    BY <1>2, <1>7, <1>9
  <2>3. \A v \in User \ Excused' : v # c.user => tab[n][v].nick # c.nick
    BY <1>2, <1>5, <1>7
  <2>4. c \in claims' /\ x = CHANGEMsg(c)
        /\ (c.user \notin Excused' => tab[n][c.user] # Gone /\ tab[n][c.user].nick # c.nick)
    BY <1>2, <1>3, <1>5
  <2>5. Linked(n) = (Adjacent(n) \cap known[n]) \ {From(n, c.user)}
    BY <1>1, <1>2
  <2> HIDE DEF x
  <2>7. \/ x = NICKMsg({c}) /\ (c.user \notin Excused' => tab[n][c.user] = Gone)
        \/ x = CHANGEMsg(c) /\ (c.user \notin Excused' => /\ tab[n][c.user] # Gone
                                                          /\ tab[n][c.user].nick # c.nick)
    BY <2>4
  <2>8. n \in Server /\ tab \in Tables /\ tab' \in Tables /\ c \in Claim /\ c \in claims'
        /\ \A a \in Server \ {n} : tab'[a] = tab[a]
    BY <1>1, <1>2, <1>9, <2>4
  <2>6. Net(Sent(ch, n, Linked(n), x), tab', tab', known, claims', Excused')
    BY <1>11, <2>1, <2>2, <2>3, <2>5, <2>7, <2>8, NetClaim
  <2> QED BY <1>6, <2>6 DEF x
<1>13. TypeOK'
  BY <1>2, <1>3, <1>4, <1>5, <1>9, <1>12 DEF NickInv, TypeOK, Net, Chans, Queue, Tables
<1>14. \A d \in claims' : d.user \in signed'
  <2>1. u \in signed
    BY <1>1, <1>3 DEF NickInv, Entered, MakeClaim
  <2> QED BY <1>2, <1>3, <2>1 DEF NickInv
<1> QED
  BY <1>3, <1>7, <1>9, <1>12, <1>13, <1>14 DEF NickInv

(* A user leaves.                                                          *)
LEMMA QuitKeeps ==
    ASSUME NickInv, NEW u \in User, Quit(u)
    PROVE  NickInv'
<1> DEFINE n == Home[u]
<1>1. /\ n \in Server /\ tab \in Tables /\ chan \in Chans /\ From(n, u) = n
      /\ Linked(n) = (Adjacent(n) \cap known[n]) \ {n}
  BY HomeFacts
<1>2. /\ tab' = [tab EXCEPT ![n] = Without(tab[n], {u})]
      /\ chan' = Sent(chan, n, Linked(n), QUITMsg(u))
      /\ UNCHANGED <<known, signed, now, losses, killed, claims, ousted>>
  BY DEF Quit, Acts, Keeps
<1>3. turns' \in 0..MaxTurn /\ raced' \in BOOLEAN
  BY NickConstants DEF Quit, Acts, NickInv, TypeOK
<1> HIDE DEF n
<1>4. Excused' = Excused
  BY <1>2 DEF Excused
<1>5. /\ Without(tab[n], {u}) \in [User -> Entry]
      /\ \A v \in User : Without(tab[n], {u})[v] = IF v = u THEN Gone ELSE tab[n][v]
  BY <1>1, NickConstants DEF Without, Tables, Entry, Gone
<1>6. tab' \in Tables /\ OneEach(tab') /\ Entered(tab', known, claims)
  BY <1>1, <1>2, <1>5, TabThin DEF NickInv
<1>7. /\ \A v \in User : tab'[n][v] = IF v = u THEN Gone ELSE tab[n][v]
      /\ \A a \in Server \ {n} : tab'[a] = tab[a]
  BY <1>1, <1>2, <1>5 DEF Tables
<1>8. Net(chan, tab', tab, known, claims, Excused')
  <2>1. Net(chan, tab, tab, known, claims, Excused)
    BY DEF NickInv
  <2>2. \A a \in Server, v \in User \ Excused' : From(a, v) # a => tab'[a][v] = tab[a][v]
    BY <1>1, <1>7
  <2> QED BY <1>4, <2>1, <2>2, NetWeaken
<1>9. Net(chan', tab', tab', known, claims, Excused')
  <2>1. Linked(n) = (Adjacent(n) \cap known[n]) \ {From(n, u)}
    BY <1>1
  <2>2. \A v \in User \ Excused' : tab'[n][v] = IF v = u THEN Gone ELSE tab[n][v]
    BY <1>7
  <2> QED BY <1>1, <1>2, <1>6, <1>7, <1>8, <2>1, <2>2, NetQuit
<1>10. killed' \subseteq Excused' /\ ousted' \subseteq User /\ now' \in 1..MaxNow /\ losses' \in 0..MaxLoss
  BY <1>2, <1>4 DEF NickInv, TypeOK
<1> QED
  BY <1>2, <1>3, <1>6, <1>9, <1>10, SameClaims

(* An operator kills.                                                      *)
LEMMA OperKillKeeps ==
    ASSUME NickInv, NEW o \in User, NEW u \in User, OperKill(o, u)
    PROVE  NickInv'
<1> DEFINE n == Home[o]
<1>1. n \in Server /\ tab \in Tables /\ chan \in Chans
  BY HomeFacts
<1>2. /\ tab' = [tab EXCEPT ![n] = Without(tab[n], {u})]
      /\ chan' = Sent(chan, n, Linked(n), KILLMsg(tab[n][o].nick, u)) /\ ousted' = ousted \cup {u}
      /\ tab[n][o] # Gone
      /\ UNCHANGED <<known, signed, now, losses, killed, claims>>
  BY DEF OperKill, Acts, Keeps
<1>3. turns' \in 0..MaxTurn /\ raced' \in BOOLEAN
  BY NickConstants DEF OperKill, Acts, NickInv, TypeOK
<1>n. tab[n][o].nick \in Nick
  BY <1>1, <1>2, HomeFacts
<1> HIDE DEF n
<1>4. Excused \subseteq Excused' /\ u \in Excused'
  BY <1>2, MoreExcused DEF Excused
<1>5. /\ Without(tab[n], {u}) \in [User -> Entry]
      /\ \A v \in User : Without(tab[n], {u})[v] = IF v = u THEN Gone ELSE tab[n][v]
  BY <1>1, NickConstants DEF Without, Tables, Entry, Gone
<1>6. tab' \in Tables /\ OneEach(tab') /\ Entered(tab', known, claims)
  BY <1>1, <1>2, <1>5, TabThin DEF NickInv
<1>7. \A a \in Server, v \in User \ Excused' : tab'[a][v] = tab[a][v]
  BY <1>1, <1>2, <1>4, <1>5 DEF Tables
<1>8. Net(chan, tab', tab', known, claims, Excused')
  <2>1. Net(chan, tab, tab, known, claims, Excused)
    BY DEF NickInv
  <2> QED BY <1>4, <1>7, <2>1, NetWeaken
<1>9. Net(chan', tab', tab', known, claims, Excused')
  <2> DEFINE x == KILLMsg(tab[n][o].nick, u)
  <2>1. x \in Msg /\ x.type = "KILL" /\ x.user = u
    BY <1>n, MsgTypes
  <2> HIDE DEF x
  <2>2. Net(Sent(chan, n, Linked(n), x), tab', tab', known, claims, Excused')
    BY <1>1, <1>4, <1>6, <1>8, <2>1, NetExcused DEF Linked
  <2> QED BY <1>2, <2>2 DEF x
<1>10. killed' \subseteq Excused' /\ ousted' \subseteq User /\ now' \in 1..MaxNow /\ losses' \in 0..MaxLoss
  BY <1>2, <1>4 DEF NickInv, TypeOK
<1> QED
  BY <1>2, <1>3, <1>6, <1>9, <1>10, SameClaims

(* Time.                                                                   *)
LEMMA TickKeeps ==
    ASSUME NickInv, Tick
    PROVE  NickInv'
<1>1. Excused' = Excused
  BY DEF Tick, Excused
<1>2. now' \in 1..MaxNow
  BY NickConstants DEF Tick, NickInv, TypeOK
<1>3. TypeOK'
  BY <1>2 DEF Tick, NickInv, TypeOK
<1> QED
  BY <1>1, <1>3 DEF Tick, NickInv

-----------------------------------------------------------------------------
(* m_nick_remoto.                                                          *)

(* Who loses a collision is excused.                                       *)
LEMMA Collision ==
    ASSUME NickInv, NEW n \in Server, NEW m, NEW c \in claims, NEW h \in User,
           tab[n][h].nick = c.nick, h # c.user
    PROVE  /\ Loses(n, m, c, h) \/ Equal(n, c, h) => c.user \in Excused
           /\ (~Loses(n, m, c, h) /\ From(n, h) # m) \/ Equal(n, c, h) => h \in Excused
<1> DEFINE d == MakeClaim(h, tab[n][h].nick, tab[n][h].ts)
<1>1. c \in Claim /\ c.user \in User /\ c.nick \in Nick /\ c.ts \in Int
  BY DEF NickInv, TypeOK, Claim
<1>2. tab[n][h] # Gone
  BY <1>1, NickConstants DEF Gone
<1>3. d \in claims
  BY <1>2 DEF NickInv, Entered
<1>4. d.user = h /\ d.nick = c.nick /\ d.ts = tab[n][h].ts
  BY DEF MakeClaim
<1>5. d.ts \in Int
  BY <1>3 DEF NickInv, TypeOK, Claim
<1> HIDE DEF d
<1>6. ASSUME Loses(n, m, c, h) \/ Equal(n, c, h) PROVE c.user \in Excused
  <2>1. Better(d, c)
    BY <1>1, <1>4, <1>5, <1>6 DEF Loses, Equal, Better, Differ
  <2> QED BY <1>1, <1>3, <2>1, Beaten
<1>7. ASSUME (~Loses(n, m, c, h) /\ From(n, h) # m) \/ Equal(n, c, h) PROVE h \in Excused
  <2>1. Better(c, d)
    BY <1>1, <1>4, <1>5, <1>7 DEF Loses, Equal, Better, Differ
  <2> QED BY <1>3, <1>4, <2>1, Beaten
<1> QED
  BY <1>6, <1>7

(* What a server says of a user it kills.                                  *)
LEMMA NetOverruled ==
    ASSUME NEW c, NEW tb \in Tables, NEW en \in Tables, NEW cl, NEW ex,
           NEW n \in Server, NEW m \in Adjacent(n), NEW h \in User, h \in ex, m \in known[n],
           Net(c, tb, en, known, cl, ex)
    PROVE  Net(Overruled(c, n, m, h), tb, en, known, cl, ex)
<1> DEFINE K == Sent(c, n, Others(n, m), KILLMsg(n, h))
<1>1. Others(n, m) \subseteq Adjacent(n) \cap known[n] /\ {m} \subseteq Adjacent(n) \cap known[n]
  BY DEF Linked, Others
<1>2. /\ KILLMsg(n, h) \in Msg /\ KILLMsg(n, h).type = "KILL" /\ KILLMsg(n, h).user = h
      /\ QUITMsg(h) \in Msg /\ QUITMsg(h).type = "QUIT" /\ QUITMsg(h).user = h
  BY MsgTypes
<1>3. Net(K, tb, en, known, cl, ex)
  BY <1>1, <1>2, NetExcused
<1> HIDE DEF K
<1>4. Net(Sent(K, n, {m}, QUITMsg(h)), tb, en, known, cl, ex)
  BY <1>1, <1>2, <1>3, NetExcused
<1> QED
  BY <1>3, <1>4 DEF Overruled, K

(* A claim is taken from the line of m; its user, unless excused, is now   *)
(* in the table.                                                           *)
LEMMA NetTaken ==
    ASSUME NickInv, NEW n \in Server, NEW m \in Server, Arrives(n, m, "NICK"),
           NEW c \in Head(chan[<<m, n>>]).claims, NEW tc \in Tables,
           \A a \in Server \ {n} : tc[a] = tab[a],
           c.user \notin Excused => tc[n][c.user] = At(c),
           \A v \in User \ Excused : v # c.user => tc[n][v] = tab[n][v]
    PROVE  Net(NickTaken(m, n, c), tc, tab, known, claims, Excused)
<1> DEFINE q == chan[<<m, n>>]
           C == Head(q).claims
           x == NICKMsg(C \ {c})
           w == IF C \ {c} = {} THEN Tail(q) ELSE <<x>> \o Tail(q)
<1>1. q # <<>> /\ Head(q).type = "NICK" /\ m \in known[n] /\ tab \in Tables
      /\ Net(chan, tab, tab, known, claims, Excused)
  BY DEF Arrives, NickInv, TypeOK, Tables
<1>2. /\ m \in Adjacent(n) /\ q \in Queue /\ Head(q) \in Msg /\ MsgOK(m, n, Head(q), claims, Excused)
  BY <1>1, HeadLine
<1>3. C \subseteq Claim /\ Tail(q) \in Queue
  BY <1>1, <1>2, MsgFields, TailQueue
<1>4. x \in Msg /\ x.type = "NICK" /\ x.claims = C \ {c}
  BY <1>3, MsgTypes
<1>5. MsgOK(m, n, x, claims, Excused)
  BY <1>1, <1>2, <1>4 DEF MsgOK, ClaimsIn
<1>6. w \in Queue
  BY <1>3, <1>4, ConsQueue
<1>7. \A a \in Server, v \in User : tab[a][v] \in Entry /\ tc[a][v] \in Entry
  BY <1>1 DEF Tables
<1>8. ASSUME NEW v \in User \ Excused, From(n, v) = m, NEW b \in Entry, Path(q, v, n, tab[n][v], b)
      PROVE  Path(w, v, n, tc[n][v], b)
  <2>1. /\ c.user = v => tab[n][v] = Gone /\ Path(w, v, n, At(c), b)
        /\ c.user # v => tab[n][v].nick # c.nick /\ Path(w, v, n, tab[n][v], b)
    BY <1>1, <1>2, <1>7, <1>8, CutPath
  <2>2. CASE c.user = v
    BY <2>1, <2>2, <1>8
  <2>3. CASE c.user # v
    BY <2>1, <2>3, <1>8
  <2> QED BY <2>2, <2>3
<1>9. \A v \in User \ Excused : From(n, v) # m => tc[n][v] = tab[n][v]
  BY <1>1, <1>2 DEF MsgOK, ClaimsIn
<1>10. Net([chan EXCEPT ![<<m, n>>] = w], tc, tab, known, claims, Excused)
  <2>1. \/ w = Tail(q)
        \/ \E y \in Msg : /\ y.type \notin {"SERVER", "EOF"} /\ MsgOK(m, n, y, claims, Excused)
                          /\ w = <<y>> \o Tail(q)
    BY <1>4, <1>5
  <2>2. Head(q).type \notin {"SERVER", "EOF"}
    BY <1>1
  <2> HIDE DEF w
  <2> QED BY <1>1, <1>2, <1>6, <1>8, <1>9, <2>1, <2>2, NetRead
<1>11. NickTaken(m, n, c) = [chan EXCEPT ![<<m, n>>] = w]
  BY DEF NickTaken, Parsed
<1> QED
  BY <1>10, <1>11

(* A user is introduced over the link to m.                                *)
LEMMA NetIntroduced ==
    ASSUME NickInv, NEW n \in Server, NEW m \in Adjacent(n), NEW c \in claims, NEW ch,
           NEW T \in [User -> Entry], Introduce(n, m, c, T, ch),
           m \in known[n], From(n, c.user) = m,
           c.user \notin Excused => tab[n][c.user] = Gone,
           \A v \in User : T[v] = tab[n][v] \/ T[v] = Gone,
           \A v \in User \ Excused : T[v] = tab[n][v],
           \A v \in User : v # c.user => T[v].nick # c.nick,
           \A tc \in Tables :
               /\ \A a \in Server \ {n} : tc[a] = tab[a]
               /\ c.user \notin Excused => tc[n][c.user] = At(c)
               /\ \A v \in User \ Excused : v # c.user => tc[n][v] = tab[n][v]
               => Net(ch, tc, tab, known, claims, Excused)
    PROVE  /\ tab' \in Tables /\ OneEach(tab') /\ Entered(tab', known, claims)
           /\ Net(chan', tab', tab', known, claims, Excused)
<1> DEFINE u == c.user
           x == NICKMsg({c})
           y == QUITMsg(u)
           ch2 == IF T[u] = Gone THEN ch ELSE Sent(ch, n, Others(n, m), y)
<1>1. c \in Claim /\ u \in User /\ At(c) \in Entry /\ tab \in Tables
  BY DEF NickInv, TypeOK, Claim, At, Entry, Tables
<1>2. tab' = [tab EXCEPT ![n] = [T EXCEPT ![u] = At(c)]] /\ chan' = Sent(ch2, n, Others(n, m), x)
  BY DEF Introduce, Keeps
<1>3. /\ tab' \in Tables /\ tab'[n][u] = At(c)
      /\ (\A v \in User : v # u => tab'[n][v] = T[v])
      /\ (\A a \in Server \ {n} : tab'[a] = tab[a])
  BY <1>1, <1>2 DEF Tables
<1>4. OneEach(tab') /\ Entered(tab', known, claims)
  BY <1>1, <1>3, TabEnter DEF NickInv
<1>5. Net(ch, tab', tab, known, claims, Excused)
  BY <1>3
<1>6. /\ x \in Msg /\ y \in Msg /\ y.type = "QUIT" /\ y.user = u
  BY <1>1, MsgTypes
<1>7. Others(n, m) = (Adjacent(n) \cap known[n]) \ {From(n, c.user)}
  BY DEF Others, Linked
<1>8. Net(ch2, tab', tab, known, claims, Excused)
  <2>1. CASE T[u] # Gone
    <3>1. u \in Excused
      BY <1>1, <2>1
    <3>2. Net(Sent(ch, n, Others(n, m), y), tab', tab, known, claims, Excused)
      <4> HIDE DEF y
      <4> QED BY <1>1, <1>3, <1>5, <1>6, <1>7, <3>1, NetExcused
    <3> QED BY <2>1, <3>2
  <2> QED BY <1>5, <2>1
<1>9. Net(chan', tab', tab', known, claims, Excused)
  <2>1. \A v \in User \ Excused : tab'[n][v] = IF v = c.user THEN At(c) ELSE tab[n][v]
    BY <1>3
  <2>2. \A v \in User \ Excused : v # c.user => tab[n][v].nick # c.nick
    <3> SUFFICES ASSUME NEW v \in User \ Excused, v # c.user PROVE tab[n][v].nick # c.nick
      OBVIOUS
    <3>1. T[v] = tab[n][v] /\ T[v].nick # c.nick
      OBVIOUS
    <3> QED BY <3>1
  <2>3. \/ x = NICKMsg({c}) /\ (c.user \notin Excused => tab[n][c.user] = Gone)
        \/ x = CHANGEMsg(c) /\ (c.user \notin Excused => /\ tab[n][c.user] # Gone
                                                         /\ tab[n][c.user].nick # c.nick)
    OBVIOUS
  <2>4. n \in Server /\ tab \in Tables /\ tab' \in Tables /\ c \in Claim /\ c \in claims
        /\ \A a \in Server \ {n} : tab'[a] = tab[a]
    BY <1>1, <1>3
  <2> HIDE DEF x, ch2, u
  <2>5. Net(Sent(ch2, n, Others(n, m), x), tab', tab', known, claims, Excused)
    BY <1>6, <1>7, <1>8, <2>1, <2>2, <2>3, <2>4, NetClaim
  <2> QED BY <1>2, <2>5
<1> QED
  BY <1>3, <1>4, <1>9

(* A server introduces a user.                                             *)
LEMMA RecvNickKeeps ==
    ASSUME NickInv, NEW n \in Server, NEW m \in Server, RecvNick(n, m)
    PROVE  NickInv'
<1> DEFINE q == chan[<<m, n>>]
<1>1. /\ Arrives(n, m, "NICK") /\ Same
      /\ q # <<>> /\ Head(q).type = "NICK" /\ m \in known[n] /\ tab \in Tables
      /\ Net(chan, tab, tab, known, claims, Excused)
  BY DEF RecvNick, Arrives, NickInv, TypeOK, Tables
<1>2. PICK c \in Head(q).claims :
        LET ch == NickTaken(m, n, c)
            H == Holder(n, c.nick)
        IN  \/ H = {} /\ Introduce(n, m, c, tab[n], ch) /\ UNCHANGED killed
            \/ \E h \in H : Loses(n, m, c, h) /\ ~Equal(n, c, h) /\ chan' = ch /\ UNCHANGED <<tab, killed>>
            \/ \E h \in H : /\ Equal(n, c, h) /\ Keeps(n, Without(tab[n], {h}))
                            /\ chan' = Overruled(ch, n, m, h) /\ killed' = killed \cup {h}
            \/ \E h \in H : /\ ~Loses(n, m, c, h) /\ ~Equal(n, c, h)
                            /\ Introduce(n, m, c, Without(tab[n], {h}), Overruled(ch, n, m, h))
                            /\ killed' = killed \cup {h}
  BY DEF RecvNick
<1> DEFINE u == c.user
           ch == NickTaken(m, n, c)
           H == Holder(n, c.nick)
<1>3. /\ m \in Adjacent(n) /\ q \in Queue /\ Head(q) \in Msg /\ MsgOK(m, n, Head(q), claims, Excused)
      /\ \A v \in User \ Excused : From(n, v) = m =>
           \E e \in Entry : Step(v, n, Head(q), tab[n][v], e)
  BY <1>1, HeadLine
<1>4. c \in claims /\ From(n, u) = m /\ c \in Claim /\ u \in User /\ c.nick \in Nick
  <2>1. c \in claims /\ From(n, u) = m
    BY <1>1, <1>3 DEF MsgOK, ClaimsIn
  <2> QED BY <2>1 DEF NickInv, TypeOK, Claim
<1>5. u \notin Excused => tab[n][u] = Gone
  BY <1>1, <1>3, <1>4 DEF Step, ClaimsIn
<1>6. \A v \in User \ Excused : v # u /\ From(n, v) = m => tab[n][v].nick # c.nick
  BY <1>1, <1>3, <1>4 DEF Step, ClaimsIn
<1>7. Excused' = Excused /\ UNCHANGED <<known, signed, claims, ousted, now, turns, losses, raced>>
  BY <1>1 DEF Same, Excused
<1>8. \A h \in User : h \in H <=> tab[n][h].nick = c.nick
  BY DEF Holder
<1>9. ASSUME NEW h \in H
      PROVE  /\ h \in User
             /\ h = u => u \in Excused
             /\ From(n, h) = m => h \in Excused
             /\ Loses(n, m, c, h) \/ Equal(n, c, h) => u \in Excused
             /\ ~Loses(n, m, c, h) \/ Equal(n, c, h) => h \in Excused
  <2>1. h \in User /\ tab[n][h].nick = c.nick
    BY DEF Holder
  <2>2. h = u => u \in Excused
    BY <1>4, <1>5, <2>1, NickConstants DEF Gone
  <2>3. From(n, h) = m => h \in Excused
    BY <1>6, <2>1, <2>2
  <2>4. CASE h = u
    BY <2>1, <2>2, <2>4
  <2>5. CASE h # u
    <3>1. /\ Loses(n, m, c, h) \/ Equal(n, c, h) => u \in Excused
          /\ (~Loses(n, m, c, h) /\ From(n, h) # m) \/ Equal(n, c, h) => h \in Excused
      BY <1>4, <2>1, <2>5, Collision
    <3> QED BY <2>1, <2>2, <2>3, <3>1
  <2> QED BY <2>4, <2>5
<1>10. \A h1, h2 \in H : h1 = h2
  BY <1>4, <1>8, NickConstants DEF Holder, NickInv, OneEach
<1>11. ASSUME NEW h \in H
       PROVE  /\ Without(tab[n], {h}) \in [User -> Entry]
              /\ \A v \in User : Without(tab[n], {h})[v] = IF v = h THEN Gone ELSE tab[n][v]
  BY <1>1, NickConstants DEF Without, Tables, Entry, Gone
<1>12. ASSUME NEW tc \in Tables, \A a \in Server \ {n} : tc[a] = tab[a],
              u \notin Excused => tc[n][u] = At(c),
              \A v \in User \ Excused : v # u => tc[n][v] = tab[n][v]
       PROVE  Net(ch, tc, tab, known, claims, Excused)
  BY <1>1, <1>12, NetTaken
<1>13. Gone.nick = NoNick /\ killed \subseteq Excused /\ OneEach(tab) /\ Entered(tab, known, claims)
  BY DEF Gone, NickInv
<1>14. SUFFICES /\ tab' \in Tables /\ OneEach(tab') /\ Entered(tab', known, claims)
                /\ Net(chan', tab', tab', known, claims, Excused)
                /\ killed' \subseteq Excused
  <2>1. /\ ousted' \subseteq User /\ now' \in 1..MaxNow /\ turns' \in 0..MaxTurn
        /\ losses' \in 0..MaxLoss /\ raced' \in BOOLEAN
    BY <1>7 DEF NickInv, TypeOK
  <2> QED BY <1>7, <2>1, SameClaims
<1> HIDE DEF q, u, ch, H
<1>15. CASE H = {} /\ Introduce(n, m, c, tab[n], ch) /\ UNCHANGED killed
  <2>1. tab[n] \in [User -> Entry]
    BY <1>1 DEF Tables
  <2>2. \A v \in User : tab[n][v].nick # c.nick
    BY <1>8, <1>15
  <2>3. /\ tab' \in Tables /\ OneEach(tab') /\ Entered(tab', known, claims)
        /\ Net(chan', tab', tab', known, claims, Excused)
    BY <1>1, <1>3, <1>4, <1>5, <1>12, <1>15, <2>1, <2>2, NetIntroduced DEF u
  <2> QED BY <1>13, <1>15, <2>3
<1>16. ASSUME NEW h \in H, Loses(n, m, c, h), chan' = ch, UNCHANGED <<tab, killed>>
       PROVE  /\ tab' \in Tables /\ OneEach(tab') /\ Entered(tab', known, claims)
              /\ Net(chan', tab', tab', known, claims, Excused)
              /\ killed' \subseteq Excused
  <2>1. u \in Excused
    BY <1>9, <1>16
  <2>2. Net(ch, tab, tab, known, claims, Excused)
    BY <1>1, <1>12, <2>1
  <2> QED BY <1>1, <1>13, <1>16, <2>2
<1>17. ASSUME NEW h \in H, Equal(n, c, h), Keeps(n, Without(tab[n], {h})),
              chan' = Overruled(ch, n, m, h), killed' = killed \cup {h}
       PROVE  /\ tab' \in Tables /\ OneEach(tab') /\ Entered(tab', known, claims)
              /\ Net(chan', tab', tab', known, claims, Excused)
              /\ killed' \subseteq Excused
  <2>1. u \in Excused /\ h \in Excused /\ h \in User
    BY <1>9, <1>17
  <2>2. tab' = [tab EXCEPT ![n] = Without(tab[n], {h})]
    BY <1>17 DEF Keeps
  <2>3. tab' \in Tables /\ OneEach(tab') /\ Entered(tab', known, claims)
    BY <1>1, <1>11, <1>13, <2>2, TabThin
  <2>4. /\ \A a \in Server \ {n} : tab'[a] = tab[a]
        /\ \A v \in User \ Excused : tab'[n][v] = tab[n][v]
    BY <1>1, <1>11, <2>1, <2>2 DEF Tables
  <2>5. Net(ch, tab', tab, known, claims, Excused)
    BY <1>12, <2>1, <2>3, <2>4
  <2>6. Net(Overruled(ch, n, m, h), tab', tab, known, claims, Excused)
    BY <1>1, <1>3, <2>1, <2>3, <2>5, NetOverruled
  <2>7. Net(chan', tab', tab', known, claims, Excused)
    BY <1>1, <1>17, <2>4, <2>6, NetWeaken
  <2> QED BY <1>13, <1>17, <2>1, <2>3, <2>7
<1>18. ASSUME NEW h \in H, ~Loses(n, m, c, h),
              Introduce(n, m, c, Without(tab[n], {h}), Overruled(ch, n, m, h)),
              killed' = killed \cup {h}
       PROVE  /\ tab' \in Tables /\ OneEach(tab') /\ Entered(tab', known, claims)
              /\ Net(chan', tab', tab', known, claims, Excused)
              /\ killed' \subseteq Excused
  <2> DEFINE T == Without(tab[n], {h})
             ch2 == Overruled(ch, n, m, h)
  <2>1. h \in Excused /\ h \in User
    BY <1>9, <1>18
  <2>2. T \in [User -> Entry] /\ \A v \in User : T[v] = IF v = h THEN Gone ELSE tab[n][v]
    BY <1>11
  <2>3. ASSUME NEW tc \in Tables, \A a \in Server \ {n} : tc[a] = tab[a],
               u \notin Excused => tc[n][u] = At(c),
               \A v \in User \ Excused : v # u => tc[n][v] = tab[n][v]
        PROVE  Net(ch2, tc, tab, known, claims, Excused)
    <3>1. Net(ch, tc, tab, known, claims, Excused)
      BY <1>12, <2>3
    <3> QED BY <1>1, <1>3, <2>1, <3>1, NetOverruled
  <2>4. Introduce(n, m, c, T, ch2)
    BY <1>18
  <2> HIDE DEF T, ch2
  <2>5. /\ \A v \in User : T[v] = tab[n][v] \/ T[v] = Gone
        /\ \A v \in User \ Excused : T[v] = tab[n][v]
    BY <2>1, <2>2
  <2>6. \A v \in User : v # u => T[v].nick # c.nick
    BY <1>4, <1>8, <1>10, <1>13, <2>2, NickConstants
  <2>7. /\ tab' \in Tables /\ OneEach(tab') /\ Entered(tab', known, claims)
        /\ Net(chan', tab', tab', known, claims, Excused)
    BY <1>1, <1>3, <1>4, <1>5, <2>2, <2>3, <2>4, <2>5, <2>6, NetIntroduced DEF u
  <2> QED BY <1>13, <1>18, <2>1, <2>7
<1> QED
  BY <1>2, <1>15, <1>16, <1>17, <1>18 DEF ch, H

(* A line is done with.                                                    *)
LEMMA NetParsed ==
    ASSUME NickInv, NEW n \in Server, NEW m \in Server, NEW t \in {"CHANGE", "QUIT", "KILL", "SQUIT", "INTRO"},
           Arrives(n, m, t), NEW tc \in Tables,
           \A a \in Server \ {n} : tc[a] = tab[a],
           \A v \in User \ Excused : From(n, v) = m =>
               \A e \in Entry : Step(v, n, Head(chan[<<m, n>>]), tab[n][v], e) => e = tc[n][v],
           \A v \in User \ Excused : From(n, v) # m /\ From(n, v) # n => tc[n][v] = tab[n][v]
    PROVE  Net(Parsed(m, n), tc, tab, known, claims, Excused)
<1> DEFINE q == chan[<<m, n>>]
<1>1. q # <<>> /\ Head(q).type = t /\ m \in known[n] /\ tab \in Tables
      /\ Net(chan, tab, tab, known, claims, Excused)
  BY DEF Arrives, NickInv, TypeOK, Tables
<1>2. m \in Adjacent(n) /\ q \in Queue
  BY <1>1, HeadLine
<1>3. Tail(q) \in Queue
  BY <1>1, <1>2, TailQueue
<1>4. ASSUME NEW v \in User \ Excused, From(n, v) = m
      PROVE  \A b \in Entry : Path(q, v, n, tab[n][v], b) => Path(Tail(q), v, n, tc[n][v], b)
  BY <1>1, <1>2, <1>4, ReadPath
<1>5. Head(q).type \notin {"SERVER", "EOF"}
  BY <1>1
<1>6. Net([chan EXCEPT ![<<m, n>>] = Tail(q)], tc, tab, known, claims, Excused)
  BY <1>1, <1>2, <1>3, <1>4, <1>5, NetRead
<1> QED
  BY <1>6 DEF Parsed

Accepts(n, m, c, T, ch) ==
    /\ tab' = [tab EXCEPT ![n] = [T EXCEPT ![c.user] = At(c)]]
    /\ chan' = Sent(ch, n, Others(n, m), CHANGEMsg(c))

(* A change is accepted over the link to m.                                *)
LEMMA NetChanged ==
    ASSUME NickInv, NEW n \in Server, NEW m \in Adjacent(n), NEW c \in claims, NEW ch,
           NEW T \in [User -> Entry], Accepts(n, m, c, T, ch),
           m \in known[n], From(n, c.user) = m,
           c.user \notin Excused => tab[n][c.user] # Gone /\ tab[n][c.user].nick # c.nick,
           \A v \in User : T[v] = tab[n][v] \/ T[v] = Gone,
           \A v \in User \ Excused : T[v] = tab[n][v],
           \A v \in User : v # c.user => T[v].nick # c.nick,
           \A tc \in Tables :
               /\ \A a \in Server \ {n} : tc[a] = tab[a]
               /\ c.user \notin Excused => tc[n][c.user] = At(c)
               /\ \A v \in User \ Excused : v # c.user => tc[n][v] = tab[n][v]
               => Net(ch, tc, tab, known, claims, Excused)
    PROVE  /\ tab' \in Tables /\ OneEach(tab') /\ Entered(tab', known, claims)
           /\ Net(chan', tab', tab', known, claims, Excused)
<1> DEFINE u == c.user
           x == CHANGEMsg(c)
<1>1. c \in Claim /\ u \in User /\ At(c) \in Entry /\ tab \in Tables
  BY DEF NickInv, TypeOK, Claim, At, Entry, Tables
<1>2. tab' = [tab EXCEPT ![n] = [T EXCEPT ![u] = At(c)]] /\ chan' = Sent(ch, n, Others(n, m), x)
  BY DEF Accepts
<1>3. /\ tab' \in Tables /\ tab'[n][u] = At(c)
      /\ (\A v \in User : v # u => tab'[n][v] = T[v])
      /\ (\A a \in Server \ {n} : tab'[a] = tab[a])
  BY <1>1, <1>2 DEF Tables
<1>4. OneEach(tab') /\ Entered(tab', known, claims)
  BY <1>1, <1>3, TabEnter DEF NickInv
<1>5. Net(ch, tab', tab, known, claims, Excused)
  BY <1>3
<1>6. x \in Msg
  BY <1>1, MsgTypes
<1>7. Others(n, m) = (Adjacent(n) \cap known[n]) \ {From(n, c.user)}
  BY DEF Others, Linked
<1>9. Net(chan', tab', tab', known, claims, Excused)
  <2>1. \A v \in User \ Excused : tab'[n][v] = IF v = c.user THEN At(c) ELSE tab[n][v]
    BY <1>3
  <2>2. \A v \in User \ Excused : v # c.user => tab[n][v].nick # c.nick
    <3> SUFFICES ASSUME NEW v \in User \ Excused, v # c.user PROVE tab[n][v].nick # c.nick
      OBVIOUS
    <3>1. T[v] = tab[n][v] /\ T[v].nick # c.nick
      OBVIOUS
    <3> QED BY <3>1
  <2>3. \/ x = NICKMsg({c}) /\ (c.user \notin Excused => tab[n][c.user] = Gone)
        \/ x = CHANGEMsg(c) /\ (c.user \notin Excused => /\ tab[n][c.user] # Gone
                                                         /\ tab[n][c.user].nick # c.nick)
    OBVIOUS
  <2>4. n \in Server /\ tab \in Tables /\ tab' \in Tables /\ c \in Claim /\ c \in claims
        /\ \A a \in Server \ {n} : tab'[a] = tab[a]
    BY <1>1, <1>3
  <2> HIDE DEF x, u
  <2>5. Net(Sent(ch, n, Others(n, m), x), tab', tab', known, claims, Excused)
    BY <1>5, <1>6, <1>7, <2>1, <2>2, <2>3, <2>4, NetClaim
  <2> QED BY <1>2, <2>5
<1> QED
  BY <1>3, <1>4, <1>9

(* A user changes its nick.                                                *)
LEMMA RecvChangeKeeps ==
    ASSUME NickInv, NEW n \in Server, NEW m \in Server, RecvChange(n, m)
    PROVE  NickInv'
<1> DEFINE q == chan[<<m, n>>]
           c == Head(q).claim
           u == c.user
           ch == Parsed(m, n)
           H == Holder(n, c.nick)
           Kill(x) == Sent(x, n, Others(n, m), KILLMsg(n, u))
           Goal == /\ tab' \in Tables /\ OneEach(tab') /\ Entered(tab', known, claims)
                   /\ Net(chan', tab', tab', known, claims, Excused)
                   /\ killed' \subseteq Excused
<1>1. /\ Arrives(n, m, "CHANGE") /\ Same
      /\ q # <<>> /\ Head(q).type = "CHANGE" /\ m \in known[n] /\ tab \in Tables
      /\ Net(chan, tab, tab, known, claims, Excused)
  BY DEF RecvChange, Arrives, NickInv, TypeOK, Tables
<1>2. \/ /\ tab[n][u] = Gone /\ chan' = UnknownPrefix(ch, n, m, u)
         /\ killed' = killed \cup {u} /\ UNCHANGED tab
      \/ /\ H = {} /\ tab' = [tab EXCEPT ![n] = [tab[n] EXCEPT ![u] = At(c)]]
         /\ chan' = Sent(ch, n, Others(n, m), CHANGEMsg(c)) /\ UNCHANGED killed
      \/ \E h \in H : /\ Loses(n, m, c, h)
                      /\ tab' = [tab EXCEPT ![n] = Without(tab[n], {u})]
                      /\ chan' = Kill(ch) /\ killed' = killed \cup {u}
      \/ \E h \in H : /\ Equal(n, c, h)
                      /\ tab' = [tab EXCEPT ![n] = Without(tab[n], {u, h})]
                      /\ chan' = Overruled(Kill(ch), n, m, h) /\ killed' = killed \cup {u, h}
      \/ \E h \in H : /\ Equal(n, c, h)
                      /\ tab' = [tab EXCEPT ![n] = Without(tab[n], {h})]
                      /\ chan' = Overruled(ch, n, m, h) /\ killed' = killed \cup {h}
      \/ \E h \in H : /\ ~Loses(n, m, c, h)
                      /\ tab' = [tab EXCEPT ![n] = [Without(tab[n], {h}) EXCEPT ![u] = At(c)]]
                      /\ chan' = Sent(Overruled(ch, n, m, h), n, Others(n, m), CHANGEMsg(c))
                      /\ killed' = killed \cup {h}
  BY Zenon DEF RecvChange, Keeps
<1>3. /\ m \in Adjacent(n) /\ q \in Queue /\ Head(q) \in Msg /\ MsgOK(m, n, Head(q), claims, Excused)
      /\ \A v \in User \ Excused : From(n, v) = m =>
           \E e \in Entry : Step(v, n, Head(q), tab[n][v], e)
  BY <1>1, HeadLine
<1>4. c \in claims /\ From(n, u) = m /\ c \in Claim /\ u \in User /\ c.nick \in Nick
  <2>1. c \in claims /\ From(n, u) = m
    BY <1>1, <1>3 DEF MsgOK, ClaimsIn
  <2> QED BY <2>1 DEF NickInv, TypeOK, Claim
<1>5. u \notin Excused => tab[n][u] # Gone /\ tab[n][u].nick # c.nick
  BY <1>1, <1>3, <1>4 DEF Step, ClaimsIn
<1>6. \A v \in User \ Excused : v # u /\ From(n, v) = m => tab[n][v].nick # c.nick
  BY <1>1, <1>3, <1>4 DEF Step, ClaimsIn
<1>7. Excused' = Excused /\ UNCHANGED <<known, signed, claims, ousted, now, turns, losses, raced>>
  BY <1>1 DEF Same, Excused
<1>8. \A h \in User : h \in H <=> tab[n][h].nick = c.nick
  BY DEF Holder
<1>9. ASSUME NEW h \in H
      PROVE  /\ h \in User
             /\ Loses(n, m, c, h) \/ Equal(n, c, h) => u \in Excused
             /\ ~Loses(n, m, c, h) \/ Equal(n, c, h) => h \in Excused
  <2>1. h \in User /\ tab[n][h].nick = c.nick
    BY DEF Holder
  <2>2. h = u => u \in Excused
    BY <1>4, <1>5, <2>1
  <2>3. From(n, h) = m => h \in Excused
    BY <1>6, <2>1, <2>2
  <2>4. CASE h = u
    BY <2>1, <2>2, <2>4
  <2>5. CASE h # u
    <3>1. /\ Loses(n, m, c, h) \/ Equal(n, c, h) => u \in Excused
          /\ (~Loses(n, m, c, h) /\ From(n, h) # m) \/ Equal(n, c, h) => h \in Excused
      BY <1>4, <2>1, <2>5, Collision
    <3> QED BY <2>1, <2>2, <2>3, <3>1
  <2> QED BY <2>4, <2>5
<1>10. \A h1, h2 \in H : h1 = h2
  BY <1>4, <1>8, NickConstants DEF Holder, NickInv, OneEach
<1>11. ASSUME NEW U
       PROVE  /\ Without(tab[n], U) \in [User -> Entry]
              /\ \A v \in User : Without(tab[n], U)[v] = IF v \in U THEN Gone ELSE tab[n][v]
  BY <1>1, NickConstants DEF Without, Tables, Entry, Gone
<1>12. ASSUME NEW tc \in Tables, \A a \in Server \ {n} : tc[a] = tab[a],
              u \notin Excused => tc[n][u] = At(c),
              \A v \in User \ Excused : v # u => tc[n][v] = tab[n][v]
       PROVE  Net(ch, tc, tab, known, claims, Excused)
  <2>1. ASSUME NEW v \in User \ Excused, NEW e \in Entry, Step(v, n, Head(q), tab[n][v], e)
        PROVE  e = tc[n][v]
    <3>1. ClaimsIn(Head(q)) = {c} /\ ~Leaves(v, n, Head(q)) /\ Head(q).type # "EOF"
      BY <1>1 DEF ClaimsIn, Leaves
    <3>2. CASE v = u
      BY <2>1, <3>1, <3>2, <1>12 DEF Step
    <3>3. CASE v # u
      BY <2>1, <3>1, <3>3, <1>12 DEF Step
    <3> QED BY <3>2, <3>3
  <2>2. \A v \in User \ Excused : From(n, v) # m /\ From(n, v) # n => tc[n][v] = tab[n][v]
    BY <1>4, <1>12
  <2> QED BY <1>1, <1>12, <2>1, <2>2, NetParsed
<1>13. Gone.nick = NoNick /\ killed \subseteq Excused /\ OneEach(tab) /\ Entered(tab, known, claims)
  BY DEF Gone, NickInv
<1>14. SUFFICES Goal
  <2>1. /\ ousted' \subseteq User /\ now' \in 1..MaxNow /\ turns' \in 0..MaxTurn
        /\ losses' \in 0..MaxLoss /\ raced' \in BOOLEAN
    BY <1>7 DEF NickInv, TypeOK
  <2> QED BY <1>7, <2>1, SameClaims
<1> HIDE DEF q, u, c, ch, H
<1>k. ASSUME NEW x, NEW tc \in Tables, Net(x, tc, tab, known, claims, Excused), u \in Excused
      PROVE  Net(Kill(x), tc, tab, known, claims, Excused)
  <2> DEFINE y == KILLMsg(n, u)
  <2>1. y \in Msg /\ y.type = "KILL" /\ y.user = u
    BY <1>4, MsgTypes
  <2>2. Others(n, m) \subseteq Adjacent(n) \cap known[n]
    BY DEF Others, Linked
  <2> HIDE DEF y
  <2>3. Net(Sent(x, n, Others(n, m), y), tc, tab, known, claims, Excused)
    BY <1>1, <1>k, <2>1, <2>2, NetExcused
  <2> QED BY <2>3 DEF y
<1> HIDE DEF Kill
<1>t. ASSUME NEW U \in SUBSET Excused, tab' = [tab EXCEPT ![n] = Without(tab[n], U)]
      PROVE  /\ tab' \in Tables /\ OneEach(tab') /\ Entered(tab', known, claims)
             /\ \A a \in Server \ {n} : tab'[a] = tab[a]
             /\ \A v \in User \ Excused : tab'[n][v] = tab[n][v]
             /\ u \in Excused => Net(ch, tab', tab, known, claims, Excused)
             /\ \A x : Net(x, tab', tab, known, claims, Excused) => Net(x, tab', tab', known, claims, Excused)
  <2> DEFINE T == Without(tab[n], U)
  <2>1. T \in [User -> Entry] /\ \A v \in User : T[v] = IF v \in U THEN Gone ELSE tab[n][v]
    BY <1>11
  <2>2. tab' = [tab EXCEPT ![n] = T]
    BY <1>t
  <2> HIDE DEF T
  <2>3. tab' \in Tables /\ OneEach(tab') /\ Entered(tab', known, claims)
    BY <1>1, <1>13, <2>1, <2>2, TabThin
  <2>4. /\ \A a \in Server \ {n} : tab'[a] = tab[a]
        /\ \A v \in User \ Excused : tab'[n][v] = tab[n][v]
    BY <1>1, <2>1, <2>2 DEF Tables
  <2>5. u \in Excused => Net(ch, tab', tab, known, claims, Excused)
    BY <1>12, <2>3, <2>4
  <2>6. ASSUME NEW x, Net(x, tab', tab, known, claims, Excused)
        PROVE  Net(x, tab', tab', known, claims, Excused)
    BY <1>1, <2>4, <2>6, NetWeaken
  <2> QED BY <2>3, <2>4, <2>5, <2>6
<1>15. CASE /\ tab[n][u] = Gone /\ chan' = UnknownPrefix(ch, n, m, u)
            /\ killed' = killed \cup {u} /\ UNCHANGED tab
  <2> DEFINE y == KILLMsg(n, u)
  <2>1. u \in Excused
    BY <1>4, <1>5, <1>15
  <2>2. Net(ch, tab, tab, known, claims, Excused)
    BY <1>1, <1>12, <2>1
  <2>3. y \in Msg /\ y.type = "KILL" /\ y.user = u
    BY <1>4, MsgTypes
  <2>4. {m} \subseteq Adjacent(n) \cap known[n]
    BY <1>1, <1>3
  <2> HIDE DEF y
  <2>5. Net(Sent(ch, n, {m}, y), tab, tab, known, claims, Excused)
    BY <1>1, <2>1, <2>2, <2>3, <2>4, NetExcused
  <2>6. chan' = Sent(ch, n, {m}, y) \/ chan' = ch
    BY <1>15 DEF UnknownPrefix, y
  <2> QED BY <1>1, <1>13, <1>15, <2>1, <2>2, <2>5, <2>6
<1>16. CASE /\ H = {} /\ tab' = [tab EXCEPT ![n] = [tab[n] EXCEPT ![u] = At(c)]]
            /\ chan' = Sent(ch, n, Others(n, m), CHANGEMsg(c)) /\ UNCHANGED killed
  <2>1. tab[n] \in [User -> Entry]
    BY <1>1 DEF Tables
  <2>2. \A v \in User : tab[n][v].nick # c.nick
    BY <1>8, <1>16
  <2>3. /\ tab' \in Tables /\ OneEach(tab') /\ Entered(tab', known, claims)
        /\ Net(chan', tab', tab', known, claims, Excused)
    <3>1. Accepts(n, m, c, tab[n], ch)
      BY <1>16 DEF Accepts, u
    <3> QED BY <1>1, <1>3, <1>4, <1>5, <1>12, <2>1, <2>2, <3>1, NetChanged DEF u
  <2> QED BY <1>13, <1>16, <2>3
<1>17. ASSUME NEW h \in H, Loses(n, m, c, h),
              tab' = [tab EXCEPT ![n] = Without(tab[n], {u})],
              chan' = Kill(ch), killed' = killed \cup {u}
       PROVE  Goal
  <2>1. {u} \in SUBSET Excused
    BY <1>9, <1>17
  <2>2. Net(Kill(ch), tab', tab, known, claims, Excused)
    BY <1>t, <1>k, <1>17, <2>1
  <2> QED BY <1>t, <1>13, <1>17, <2>1, <2>2
<1>18. ASSUME NEW h \in H, Equal(n, c, h),
              tab' = [tab EXCEPT ![n] = Without(tab[n], {u, h})],
              chan' = Overruled(Kill(ch), n, m, h), killed' = killed \cup {u, h}
       PROVE  Goal
  <2>1. {u, h} \in SUBSET Excused /\ h \in User /\ h \in Excused
    BY <1>9, <1>18
  <2>2. Net(Kill(ch), tab', tab, known, claims, Excused) /\ tab' \in Tables
    BY <1>t, <1>k, <1>18, <2>1
  <2>3. Net(Overruled(Kill(ch), n, m, h), tab', tab, known, claims, Excused)
    BY <1>1, <1>3, <2>1, <2>2, NetOverruled
  <2> QED BY <1>t, <1>13, <1>18, <2>1, <2>3
<1>19. ASSUME NEW h \in H, Equal(n, c, h),
              tab' = [tab EXCEPT ![n] = Without(tab[n], {h})],
              chan' = Overruled(ch, n, m, h), killed' = killed \cup {h}
       PROVE  Goal
  <2>1. {h} \in SUBSET Excused /\ u \in Excused /\ h \in User /\ h \in Excused
    BY <1>9, <1>19
  <2>2. Net(ch, tab', tab, known, claims, Excused) /\ tab' \in Tables
    BY <1>t, <1>19, <2>1
  <2>3. Net(Overruled(ch, n, m, h), tab', tab, known, claims, Excused)
    BY <1>1, <1>3, <2>1, <2>2, NetOverruled
  <2> QED BY <1>t, <1>13, <1>19, <2>1, <2>3
<1>20. ASSUME NEW h \in H, ~Loses(n, m, c, h),
              tab' = [tab EXCEPT ![n] = [Without(tab[n], {h}) EXCEPT ![u] = At(c)]],
              chan' = Sent(Overruled(ch, n, m, h), n, Others(n, m), CHANGEMsg(c)),
              killed' = killed \cup {h}
       PROVE  Goal
  <2> DEFINE T == Without(tab[n], {h})
             ch2 == Overruled(ch, n, m, h)
  <2>1. h \in Excused /\ h \in User
    BY <1>9, <1>20
  <2>2. T \in [User -> Entry] /\ \A v \in User : T[v] = IF v = h THEN Gone ELSE tab[n][v]
    BY <1>11
  <2>3. ASSUME NEW tc \in Tables, \A a \in Server \ {n} : tc[a] = tab[a],
               u \notin Excused => tc[n][u] = At(c),
               \A v \in User \ Excused : v # u => tc[n][v] = tab[n][v]
        PROVE  Net(ch2, tc, tab, known, claims, Excused)
    <3>1. Net(ch, tc, tab, known, claims, Excused)
      BY <1>12, <2>3
    <3> QED BY <1>1, <1>3, <2>1, <3>1, NetOverruled
  <2>4. tab' = [tab EXCEPT ![n] = [T EXCEPT ![u] = At(c)]]
        /\ chan' = Sent(ch2, n, Others(n, m), CHANGEMsg(c))
    BY <1>20
  <2> HIDE DEF T, ch2
  <2>5. /\ \A v \in User : T[v] = tab[n][v] \/ T[v] = Gone
        /\ \A v \in User \ Excused : T[v] = tab[n][v]
    BY <2>1, <2>2
  <2>6. \A v \in User : v # u => T[v].nick # c.nick
    BY <1>4, <1>8, <1>10, <1>13, <2>2, NickConstants
  <2>7. /\ tab' \in Tables /\ OneEach(tab') /\ Entered(tab', known, claims)
        /\ Net(chan', tab', tab', known, claims, Excused)
    <3>1. Accepts(n, m, c, T, ch2)
      BY <2>4 DEF Accepts, u
    <3> QED BY <1>1, <1>3, <1>4, <1>5, <2>2, <2>3, <2>5, <2>6, <3>1, NetChanged DEF u
  <2> QED BY <1>13, <1>20, <2>1, <2>7
<1> QED
  BY <1>2, <1>15, <1>16, <1>17, <1>18, <1>19, <1>20


(* What all proofs about a line of m use.                                  *)
LEMMA LineFacts ==
    ASSUME NickInv, NEW n \in Server, NEW m \in Server, NEW t, Arrives(n, m, t),
           t \notin {"SERVER", "EOF"}
    PROVE  /\ chan[<<m, n>>] # <<>> /\ Head(chan[<<m, n>>]).type = t /\ m \in known[n] /\ tab \in Tables
           /\ m \in Adjacent(n) /\ Head(chan[<<m, n>>]) \in Msg
           /\ MsgOK(m, n, Head(chan[<<m, n>>]), claims, Excused)
           /\ \A v \in User \ Excused : From(n, v) = m =>
                 \E e \in Entry : Step(v, n, Head(chan[<<m, n>>]), tab[n][v], e)
           /\ Others(n, m) \subseteq Adjacent(n) \cap known[n]
           /\ killed \subseteq Excused /\ OneEach(tab) /\ Entered(tab, known, claims)
<1>1. /\ chan[<<m, n>>] # <<>> /\ Head(chan[<<m, n>>]).type = t /\ m \in known[n] /\ tab \in Tables
      /\ Net(chan, tab, tab, known, claims, Excused)
  BY DEF Arrives, NickInv, TypeOK, Tables
<1>2. /\ m \in Adjacent(n) /\ Head(chan[<<m, n>>]) \in Msg
      /\ MsgOK(m, n, Head(chan[<<m, n>>]), claims, Excused)
      /\ \A v \in User \ Excused : From(n, v) = m =>
            \E e \in Entry : Step(v, n, Head(chan[<<m, n>>]), tab[n][v], e)
  BY <1>1, HeadLine
<1>3. Others(n, m) \subseteq Adjacent(n) \cap known[n]
  BY DEF Others, Linked
<1> QED
  BY <1>1, <1>2, <1>3 DEF NickInv

(* The parts of the invariant that a line about users leaves to be shown.  *)
LEMMA SameKeeps ==
    ASSUME NickInv, Same, tab' \in Tables, OneEach(tab'), Entered(tab', known, claims),
           Net(chan', tab', tab', known, claims, Excused), killed' \subseteq Excused
    PROVE  NickInv'
<1>1. Excused' = Excused /\ UNCHANGED <<known, signed, claims, ousted, now, turns, losses, raced>>
  BY DEF Same, Excused
<1>2. /\ ousted' \subseteq User /\ now' \in 1..MaxNow /\ turns' \in 0..MaxTurn
      /\ losses' \in 0..MaxLoss /\ raced' \in BOOLEAN
  BY <1>1 DEF NickInv, TypeOK
<1> QED
  BY <1>1, <1>2, SameClaims

(* A user leaves the table of n.                                           *)
LEMMA TabWithout ==
    ASSUME NickInv, NEW n \in Server, NEW u, Keeps(n, Without(tab[n], {u}))
    PROVE  /\ tab' \in Tables /\ OneEach(tab') /\ Entered(tab', known, claims)
           /\ \A a \in Server \ {n} : tab'[a] = tab[a]
           /\ \A v \in User : tab'[n][v] = IF v = u THEN Gone ELSE tab[n][v]
<1> DEFINE T == Without(tab[n], {u})
<1>0. tab \in Tables /\ OneEach(tab) /\ Entered(tab, known, claims)
  BY DEF NickInv, TypeOK, Tables
<1>1. T \in [User -> Entry] /\ \A v \in User : T[v] = IF v = u THEN Gone ELSE tab[n][v]
  BY <1>0, NickConstants DEF Without, Tables, Entry, Gone
<1>2. tab' = [tab EXCEPT ![n] = T]
  BY DEF Keeps
<1> HIDE DEF T
<1>3. tab' \in Tables /\ OneEach(tab') /\ Entered(tab', known, claims)
  BY <1>0, <1>1, <1>2, TabThin
<1>4. tab'[n] = T /\ \A a \in Server \ {n} : tab'[a] = tab[a]
  BY <1>0, <1>2 DEF Tables
<1> QED
  BY <1>1, <1>3, <1>4

(* A user leaves.                                                          *)
LEMMA RecvQuitKeeps ==
    ASSUME NickInv, NEW n \in Server, NEW m \in Server, RecvQuit(n, m)
    PROVE  NickInv'
<1> DEFINE x == Head(chan[<<m, n>>])
           u == x.user
           ch == Parsed(m, n)
<1>1. Arrives(n, m, "QUIT") /\ Same /\ UNCHANGED killed
  BY DEF RecvQuit
<1>2. \/ (tab[n][u] = Gone \/ From(n, u) # m) /\ chan' = ch /\ tab' = tab
      \/ /\ From(n, u) = m /\ chan' = Sent(ch, n, Others(n, m), QUITMsg(u))
         /\ Keeps(n, Without(tab[n], {u}))
  BY DEF RecvQuit
<1>3. /\ x.type = "QUIT" /\ m \in known[n] /\ tab \in Tables /\ m \in Adjacent(n) /\ x \in Msg
      /\ killed \subseteq Excused /\ OneEach(tab) /\ Entered(tab, known, claims)
  BY <1>1, LineFacts
<1>4. u \in User
  BY <1>3, MsgFields
<1>5. ASSUME NEW v, NEW a, NEW e, Step(v, n, x, a, e)
      PROVE  e = IF v = u THEN Gone ELSE a
  BY <1>3, <1>5 DEF Step, ClaimsIn, Leaves
<1>6. CASE (tab[n][u] = Gone \/ From(n, u) # m) /\ chan' = ch /\ tab' = tab
  <2>1. \A v \in User \ Excused : From(n, v) = m =>
           \A e \in Entry : Step(v, n, x, tab[n][v], e) => e = tab[n][v]
    BY <1>5, <1>6
  <2>2. Net(ch, tab, tab, known, claims, Excused)
    BY <1>1, <1>3, <2>1, NetParsed
  <2>3. killed' \subseteq Excused
    BY <1>1, <1>3
  <2> HIDE DEF ch
  <2> QED BY <1>1, <1>3, <1>6, <2>2, <2>3, SameKeeps
<1>7. CASE /\ From(n, u) = m /\ chan' = Sent(ch, n, Others(n, m), QUITMsg(u))
           /\ Keeps(n, Without(tab[n], {u}))
  <2>1. /\ tab' \in Tables /\ OneEach(tab') /\ Entered(tab', known, claims)
        /\ \A a \in Server \ {n} : tab'[a] = tab[a]
        /\ \A v \in User : tab'[n][v] = IF v = u THEN Gone ELSE tab[n][v]
    BY <1>7, TabWithout
  <2>2. \A v \in User \ Excused : From(n, v) = m =>
           \A e \in Entry : Step(v, n, x, tab[n][v], e) => e = tab'[n][v]
    BY <1>5, <2>1
  <2>3. \A v \in User \ Excused : From(n, v) # m /\ From(n, v) # n => tab'[n][v] = tab[n][v]
    BY <1>7, <2>1
  <2>4. Net(ch, tab', tab, known, claims, Excused)
    BY <1>1, <1>3, <2>1, <2>2, <2>3, NetParsed
  <2>5. Others(n, m) = (Adjacent(n) \cap known[n]) \ {From(n, u)}
    BY <1>7 DEF Others, Linked
  <2>6. \A v \in User \ Excused : tab'[n][v] = IF v = u THEN Gone ELSE tab[n][v]
    BY <2>1
  <2> HIDE DEF ch, u
  <2>7. Net(Sent(ch, n, Others(n, m), QUITMsg(u)), tab', tab', known, claims, Excused)
    BY <1>3, <1>4, <2>1, <2>4, <2>5, <2>6, NetQuit
  <2>8. killed' \subseteq Excused
    BY <1>1, <1>3
  <2>9. Net(chan', tab', tab', known, claims, Excused)
    BY <1>7, <2>7
  <2> QED BY <1>1, <2>1, <2>8, <2>9, SameKeeps
<1> QED
  BY <1>2, <1>6, <1>7

(* A user is killed.                                                       *)
LEMMA RecvKillKeeps ==
    ASSUME NickInv, NEW n \in Server, NEW m \in Server, RecvKill(n, m)
    PROVE  NickInv'
<1> DEFINE x == Head(chan[<<m, n>>])
           u == x.user
           b == x.by
           ch == Parsed(m, n)
           d == Sent(ch, n, Others(n, m), KILLMsg(b, u))
<1>1. Arrives(n, m, "KILL") /\ Same /\ UNCHANGED killed
  BY DEF RecvKill
<1>2. \/ chan' = ch /\ tab' = tab
      \/ chan' = GhostFive(d, n, m, u) /\ Keeps(n, Without(tab[n], {u}))
  BY DEF RecvKill
<1>3. /\ x.type = "KILL" /\ m \in known[n] /\ tab \in Tables /\ m \in Adjacent(n) /\ x \in Msg
      /\ MsgOK(m, n, x, claims, Excused) /\ Others(n, m) \subseteq Adjacent(n) \cap known[n]
      /\ killed \subseteq Excused /\ OneEach(tab) /\ Entered(tab, known, claims)
  BY <1>1, LineFacts
<1>4. u \in User /\ b \in Server \cup Nick /\ u \in Excused
  BY <1>3, MsgFields DEF MsgOK
<1>5. ASSUME NEW v, NEW a, NEW e, Step(v, n, x, a, e)
      PROVE  e = a
  BY <1>3, <1>5 DEF Step, ClaimsIn, Leaves
<1>6. CASE chan' = ch /\ tab' = tab
  <2>1. Net(ch, tab, tab, known, claims, Excused)
    BY <1>1, <1>3, <1>5, NetParsed
  <2>3. killed' \subseteq Excused
    BY <1>1, <1>3
  <2> HIDE DEF ch
  <2> QED BY <1>1, <1>3, <1>6, <2>1, <2>3, SameKeeps
<1>7. CASE chan' = GhostFive(d, n, m, u) /\ Keeps(n, Without(tab[n], {u}))
  <2>1. /\ tab' \in Tables /\ OneEach(tab') /\ Entered(tab', known, claims)
        /\ \A a \in Server \ {n} : tab'[a] = tab[a]
        /\ \A v \in User : tab'[n][v] = IF v = u THEN Gone ELSE tab[n][v]
    BY <1>7, TabWithout
  <2>2. \A v \in User \ Excused : tab'[n][v] = tab[n][v]
    BY <1>4, <2>1
  <2>3. Net(ch, tab', tab, known, claims, Excused)
    BY <1>1, <1>3, <1>5, <2>1, <2>2, NetParsed
  <2> DEFINE y == KILLMsg(b, u)
             z == KILLMsg(n, u)
  <2>4. /\ y \in Msg /\ y.type = "KILL" /\ y.user = u
        /\ z \in Msg /\ z.type = "KILL" /\ z.user = u
    BY <1>4, MsgTypes
  <2> HIDE DEF ch, u, b, x
  <2>5. Net(Sent(ch, n, Others(n, m), y), tab', tab, known, claims, Excused)
    <3> HIDE DEF y
    <3> QED BY <1>3, <1>4, <2>1, <2>3, <2>4, NetExcused
  <2>6. Net(Sent(d, n, {m}, z), tab', tab, known, claims, Excused)
    <3>1. Net(d, tab', tab, known, claims, Excused)
      BY <2>5
    <3>2. {m} \subseteq Adjacent(n) \cap known[n]
      BY <1>3
    <3> HIDE DEF d, z
    <3> QED BY <1>3, <1>4, <2>1, <2>4, <3>1, <3>2, NetExcused
  <2> HIDE DEF d
  <2>7. Net(chan', tab', tab, known, claims, Excused)
    BY <1>7, <2>5, <2>6 DEF GhostFive, d
  <2>8. Net(chan', tab', tab', known, claims, Excused)
    BY <2>1, <2>2, <2>7, NetWeaken
  <2>9. killed' \subseteq Excused
    BY <1>1, <1>3
  <2> QED BY <1>1, <2>1, <2>8, <2>9, SameKeeps
<1> QED
  BY <1>2, <1>6, <1>7

-----------------------------------------------------------------------------
(* Links.                                                                  *)

(* The parts of the invariant that a line about servers leaves to be shown. *)
LEMMA LinkKeeps ==
    ASSUME NickInv, UNCHANGED <<signed, now, turns, claims, killed, ousted>>,
           losses' \in 0..MaxLoss, raced' \in BOOLEAN,
           known' \in [Server -> SUBSET Server], Knows(known'),
           tab' \in Tables, OneEach(tab'), Entered(tab', known', claims),
           Net(chan', tab', tab', known', claims, Excused)
    PROVE  NickInv'
<1>1. Excused' = Excused
  BY DEF Excused
<1>2. TypeOK'
  BY DEF NickInv, TypeOK, Net, Chans, Queue, Tables
<1> QED
  BY <1>1, <1>2 DEF NickInv

\* One link changes: its queues are now q and r; whether n knows of m, and the
\* users that n has from there, may change with them.
Relinked(c, d, tb, tc, en, kn, kk, cl, ex, n, m, q, r) ==
    /\ Net(c, tb, en, kn, cl, ex)
    /\ \A a, b \in Server : d[<<a, b>>] = IF a = m /\ b = n THEN q
                                         ELSE IF a = n /\ b = m THEN r ELSE c[<<a, b>>]
    /\ \A a \in Server : \A b \in Adjacent(a) : ~(a = n /\ b = m) => (b \in kn[a] <=> b \in kk[a])
    /\ \A a \in Server, u \in User \ ex :
          From(a, u) # a /\ ~(a = n /\ From(a, u) = m) => tc[a][u] = tb[a][u]
    /\ Phase(m, n, q, r, kk[n], kk[m])
    /\ \A i \in 1..Len(q) : MsgOK(m, n, q[i], cl, ex)
    /\ \A i \in 1..Len(r) : MsgOK(n, m, r[i], cl, ex)
    /\ \A u \in User \ ex : From(n, u) = m => Flow(q, r, u, n, tc[n][u], Told(n, u, en[m], kk[m]))
    /\ \A u \in User \ ex : From(m, u) = n => Flow(r, q, u, m, tc[m][u], Told(m, u, en[n], kk[n]))

(* The other links do not mind.                                            *)
LEMMA NetLink ==
    ASSUME NEW c, NEW d \in Chans, NEW tb \in Tables, NEW tc \in Tables, NEW en, NEW kn, NEW kk,
           NEW cl, NEW ex, NEW n \in Server, NEW m \in Adjacent(n), NEW q \in Queue, NEW r \in Queue,
           Relinked(c, d, tb, tc, en, kn, kk, cl, ex, n, m, q, r)
    PROVE  Net(d, tc, en, kk, cl, ex)
<1> USE DEF Relinked
<1>0. m \in Server /\ n # m /\ n \in Adjacent(m)
  BY Sides
<1>1. d[<<m, n>>] = q /\ d[<<n, m>>] = r
  BY <1>0
<1>2. Phases(d, kk)
  <2>1. ASSUME NEW a \in Server, NEW b \in Server, a \notin Adjacent(b)
        PROVE  d[<<a, b>>] = <<>>
    <3>1. c[<<a, b>>] = <<>>
      BY <2>1 DEF Net, Phases
    <3> QED BY <1>0, <2>1, <3>1
  <2>2. ASSUME NEW b \in Server, NEW a \in Adjacent(b)
        PROVE  Phase(a, b, d[<<a, b>>], d[<<b, a>>], kk[b], kk[a])
    <3>0. a \in Server /\ a # b /\ b \in Adjacent(a) /\ Phase(a, b, c[<<a, b>>], c[<<b, a>>], kn[b], kn[a])
      BY Sides DEF Net, Phases
    <3>1. CASE a = m /\ b = n
      BY <1>1, <3>1
    <3>2. CASE a = n /\ b = m
      <4>1. Phase(n, m, r, q, kk[m], kk[n])
        BY PhaseTurns
      <4> QED BY <1>1, <3>2, <4>1
    <3>3. CASE ~(a = m /\ b = n) /\ ~(a = n /\ b = m)
      <4>1. d[<<b, a>>] = c[<<b, a>>] /\ d[<<a, b>>] = c[<<a, b>>]
        BY <3>0, <3>3
      <4>2. (a \in kn[b] <=> a \in kk[b]) /\ (b \in kn[a] <=> b \in kk[a])
        BY <3>0, <3>3
      <4> QED BY <3>0, <4>1, <4>2 DEF Phase, Calling, Half, Closed
    <3> QED BY <3>1, <3>2, <3>3
  <2> QED BY <2>1, <2>2 DEF Phases
<1>3. Msgs(d, cl, ex)
  <2> SUFFICES ASSUME NEW a \in Server, NEW b \in Server, NEW i \in 1..Len(d[<<a, b>>])
               PROVE  MsgOK(a, b, d[<<a, b>>][i], cl, ex)
    BY Zenon DEF Msgs
  <2>1. CASE a = m /\ b = n
    BY <1>1, <2>1
  <2>2. CASE a = n /\ b = m
    BY <1>1, <2>2
  <2>3. CASE ~(a = m /\ b = n) /\ ~(a = n /\ b = m)
    <3>1. d[<<a, b>>] = c[<<a, b>>]
      BY <2>3
    <3> QED BY <3>1 DEF Net, Msgs
  <2> QED BY <2>1, <2>2, <2>3
<1>4. Flows(d, tc, en, kk, ex)
  <2> SUFFICES ASSUME NEW b \in Server, NEW a \in Adjacent(b), NEW u \in User \ ex, From(b, u) = a
               PROVE  Flow(d[<<a, b>>], d[<<b, a>>], u, b, tc[b][u], Told(b, u, en[a], kk[a]))
    BY DEF Flows
  <2>0. a \in Server /\ a # b /\ b \in Adjacent(a)
        /\ Flow(c[<<a, b>>], c[<<b, a>>], u, b, tb[b][u], Told(b, u, en[a], kn[a]))
    BY Sides DEF Net, Flows
  <2>1. CASE a = m /\ b = n
    BY <1>1, <2>1
  <2>2. CASE a = n /\ b = m
    BY <1>1, <2>2
  <2>3. CASE ~(a = m /\ b = n) /\ ~(a = n /\ b = m)
    <3>1. d[<<b, a>>] = c[<<b, a>>] /\ d[<<a, b>>] = c[<<a, b>>]
      BY <2>0, <2>3
    <3>2. Told(b, u, en[a], kk[a]) = Told(b, u, en[a], kn[a]) /\ tc[b][u] = tb[b][u]
      BY <2>0, <2>3 DEF Told
    <3> QED BY <2>0, <3>1, <3>2
  <2> QED BY <2>1, <2>2, <2>3
<1> QED
  BY <1>2, <1>3, <1>4 DEF Net

(* What lies beyond a server is left by no hop from this side of it.       *)
LEMMA BeyondClosed ==
    ASSUME NEW n \in Server, NEW s \in Server, s # n
    PROVE  /\ n \notin Beyond(n, s)
           /\ \A t \in Server : t \notin Beyond(n, s) => Hop[n][t] \notin Beyond(n, s)
           /\ \A t \in Beyond(n, s) : t \in Server /\ Hop[n][t] = Hop[n][s]
<1> DEFINE m == Hop[n][s]
<1>1. m \in Adjacent(n) /\ Hop[n][n] = n
  BY HopIsTree, NickConstants DEF Adjacent
<1>2. ASSUME NEW t \in Server PROVE Hop[n][t] = n \/ Hop[n][t] \in Adjacent(n)
  <2>1. Hop[n][t] \in Server /\ (t # n => Hop[n][t] # n /\ Hop[n][Hop[n][t]] = Hop[n][t])
    BY HopIsTree, NickConstants
  <2> QED BY <1>1, <2>1 DEF Adjacent
<1>3. CASE s = m
  <2>1. \A t \in Server : t \in Beyond(n, s) <=> Hop[n][t] = m
    BY <1>1, <1>3, BeyondNeighbour
  <2>2. \A t \in Server : Hop[n][t] \in Server /\ Hop[n][Hop[n][t]] = Hop[n][t]
    BY HopIsTree, NickConstants
  <2>3. Beyond(n, s) \subseteq Server
    BY DEF Beyond
  <2>4. n # m
    BY <1>1 DEF Adjacent
  <2> QED BY <1>1, <2>1, <2>2, <2>3, <2>4
<1>4. CASE s # m
  <2>1. /\ \A t \in Beyond(n, s) : t \in Server /\ Hop[n][t] = m /\ t # m
        /\ \A j \in Adjacent(n) : j \notin Beyond(n, s)
        /\ n \notin Beyond(n, s)
    <3> HIDE DEF m
    <3> QED BY <1>1, <1>4, BeyondFar DEF m
  <2> QED BY <1>2, <2>1
<1> QED
  BY <1>3, <1>4

(* What is left at n when s goes.                                          *)
LEMMA DroppedTab ==
    ASSUME NickInv, NEW n \in Server, NEW s \in Server, s # n, Dropped(n, s)
    PROVE  /\ tab' \in Tables /\ OneEach(tab') /\ Entered(tab', known', claims)
           /\ known' \in [Server -> SUBSET Server] /\ Knows(known')
           /\ known'[n] = known[n] \ Beyond(n, s)
           /\ \A a \in Server \ {n} : tab'[a] = tab[a] /\ known'[a] = known[a]
           /\ \A v \in User : tab'[n][v] = IF Home[v] \in Beyond(n, s) THEN Gone ELSE tab[n][v]
<1> DEFINE U == UsersOf(Beyond(n, s))
           T == Without(tab[n], U)
<1>0. tab \in Tables /\ OneEach(tab) /\ Entered(tab, known, claims) /\ Knows(known)
      /\ known \in [Server -> SUBSET Server]
  BY DEF NickInv, TypeOK, Tables
<1>1. T \in [User -> Entry] /\ \A v \in User : T[v] = IF Home[v] \in Beyond(n, s) THEN Gone ELSE tab[n][v]
  BY <1>0, NickConstants DEF Without, UsersOf, Tables, Entry, Gone
<1>2. tab' = [tab EXCEPT ![n] = T] /\ known' = [known EXCEPT ![n] = @ \ Beyond(n, s)]
  BY DEF Dropped, Keeps
<1> HIDE DEF T, U
<1>3. tab' \in Tables /\ OneEach(tab') /\ Entered(tab', known, claims)
  BY <1>0, <1>1, <1>2, TabThin
<1>4. /\ known' \in [Server -> SUBSET Server] /\ known'[n] = known[n] \ Beyond(n, s)
      /\ \A a \in Server \ {n} : tab'[a] = tab[a] /\ known'[a] = known[a]
      /\ tab'[n] = T
  BY <1>0, <1>2 DEF Tables
<1>5. /\ n \notin Beyond(n, s)
      /\ \A t \in Server : t \notin Beyond(n, s) => Hop[n][t] \notin Beyond(n, s)
  BY BeyondClosed
<1>6. Knows(known')
  <2> SUFFICES ASSUME NEW a \in Server
               PROVE  a \in known'[a] /\ \A t \in known'[a] : Hop[a][t] \in known'[a]
    BY DEF Knows
  <2>1. a \in known[a] /\ \A t \in known[a] : t \in Server /\ Hop[a][t] \in known[a]
    BY <1>0 DEF Knows
  <2>2. CASE a = n
    BY <1>4, <1>5, <2>1, <2>2
  <2>3. CASE a # n
    BY <1>4, <2>1, <2>3
  <2> QED BY <2>2, <2>3
<1>7. Entered(tab', known', claims)
  <2> SUFFICES ASSUME NEW a \in Server, NEW u \in User, tab'[a][u] # Gone
               PROVE  From(a, u) \in known'[a]
    BY <1>3 DEF Entered
  <2>1. From(a, u) \in known[a]
    BY <1>3 DEF Entered
  <2>2. CASE a = n
    <3>1. Home[u] \in Server /\ Home[u] \notin Beyond(n, s)
      BY <1>1, <1>4, <2>2, NickConstants
    <3> QED BY <1>4, <1>5, <2>1, <2>2, <3>1 DEF From
  <2>3. CASE a # n
    BY <1>4, <2>1, <2>3
  <2> QED BY <2>2, <2>3
<1> QED
  BY <1>1, <1>3, <1>4, <1>6, <1>7

(* A server behind m.                                                      *)
LEMMA RecvINTROKeeps ==
    ASSUME NickInv, NEW n \in Server, NEW m \in Server, RecvINTRO(n, m)
    PROVE  NickInv'
<1> DEFINE x == Head(chan[<<m, n>>])
           ch == Parsed(m, n)
<1>1. /\ Arrives(n, m, "INTRO") /\ known' = [known EXCEPT ![n] = @ \cup x.servers]
      /\ chan' = Sent(ch, n, Others(n, m), x)
      /\ UNCHANGED <<tab, signed, now, turns, losses, claims, killed, ousted, raced>>
  BY DEF RecvINTRO
<1>2. /\ x.type = "INTRO" /\ m \in known[n] /\ tab \in Tables /\ m \in Adjacent(n) /\ x \in Msg
      /\ MsgOK(m, n, x, claims, Excused) /\ Others(n, m) \subseteq Adjacent(n) \cap known[n]
      /\ OneEach(tab) /\ Entered(tab, known, claims)
  BY <1>1, LineFacts
<1>3. x.servers \subseteq Server /\ \A s \in x.servers : s # m /\ Hop[n][s] = m
  BY <1>2, MsgFields DEF MsgOK
<1>4. \A v \in User, e \in Entry : Step(v, n, x, tab[n][v], e) => e = tab[n][v]
  BY <1>2 DEF Step, ClaimsIn, Leaves
<1>5. Net(ch, tab, tab, known, claims, Excused)
  BY <1>1, <1>2, <1>4, NetParsed
<1> HIDE DEF x, ch
<1>6. known \in [Server -> SUBSET Server] /\ Knows(known)
  BY DEF NickInv, TypeOK
<1>7. /\ known' \in [Server -> SUBSET Server] /\ known'[n] = known[n] \cup x.servers
      /\ \A a \in Server \ {n} : known'[a] = known[a]
  BY <1>1, <1>3, <1>6
<1>8. \A a \in Server : \A j \in Adjacent(a) : j \in known[a] <=> j \in known'[a]
  <2> SUFFICES ASSUME NEW j \in Adjacent(n) PROVE j \notin x.servers
    BY <1>7
  <2> QED BY <1>3 DEF Adjacent
<1>9. Net(ch, tab, tab, known', claims, Excused)
  BY <1>5, <1>8, NetWeaken
<1>10. Net(Sent(ch, n, Others(n, m), x), tab, tab, known', claims, Excused)
  <2>1. ASSUME NEW j \in Others(n, m), NEW s \in x.servers
        PROVE  s # n /\ Hop[j][s] = n
    <3>1. j \in Adjacent(n) /\ j # m /\ s \in Server /\ Hop[n][s] = m
      BY <1>3 DEF Others, Linked
    <3> QED BY <1>2, <3>1, Sides
  <2>2. Others(n, m) \subseteq Adjacent(n) \cap known'[n]
    BY <1>2, <1>7
  <2> QED BY <1>2, <1>9, <2>1, <2>2, NetIntro
<1>11. Knows(known')
  <2> SUFFICES ASSUME NEW a \in Server
               PROVE  a \in known'[a] /\ \A t \in known'[a] : Hop[a][t] \in known'[a]
    BY DEF Knows
  <2>1. a \in known[a] /\ \A t \in known[a] : Hop[a][t] \in known[a]
    BY <1>6 DEF Knows
  <2> QED BY <1>2, <1>3, <1>7, <2>1
<1>12. Entered(tab, known', claims)
  BY <1>2, <1>7 DEF Entered
<1>13. losses' \in 0..MaxLoss /\ raced' \in BOOLEAN /\ tab' = tab
  BY <1>1 DEF NickInv, TypeOK
<1>14. Net(chan', tab', tab', known', claims, Excused)
  BY <1>1, <1>10, <1>13
<1> QED
  BY <1>1, <1>2, <1>7, <1>11, <1>12, <1>13, <1>14, LinkKeeps

(* The loss of a server behind m.                                          *)
LEMMA RecvSQUITKeeps ==
    ASSUME NickInv, NEW n \in Server, NEW m \in Server, RecvSQUIT(n, m)
    PROVE  NickInv'
<1> DEFINE x == Head(chan[<<m, n>>])
           ch == Parsed(m, n)
<1>1. /\ Arrives(n, m, "SQUIT")
      /\ UNCHANGED <<signed, now, turns, losses, claims, killed, ousted, raced>>
  BY DEF RecvSQUIT
<1>2. /\ x.type = "SQUIT" /\ m \in known[n] /\ tab \in Tables /\ m \in Adjacent(n) /\ x \in Msg
      /\ MsgOK(m, n, x, claims, Excused) /\ OneEach(tab) /\ Entered(tab, known, claims)
  BY <1>1, LineFacts
<1>3. PICK s \in x.servers : Dropped(n, s) /\ chan' = Sent(ch, n, Others(n, m), SQUITMsg(s))
  BY DEF RecvSQUIT, Squitted
<1>4. x.servers = {s} /\ s \in Server /\ s # m /\ Hop[n][s] = m
  BY <1>2, <1>3 DEF MsgOK
<1>5. s # n
  BY <1>2, <1>4, HopIsTree DEF Adjacent
<1>6. /\ tab' \in Tables /\ OneEach(tab') /\ Entered(tab', known', claims)
      /\ known' \in [Server -> SUBSET Server] /\ Knows(known')
      /\ known'[n] = known[n] \ Beyond(n, s)
      /\ \A a \in Server \ {n} : tab'[a] = tab[a] /\ known'[a] = known[a]
      /\ \A v \in User : tab'[n][v] = IF Home[v] \in Beyond(n, s) THEN Gone ELSE tab[n][v]
  BY <1>3, <1>4, <1>5, DroppedTab
<1>7. /\ \A t \in Beyond(n, s) : t \in Server /\ Hop[n][t] = m /\ t # m
      /\ \A j \in Adjacent(n) : j \notin Beyond(n, s)
  BY <1>2, <1>4, BeyondFar
<1>8. ASSUME NEW v \in User, NEW e, Step(v, n, x, tab[n][v], e)
      PROVE  e = tab'[n][v]
  <2>1. ClaimsIn(x) = {} /\ (Leaves(v, n, x) <=> Home[v] \in Beyond(n, s))
    BY <1>2, <1>4 DEF ClaimsIn, Leaves
  <2> QED BY <1>2, <1>6, <1>8, <2>1 DEF Step
<1>9. \A v \in User \ Excused : From(n, v) # m /\ From(n, v) # n => tab'[n][v] = tab[n][v]
  BY <1>6, <1>7 DEF From
<1>10. Net(ch, tab', tab, known, claims, Excused)
  BY <1>1, <1>2, <1>6, <1>8, <1>9, NetParsed
<1> HIDE DEF x, ch
<1>11. Net(ch, tab', tab, known', claims, Excused)
  <2>1. \A a \in Server : \A j \in Adjacent(a) : j \in known[a] <=> j \in known'[a]
    BY <1>6, <1>7
  <2> QED BY <1>10, <2>1, NetWeaken
<1>12. Others(n, m) = (Adjacent(n) \cap known'[n]) \ {Hop[n][s]}
  BY <1>4, <1>6, <1>7 DEF Others, Linked
<1>13. \A v \in User \ Excused : tab'[n][v] = IF Home[v] \in Beyond(n, s) THEN Gone ELSE tab[n][v]
  BY <1>6
<1>14. Net(Sent(ch, n, Others(n, m), SQUITMsg(s)), tab', tab', known', claims, Excused)
  BY <1>2, <1>4, <1>5, <1>6, <1>11, <1>12, <1>13, NetSquit
<1>15. losses' \in 0..MaxLoss /\ raced' \in BOOLEAN
  BY <1>1 DEF NickInv, TypeOK
<1>16. Net(chan', tab', tab', known', claims, Excused)
  BY <1>3, <1>14
<1> QED
  BY <1>1, <1>6, <1>15, <1>16, LinkKeeps

(* The end of a queue: what follows it is never read.                      *)
LEMMA PathEnd ==
    ASSUME NEW u, NEW n, NEW a \in Entry
    PROVE  /\ Path(<<EOFMsg>>, u, n, a, a)
           /\ \A q \in Queue, z \in Entry : Path(q, u, n, a, z) => Path(Append(q, EOFMsg), u, n, a, z)
<1>1. EOFMsg \in Msg /\ EOFMsg.type = "EOF"
  BY MsgTypes
<1>2. \A z : Step(u, n, EOFMsg, z, z)
  BY <1>1 DEF Step, ClaimsIn, Leaves
<1>3. ASSUME NEW q \in Queue, NEW z \in Entry, Path(q, u, n, a, z)
      PROVE  Path(Append(q, EOFMsg), u, n, a, z)
  <2> HIDE DEF Path
  <2> QED BY <1>1, <1>2, <1>3, PathAppend DEF Queue
<1>4. Path(<<>>, u, n, a, a) /\ <<>> \in Queue /\ Append(<<>>, EOFMsg) = <<EOFMsg>>
  BY <1>1, PathEmpty DEF Queue
<1> QED
  BY <1>3, <1>4

(* n closes the link to m.                                                 *)
LEMMA NetClosed ==
    ASSUME NickInv, NEW n \in Server, NEW m \in Adjacent(n), m \in known[n], Dropped(n, m),
           NEW d \in Chans, NEW w \in Queue,
           \A a, b \in Server : d[<<a, b>>] = IF a = m /\ b = n THEN <<>>
                                              ELSE IF a = n /\ b = m THEN w ELSE chan[<<a, b>>],
           \/ n \notin known[m] /\ w = <<>>
           \/ n \in known[m] /\ (w = <<EOFMsg>> \/ w = Append(chan[<<n, m>>], EOFMsg))
    PROVE  /\ Net(Sent(d, n, Others(n, m), SQUITMsg(m)), tab', tab', known', claims, Excused)
           /\ tab' \in Tables /\ OneEach(tab') /\ Entered(tab', known', claims)
           /\ known' \in [Server -> SUBSET Server] /\ Knows(known')
<1> DEFINE o == chan[<<n, m>>]
<1>0. /\ m \in Server /\ n # m /\ n \in Adjacent(m) /\ Hop[n][m] = m
      /\ tab \in Tables /\ Net(chan, tab, tab, known, claims, Excused)
      /\ Entered(tab, known, claims) /\ Gone \in Entry
  BY Sides, NickConstants DEF NickInv, TypeOK, Tables, Gone, Entry
<1>1. /\ tab' \in Tables /\ OneEach(tab') /\ Entered(tab', known', claims)
      /\ known' \in [Server -> SUBSET Server] /\ Knows(known')
      /\ known'[n] = known[n] \ Beyond(n, m)
      /\ \A a \in Server \ {n} : tab'[a] = tab[a] /\ known'[a] = known[a]
      /\ \A v \in User : tab'[n][v] = IF Home[v] \in Beyond(n, m) THEN Gone ELSE tab[n][v]
  BY <1>0, DroppedTab
<1>2. \A t \in Server : t \in Beyond(n, m) <=> Hop[n][t] = m
  BY BeyondNeighbour
<1>3. m \notin known'[n] /\ \A j \in Adjacent(n) : j # m => (j \in known'[n] <=> j \in known[n])
  BY <1>0, <1>1, <1>2 DEF Adjacent
<1>4. \A v \in User : tab'[n][v] = IF From(n, v) = m THEN Gone ELSE tab[n][v]
  BY <1>1, <1>2, NickConstants DEF From
<1>5. o \in Queue /\ EOFMsg \in Msg /\ EOFMsg.type = "EOF"
  BY <1>0, MsgTypes DEF Net, Chans
<1>6. n \in known[m] => Plain(o) /\ Plain(chan[<<m, n>>])
  <2>1. Phase(m, n, chan[<<m, n>>], o, known[n], known[m])
    BY <1>0 DEF Net, Phases
  <2> QED BY <2>1 DEF Phase, Calling, Half, Closed
<1>7. /\ n \in known[m] => /\ w # <<>> /\ w[Len(w)] = EOFMsg
                           /\ \A i \in 1..(Len(w) - 1) : w[i].type \notin {"SERVER", "EOF"}
                           /\ \A i \in 1..(Len(w) - 1) : i \in 1..Len(o) /\ w[i] = o[i]
                           /\ Len(w) \in Nat \ {0}
      /\ Holds(w, "EOF") <=> n \in known[m]
  <2>1. CASE w = <<>> /\ n \notin known[m]
    BY <2>1 DEF Holds
  <2>2. CASE w = <<EOFMsg>> /\ n \in known[m]
    BY <1>5, <2>2 DEF Holds
  <2>3. CASE w = Append(o, EOFMsg) /\ n \in known[m]
    <3> HIDE DEF o
    <3>1. /\ Len(o) \in Nat /\ Len(w) = Len(o) + 1 /\ w # <<>>
          /\ \A i \in 1..Len(o) : w[i] = o[i]
          /\ w[Len(o) + 1] = EOFMsg /\ Holds(w, "EOF")
      BY <1>5, <2>3, AppendQueue
    <3>2. \A i \in 1..(Len(w) - 1) : i \in 1..Len(o) /\ w[i] = o[i]
      BY <3>1
    <3>3. \A i \in 1..Len(o) : o[i].type \notin {"SERVER", "EOF"}
      BY <1>6, <2>3 DEF Plain, Holds
    <3> QED BY <2>3, <3>1, <3>2, <3>3
  <2> QED BY <2>1, <2>2, <2>3
<1>8. Phase(m, n, <<>>, w, known'[n], known'[m])
  <2>1. known'[m] = known[m]
    BY <1>0, <1>1
  <2>2. Plain(<<>>)
    BY DEF Plain, Holds
  <2>3. CASE n \in known[m]
    BY <1>3, <1>7, <2>1, <2>2, <2>3 DEF Phase, Closed
  <2>4. CASE n \notin known[m]
    BY <1>3, <2>1, <2>4 DEF Phase
  <2> QED BY <2>3, <2>4
<1>9. \A i \in 1..Len(w) : MsgOK(n, m, w[i], claims, Excused)
  <2> SUFFICES ASSUME NEW i \in 1..Len(w) PROVE MsgOK(n, m, w[i], claims, Excused)
    OBVIOUS
  <2>1. \A k \in 1..Len(o) : MsgOK(n, m, o[k], claims, Excused)
    BY <1>0 DEF Net, Msgs
  <2>2. MsgOK(n, m, EOFMsg, claims, Excused)
    BY <1>5 DEF MsgOK, ClaimsIn
  <2>3. n \in known[m]
    <3>1. w = <<>> => 1..Len(w) = {}
      OBVIOUS
    <3> QED BY <3>1
  <2> HIDE DEF o
  <2>4. i = Len(w) \/ i \in 1..(Len(w) - 1)
    BY <1>7, <2>3
  <2> QED BY <1>7, <2>1, <2>2, <2>3, <2>4
<1>10. ASSUME NEW v \in User \ Excused, From(n, v) = m
       PROVE  Flow(<<>>, w, v, n, tab'[n][v], Told(n, v, tab[m], known'[m]))
  <2>1. tab'[n][v] = Gone /\ known'[m] = known[m]
    BY <1>0, <1>1, <1>4, <1>10
  <2>2. CASE n \in known[m]
    BY <1>7, <2>2 DEF Flow
  <2>3. CASE n \notin known[m]
    <3>1. Told(n, v, tab[m], known'[m]) = Gone
      BY <2>1, <2>3 DEF Told
    <3>2. Path(<<>>, v, n, Gone, Gone)
      BY <1>0, PathEmpty
    <3> QED BY <1>0, <2>1, <3>1, <3>2 DEF Flow
  <2> QED BY <2>2, <2>3
<1>11. ASSUME NEW v \in User \ Excused, From(m, v) = n
       PROVE  Flow(w, <<>>, v, m, tab'[m][v], Told(m, v, tab[n], known'[n]))
  <2>1. Told(m, v, tab[n], known'[n]) = Gone /\ tab'[m] = tab[m] /\ tab[m][v] \in Entry
    BY <1>0, <1>1, <1>3 DEF Told, Tables
  <2>2. CASE n \in known[m]
    <3>1. \E z \in Entry : Path(w, v, m, tab[m][v], z)
      <4>1. CASE w = <<EOFMsg>>
        BY <2>1, <4>1, PathEnd
      <4>2. CASE w = Append(o, EOFMsg)
        <5>1. Flow(o, chan[<<m, n>>], v, m, tab[m][v], Told(m, v, tab[n], known[n]))
          BY <1>0, <1>11 DEF Net, Flows
        <5>2. PICK z \in Entry : Path(o, v, m, tab[m][v], z)
          BY <1>6, <2>2, <5>1 DEF Flow, Plain
        <5> HIDE DEF o
        <5> QED BY <1>5, <2>1, <4>2, <5>2, PathEnd
      <4> QED BY <2>2, <4>1, <4>2
    <3> QED BY <1>7, <2>1, <2>2, <3>1 DEF Flow
  <2>3. CASE n \notin known[m]
    <3>1. tab[m][v] = Gone
      BY <1>0, <1>11, <2>3 DEF Entered
    <3>2. Path(<<>>, v, m, Gone, Gone)
      BY <1>0, PathEmpty
    <3> QED BY <1>0, <2>1, <2>3, <3>1, <3>2 DEF Flow
  <2> QED BY <2>2, <2>3
<1>12. Net(d, tab', tab, known', claims, Excused)
  <2>1. <<>> \in Queue /\ \A i \in 1..Len(<<>>) : MsgOK(m, n, <<>>[i], claims, Excused)
    BY DEF Queue
  <2>2. \A a \in Server : \A b \in Adjacent(a) : ~(a = n /\ b = m) => (b \in known[a] <=> b \in known'[a])
    BY <1>1, <1>3
  <2>3. \A a \in Server, v \in User \ Excused :
               From(a, v) # a /\ ~(a = n /\ From(a, v) = m) => tab'[a][v] = tab[a][v]
    BY <1>1, <1>4
  <2>4. Relinked(chan, d, tab, tab', tab, known, known', claims, Excused, n, m, <<>>, w)
    BY <1>0, <1>8, <1>9, <1>10, <1>11, <2>1, <2>2, <2>3 DEF Relinked
  <2> QED BY <1>0, <1>1, <2>1, <2>4, NetLink
<1>13. Others(n, m) = (Adjacent(n) \cap known'[n]) \ {Hop[n][m]}
  BY <1>0, <1>3 DEF Others, Linked
<1>14. Net(Sent(d, n, Others(n, m), SQUITMsg(m)), tab', tab', known', claims, Excused)
  BY <1>0, <1>1, <1>12, <1>13, NetSquit
<1> QED
  BY <1>1, <1>14

Requeued(c, n, m, q) == [c EXCEPT ![<<n, m>>] = q]

(* Another queue for a link, and for both its ways.                        *)
LEMMA OneQueue ==
    ASSUME NEW c \in Chans, NEW n \in Server, NEW m \in Server, NEW q \in Queue
    PROVE  /\ Requeued(c, n, m, q) \in Chans
           /\ \A a, b \in Server : Requeued(c, n, m, q)[<<a, b>>] =
                IF a = n /\ b = m THEN q ELSE c[<<a, b>>]
BY DEF Chans, Requeued

LEMMA SameQueues ==
    ASSUME NEW c \in Chans, NEW d \in Chans, \A a, b \in Server : c[<<a, b>>] = d[<<a, b>>]
    PROVE  c = d
<1>1. \A p \in Server \X Server : c[p] = d[p]
  OBVIOUS
<1> QED
  BY <1>1 DEF Chans

LEMMA TwoQueues ==
    ASSUME NEW c \in Chans, NEW n \in Server, NEW m \in Server, NEW q \in Queue, NEW r \in Queue,
           n # m
    PROVE  /\ Requeued(Requeued(c, n, m, q), m, n, r) \in Chans
           /\ \A a, b \in Server : Requeued(Requeued(c, n, m, q), m, n, r)[<<a, b>>] =
                IF a = n /\ b = m THEN q ELSE IF a = m /\ b = n THEN r ELSE c[<<a, b>>]
<1> DEFINE e == Requeued(c, n, m, q)
<1>1. /\ e \in Chans
      /\ \A a, b \in Server : e[<<a, b>>] = IF a = n /\ b = m THEN q ELSE c[<<a, b>>]
  BY OneQueue
<1> HIDE DEF e
<1>3. /\ Requeued(e, m, n, r) \in Chans
      /\ \A a, b \in Server : Requeued(e, m, n, r)[<<a, b>>] = IF a = m /\ b = n THEN r ELSE e[<<a, b>>]
  BY <1>1, OneQueue
<1> QED
  BY <1>1, <1>3 DEF e

(* n closes the link to m of its own.                                      *)
LEMMA LinkLossKeeps ==
    ASSUME NickInv, NEW n \in Server, NEW m \in Server, LinkLoss(n, m)
    PROVE  NickInv'
<1>1. /\ m \in Linked(n) /\ Dropped(n, m) /\ losses < MaxLoss /\ losses' = losses + 1
      /\ raced' = (raced \/ InFlight)
      /\ UNCHANGED <<signed, now, turns, claims, killed, ousted>>
  BY DEF LinkLoss
<1>2. m \in Adjacent(n) /\ m \in known[n] /\ n # m /\ chan \in Chans
  BY <1>1 DEF Linked, Adjacent, NickInv, Net
<1>3. PICK lossy \in BOOLEAN :
        chan' = Squitted([chan EXCEPT
                    ![<<n, m>>] = IF n \notin known[m] THEN <<>>
                                  ELSE Append(IF lossy THEN <<>> ELSE @, EOFMsg),
                    ![<<m, n>>] = <<>>], n, m, m)
  BY DEF LinkLoss
<1> DEFINE o == chan[<<n, m>>]
           w == IF n \notin known[m] THEN <<>> ELSE Append(IF lossy THEN <<>> ELSE o, EOFMsg)
           d == Requeued(Requeued(chan, n, m, w), m, n, <<>>)
<1>4. chan' = Sent(d, n, Others(n, m), SQUITMsg(m))
  BY <1>3 DEF Squitted, Requeued
<1>5. w \in Queue /\ (\/ n \notin known[m] /\ w = <<>>
                      \/ n \in known[m] /\ (w = <<EOFMsg>> \/ w = Append(o, EOFMsg)))
  <2>1. o \in Queue /\ EOFMsg \in Msg /\ <<>> \in Queue
    BY <1>2, MsgTypes DEF Chans, Queue
  <2>2. Append(o, EOFMsg) \in Queue /\ Append(<<>>, EOFMsg) = <<EOFMsg>> /\ <<EOFMsg>> \in Queue
    <3> HIDE DEF o
    <3> QED BY <2>1 DEF Queue
  <2> QED BY <2>1, <2>2
<1> HIDE DEF w
<1>6. d \in Chans /\ \A a, b \in Server : d[<<a, b>>] = IF a = m /\ b = n THEN <<>>
                                              ELSE IF a = n /\ b = m THEN w ELSE chan[<<a, b>>]
  <2>1. <<>> \in Queue
    BY DEF Queue
  <2> QED BY <1>2, <1>5, <2>1, TwoQueues
<1> HIDE DEF d
<1>7. /\ Net(Sent(d, n, Others(n, m), SQUITMsg(m)), tab', tab', known', claims, Excused)
      /\ tab' \in Tables /\ OneEach(tab') /\ Entered(tab', known', claims)
      /\ known' \in [Server -> SUBSET Server] /\ Knows(known')
  BY <1>1, <1>2, <1>5, <1>6, NetClosed
<1>8. losses' \in 0..MaxLoss /\ raced' \in BOOLEAN
  BY <1>1, NickConstants DEF NickInv, TypeOK, InFlight
<1>9. Net(chan', tab', tab', known', claims, Excused)
  BY <1>4, <1>7
<1> QED
  BY <1>1, <1>7, <1>8, <1>9, LinkKeeps

(* n reads that m has closed the link.                                     *)
LEMMA RecvEOFKeeps ==
    ASSUME NickInv, NEW n \in Server, NEW m \in Server, RecvEOF(n, m)
    PROVE  NickInv'
<1> DEFINE q == chan[<<m, n>>]
           r == chan[<<n, m>>]
           w == <<>>
           d == Requeued(Requeued(chan, m, n, <<>>), n, m, w)
<1>1. /\ q # <<>> /\ Head(q).type = "EOF" /\ m \in known[n] /\ Dropped(n, m)
      /\ chan' = Sent(d, n, Others(n, m), SQUITMsg(m))
      /\ UNCHANGED <<signed, now, turns, losses, claims, killed, ousted, raced>>
  BY DEF RecvEOF, Arrives, Squitted, Requeued
<1>2. /\ tab \in Tables /\ Net(chan, tab, tab, known, claims, Excused) /\ chan \in Chans
  BY DEF NickInv, TypeOK, Tables, Net
<1>3. m \in Adjacent(n) /\ q \in Queue /\ Phase(m, n, q, r, known[n], known[m])
  BY <1>1, <1>2, HeadLine
<1>4. n \notin known[m]
  <2>1. Holds(q, "EOF")
    <3> HIDE DEF q
    <3> QED BY <1>1, <1>3, TailQueue
  <2> QED BY <1>1, <1>3, <2>1 DEF Phase, Plain, Calling, Half, Closed
<1>5. d \in Chans /\ \A a, b \in Server : d[<<a, b>>] = IF a = m /\ b = n THEN <<>>
                                              ELSE IF a = n /\ b = m THEN w ELSE chan[<<a, b>>]
  <2>1. <<>> \in Queue /\ w \in Queue /\ m # n
    BY <1>3 DEF Queue, Adjacent
  <2> HIDE DEF w
  <2> QED BY <1>2, <2>1, TwoQueues
<1>6. w \in Queue /\ w = <<>>
  BY DEF Queue
<1> HIDE DEF d, q, r, w
<1>7. /\ Net(Sent(d, n, Others(n, m), SQUITMsg(m)), tab', tab', known', claims, Excused)
      /\ tab' \in Tables /\ OneEach(tab') /\ Entered(tab', known', claims)
      /\ known' \in [Server -> SUBSET Server] /\ Knows(known')
  <2>1. \/ n \notin known[m] /\ w = <<>>
        \/ n \in known[m] /\ (w = <<EOFMsg>> \/ w = Append(chan[<<n, m>>], EOFMsg))
    BY <1>4, <1>6
  <2> QED BY <1>1, <1>3, <1>5, <1>6, <2>1, NetClosed
<1>8. losses' \in 0..MaxLoss /\ raced' \in BOOLEAN
  BY <1>1 DEF NickInv, TypeOK
<1>9. Net(chan', tab', tab', known', claims, Excused)
  BY <1>1, <1>7
<1> QED
  BY <1>1, <1>7, <1>8, <1>9, LinkKeeps

(* n calls m.                                                              *)
LEMMA ConnectKeeps ==
    ASSUME NickInv, NEW n \in Server, NEW m \in Server, Connect(n, m)
    PROVE  NickInv'
<1>1. /\ <<n, m>> \in Dials /\ m \notin known[n] /\ n \notin known[m]
      /\ chan[<<n, m>>] = <<>> /\ chan[<<m, n>>] = <<>>
      /\ chan' = [chan EXCEPT ![<<n, m>>] = <<SERVERMsg>>]
      /\ raced' = (raced \/ InFlight)
      /\ UNCHANGED <<tab, known, signed, now, turns, losses, claims, killed, ousted>>
  BY DEF Connect
<1>2. /\ tab \in Tables /\ Net(chan, tab, tab, known, claims, Excused) /\ chan \in Chans
      /\ OneEach(tab) /\ Entered(tab, known, claims) /\ Knows(known)
      /\ known \in [Server -> SUBSET Server] /\ Gone \in Entry
  BY NickConstants DEF NickInv, TypeOK, Tables, Net, Gone, Entry
<1>3. n # m /\ m \in Adjacent(n)
  <2>1. n # m /\ Hop[n][m] = m
    BY <1>1, HopIsTree
  <2> QED BY <2>1 DEF Adjacent
<1> DEFINE w == <<SERVERMsg>>
<1>4. /\ w \in Queue /\ Len(w) = 1 /\ w[1] = SERVERMsg /\ <<>> \in Queue /\ w = Append(<<>>, SERVERMsg)
      /\ SERVERMsg \in Msg /\ SERVERMsg.type = "SERVER"
  BY MsgTypes DEF Queue
<1>5. Phase(m, n, <<>>, w, known[n], known[m])
  BY <1>1 DEF Phase, Calling
<1> HIDE DEF w
<1>6. chan' \in Chans /\ \A a, b \in Server : chan'[<<a, b>>] = IF a = m /\ b = n THEN <<>>
                                              ELSE IF a = n /\ b = m THEN w ELSE chan[<<a, b>>]
  BY <1>1, <1>2, <1>3, <1>4 DEF Chans, w
<1>7. \A i \in 1..Len(w) : MsgOK(n, m, w[i], claims, Excused)
  <2>1. MsgOK(n, m, SERVERMsg, claims, Excused)
    BY <1>4 DEF MsgOK, ClaimsIn
  <2> QED BY <1>4, <2>1
<1>8. ~Holds(<<>>, "EOF") /\ ~Holds(w, "EOF")
  BY <1>4 DEF Holds
<1>9. ASSUME NEW v \in User \ Excused, From(n, v) = m
      PROVE  Flow(<<>>, w, v, n, tab[n][v], Told(n, v, tab[m], known[m]))
  <2>1. tab[n][v] = Gone /\ Told(n, v, tab[m], known[m]) = Gone
    BY <1>1, <1>2, <1>9 DEF Entered, Told
  <2>2. Path(<<>>, v, n, Gone, Gone)
    BY <1>2, PathEmpty
  <2> QED BY <1>2, <2>1, <2>2 DEF Flow
<1>10. ASSUME NEW v \in User \ Excused, From(m, v) = n
       PROVE  Flow(w, <<>>, v, m, tab[m][v], Told(m, v, tab[n], known[n]))
  <2>1. tab[m][v] = Gone /\ Told(m, v, tab[n], known[n]) = Gone
    BY <1>1, <1>2, <1>10 DEF Entered, Told
  <2>2. Path(<<>>, v, m, Gone, Gone)
    BY <1>2, PathEmpty
  <2>3. Step(v, m, SERVERMsg, Gone, Gone)
    BY <1>4 DEF Step, ClaimsIn, Leaves
  <2>4. Path(Append(<<>>, SERVERMsg), v, m, Gone, Gone)
    <3>1. <<>> \in Seq(Msg)
      OBVIOUS
    <3> QED BY <1>2, <1>4, <2>2, <2>3, <3>1, PathAppend
  <2> QED BY <1>2, <1>4, <2>1, <2>4 DEF Flow
<1>11. Net(chan', tab, tab, known, claims, Excused)
  <2>1. \A i \in 1..Len(<<>>) : MsgOK(m, n, <<>>[i], claims, Excused)
    OBVIOUS
  <2>2. Relinked(chan, chan', tab, tab, tab, known, known, claims, Excused, n, m, <<>>, w)
    BY <1>2, <1>5, <1>6, <1>7, <1>9, <1>10, <2>1 DEF Relinked
  <2> QED BY <1>2, <1>3, <1>4, <1>6, <2>2, NetLink
<1>12. losses' \in 0..MaxLoss /\ raced' \in BOOLEAN /\ tab' = tab /\ known' = known
  BY <1>1 DEF NickInv, TypeOK, InFlight
<1>13. Net(chan', tab', tab', known', claims, Excused)
  BY <1>11, <1>12
<1> QED
  BY <1>1, <1>2, <1>12, <1>13, LinkKeeps

\* The lines w, sent by n to m over a link that comes the other way with z,
\* tell m of the users of e; kn and km are what n and m know.
Greets(w, e, z, n, m, kn, km) ==
    /\ w \in Queue /\ Phase(n, m, w, z, km, kn)
    /\ \A i \in 1..Len(w) : MsgOK(n, m, w[i], claims, Excused)
    /\ \A v \in User \ Excused : From(m, v) = n => Path(w, v, m, Gone, e[v])

(* A line more.                                                            *)
LEMMA GreetsMore ==
    ASSUME NEW w, NEW e \in [User -> Entry], NEW f \in [User -> Entry], NEW z \in Queue,
           NEW n, NEW m, NEW kn, NEW km, NEW x \in Msg,
           Greets(w, e, z, n, m, kn, km), m \in kn, x.type \notin {"SERVER", "EOF"},
           MsgOK(n, m, x, claims, Excused),
           \A v \in User \ Excused : From(m, v) = n => Step(v, m, x, e[v], f[v])
    PROVE  Greets(Append(w, x), f, z, n, m, kn, km)
<1> DEFINE y == Append(w, x)
<1>1. w \in Queue /\ Phase(n, m, w, z, km, kn)
  BY DEF Greets
<1>2. /\ y \in Queue /\ Len(w) \in Nat /\ Len(y) = Len(w) + 1
      /\ \A i \in 1..Len(w) : y[i] = w[i]
      /\ y[Len(w) + 1] = x
  BY <1>1, AppendQueue
<1>3. Phase(n, m, y, z, km, kn)
  BY <1>1, PhaseSent
<1>4. ASSUME NEW v \in User \ Excused, From(m, v) = n PROVE Path(y, v, m, Gone, f[v])
  <2>1. Path(w, v, m, Gone, e[v]) /\ Step(v, m, x, e[v], f[v])
    BY <1>4 DEF Greets
  <2> QED BY <1>1, <2>1, PathAppend DEF Queue
<1> HIDE DEF y
<1>5. ASSUME NEW i \in 1..Len(y) PROVE MsgOK(n, m, y[i], claims, Excused)
  <2>1. i \in 1..Len(w) \/ i = Len(w) + 1
    BY <1>2
  <2> QED BY <1>2, <2>1 DEF Greets
<1>6. Greets(y, f, z, n, m, kn, km)
  BY <1>2, <1>3, <1>4, <1>5 DEF Greets
<1> QED
  BY <1>6 DEF y

(* The first line of a link that opens.                                    *)
LEMMA Opening ==
    ASSUME NickInv, NEW n \in Server, NEW m \in Server, Arrives(n, m, "SERVER"), NEW kn, m \in kn
    PROVE  LET q == chan[<<m, n>>]
               w == IF <<m, n>> \in Dials THEN <<SERVERMsg>> ELSE <<>>
           IN  /\ chan[<<n, m>>] = <<>> /\ ~Holds(q, "EOF")
               /\ Phase(n, m, w, Tail(q), known[m], kn)
<1> DEFINE q == chan[<<m, n>>]
           r == chan[<<n, m>>]
           z == Tail(q)
           w == IF <<m, n>> \in Dials THEN <<SERVERMsg>> ELSE <<>>
<1>1. /\ q # <<>> /\ Head(q).type = "SERVER" /\ m \notin known[n] /\ tab \in Tables
      /\ Net(chan, tab, tab, known, claims, Excused)
  BY DEF Arrives, NickInv, TypeOK, Tables
<1>2. q \in Queue /\ Phase(m, n, q, r, known[n], known[m])
  BY <1>1, HeadLine
<1>3. SERVERMsg.type = "SERVER"
  BY MsgTypes
<1>z. q = <<SERVERMsg>> => z = <<>>
  OBVIOUS
<1> HIDE DEF q, r, z
<1>4. /\ z \in Queue /\ Head(q) = q[1] /\ Len(q) \in Nat \ {0} /\ Len(z) = Len(q) - 1
      /\ \A i \in 1..Len(z) : z[i] = q[i + 1]
      /\ \A t : Holds(q, t) <=> Head(q).type = t \/ Holds(z, t)
  BY <1>1, <1>2, TailQueue DEF z
<1>5. Calling(m, n, q, r, known[n], known[m]) \/ Half(m, n, q, r, known[n], known[m])
  BY <1>1, <1>2, <1>4 DEF Phase, Calling, Half, Closed, Plain
<1>6. CASE Calling(m, n, q, r, known[n], known[m])
  <2>1. r = <<>> /\ z = <<>> /\ w = <<SERVERMsg>> /\ n \notin known[m] /\ <<m, n>> \in Dials
    BY <1>6, <1>z DEF Calling
  <2>2. ~Holds(q, "EOF")
    <3>1. ~Holds(<<>>, "EOF")
      BY DEF Holds
    <3>2. Holds(q, "EOF") <=> Head(q).type = "EOF" \/ Holds(z, "EOF")
      BY <1>4
    <3> QED BY <1>1, <2>1, <3>1, <3>2
  <2>3. Half(n, m, w, z, known[m], kn)
    BY <2>1 DEF Half
  <2> QED BY <2>1, <2>2, <2>3 DEF Phase, q, r, z
<1>7. CASE Half(m, n, q, r, known[n], known[m])
  <2>1. r = <<>> /\ n \in known[m] /\ <<n, m>> \in Dials
    BY <1>7 DEF Half
  <2>2. w = <<>>
    BY <2>1, NickConstants
  <2>3. Plain(z)
    <3>1. \A i \in 1..Len(z) : i + 1 \in 2..Len(q)
      BY <1>4
    <3> QED BY <1>4, <1>7, <3>1 DEF Half, Plain, Holds
  <2>4. ~Holds(q, "EOF")
    BY <1>1, <1>4, <2>3 DEF Plain
  <2>5. Plain(<<>>)
    BY DEF Plain, Holds
  <2>6. Phase(n, m, w, z, known[m], kn)
    BY <2>1, <2>2, <2>3, <2>5 DEF Phase
  <2> QED BY <2>1, <2>4, <2>6 DEF q, r, z
<1> QED
  BY <1>5, <1>6, <1>7

(* The link to m opens at this end.                                        *)
LEMMA RecvSERVERKeeps ==
    ASSUME NickInv, NEW n \in Server, NEW m \in Server, RecvSERVER(n, m)
    PROVE  NickInv'
<1> DEFINE q == chan[<<m, n>>]
           z == Tail(q)
           C == ClaimsOf(tab[n])
           hello == IF <<m, n>> \in Dials THEN <<SERVERMsg>> ELSE <<>>
           names == IF known[n] = {n} THEN <<>> ELSE <<INTROMsg(known[n] \ {n})>>
           users == IF C = {} THEN <<>> ELSE <<NICKMsg(C)>>
           nobody == [v \in User |-> Gone]
<1>1. /\ Arrives(n, m, "SERVER") /\ known' = [known EXCEPT ![n] = @ \cup {m}]
      /\ chan' = [Sent(Parsed(m, n), n, Others(n, m), INTROMsg({m}))
                  EXCEPT ![<<n, m>>] = @ \o hello \o names \o users]
      /\ UNCHANGED <<tab, signed, now, turns, losses, claims, killed, ousted, raced>>
  BY DEF RecvSERVER
<1>2. /\ q # <<>> /\ Head(q).type = "SERVER" /\ m \notin known[n] /\ tab \in Tables /\ chan \in Chans
      /\ Net(chan, tab, tab, known, claims, Excused) /\ OneEach(tab) /\ Entered(tab, known, claims)
      /\ known \in [Server -> SUBSET Server] /\ Knows(known)
  BY <1>1 DEF Arrives, NickInv, TypeOK, Tables, Net
<1>3. m \in Adjacent(n) /\ n \in Adjacent(m) /\ q \in Queue
  BY <1>2, HeadLine
<1>4. n # m /\ Hop[n][m] = m /\ Hop[m][n] = n
  BY <1>3, Sides
<1>5. /\ known' \in [Server -> SUBSET Server] /\ known'[n] = known[n] \cup {m}
      /\ \A a \in Server \ {n} : known'[a] = known[a]
  BY <1>1, <1>2
<1>6. chan[<<n, m>>] = <<>> /\ ~Holds(q, "EOF") /\ Phase(n, m, hello, z, known[m], known'[n])
  <2>1. m \in known'[n]
    BY <1>5
  <2> QED BY <1>1, <2>1, Opening
<1>7. z \in Queue /\ (Holds(q, "EOF") <=> Holds(z, "EOF"))
  <2>1. /\ z \in Queue
        /\ \A t : Holds(q, t) <=> Head(q).type = t \/ Holds(z, t)
    <3> HIDE DEF q
    <3> QED BY <1>2, <1>3, TailQueue
  <2>2. Holds(q, "EOF") <=> Head(q).type = "EOF" \/ Holds(z, "EOF")
    BY <2>1
  <2> QED BY <1>2, <2>1, <2>2
<1>8. Gone \in Entry /\ Gone.nick = NoNick /\ nobody \in [User -> Entry] /\ tab[n] \in [User -> Entry]
  BY <1>2, NickConstants DEF Gone, Entry, Tables
<1>9. ASSUME NEW v \in User \ Excused, From(m, v) = n PROVE tab[m][v] = Gone
  <2>1. Flow(chan[<<n, m>>], q, v, m, tab[m][v], Told(m, v, tab[n], known[n]))
    BY <1>2, <1>3, <1>9 DEF Net, Flows
  <2>2. Told(m, v, tab[n], known[n]) = Gone /\ ~Holds(<<>>, "EOF")
    BY <1>2 DEF Told, Holds
  <2>3. Path(<<>>, v, m, tab[m][v], Gone)
    BY <1>6, <2>1, <2>2 DEF Flow
  <2>4. tab[m][v] \in Entry
    BY <1>2 DEF Tables
  <2> QED BY <2>3, <2>4, PathEmpty
<1>10. Greets(hello, nobody, z, n, m, known'[n], known[m])
  <2>1. SERVERMsg \in Msg /\ SERVERMsg.type = "SERVER" /\ <<>> \in Queue
        /\ Append(<<>>, SERVERMsg) = <<SERVERMsg>> /\ <<SERVERMsg>> \in Queue
    BY MsgTypes DEF Queue
  <2>2. hello \in Queue
    BY <2>1
  <2>3. MsgOK(n, m, SERVERMsg, claims, Excused)
    BY <2>1 DEF MsgOK, ClaimsIn
  <2>4. \A i \in 1..Len(hello) : MsgOK(n, m, hello[i], claims, Excused)
    BY <2>3
  <2>5. ASSUME NEW v \in User \ Excused PROVE Path(hello, v, m, Gone, Gone)
    <3>1. Path(<<>>, v, m, Gone, Gone)
      BY <1>8, PathEmpty
    <3>2. Step(v, m, SERVERMsg, Gone, Gone)
      BY <2>1 DEF Step, ClaimsIn, Leaves
    <3>3. Path(Append(<<>>, SERVERMsg), v, m, Gone, Gone)
      <4>1. <<>> \in Seq(Msg)
        OBVIOUS
      <4> QED BY <1>8, <2>1, <3>1, <3>2, <4>1, PathAppend
    <3> QED BY <2>1, <3>1, <3>3
  <2>6. \A v \in User \ Excused : nobody[v] = Gone
    OBVIOUS
  <2> HIDE DEF hello, nobody, z
  <2> QED BY <1>6, <2>2, <2>4, <2>5, <2>6 DEF Greets
<1> HIDE DEF hello, z
<1>11. Greets(hello \o names, nobody, z, n, m, known'[n], known[m])
  <2> DEFINE x == INTROMsg(known[n] \ {n})
  <2>0. hello \in Seq(Msg)
    BY <1>10 DEF Greets, Queue
  <2>1. CASE known[n] = {n}
    <3>1. hello \o names = hello
      BY <2>0, <2>1
    <3> QED BY <1>10, <3>1
  <2>2. CASE known[n] # {n}
    <3>0. known[n] \ {n} \in SUBSET Server
      BY <1>2
    <3>1. x \in Msg /\ x.type = "INTRO" /\ x.servers = known[n] \ {n}
      BY <3>0, MsgTypes
    <3>2. hello \o names = Append(hello, x)
      BY <2>0, <2>2, <3>1
    <3> HIDE DEF x, names, nobody
    <3>3. \A s \in x.servers : s # n /\ Hop[m][s] = n
      <4> SUFFICES ASSUME NEW s \in known[n] \ {n} PROVE Hop[m][s] = n
        BY <3>1
      <4>1. s \in Server /\ Hop[n][s] \in known[n]
        BY <1>2 DEF Knows
      <4> QED BY <1>2, <1>3, <4>1, Sides
    <3>4. MsgOK(n, m, x, claims, Excused)
      BY <3>1, <3>3 DEF MsgOK, ClaimsIn
    <3>5. \A v \in User \ Excused : Step(v, m, x, nobody[v], nobody[v])
      BY <3>1 DEF Step, ClaimsIn, Leaves
    <3>6. m \in known'[n] /\ x.type \notin {"SERVER", "EOF"} /\ z \in Queue /\ x \in Msg
      BY <1>5, <1>7, <3>1
    <3>7. Greets(Append(hello, x), nobody, z, n, m, known'[n], known[m])
      BY <1>8, <1>10, <3>4, <3>5, <3>6, GreetsMore
    <3> QED BY <3>2, <3>7
  <2> QED BY <2>1, <2>2
<1> DEFINE h == hello \o names
<1>12. Greets(h \o users, tab[n], z, n, m, known'[n], known[m])
  <2> DEFINE x == NICKMsg(C)
  <2>0. h \in Seq(Msg)
    BY <1>11 DEF Greets, Queue
  <2>g. Greets(h, nobody, z, n, m, known'[n], known[m])
    BY <1>11
  <2>b. \A v \in User : nobody[v] = Gone
    OBVIOUS
  <2>c. /\ \A v \in User : tab[n][v] # Gone => MakeClaim(v, tab[n][v].nick, tab[n][v].ts) \in C
        /\ \A c \in C : /\ c.user \in User /\ tab[n][c.user] # Gone /\ c.nick = tab[n][c.user].nick
                        /\ c.ts = tab[n][c.user].ts
                        /\ c = MakeClaim(c.user, tab[n][c.user].nick, tab[n][c.user].ts)
    BY DEF ClaimsOf, MakeClaim
  <2> HIDE DEF h, nobody, C
  <2>1. CASE C = {}
    <3>1. h \o users = h
      BY <2>0, <2>1
    <3>2. \A v \in User : tab[n][v] = nobody[v]
      BY <2>1, <2>b, <2>c
    <3> QED BY <2>g, <3>1, <3>2 DEF Greets
  <2>2. CASE C # {}
    <3>0. \A c \in C : c \in claims /\ From(n, c.user) \in known[n] /\ c.nick # NoNick
      BY <1>2, <2>c DEF Entered
    <3>1. C \subseteq Claim
      BY <3>0 DEF NickInv, TypeOK
    <3>2. x \in Msg /\ x.type = "NICK" /\ x.claims = C
      BY <3>1, MsgTypes
    <3>3. h \o users = Append(h, x)
      BY <2>0, <2>2, <3>2
    <3> HIDE DEF x, users
    <3>4. MsgOK(n, m, x, claims, Excused)
      <4> SUFFICES ASSUME NEW c \in C PROVE c \in claims /\ From(m, c.user) = n
        BY <3>2 DEF MsgOK, ClaimsIn
      <4>1. Home[c.user] \in Server /\ Hop[n][Home[c.user]] # m
        BY <1>2, <2>c, <3>0, NickConstants DEF From
      <4> QED BY <1>3, <3>0, <4>1, Sides DEF From
    <3>5. ASSUME NEW v \in User \ Excused PROVE Step(v, m, x, nobody[v], tab[n][v])
      <4>1. ClaimsIn(x) = C /\ ~Leaves(v, m, x) /\ x.type = "NICK"
        BY <3>2 DEF ClaimsIn, Leaves
      <4>2. nobody[v] = Gone
        BY <2>b
      <4>3. ASSUME NEW c \in C, c.user = v PROVE tab[n][v] = At(c)
        <5>1. tab[n][v] \in Entry /\ c.nick = tab[n][v].nick /\ c.ts = tab[n][v].ts
          BY <1>8, <2>c, <4>3
        <5> QED BY <5>1 DEF Entry, At
      <4>4. ASSUME NEW c \in C, c.user # v PROVE Gone.nick # c.nick /\ tab[n][v].nick # c.nick
        <5>1. c.user \in User /\ c.nick = tab[n][c.user].nick /\ c.nick # NoNick
          BY <2>c, <3>0
        <5> QED BY <1>2, <1>8, <4>4, <5>1 DEF OneEach
      <4>5. (\A c \in C : c.user # v) => tab[n][v] = Gone
        <5>1. MakeClaim(v, tab[n][v].nick, tab[n][v].ts).user = v
          BY DEF MakeClaim
        <5> QED BY <2>c, <5>1
      <4> QED BY <4>1, <4>2, <4>3, <4>4, <4>5 DEF Step
    <3>6. m \in known'[n] /\ x.type \notin {"SERVER", "EOF"} /\ z \in Queue /\ x \in Msg
      BY <1>5, <1>7, <3>2
    <3>7. Greets(Append(h, x), tab[n], z, n, m, known'[n], known[m])
      BY <1>8, <2>g, <3>4, <3>5, <3>6, GreetsMore
    <3> QED BY <3>3, <3>7
  <2> QED BY <2>1, <2>2
<1> DEFINE w == h \o users
<1>13. Greets(w, tab[n], z, n, m, known'[n], known[m])
  BY <1>12
<1> DEFINE d == Requeued(Requeued(chan, m, n, z), n, m, w)
<1>14. w \in Queue /\ Phase(n, m, w, z, known[m], known'[n])
  BY <1>13 DEF Greets
<1>15. d \in Chans /\ \A a, b \in Server : d[<<a, b>>] =
                IF a = m /\ b = n THEN z ELSE IF a = n /\ b = m THEN w ELSE chan[<<a, b>>]
  <2> HIDE DEF w
  <2> QED BY <1>2, <1>4, <1>7, <1>14, TwoQueues
<1>16. chan' = Sent(d, n, Others(n, m), INTROMsg({m}))
  <2> DEFINE x == INTROMsg({m})
             e == Parsed(m, n)
             S == Sent(e, n, Others(n, m), x)
             f == Requeued(S, n, m, w)
  <2>1. x \in Msg
    BY MsgTypes
  <2>2. e = Requeued(chan, m, n, z)
    BY DEF Parsed, Requeued, z
  <2>3. e \in Chans /\ \A a, b \in Server : e[<<a, b>>] = IF a = m /\ b = n THEN z ELSE chan[<<a, b>>]
    <3>1. /\ Requeued(chan, m, n, z) \in Chans
          /\ \A a, b \in Server : Requeued(chan, m, n, z)[<<a, b>>] =
                IF a = m /\ b = n THEN z ELSE chan[<<a, b>>]
      BY <1>2, <1>7, OneQueue
    <3> HIDE DEF e
    <3> QED BY <2>2, <3>1
  <2> HIDE DEF x, e, d
  <2>4. S \in Chans /\ \A a, b \in Server : S[<<a, b>>] =
            IF a = n /\ b \in Others(n, m) THEN Append(e[<<a, b>>], x) ELSE e[<<a, b>>]
    BY <2>1, <2>3, SentAt
  <2>5. S[<<n, m>>] = <<>>
    <3>1. m \notin Others(n, m)
      BY DEF Others
    <3> HIDE DEF S
    <3> QED BY <1>4, <1>6, <2>3, <2>4, <3>1
  <2>6. S[<<n, m>>] \o hello \o names \o users = w
    <3>1. hello \in Seq(Msg)
      BY <1>10 DEF Greets, Queue
    <3>2. <<>> \o hello = hello
      BY <3>1
    <3> QED BY <2>5, <3>2
  <2>7. chan' = Requeued(S, n, m, S[<<n, m>>] \o hello \o names \o users)
    BY <1>1 DEF Requeued, x, e
  <2>8. chan' = f
    BY <2>6, <2>7
  <2> HIDE DEF w, S
  <2>9. f \in Chans /\ \A a, b \in Server : f[<<a, b>>] = IF a = n /\ b = m THEN w ELSE S[<<a, b>>]
    BY <1>14, <2>4, OneQueue
  <2>10. /\ Sent(d, n, Others(n, m), x) \in Chans
         /\ \A a, b \in Server : Sent(d, n, Others(n, m), x)[<<a, b>>] =
            IF a = n /\ b \in Others(n, m) THEN Append(d[<<a, b>>], x) ELSE d[<<a, b>>]
    BY <1>15, <2>1, SentAt
  <2> DEFINE g == Sent(d, n, Others(n, m), x)
  <2>11. g \in Chans
    BY <2>10
  <2>12. ASSUME NEW a \in Server, NEW b \in Server PROVE f[<<a, b>>] = g[<<a, b>>]
    <3>0. m \notin Others(n, m)
      BY DEF Others
    <3>1. CASE a = n /\ b = m
      BY <1>4, <1>15, <2>9, <2>10, <3>0, <3>1
    <3>2. CASE a = m /\ b = n
      <4>1. f[<<a, b>>] = z
        BY <1>4, <2>3, <2>4, <2>9, <3>2
      <4>2. g[<<a, b>>] = z
        BY <1>4, <1>15, <2>10, <3>2
      <4> QED BY <4>1, <4>2
    <3>3. CASE ~(a = n /\ b = m) /\ ~(a = m /\ b = n)
      <4>1. e[<<a, b>>] = chan[<<a, b>>] /\ d[<<a, b>>] = chan[<<a, b>>]
        BY <1>15, <2>3, <3>3
      <4>2. f[<<a, b>>] = S[<<a, b>>]
        BY <2>9, <3>3
      <4> QED BY <2>4, <2>10, <4>1, <4>2
    <3> QED BY <3>1, <3>2, <3>3
  <2>13. f = g
    <3> HIDE DEF f, g
    <3> QED BY <2>9, <2>11, <2>12, SameQueues
  <2> QED BY <2>8, <2>13 DEF x
<1> HIDE DEF d, w, h, users, names, C, nobody
<1>17. Net(d, tab, tab, known', claims, Excused)
  <2>0. known'[m] = known[m]
    BY <1>4, <1>5
  <2>1. Phase(m, n, z, w, known'[n], known'[m])
    BY <1>14, <2>0, PhaseTurns
  <2>2. \A i \in 1..Len(z) : MsgOK(m, n, z[i], claims, Excused)
    <3>1. \A i \in 1..Len(q) : MsgOK(m, n, q[i], claims, Excused)
      BY <1>2 DEF Net, Msgs
    <3> HIDE DEF q
    <3>2. /\ Len(q) \in Nat \ {0} /\ Len(z) = Len(q) - 1
          /\ \A i \in 1..Len(z) : z[i] = q[i + 1]
      BY <1>2, <1>3, TailQueue DEF z
    <3>3. \A i \in 1..Len(z) : i + 1 \in 1..Len(q)
      BY <3>2
    <3> QED BY <3>1, <3>2, <3>3
  <2>3. \A i \in 1..Len(w) : MsgOK(n, m, w[i], claims, Excused)
    BY <1>13 DEF Greets
  <2>4. ASSUME NEW v \in User \ Excused, From(n, v) = m
        PROVE  Flow(z, w, v, n, tab[n][v], Told(n, v, tab[m], known'[m]))
    <3>1. Flow(q, <<>>, v, n, tab[n][v], Told(n, v, tab[m], known[m]))
      BY <1>2, <1>3, <1>6, <2>4 DEF Net, Flows
    <3>2. \A b \in Entry : Path(q, v, n, tab[n][v], b) => Path(z, v, n, tab[n][v], b)
      <4>1. \A e \in Entry : Step(v, n, Head(q), tab[n][v], e) => e = tab[n][v]
        BY <1>2 DEF Step, ClaimsIn, Leaves
      <4> HIDE DEF q
      <4> QED BY <1>2, <1>3, <4>1, ReadPath DEF z
    <3>3. ~Holds(<<>>, "EOF")
      BY DEF Holds
    <3> QED BY <1>7, <2>0, <3>1, <3>2, <3>3 DEF Flow
  <2>5. ASSUME NEW v \in User \ Excused, From(m, v) = n
        PROVE  Flow(w, z, v, m, tab[m][v], Told(m, v, tab[n], known'[n]))
    <3>1. Told(m, v, tab[n], known'[n]) = tab[n][v] /\ tab[n][v] \in Entry
      BY <1>5, <1>8 DEF Told
    <3>2. Path(w, v, m, tab[m][v], tab[n][v])
      BY <1>9, <1>13, <2>5 DEF Greets
    <3> QED BY <3>1, <3>2 DEF Flow
  <2>6. \A a \in Server : \A b \in Adjacent(a) : ~(a = n /\ b = m) => (b \in known[a] <=> b \in known'[a])
    BY <1>5
  <2>7. Relinked(chan, d, tab, tab, tab, known, known', claims, Excused, n, m, z, w)
    BY <1>2, <1>15, <2>1, <2>2, <2>3, <2>4, <2>5, <2>6 DEF Relinked
  <2> QED BY <1>2, <1>3, <1>7, <1>14, <1>15, <2>7, NetLink
<1>18. Net(Sent(d, n, Others(n, m), INTROMsg({m})), tab, tab, known', claims, Excused)
  <2> DEFINE x == INTROMsg({m})
  <2>1. x \in Msg /\ x.type = "INTRO" /\ x.servers = {m}
    BY MsgTypes
  <2>2. Others(n, m) \subseteq Adjacent(n) \cap known'[n]
    BY <1>5 DEF Others, Linked
  <2>3. \A j \in Others(n, m) : m # n /\ Hop[j][m] = n
    BY <1>4, Sides DEF Others, Linked
  <2> HIDE DEF x
  <2>4. Net(Sent(d, n, Others(n, m), x), tab, tab, known', claims, Excused)
    BY <1>2, <1>17, <2>1, <2>2, <2>3, NetIntro
  <2> QED BY <2>4 DEF x
<1>19. Knows(known')
  <2> SUFFICES ASSUME NEW a \in Server
               PROVE  a \in known'[a] /\ \A t \in known'[a] : Hop[a][t] \in known'[a]
    BY DEF Knows
  <2>1. a \in known[a] /\ \A t \in known[a] : Hop[a][t] \in known[a]
    BY <1>2 DEF Knows
  <2> QED BY <1>4, <1>5, <2>1
<1>20. Entered(tab, known', claims)
  BY <1>2, <1>5 DEF Entered
<1>21. losses' \in 0..MaxLoss /\ raced' \in BOOLEAN /\ tab' = tab
  BY <1>1 DEF NickInv, TypeOK
<1>22. Net(chan', tab', tab', known', claims, Excused)
  BY <1>16, <1>18, <1>21
<1> QED
  BY <1>1, <1>2, <1>5, <1>19, <1>20, <1>21, <1>22, LinkKeeps

-----------------------------------------------------------------------------
(* The theorem.                                                            *)

(* At the start nobody is there and nothing is on the way.                 *)
LEMMA InitInv == Init => NickInv
<1> SUFFICES ASSUME Init PROVE NickInv
  OBVIOUS
<1>1. /\ tab = [n \in Server |-> [u \in User |-> Gone]] /\ known = [n \in Server |-> Server]
      /\ chan = [c \in Server \X Server |-> <<>>]
      /\ signed = {} /\ now = 1 /\ turns = 0 /\ losses = 0
      /\ claims = {} /\ killed = {} /\ ousted = {} /\ raced = FALSE
  BY DEF Init
<1>2. Gone \in Entry
  BY NickConstants DEF Gone, Entry
<1>3. tab \in Tables /\ chan \in Chans /\ known \in [Server -> SUBSET Server]
      /\ (\A n \in Server, u \in User : tab[n][u] = Gone)
      /\ (\A n \in Server : known[n] = Server)
      /\ (\A a, b \in Server : chan[<<a, b>>] = <<>>)
  BY <1>1, <1>2 DEF Tables, Chans, Queue
<1>4. TypeOK
  <2>1. now \in 1..MaxNow /\ turns \in 0..MaxTurn /\ losses \in 0..MaxLoss
    BY <1>1, NickConstants
  <2>2. raced \in BOOLEAN /\ signed \subseteq User /\ killed \subseteq User /\ ousted \subseteq User
        /\ claims \subseteq Claim
    BY <1>1
  <2> QED BY <1>3, <2>1, <2>2 DEF TypeOK, Tables, Chans, Queue
<1>5. OneEach(tab) /\ Entered(tab, known, claims)
  BY <1>3 DEF OneEach, Entered, Gone
<1>6. Knows(known)
  BY <1>3, NickConstants DEF Knows
<1>7. Phases(chan, known)
  <2>1. Plain(<<>>)
    BY DEF Plain, Holds
  <2> SUFFICES ASSUME NEW n \in Server, NEW m \in Adjacent(n)
               PROVE  Phase(m, n, chan[<<m, n>>], chan[<<n, m>>], known[n], known[m])
    BY <1>3 DEF Phases
  <2>2. m \in Server
    BY Sides
  <2>3. Phase(m, n, <<>>, <<>>, Server, Server)
    BY <2>1, <2>2 DEF Phase
  <2> QED BY <1>3, <2>2, <2>3
<1>8. Msgs(chan, claims, Excused)
  <2>1. ASSUME NEW a \in Server, NEW b \in Server PROVE Len(chan[<<a, b>>]) = 0
    <3>1. chan[<<a, b>>] = <<>> /\ Len(<<>>) = 0
      BY <1>3
    <3> QED BY <3>1
  <2>2. 1..0 = {}
    OBVIOUS
  <2> QED BY <2>1, <2>2 DEF Msgs
<1>9. Flows(chan, tab, tab, known, Excused)
  <2> SUFFICES ASSUME NEW n \in Server, NEW m \in Adjacent(n), NEW u \in User \ Excused, From(n, u) = m
               PROVE  Flow(chan[<<m, n>>], chan[<<n, m>>], u, n, tab[n][u], Told(n, u, tab[m], known[m]))
    BY DEF Flows
  <2>1. m \in Server
    BY Sides
  <2>2. tab[n][u] = Gone /\ Told(n, u, tab[m], known[m]) = Gone /\ chan[<<m, n>>] = <<>>
    BY <1>3, <2>1 DEF Told
  <2>3. Path(<<>>, u, n, Gone, Gone)
    BY <1>2, PathEmpty
  <2> QED BY <1>2, <2>2, <2>3 DEF Flow
<1>10. Net(chan, tab, tab, known, claims, Excused)
  BY <1>3, <1>7, <1>8, <1>9 DEF Net
<1> QED
  BY <1>1, <1>4, <1>5, <1>6, <1>10 DEF NickInv

(* Every step keeps the invariant.                                         *)
LEMMA NextInv == NickInv /\ [Next]_vars => NickInv'
<1> SUFFICES ASSUME NickInv, [Next]_vars PROVE NickInv'
  OBVIOUS
<1>1. CASE UNCHANGED vars
  <2>1. Excused' = Excused
    BY <1>1 DEF vars, Excused
  <2>2. TypeOK'
    BY <1>1 DEF vars, NickInv, TypeOK
  <2> QED BY <1>1, <2>1, <2>2 DEF vars, NickInv
<1>2. ASSUME NEW u \in User, NEW k \in Nick, SignOn(u, k) \/ ChangeNick(u, k) PROVE NickInv'
  BY <1>2, SignOnKeeps, ChangeNickKeeps
<1>3. ASSUME NEW u \in User, Quit(u) PROVE NickInv'
  BY <1>3, QuitKeeps
<1>4. ASSUME NEW u \in User, NEW h \in User, Ghost(u, h) \/ OperKill(u, h) PROVE NickInv'
  BY <1>4, GhostKeeps, OperKillKeeps
<1>5. ASSUME NEW n \in Server, NEW m \in Server, Deliver(n, m) PROVE NickInv'
  BY <1>5, RecvNickKeeps, RecvChangeKeeps, RecvQuitKeeps, RecvKillKeeps, RecvSERVERKeeps,
     RecvINTROKeeps, RecvSQUITKeeps, RecvEOFKeeps DEF Deliver
<1>6. ASSUME NEW n \in Server, NEW m \in Server, LinkLoss(n, m) \/ Connect(n, m) PROVE NickInv'
  BY <1>6, LinkLossKeeps, ConnectKeeps
<1>7. CASE Tick
  BY <1>7, TickKeeps
<1> QED
  BY <1>1, <1>2, <1>3, <1>4, <1>5, <1>6, <1>7 DEF Next

(* The invariant is what it is for.                                        *)
LEMMA InvSettles == NickInv => CollisionsSettled
<1> SUFFICES ASSUME NickInv PROVE CollisionsSettled
  OBVIOUS
<1>1. TypeOK
  BY DEF NickInv
<1>2. NickUnique
  <2> SUFFICES ASSUME NEW n \in Server, NEW k \in Nick PROVE Cardinality(Holder(n, k)) <= 1
    BY DEF NickUnique
  <2>1. \A u, v \in Holder(n, k) : u = v
    BY NickConstants DEF Holder, NickInv, OneEach
  <2>2. CASE Holder(n, k) = {}
    BY <2>2, FS_EmptySet
  <2>3. ASSUME NEW u \in Holder(n, k) PROVE Cardinality(Holder(n, k)) <= 1
    <3>1. Holder(n, k) = {u}
      BY <2>1, <2>3
    <3>2. Cardinality({u}) = 1
      BY FS_Singleton
    <3> QED BY <3>1, <3>2
  <2> QED BY <2>2, <2>3
<1>3. RightOneKilled
  <2> SUFFICES ASSUME NEW u \in killed \ ousted
               PROVE  \E c, d \in claims :
                        /\ c.user = u /\ d.user # u /\ c.nick = d.nick
                        /\ IF Differ(u, d.user) THEN d.ts <= c.ts ELSE d.ts >= c.ts
    BY DEF RightOneKilled
  <2>1. PICK c \in claims, d \in claims : c.user = u /\ Better(d, c)
    BY DEF NickInv, Excused
  <2> QED BY <2>1 DEF Better
<1> QED
  BY <1>1, <1>2, <1>3 DEF CollisionsSettled

(* Over splits, bursts, crossing nick changes, ghosts and kills, for every *)
(* tree of servers: no server ever has two users with one nick, and no     *)
(* server kills of its own accord any but a user that took a nick somebody *)
(* else had the better right to, or that a user had killed (m_nick_remoto, *)
(* parse_server, m_kill, exit_client, m_server_estab).                     *)
THEOREM CollisionsAreSettled == Spec => []CollisionsSettled
<1>1. Init => NickInv
  BY InitInv
<1>2. NickInv /\ [Next]_vars => NickInv'
  BY NextInv
<1>3. NickInv => CollisionsSettled
  BY InvSettles
<1> QED
  BY <1>1, <1>2, <1>3, PTL DEF Spec

\* With every link up and nothing in flight all servers have every user that is
\* not excused as its own server has it, whatever happened on the way: who acted
\* with lines in flight, which links were lost and what was read of them.
InnocentsAgree ==
    Quiet => \A n \in Server, u \in User \ Excused : tab[n][u] = tab[Home[u]][u]

(* Neighbours between which nothing is in flight agree, and so do all from *)
(* there to the user's own server.                                         *)
LEMMA InvAgrees == NickInv => InnocentsAgree
<1> SUFFICES ASSUME NickInv, Quiet, NEW u \in User \ Excused
             PROVE  \A n \in Server : tab[n][u] = tab[Home[u]][u]
  BY DEF InnocentsAgree
<1> DEFINE s == Home[u]
           S == {n \in Server : tab[n][u] = tab[s][u]}
<1>1. s \in Server /\ s \in S
  BY NickConstants
<1>2. /\ \A a, b \in Server : chan[<<a, b>>] = <<>>
      /\ \A n \in Server : known[n] = Server
  BY DEF Quiet, InFlight
<1>3. ASSUME NEW n \in Server, Hop[n][s] \in S PROVE n \in S
  <2> DEFINE m == Hop[n][s]
  <2>1. CASE n = s
    BY <1>1, <2>1
  <2>2. CASE n # s
    <3>1. m \in Adjacent(n) /\ m \in Server /\ From(n, u) = m
      BY <1>1, <2>2, HopIsTree, NickConstants DEF Adjacent, From
    <3>2. Flow(chan[<<m, n>>], chan[<<n, m>>], u, n, tab[n][u], Told(n, u, tab[m], known[m]))
      BY <3>1 DEF NickInv, Net, Flows
    <3>3. Told(n, u, tab[m], known[m]) = tab[m][u] /\ tab[n][u] \in Entry
      BY <1>2, <3>1 DEF Told, NickInv, TypeOK
    <3>4. ~Holds(<<>>, "EOF")
      BY DEF Holds
    <3> HIDE DEF m
    <3>5. Path(<<>>, u, n, tab[n][u], tab[m][u])
      BY <1>2, <3>1, <3>2, <3>3, <3>4 DEF Flow
    <3>6. tab[n][u] = tab[m][u]
      BY <3>3, <3>5, PathEmpty
    <3> QED BY <1>3, <3>6 DEF m
  <2> QED BY <2>1, <2>2
<1>4. S \in SUBSET Server
  OBVIOUS
<1> HIDE DEF S
<1>5. S = Server
  BY <1>1, <1>3, <1>4, HopIsTree
<1> QED
  BY <1>5 DEF S

(* With every link up and nothing in flight, users nobody had the better   *)
(* right against are the same everywhere, for every tree of servers and    *)
(* every order of sign-ons, nick changes, kills and splits (m_nick_remoto, *)
(* m_quit, m_squit, exit_client, m_server_estab).                          *)
THEOREM InnocentsAreAgreed == Spec => []InnocentsAgree
<1>1. Init => NickInv
  BY InitInv
<1>2. NickInv /\ [Next]_vars => NickInv'
  BY NextInv
<1>3. NickInv => InnocentsAgree
  BY InvAgrees
<1> QED
  BY <1>1, <1>2, <1>3, PTL DEF Spec
=============================================================================
