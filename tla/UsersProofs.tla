---------------------------- MODULE UsersProofs -----------------------------
(***************************************************************************)
(* Users of one server: names, modes, WATCH and WHOWAS, for any number of  *)
(* clients and nicks, any lengths of the lists and any mix of commands.    *)
(* UserInv is inductive and implies the three invariants of users that the *)
(* run local checks.                                                       *)
(***************************************************************************)
EXTENDS Users, TLAPS, FiniteSetTheorems, SequenceTheorems, WellFoundedInduction

Marks == {"on", "off"}
Entry == [nick : Nick \cup {None}, online : Client \cup {None}]
Counts == [opers : Int, helpers : Int, inv : Int, missed : Nat]

\* A client has a nick or is Gone; only users of others wait for a MODE.
Shaped(w) ==
    /\ w \in [Client -> Record]
    /\ \A u \in Client :
         /\ w[u].st = "none" => w[u] = Gone
         /\ w[u].st # "none" => w[u].nick \in Nick
         /\ u \in Local => ~w[u].wait

\* A nick that two never held has one holder.
Single(w, both) ==
    \A u, v \in Client : w[u].nick = w[v].nick /\ w[u].nick \in Nick \ both => u = v

\* The lists of WATCH agree at both ends.
Paired(l, r, c) ==
    /\ l \in [Nick -> SUBSET Local] /\ r \in [Client -> SUBSET Nick] /\ c \in [Client -> 0..MaxWatch]
    /\ \A u \in Local, n \in Nick : u \in l[n] <=> n \in r[u]
    /\ \A u \in Local : IsFiniteSet(r[u]) /\ c[u] = Cardinality(r[u])

\* What the watchers of a nick have heard of it is so, or was said early.
Holders(w, n) == {u \in Client : w[u].st = "user" /\ w[u].nick = n}
Sure(w, n, t, b) ==
    /\ t = "on" => Holders(w, n) # {} \/ b
    /\ t = "off" => \A v \in Holders(w, n) : w[v].wait
    /\ b => t = "on" /\ \A v \in Holders(w, n) : w[v].wait
Truthful(w, l, t, e, both) ==
    /\ t \in [Client -> [Nick -> Marks]] /\ e \in [Client -> SUBSET Nick]
    /\ \A v \in Client : \A n \in e[v] : v \in l[n]
    /\ \A n \in Nick \ both : \A v \in l[n] : Sure(w, n, t[v][n], n \in e[v])

Slot == 1..Hist

\* The entries of the ring from the oldest, which is next to go.
Rank(i, k) == IF i >= k THEN i - k ELSE i - k + Hist
Filed(q, S, k) ==
    /\ q \in Seq(Slot) /\ ToSet(q) = S
    /\ \A i, j \in 1..Len(q) : i < j => Rank(q[i], k) > Rank(q[j], k)
Ring(w, tab, k, h, c) ==
    /\ tab \in [Slot -> Entry] /\ k \in Slot
    /\ h \in [Nick -> Seq(Slot)] /\ c \in [Client -> Seq(Slot)]
    /\ \A n \in Nick : Filed(h[n], {i \in Slot : tab[i].nick = n}, k)
    /\ \A u \in Client : Filed(c[u], {i \in Slot : tab[i].online = u}, k)
    /\ \A i \in Slot : tab[i].online # None => w[tab[i].online].st = "user" /\ tab[i].nick # None

\* The modes of a user of ours.  What ties them to the tables holds while
\* nobody else has had the nick.
Rooted(x, rec, ops) ==
    /\ x.modes \cap {"r", "S"} # {} => rec \in {"ok", "susp"}
    /\ "h" \in x.modes => "h" \in ops \cup x.extra
    /\ "o" \in x.modes => x.cmd \/ "o" \in ops \cup x.extra
    /\ rec # "none" => x.modes \cap {"r", "S"} # {}
Proper(x) ==
    /\ "h" \in x.modes => "r" \in x.modes
    /\ "o" \in x.modes => x.cmd \/ "r" \in x.modes
    /\ x.extra \subseteq x.modes
Based(w, rec, ops, free, both) ==
    /\ \A u \in Client : w[u].cmd => w[u].privs # "none"
    /\ \A u \in Local \ free : w[u].st # "none" =>
         /\ Proper(w[u])
         /\ w[u].nick \notin both => Rooted(w[u], rec[w[u].nick], ops[w[u].nick])

\* No record is of a guest name.
Recs(rec, aut, ops) ==
    /\ rec \in [Nick -> {"none", "ok", "susp", "forbid"}] /\ aut \in [Nick -> SUBSET Modes]
    /\ ops \in [Nick -> SUBSET {"o", "h"}]
    /\ \A g \in Guest : rec[g] = "none" /\ ops[g] = {}

Invisible(w) == {u \in Client : w[u].st = "user" /\ "i" \in w[u].modes}
Total(c) == c.inv + c.missed
Numbered(w, c) == c \in Counts /\ Total(c) = Cardinality(Invisible(w))

UserInv ==
    /\ Shaped(who) /\ Single(who, clash)
    /\ Paired(wl, uw, cw) /\ Truthful(who, wl, told, early, clash)
    /\ Ring(who, wtab, wnext, hl, cl)
    /\ Recs(ndb, adb, odb) /\ Based(who, ndb, odb, exempt, clash)
    /\ Numbered(who, cnt)
    /\ exempt \subseteq Local /\ clash \subseteq Nick

-----------------------------------------------------------------------------
(* The ring of WHOWAS.                                                     *)

Next1(k) == IF k = Hist THEN 1 ELSE k + 1

(* When the ring moves on every entry gets older by one, and the one just  *)
(* written is the youngest.                                                *)
LEMMA RankMoves ==
    ASSUME NEW k \in Slot, NEW i \in Slot
    PROVE  /\ Next1(k) \in Slot
           /\ Rank(i, k) \in 0..(Hist - 1) /\ (Rank(i, k) = 0 <=> i = k)
           /\ Rank(i, Next1(k)) = IF i = k THEN Hist - 1 ELSE Rank(i, k) - 1
  BY UserConstants DEF Next1, Rank, Slot

LEMMA FiledIs ==
    ASSUME NEW k, NEW S, NEW q, Filed(q, S, k)
    PROVE  /\ q \in Seq(Slot) /\ ToSet(q) = S /\ Len(q) \in Nat
           /\ \A i \in 1..Len(q) : q[i] \in Slot
           /\ \A i, j \in 1..Len(q) : i < j => Rank(q[i], k) > Rank(q[j], k)
<1>1. q \in Seq(Slot)
  BY DEF Filed
<1>2. Len(q) \in Nat /\ \A i \in 1..Len(q) : q[i] \in Slot
  BY <1>1
<1>3. ToSet(q) = S
  BY DEF Filed
<1>4. \A i, j \in 1..Len(q) : i < j => Rank(q[i], k) > Rank(q[j], k)
  BY Zenon DEF Filed
<1> QED
  BY <1>1, <1>2, <1>3, <1>4

(* The oldest entry is the last of its list, and goes from there.          *)
LEMMA OldestLast ==
    ASSUME NEW k \in Slot, NEW S, k \in S, NEW q, Filed(q, S, k)
    PROVE  /\ q # <<>> /\ Last(q) = k /\ Len(q) \in Nat \ {0} /\ q[Len(q)] = k
           /\ \A i \in 1..(Len(q) - 1) : q[i] # k
<1>1. PICK j \in 1..Len(q) : q[j] = k
  BY DEF Filed, ToSet
<1>2. /\ Len(q) \in Nat \ {0} /\ q \in Seq(Slot)
      /\ \A i \in 1..Len(q) : q[i] \in Slot
      /\ \A x, y \in 1..Len(q) : x < y => Rank(q[x], k) > Rank(q[y], k)
  BY <1>1, FiledIs
<1>3. Rank(k, k) = 0 /\ \A i \in 1..Len(q) : Rank(q[i], k) \in Nat
  <2>1. Hist \in Nat /\ \A i \in Slot : Rank(i, k) \in 0..(Hist - 1)
    BY RankMoves, UserConstants
  <2>2. \A i \in Slot : Rank(i, k) \in Nat
    BY <2>1
  <2>3. Rank(k, k) = 0
    BY RankMoves
  <2> QED BY <1>2, <2>2, <2>3
<1>4. ~(j < Len(q))
  BY <1>1, <1>2, <1>3
<1>5. j = Len(q)
  BY <1>1, <1>2, <1>4
<1>6. \A i \in 1..(Len(q) - 1) : q[i] # k
  BY <1>1, <1>2, <1>3, <1>5
<1> QED
  BY <1>1, <1>2, <1>5, <1>6 DEF Last

LEMMA OldestGoes ==
    ASSUME NEW k \in Slot, NEW S, NEW q, Filed(q, S, k)
    PROVE  Filed(Drops(q, k), S \ {k}, Next1(k))
<1>1. /\ q \in Seq(Slot) /\ ToSet(q) = S /\ Len(q) \in Nat
      /\ \A i \in 1..Len(q) : q[i] \in Slot
      /\ \A i, j \in 1..Len(q) : i < j => Rank(q[i], k) > Rank(q[j], k)
  BY FiledIs
<1>2. CASE k \notin S
  <2>1. \A i \in 1..Len(q) : q[i] # k
    BY <1>1, <1>2 DEF ToSet
  <2>2. Drops(q, k) = q
    BY <2>1 DEF Drops, RemoveFirst
  <2>3. \A i \in 1..Len(q) : Rank(q[i], Next1(k)) = Rank(q[i], k) - 1 /\ Rank(q[i], k) \in Int
    BY <1>1, <2>1, RankMoves
  <2>4. \A i, j \in 1..Len(q) : i < j => Rank(q[i], Next1(k)) > Rank(q[j], Next1(k))
    BY <1>1, <2>3
  <2>5. S \ {k} = S
    BY <1>2
  <2> QED BY <1>1, <2>2, <2>4, <2>5 DEF Filed
<1>3. CASE k \in S
  <2> DEFINE n == Len(q)
             r == Drops(q, k)
  <2>1. n \in Nat \ {0} /\ q[n] = k /\ \A i \in 1..(n - 1) : q[i] # k
    BY <1>3, OldestLast
  <2>2. {i \in 1..Len(q) : q[i] = k} = {n} /\ Min({n}) = n
    BY <2>1 DEF Min
  <2>3. r = SubSeq(q, 1, Min({i \in 1..Len(q) : q[i] = k}) - 1)
              \o SubSeq(q, Min({i \in 1..Len(q) : q[i] = k}) + 1, Len(q))
    <3>1. \E i \in 1..Len(q) : q[i] = k
      BY <2>1
    <3>2. {i \in 1..Len(q) : q[i] = k} # {}
      BY <3>1
    <3> QED BY <3>1, <3>2 DEF Drops, RemoveFirst, RemoveAt, SelectInSeq
  <2>4. r = SubSeq(q, 1, n - 1) \o SubSeq(q, n + 1, n)
    BY <2>2, <2>3
  <2> DEFINE f == SubSeq(q, 1, n - 1)
             e == SubSeq(q, n + 1, n)
  <2>5. /\ f \in Seq(Slot) /\ Len(f) = n - 1 /\ \A i \in 1..(n - 1) : f[i] = q[i]
        /\ e = <<>>
    <3>1. f \in Seq(Slot) /\ Len(f) = n - 1 /\ \A i \in 1..(n - 1) : f[i] = q[i]
      <4>1. n \in Nat /\ n - 1 \in Nat /\ n - 1 <= Len(q) /\ 1 <= n
        BY <2>1
      <4> HIDE DEF n
      <4> QED BY <1>1, <4>1
    <3>2. e = <<>>
      BY <1>1, <2>1
    <3> QED BY <3>1, <3>2
  <2>6. r \in Seq(Slot) /\ Len(r) = n - 1 /\ \A i \in 1..(n - 1) : r[i] = q[i]
    <3> HIDE DEF f, e, n, r
    <3>1. r = f \o e
      BY <2>4 DEF f, e
    <3>2. f \o <<>> = f
      BY <2>5, ConcatEmptySeq
    <3>3. r = f
      BY <2>5, <3>1, <3>2
    <3> QED BY <2>5, <3>3
  <2> HIDE DEF r, n
  <2>7. ToSet(r) = S \ {k}
    <3>1. ASSUME NEW x \in ToSet(r) PROVE x \in S \ {k}
      <4>1. PICK i \in 1..Len(r) : x = r[i]
        BY <2>6 DEF ToSet
      <4> QED BY <1>1, <2>1, <2>6, <4>1 DEF ToSet, n
    <3>2. ASSUME NEW x \in S, x # k PROVE x \in ToSet(r)
      <4>1. PICK i \in 1..Len(q) : x = q[i]
        BY <1>1 DEF ToSet
      <4>2. i \in 1..(n - 1)
        BY <2>1, <3>2, <4>1 DEF n
      <4> QED BY <2>6, <4>1, <4>2 DEF ToSet
    <3> QED BY <3>1, <3>2
  <2>8. \A i \in 1..Len(r) : /\ Rank(r[i], Next1(k)) = Rank(q[i], k) - 1 /\ Rank(q[i], k) \in Int
                             /\ i \in 1..Len(q)
    <3> SUFFICES ASSUME NEW i \in 1..Len(r)
                 PROVE  /\ Rank(r[i], Next1(k)) = Rank(q[i], k) - 1 /\ Rank(q[i], k) \in Int
                        /\ i \in 1..Len(q)
      OBVIOUS
    <3>1. i \in 1..Len(q) /\ r[i] = q[i] /\ q[i] # k /\ q[i] \in Slot
      BY <1>1, <2>1, <2>6 DEF n
    <3> QED BY <3>1, RankMoves
  <2>9. \A i, j \in 1..Len(r) : i < j => Rank(r[i], Next1(k)) > Rank(r[j], Next1(k))
    BY <1>1, <2>8
  <2> QED BY <2>6, <2>7, <2>9 DEF Filed, r
<1> QED
  BY <1>2, <1>3

(* A list without the oldest entry stays filed as it is.                   *)
LEMMA OthersStay ==
    ASSUME NEW k \in Slot, NEW S, k \notin S, NEW q, Filed(q, S, k)
    PROVE  Filed(q, S, Next1(k))
<1>1. /\ q \in Seq(Slot) /\ ToSet(q) = S
      /\ \A i \in 1..Len(q) : q[i] \in Slot
      /\ \A i, j \in 1..Len(q) : i < j => Rank(q[i], k) > Rank(q[j], k)
  BY FiledIs
<1>2. \A i \in 1..Len(q) : q[i] # k
  BY <1>1 DEF ToSet
<1>3. \A i \in 1..Len(q) : Rank(q[i], Next1(k)) = Rank(q[i], k) - 1 /\ Rank(q[i], k) \in Int
  BY <1>1, <1>2, RankMoves
<1>4. \A i, j \in 1..Len(q) : i < j => Rank(q[i], Next1(k)) > Rank(q[j], Next1(k))
  BY <1>1, <1>3
<1> QED
  BY <1>1, <1>4 DEF Filed

(* The new entry is the first of its list.                                 *)
LEMMA NewestFirst ==
    ASSUME NEW k \in Slot, NEW S, k \notin S, NEW q, Filed(q, S, Next1(k))
    PROVE  Filed(<<k>> \o q, S \cup {k}, Next1(k))
<1> DEFINE r == <<k>> \o q
<1>1. /\ q \in Seq(Slot) /\ ToSet(q) = S /\ Len(q) \in Nat
      /\ \A i \in 1..Len(q) : q[i] \in Slot
      /\ \A i, j \in 1..Len(q) : i < j => Rank(q[i], Next1(k)) > Rank(q[j], Next1(k))
  BY FiledIs
<1>2. /\ r \in Seq(Slot) /\ Len(r) = Len(q) + 1 /\ r[1] = k
      /\ \A i \in 1..Len(r) : i > 1 => r[i] = q[i - 1] /\ i - 1 \in 1..Len(q)
      /\ \A i \in 1..Len(q) : r[i + 1] = q[i] /\ i + 1 \in 1..Len(r)
  BY <1>1
<1> HIDE DEF r
<1>3. ToSet(r) = S \cup {k}
  <2>1. ASSUME NEW x \in ToSet(r) PROVE x \in S \cup {k}
    <3>1. PICK i \in 1..Len(r) : x = r[i]
      BY <1>2 DEF ToSet
    <3> QED BY <1>1, <1>2, <3>1 DEF ToSet
  <2>2. k \in ToSet(r)
    BY <1>1, <1>2 DEF ToSet
  <2>3. ASSUME NEW x \in S PROVE x \in ToSet(r)
    <3>1. PICK i \in 1..Len(q) : x = q[i]
      BY <1>1 DEF ToSet
    <3> QED BY <1>2, <3>1 DEF ToSet
  <2> QED BY <2>1, <2>2, <2>3
<1>4. \A i \in 1..Len(q) : Rank(q[i], Next1(k)) \in 0..(Hist - 2)
  <2> SUFFICES ASSUME NEW i \in 1..Len(q) PROVE Rank(q[i], Next1(k)) \in 0..(Hist - 2)
    OBVIOUS
  <2>1. q[i] # k /\ q[i] \in Slot
    BY <1>1 DEF ToSet
  <2> QED BY <2>1, RankMoves, UserConstants
<1>5. Rank(k, Next1(k)) = Hist - 1
  BY RankMoves
<1>6. \A i, j \in 1..Len(r) : i < j => Rank(r[i], Next1(k)) > Rank(r[j], Next1(k))
  <2> SUFFICES ASSUME NEW i \in 1..Len(r), NEW j \in 1..Len(r), i < j
               PROVE  Rank(r[i], Next1(k)) > Rank(r[j], Next1(k))
    OBVIOUS
  <2>1. j > 1 /\ r[j] = q[j - 1] /\ j - 1 \in 1..Len(q)
    BY <1>2
  <2>2. CASE i = 1
    BY <1>2, <1>4, <1>5, <2>1, <2>2, UserConstants
  <2>3. CASE i > 1
    <3>1. r[i] = q[i - 1] /\ i - 1 \in 1..Len(q) /\ i - 1 < j - 1
      BY <1>2, <2>1, <2>3
    <3> QED BY <1>1, <2>1, <3>1
  <2> QED BY <2>2, <2>3
<1> QED
  BY <1>2, <1>3, <1>6 DEF Filed, r

\* The entries of a nick and of a client.
Named1(tab, n) == {i \in Slot : tab[i].nick = n}
Of(tab, u) == {i \in Slot : tab[i].online = u}

LEMMA RingIs ==
    ASSUME NEW w, NEW tab, NEW k, NEW h, NEW c, Ring(w, tab, k, h, c)
    PROVE  /\ tab \in [Slot -> Entry] /\ k \in Slot
           /\ h \in [Nick -> Seq(Slot)] /\ c \in [Client -> Seq(Slot)]
           /\ \A n \in Nick : Filed(h[n], Named1(tab, n), k)
           /\ \A u \in Client : Filed(c[u], Of(tab, u), k)
           /\ \A i \in Slot : tab[i].online # None => w[tab[i].online].st = "user" /\ tab[i].nick # None
  BY DEF Ring, Named1, Of

(* Whoever is on line in the ring stays on line there.                     *)
LEMMA RingKept ==
    ASSUME NEW w, NEW v, Ring(w, wtab, wnext, hl, cl),
           \A u \in Client : w[u].st = "user" => v[u].st = "user"
    PROVE  Ring(v, wtab, wnext, hl, cl)
<1>1. \A i \in Slot : wtab[i].online # None => wtab[i].online \in Client
  BY DEF Ring, Entry
<1> QED
  BY <1>1 DEF Ring

(* The entry that add_history overwrites leaves its two lists.             *)
LEMMA OldEntryGoes ==
    ASSUME NEW w, Ring(w, wtab, wnext, hl, cl)
    PROVE  LET old == wtab[wnext]
               h1 == IF Used(wnext) THEN [hl EXCEPT ![old.nick] = Drops(@, wnext)] ELSE hl
               c1 == IF Used(wnext) /\ old.online # None
                     THEN [cl EXCEPT ![old.online] = Drops(@, wnext)] ELSE cl
           IN  /\ DOMAIN h1 = Nick /\ DOMAIN c1 = Client
               /\ \A n \in Nick : Filed(h1[n], Named1(wtab, n) \ {wnext}, Next1(wnext))
               /\ \A u \in Client : Filed(c1[u], Of(wtab, u) \ {wnext}, Next1(wnext))
<1> DEFINE old == wtab[wnext]
           h1 == IF Used(wnext) THEN [hl EXCEPT ![old.nick] = Drops(@, wnext)] ELSE hl
           c1 == IF Used(wnext) /\ old.online # None
                 THEN [cl EXCEPT ![old.online] = Drops(@, wnext)] ELSE cl
<1>1. /\ wtab \in [Slot -> Entry] /\ wnext \in Slot
      /\ hl \in [Nick -> Seq(Slot)] /\ cl \in [Client -> Seq(Slot)]
      /\ \A n \in Nick : Filed(hl[n], Named1(wtab, n), wnext)
      /\ \A u \in Client : Filed(cl[u], Of(wtab, u), wnext)
      /\ old.online # None => old.nick # None
  BY RingIs
<1>2. old.nick \in Nick \cup {None} /\ old.online \in Client \cup {None}
  BY <1>1 DEF Entry
<1>3. \A n \in Nick : wnext \in Named1(wtab, n) <=> n = old.nick
  BY <1>1 DEF Named1
<1>4. \A u \in Client : wnext \in Of(wtab, u) <=> u = old.online
  BY <1>1 DEF Of
<1>5. \A S : wnext \notin S => S \ {wnext} = S
  OBVIOUS
<1>6. None \notin Nick /\ None \notin Client
  BY UserConstants
<1>7. ASSUME NEW n \in Nick PROVE Filed(h1[n], Named1(wtab, n) \ {wnext}, Next1(wnext))
  <2>1. CASE n = old.nick
    <3>1. h1[n] = Drops(hl[n], wnext)
      BY <1>1, <1>6, <2>1 DEF Used
    <3> QED BY <1>1, <3>1, OldestGoes
  <2>2. CASE n # old.nick
    <3>1. h1[n] = hl[n]
      BY <1>1, <2>2
    <3>2. wnext \notin Named1(wtab, n) /\ Named1(wtab, n) \ {wnext} = Named1(wtab, n)
      BY <1>3, <1>5, <2>2
    <3> QED BY <1>1, <3>1, <3>2, OthersStay
  <2> QED BY <2>1, <2>2
<1>8. ASSUME NEW u \in Client PROVE Filed(c1[u], Of(wtab, u) \ {wnext}, Next1(wnext))
  <2>1. CASE u = old.online
    <3>1. c1[u] = Drops(cl[u], wnext)
      BY <1>1, <1>6, <2>1 DEF Used
    <3> QED BY <1>1, <3>1, OldestGoes
  <2>2. CASE u # old.online
    <3>1. c1[u] = cl[u]
      BY <1>1, <2>2
    <3>2. wnext \notin Of(wtab, u) /\ Of(wtab, u) \ {wnext} = Of(wtab, u)
      BY <1>4, <1>5, <2>2
    <3> QED BY <1>1, <3>1, <3>2, OthersStay
  <2> QED BY <2>1, <2>2
<1>9. DOMAIN h1 = Nick /\ DOMAIN c1 = Client
  BY <1>1
<1> QED
  BY <1>7, <1>8, <1>9

(* add_history keeps the ring, also when the client u goes off line.       *)
LEMMA RingMoves ==
    ASSUME NEW w, NEW v, Ring(w, wtab, wnext, hl, cl),
           NEW u \in Client, NEW n \in Nick, NEW on \in BOOLEAN, add_history(u, n, on),
           \A x \in Client : w[x].st = "user" /\ x # u => v[x].st = "user",
           on => v[u].st = "user"
    PROVE  Ring(v, wtab', wnext', hl', cl')
<1> DEFINE k == wnext
           old == wtab[wnext]
           h1 == IF Used(wnext) THEN [hl EXCEPT ![old.nick] = Drops(@, wnext)] ELSE hl
           c1 == IF Used(wnext) /\ old.online # None
                 THEN [cl EXCEPT ![old.online] = Drops(@, wnext)] ELSE cl
           e == [nick |-> n, online |-> IF on THEN u ELSE None]
<1>1. /\ DOMAIN h1 = Nick /\ DOMAIN c1 = Client
      /\ \A m \in Nick : Filed(h1[m], Named1(wtab, m) \ {k}, Next1(k))
      /\ \A x \in Client : Filed(c1[x], Of(wtab, x) \ {k}, Next1(k))
  BY OldEntryGoes
<1>2. /\ wnext' = Next1(k)
      /\ hl' = [h1 EXCEPT ![n] = <<k>> \o @]
      /\ wtab' = [j \in 1..Hist |->
                    IF j = k THEN e
                    ELSE IF ~on /\ j \in ToSet(c1[u]) THEN [wtab[j] EXCEPT !.online = None]
                    ELSE wtab[j]]
      /\ cl' = [c1 EXCEPT ![u] = IF on THEN <<k>> \o @ ELSE <<>>]
  BY DEF add_history, Next1
<1>3. /\ wtab \in [Slot -> Entry] /\ k \in Slot
      /\ \A i \in Slot : wtab[i].online # None => w[wtab[i].online].st = "user" /\ wtab[i].nick # None
  BY RingIs
<1>4. ToSet(c1[u]) = Of(wtab, u) \ {k}
  BY <1>1 DEF Filed
<1> HIDE DEF h1, c1, k, old
<1>5. /\ wtab' \in [Slot -> Entry] /\ wtab'[k].nick = n /\ wtab'[k].online = IF on THEN u ELSE None
      /\ \A j \in Slot \ {k} : /\ wtab'[j].nick = wtab[j].nick
                               /\ wtab'[j].online = IF ~on /\ wtab[j].online = u THEN None ELSE wtab[j].online
  <2>1. e \in Entry /\ e.nick = n /\ e.online = IF on THEN u ELSE None
    BY DEF Entry
  <2> HIDE DEF e
  <2>2. ASSUME NEW j \in Slot
        PROVE  /\ wtab[j] \in Entry /\ [wtab[j] EXCEPT !.online = None] \in Entry
               /\ [wtab[j] EXCEPT !.online = None].online = None
               /\ [wtab[j] EXCEPT !.online = None].nick = wtab[j].nick
    BY <1>3 DEF Entry
  <2>3. wtab' = [j \in Slot |->
                    IF j = k THEN e
                    ELSE IF ~on /\ j \in ToSet(c1[u]) THEN [wtab[j] EXCEPT !.online = None]
                    ELSE wtab[j]]
    BY <1>2 DEF Slot
  <2>4. \A j \in Slot \ {k} : j \in ToSet(c1[u]) <=> wtab[j].online = u
    BY <1>4 DEF Of
  <2>5. \A j \in Slot : wtab'[j] \in Entry
    BY <2>1, <2>2, <2>3
  <2>6. wtab' \in [Slot -> Entry]
    BY <2>3, <2>5
  <2>7. wtab'[k] = e
    BY <1>3, <2>3
  <2>8. ASSUME NEW j \in Slot \ {k}
        PROVE  /\ wtab'[j].nick = wtab[j].nick
               /\ wtab'[j].online = IF ~on /\ wtab[j].online = u THEN None ELSE wtab[j].online
    <3>1. wtab'[j] = IF ~on /\ wtab[j].online = u THEN [wtab[j] EXCEPT !.online = None] ELSE wtab[j]
      BY <2>3, <2>4
    <3> QED BY <2>2, <3>1
  <2> QED BY <2>1, <2>6, <2>7, <2>8
<1>6. None \notin Nick /\ None \notin Client
  BY UserConstants
<1>7. ASSUME NEW m \in Nick PROVE hl'[m] \in Seq(Slot) /\ Filed(hl'[m], Named1(wtab', m), wnext')
  <2>1. CASE m = n
    <3>1. hl'[m] = <<k>> \o h1[m]
      BY <1>1, <1>2, <2>1
    <3>2. Named1(wtab', m) = (Named1(wtab, m) \ {k}) \cup {k}
      BY <1>3, <1>5, <2>1 DEF Named1
    <3>3. Filed(<<k>> \o h1[m], (Named1(wtab, m) \ {k}) \cup {k}, Next1(k))
      BY <1>1, <1>3, NewestFirst
    <3>4. Filed(hl'[m], Named1(wtab', m), wnext')
      BY ONLY <1>2, <3>1, <3>2, <3>3
    <3> QED BY <3>4 DEF Filed
  <2>2. CASE m # n
    <3>1. hl'[m] = h1[m]
      BY <1>1, <1>2, <2>2
    <3>2. Named1(wtab', m) = Named1(wtab, m) \ {k}
      BY <1>3, <1>5, <2>2 DEF Named1
    <3>3. Filed(hl'[m], Named1(wtab', m), wnext')
      BY <1>1, <1>2, <3>1, <3>2
    <3> QED BY <3>3 DEF Filed
  <2> QED BY <2>1, <2>2
<1>8. ASSUME NEW x \in Client PROVE cl'[x] \in Seq(Slot) /\ Filed(cl'[x], Of(wtab', x), wnext')
  <2>1. CASE x = u /\ on
    <3>1. cl'[x] = <<k>> \o c1[x]
      BY <1>1, <1>2, <2>1
    <3>2. Of(wtab', x) = (Of(wtab, x) \ {k}) \cup {k}
      BY <1>3, <1>5, <2>1 DEF Of
    <3>3. Filed(<<k>> \o c1[x], (Of(wtab, x) \ {k}) \cup {k}, Next1(k))
      BY <1>1, <1>3, NewestFirst
    <3>4. Filed(cl'[x], Of(wtab', x), wnext')
      BY ONLY <1>2, <3>1, <3>2, <3>3
    <3> QED BY <3>4 DEF Filed
  <2>2. CASE x = u /\ ~on
    <3>1. cl'[x] = <<>>
      BY <1>1, <1>2, <2>2
    <3>2. Of(wtab', x) = {}
      BY <1>3, <1>5, <1>6, <2>2 DEF Of
    <3>3. Filed(<<>>, {}, wnext')
      BY DEF Filed, ToSet
    <3> QED BY <3>1, <3>2, <3>3 DEF Filed
  <2>3. CASE x # u
    <3>1. cl'[x] = c1[x]
      BY <1>1, <1>2, <2>3
    <3>2. Of(wtab', x) = Of(wtab, x) \ {k}
      BY <1>3, <1>5, <1>6, <2>3 DEF Of
    <3>3. Filed(cl'[x], Of(wtab', x), wnext')
      BY <1>1, <1>2, <3>1, <3>2
    <3> QED BY <3>3 DEF Filed
  <2> QED BY <2>1, <2>2, <2>3
<1>9. \A i \in Slot : wtab'[i].online # None => v[wtab'[i].online].st = "user" /\ wtab'[i].nick # None
  <2> SUFFICES ASSUME NEW i \in Slot, wtab'[i].online # None
               PROVE  v[wtab'[i].online].st = "user" /\ wtab'[i].nick # None
    OBVIOUS
  <2>1. CASE i = k
    BY <1>5, <1>6, <2>1
  <2>2. CASE i # k
    <3>1. wtab'[i].nick = wtab[i].nick /\ wtab'[i].online = wtab[i].online /\ (wtab[i].online = u => on)
      BY <1>5, <2>2
    <3>2. wtab[i].online \in Client
      BY <1>3, <3>1 DEF Entry
    <3> QED BY <1>3, <3>1, <3>2
  <2> QED BY <2>1, <2>2
<1>10. DOMAIN hl' = Nick /\ DOMAIN cl' = Client
  BY <1>1, <1>2
<1>11. hl' \in [Nick -> Seq(Slot)] /\ cl' \in [Client -> Seq(Slot)] /\ wnext' \in Slot
  <2>1. wnext' \in Slot
    BY <1>2, <1>3, RankMoves
  <2>2. hl' = [m \in Nick |-> hl'[m]] /\ cl' = [x \in Client |-> cl'[x]]
    BY <1>1, <1>2
  <2> QED BY <1>7, <1>8, <2>1, <2>2
<1> QED
  BY <1>5, <1>7, <1>8, <1>9, <1>11 DEF Ring, Named1, Of

-----------------------------------------------------------------------------
(* One client changes; others that held its new nick may go.               *)

Turned(w, u, y, G) == [v \in Client |-> IF v = u THEN y ELSE IF v \in G THEN Gone ELSE w[v]]

\* y may stand for the client u.
Fits(u, y) ==
    /\ y \in Record
    /\ y.st = "none" => y = Gone
    /\ y.st # "none" => y.nick \in Nick
    /\ u \in Local => ~y.wait

LEMMA GoneIs ==
    /\ Gone \in Record /\ Gone.st = "none" /\ Gone.nick = None /\ Gone.modes = {}
    /\ Gone.cmd = FALSE /\ Gone.privs = "none" /\ Gone.wait = FALSE /\ Gone.extra = {}
  BY DEF Gone, Record, Status

LEMMA TurnedIs ==
    ASSUME NEW w, NEW u \in Client, NEW y, NEW G
    PROVE  /\ Turned(w, u, y, G)[u] = y
           /\ \A v \in Client : v # u /\ v \in G => Turned(w, u, y, G)[v] = Gone
           /\ \A v \in Client : v # u /\ v \notin G => Turned(w, u, y, G)[v] = w[v]
           /\ DOMAIN Turned(w, u, y, G) = Client
  BY DEF Turned

LEMMA ExceptIs ==
    ASSUME NEW w \in [Client -> Record], NEW u \in Client, NEW y
    PROVE  [w EXCEPT ![u] = y] = Turned(w, u, y, {})
  BY DEF Turned

LEMMA ShapedIs ==
    ASSUME NEW w, Shaped(w), NEW u \in Client
    PROVE  Fits(u, w[u])
  BY DEF Shaped, Fits

LEMMA ShapedTurns ==
    ASSUME NEW w, Shaped(w), NEW u \in Client, NEW y, Fits(u, y), NEW G
    PROVE  Shaped(Turned(w, u, y, G))
<1> DEFINE t == Turned(w, u, y, G)
<1>1. \A v \in Client : (t[v] = y /\ v = u) \/ t[v] = Gone \/ t[v] = w[v]
  BY TurnedIs
<1>2. \A v \in Client : Fits(v, t[v])
  <2> SUFFICES ASSUME NEW v \in Client PROVE Fits(v, t[v])
    OBVIOUS
  <2>1. Fits(v, Gone)
    BY GoneIs DEF Fits
  <2> QED BY <1>1, <2>1, ShapedIs
<1>3. DOMAIN t = Client /\ t = [v \in Client |-> t[v]]
  BY DEF Turned
<1> HIDE DEF t
<1> QED
  BY <1>2, <1>3 DEF Shaped, Fits, t

(* The new nick, if it is one nobody else keeps, has one holder.           *)
LEMMA SingleTurns ==
    ASSUME NEW w, NEW u \in Client, NEW y, NEW G, NEW a, NEW b, Single(w, a), a \subseteq b,
           \A v \in Client : v # u /\ v \notin G /\ w[v].nick = y.nick => y.nick \notin Nick \ b
    PROVE  Single(Turned(w, u, y, G), b)
<1> DEFINE t == Turned(w, u, y, G)
<1> SUFFICES ASSUME NEW x \in Client, NEW v \in Client, t[x].nick = t[v].nick, t[x].nick \in Nick \ b, x # v
             PROVE  FALSE
  BY DEF Single
<1>1. None \notin Nick
  BY UserConstants
<1>2. t[u] = y /\ \A z \in Client : z # u => t[z] = IF z \in G THEN Gone ELSE w[z]
  BY DEF Turned
<1> HIDE DEF t
<1>3. x # u => t[x] = w[x] /\ x \notin G
  BY <1>1, <1>2, GoneIs
<1>4. v # u => t[v] = w[v] /\ v \notin G
  BY <1>1, <1>2, GoneIs
<1> QED
  BY <1>2, <1>3, <1>4 DEF Single

(* The counters.                                                           *)
LEMMA OneIs == \A p : One(p) \in {0, 1} /\ One(p) \in Int
  BY DEF One

LEMMA TotalIs ==
    ASSUME NEW c \in Counts
    PROVE  Total(c) \in Int /\ c.inv \in Int /\ c.missed \in Nat
  BY DEF Counts, Total

LEMMA CountedIs ==
    ASSUME NEW c \in Counts, NEW a, NEW b
    PROVE  Counted(c, a, b) \in Counts /\ Total(Counted(c, a, b)) = Total(c)
<1>1. c.opers \in Int /\ c.helpers \in Int /\ c.inv \in Int /\ c.missed \in Nat
  BY DEF Counts
<1>2. c.opers + One("o" \in b) - One("o" \in a) \in Int /\ c.helpers + One("h" \in b) - One("h" \in a) \in Int
  BY <1>1, OneIs
<1> QED
  BY <1>1, <1>2 DEF Counts, Counted, Total

LEMMA InvIs ==
    ASSUME NEW c \in Counts, NEW k \in Int
    PROVE  /\ [c EXCEPT !.inv = k] \in Counts
           /\ Total([c EXCEPT !.inv = k]) = Total(c) + k - c.inv
<1>1. [c EXCEPT !.inv = k] \in Counts
  BY DEF Counts
<1>2. [c EXCEPT !.inv = k].inv = k /\ [c EXCEPT !.inv = k].missed = c.missed
  BY DEF Counts
<1>3. c.inv \in Int /\ c.missed \in Int
  BY TotalIs
<1> QED
  BY <1>1, <1>2, <1>3 DEF Total

LEMMA InvMoves ==
    ASSUME NEW c \in Counts, NEW a \in Int, NEW b \in Int
    PROVE  /\ [c EXCEPT !.inv = @ + a - b] \in Counts
           /\ Total([c EXCEPT !.inv = @ + a - b]) = Total(c) + a - b
<1>1. c.inv + a - b \in Int /\ c.inv \in Int /\ Total(c) \in Int
  BY TotalIs
<1>2. [c EXCEPT !.inv = @ + a - b] = [c EXCEPT !.inv = c.inv + a - b]
  OBVIOUS
<1> QED
  BY <1>1, <1>2, InvIs

LEMMA MissedIs ==
    ASSUME NEW c \in Counts, NEW x, NEW a
    PROVE  /\ Missed(c, x, a) \in Counts
           /\ Total(Missed(c, x, a)) = Total(c) + One(x.st = "user" /\ "i" \in a \ x.modes)
<1> DEFINE k == One(x.st = "user" /\ "i" \in a \ x.modes)
           d == [c EXCEPT !.missed = c.missed + k]
<1>1. k \in {0, 1}
  BY OneIs
<1>2. Missed(c, x, a) = d
  BY DEF Missed
<1> HIDE DEF k
<1>3. c.inv \in Int /\ c.missed \in Nat /\ c.missed + k \in Nat
  BY <1>1, TotalIs
<1>4. d \in Counts /\ d.inv = c.inv /\ d.missed = c.missed + k
  <2>1. d \in Counts
    BY <1>3 DEF Counts
  <2>2. d.inv = c.inv /\ d.missed = c.missed + k
    BY DEF Counts
  <2> QED BY <2>1, <2>2
<1> HIDE DEF d
<1> QED
  BY <1>1, <1>2, <1>3, <1>4 DEF Total, k

(* Counting of the invisible.                                              *)
LEMMA NumberedTurns ==
    ASSUME NEW w, Shaped(w), NEW u \in Client, NEW y, Fits(u, y), NEW G, NEW c, NEW d,
           Numbered(w, c), d \in Counts, \A v \in G : v \in Client /\ w[v].st # "user",
           Total(d) = Total(c) + One(y.st = "user" /\ "i" \in y.modes)
                               - One(w[u].st = "user" /\ "i" \in w[u].modes)
    PROVE  Numbered(Turned(w, u, y, G), d)
<1> DEFINE t == Turned(w, u, y, G)
           A == Invisible(w)
           B == Invisible(t)
           R == A \ {u}
<1>1. t[u] = y /\ \A z \in Client : z # u => t[z] = IF z \in G THEN Gone ELSE w[z]
  BY DEF Turned
<1>2. /\ u \in A <=> w[u].st = "user" /\ "i" \in w[u].modes
      /\ u \in B <=> y.st = "user" /\ "i" \in y.modes
  BY <1>1 DEF Invisible
<1>3. B \ {u} = A \ {u}
  <2> HIDE DEF t
  <2>1. \A z \in Client : z # u => (t[z].st = "user" /\ "i" \in t[z].modes <=> w[z].st = "user" /\ "i" \in w[z].modes)
    BY <1>1, GoneIs
  <2> QED BY <2>1 DEF Invisible
<1>4. IsFiniteSet(A) /\ IsFiniteSet(R)
  <2>1. A \subseteq Client /\ R \subseteq Client
    BY DEF Invisible
  <2> HIDE DEF A, R
  <2> QED BY <2>1, UserConstants, FS_Subset
<1> HIDE DEF A, B, R, t
<1>5. u \notin R /\ (u \in A => A = R \cup {u}) /\ (u \notin A => A = R)
      /\ (u \in B => B = R \cup {u}) /\ (u \notin B => B = R)
  BY <1>3 DEF R
<1>6. Cardinality(R) \in Nat /\ Cardinality(R \cup {u}) = Cardinality(R) + 1
  BY <1>4, <1>5, FS_AddElement, FS_CardinalityType
<1>7. c \in Counts /\ Total(c) = Cardinality(A)
  BY DEF Numbered, A
<1>8. Cardinality(A) = Cardinality(R) + One(u \in A)
  <2>1. CASE u \in A
    <3>1. A = R \cup {u} /\ One(u \in A) = 1
      BY <1>5, <2>1 DEF One
    <3> QED BY <1>6, <3>1
  <2>2. CASE u \notin A
    <3>1. A = R /\ One(u \in A) = 0
      BY <1>5, <2>2 DEF One
    <3> QED BY <1>6, <3>1
  <2> QED BY <2>1, <2>2
<1>8a. Cardinality(B) = Cardinality(R) + One(u \in B)
  <2>1. CASE u \in B
    <3>1. B = R \cup {u} /\ One(u \in B) = 1
      BY <1>5, <2>1 DEF One
    <3> QED BY <1>6, <3>1
  <2>2. CASE u \notin B
    <3>1. B = R /\ One(u \in B) = 0
      BY <1>5, <2>2 DEF One
    <3> QED BY <1>6, <3>1
  <2> QED BY <2>1, <2>2
<1>9. Total(d) = Total(c) + One(u \in B) - One(u \in A)
  BY <1>2 DEF One
<1>10. Total(d) = Cardinality(B)
  BY <1>6, <1>7, <1>8, <1>8a, <1>9 DEF One
<1> QED
  BY <1>10 DEF Numbered, B, t

-----------------------------------------------------------------------------
(* What watchers have heard.                                               *)

\* The users, their nicks and their waiting are the same.
Alike(w, v) ==
    \A u \in Client : /\ w[u].st = "user" <=> v[u].st = "user"
                      /\ w[u].st = "user" => v[u].nick = w[u].nick /\ v[u].wait = w[u].wait

LEMMA TruthfulAlike ==
    ASSUME NEW w, NEW v, Alike(w, v), NEW l, NEW t, NEW e, NEW a, NEW b, a \subseteq b,
           Truthful(w, l, t, e, a)
    PROVE  Truthful(v, l, t, e, b)
<1>1. \A n : Holders(w, n) = Holders(v, n) /\ \A u \in Holders(v, n) : w[u].wait = v[u].wait
  BY DEF Alike, Holders
<1> QED
  BY <1>1 DEF Truthful, Sure

LEMMA HeardIs ==
    ASSUME NEW t \in [Client -> [Nick -> Marks]], NEW n \in Nick, NEW what \in Marks,
           wl \in [Nick -> SUBSET Local]
    PROVE  /\ Heard(t, n, what) \in [Client -> [Nick -> Marks]]
           /\ \A v \in wl[n] : v \in Client /\ Heard(t, n, what)[v][n] = what
           /\ \A v \in Client, m \in Nick : m # n => Heard(t, n, what)[v][m] = t[v][m]
<1>1. \A v \in wl[n] : v \in Client
  BY DEF Client
<1> QED
  BY <1>1 DEF Heard

LEMMA PastIs ==
    ASSUME early \in [Client -> SUBSET Nick], NEW ns
    PROVE  /\ Past(ns) \in [Client -> SUBSET Nick]
           /\ \A v \in Client, m \in Nick : m \in Past(ns)[v] <=> m \in early[v] /\ m \notin ns
  BY DEF Past

(* A user comes: who watches its nick hears it.                            *)
LEMMA TruthfulComes ==
    ASSUME NEW w, NEW u \in Client, NEW y, NEW n \in Nick, NEW G, w[u].st # "user",
           y.st = "user", y.nick = n, \A v \in G : w[v].st # "user",
           wl \in [Nick -> SUBSET Local], Truthful(w, wl, told, early, clash)
    PROVE  Truthful(Turned(w, u, y, G), wl, Heard(told, n, "on"), Past({n}), clash)
<1> DEFINE x == Turned(w, u, y, G)
           h == Heard(told, n, "on")
           e == Past({n})
<1>1. told \in [Client -> [Nick -> Marks]] /\ early \in [Client -> SUBSET Nick]
  BY DEF Truthful
<1>2. /\ h \in [Client -> [Nick -> Marks]]
      /\ \A v \in wl[n] : v \in Client /\ h[v][n] = "on"
      /\ \A v \in Client, m \in Nick : m # n => h[v][m] = told[v][m]
  BY <1>1, HeardIs DEF Marks
<1>2a. /\ e \in [Client -> SUBSET Nick]
       /\ \A v \in Client, m \in Nick : m \in e[v] <=> m \in early[v] /\ m # n
  BY <1>1, PastIs
<1>3. x[u] = y /\ \A z \in Client : z # u => x[z] = IF z \in G THEN Gone ELSE w[z]
  BY DEF Turned
<1> HIDE DEF x, h, e
<1>4. u \in Holders(x, n)
  BY <1>3 DEF Holders
<1>5. ASSUME NEW m \in Nick, m # n
      PROVE  Holders(x, m) = Holders(w, m) /\ \A v \in Holders(w, m) : x[v].wait = w[v].wait
  BY <1>3, <1>5, GoneIs DEF Holders
<1>6. ASSUME NEW m \in Nick \ clash, NEW v \in wl[m] PROVE Sure(x, m, h[v][m], m \in e[v])
  <2>1. v \in Client
    BY DEF Client
  <2>2. CASE m = n
    BY <1>2, <1>2a, <1>4, <2>1, <2>2 DEF Sure
  <2>3. CASE m # n
    <3>1. Sure(w, m, told[v][m], m \in early[v]) /\ h[v][m] = told[v][m] /\ (m \in e[v] <=> m \in early[v])
      BY <1>2, <1>2a, <2>1, <2>3 DEF Truthful
    <3> QED BY <1>5, <2>3, <3>1 DEF Sure
  <2> QED BY <2>2, <2>3
<1>7. \A v \in Client : \A m \in e[v] : v \in wl[m]
  BY <1>2a DEF Truthful
<1> QED
  BY <1>2, <1>2a, <1>6, <1>7 DEF Truthful, x, h, e

(* The user u changes its nick: who watches the old one hears of it, and   *)
(* who watches the new one does or will, when the user waits.              *)
LEMMA TruthfulMoves ==
    ASSUME NEW w, NEW u \in Client, NEW y, NEW n \in Nick, NEW m \in Nick, n # m, NEW G,
           w[u].st = "user", w[u].nick = m, y.st = "user", y.nick = n,
           \A v \in G : w[v].st # "user", Single(w, clash), NEW b, clash \subseteq b,
           wl \in [Nick -> SUBSET Local], Truthful(w, wl, told, early, clash), NEW t, NEW e,
           \/ t = Heard(Heard(told, m, "off"), n, "on") /\ e = Past({m, n})
           \/ t = Heard(told, m, "off") /\ e = Past({m}) /\ y.wait
    PROVE  Truthful(Turned(w, u, y, G), wl, t, e, b)
<1> DEFINE x == Turned(w, u, y, G)
           h == Heard(told, m, "off")
<1>1. told \in [Client -> [Nick -> Marks]] /\ early \in [Client -> SUBSET Nick]
  BY DEF Truthful
<1>2. /\ h \in [Client -> [Nick -> Marks]]
      /\ \A v \in wl[m] : v \in Client /\ h[v][m] = "off"
      /\ \A v \in Client, k \in Nick : k # m => h[v][k] = told[v][k]
  BY <1>1, HeardIs DEF Marks
<1> HIDE DEF h
<1>3. \/ /\ t \in [Client -> [Nick -> Marks]]
         /\ \A v \in wl[n] : v \in Client /\ t[v][n] = "on"
         /\ \A v \in Client, k \in Nick : k # n => t[v][k] = h[v][k]
         /\ e = Past({m, n})
      \/ t = h /\ y.wait /\ e = Past({m})
  BY <1>2, HeardIs DEF Marks, h
<1>3a. /\ e \in [Client -> SUBSET Nick]
       /\ \A v \in Client : m \notin e[v]
       /\ \A v \in Client, k \in Nick : k # n /\ k # m => (k \in e[v] <=> k \in early[v])
       /\ \A v \in Client : n \in e[v] => n \in early[v]
       /\ e = Past({m, n}) => \A v \in Client : n \notin e[v]
       /\ e = Past({m}) => \A v \in Client : n \in e[v] <=> n \in early[v]
  <2>1. CASE e = Past({m, n})
    BY <1>1, <2>1, PastIs
  <2>2. CASE e = Past({m})
    BY <1>1, <2>2, PastIs
  <2> QED BY <1>3, <2>1, <2>2
<1>4. x[u] = y /\ \A z \in Client : z # u => x[z] = IF z \in G THEN Gone ELSE w[z]
  BY DEF Turned
<1> HIDE DEF x
<1>5. u \in Holders(x, n) /\ \A v \in Holders(x, n) : v = u \/ (v \in Holders(w, n) /\ x[v].wait = w[v].wait)
  BY <1>4, GoneIs DEF Holders
<1>6. ASSUME m \notin clash PROVE Holders(x, m) = {}
  <2>1. \A z \in Client : z # u => w[z].nick # m
    BY <1>6 DEF Single
  <2>2. None # m
    BY UserConstants
  <2> QED BY <1>4, <2>1, <2>2, GoneIs DEF Holders
<1>7. ASSUME NEW k \in Nick, k # n, k # m
      PROVE  Holders(x, k) = Holders(w, k) /\ \A v \in Holders(w, k) : x[v].wait = w[v].wait
  BY <1>4, <1>7, GoneIs DEF Holders
<1>8. ASSUME NEW k \in Nick \ b, NEW v \in wl[k] PROVE Sure(x, k, t[v][k], k \in e[v])
  <2>1. v \in Client /\ k \notin clash /\ Sure(w, k, told[v][k], k \in early[v])
    BY DEF Client, Truthful
  <2>2. CASE k = m
    <3>1. t[v][k] = "off" /\ k \notin e[v]
      BY <1>2, <1>3, <1>3a, <2>1, <2>2
    <3> QED BY <1>6, <2>1, <2>2, <3>1 DEF Sure
  <2>3. CASE k = n
    <3>1. CASE t[v][k] = "on" /\ k \notin e[v]
      BY <1>5, <2>3, <3>1 DEF Sure
    <3>2. CASE ~(t[v][k] = "on" /\ k \notin e[v])
      <4>1. t[v][k] = told[v][k] /\ y.wait /\ (k \in e[v] <=> k \in early[v])
        BY <1>2, <1>3, <1>3a, <2>1, <2>3, <3>2
      <4> QED BY <1>4, <1>5, <2>1, <2>3, <4>1 DEF Sure
    <3> QED BY <3>1, <3>2
  <2>4. CASE k # n /\ k # m
    <3>1. t[v][k] = told[v][k] /\ (k \in e[v] <=> k \in early[v])
      BY <1>2, <1>3, <1>3a, <2>1, <2>4
    <3> QED BY <1>7, <2>1, <2>4, <3>1 DEF Sure
  <2> QED BY <2>2, <2>3, <2>4
<1>9. t \in [Client -> [Nick -> Marks]]
  BY <1>2, <1>3
<1>10. \A v \in Client : \A k \in e[v] : v \in wl[k]
  BY <1>3a DEF Truthful
<1> QED
  BY <1>3a, <1>8, <1>9, <1>10 DEF Truthful, x

(* A user goes, and with it what it watched.                               *)
LEMMA TruthfulGoes ==
    ASSUME NEW w, NEW u \in Client, NEW m \in Nick, w[u].st = "user", w[u].nick = m,
           Single(w, clash), wl \in [Nick -> SUBSET Local], Truthful(w, wl, told, early, clash), NEW t, NEW e,
           t = [Heard(told, m, "off") EXCEPT ![u] = [n \in Nick |-> "off"]],
           e = [Past({m}) EXCEPT ![u] = {}]
    PROVE  Truthful(Turned(w, u, Gone, {}), NoWatch(u), t, e, clash)
<1> DEFINE x == Turned(w, u, Gone, {})
           h == Heard(told, m, "off")
<1>1. told \in [Client -> [Nick -> Marks]] /\ early \in [Client -> SUBSET Nick]
  BY DEF Truthful
<1>2. /\ h \in [Client -> [Nick -> Marks]]
      /\ \A v \in wl[m] : v \in Client /\ h[v][m] = "off"
      /\ \A v \in Client, k \in Nick : k # m => h[v][k] = told[v][k]
  BY <1>1, HeardIs DEF Marks
<1> HIDE DEF h
<1>3. t \in [Client -> [Nick -> Marks]] /\ \A v \in Client : v # u => t[v] = h[v]
  <2>1. [n \in Nick |-> "off"] \in [Nick -> Marks]
    BY DEF Marks
  <2> QED BY <1>2, <2>1 DEF h
<1>3a. /\ e \in [Client -> SUBSET Nick] /\ e[u] = {}
       /\ \A v \in Client, k \in Nick : v # u => (k \in e[v] <=> k \in early[v] /\ k # m)
  BY <1>1, PastIs
<1>4. x[u] = Gone /\ \A z \in Client : z # u => x[z] = w[z]
  BY DEF Turned
<1> HIDE DEF x
<1>5. ASSUME m \notin clash PROVE Holders(x, m) = {}
  <2>1. \A z \in Client : z # u => w[z].nick # m
    BY <1>5 DEF Single
  <2> QED BY <1>4, <2>1, GoneIs DEF Holders
<1>6. ASSUME NEW k \in Nick, k # m
      PROVE  Holders(x, k) = Holders(w, k) /\ \A v \in Holders(w, k) : x[v].wait = w[v].wait
  BY <1>4, <1>6, GoneIs DEF Holders
<1>7. ASSUME NEW k \in Nick \ clash, NEW v \in NoWatch(u)[k] PROVE Sure(x, k, t[v][k], k \in e[v])
  <2>1. v \in wl[k] /\ v # u
    BY DEF NoWatch
  <2>2. /\ v \in Client /\ Sure(w, k, told[v][k], k \in early[v]) /\ t[v] = h[v]
        /\ k \in e[v] <=> k \in early[v] /\ k # m
    BY <1>3, <1>3a, <2>1 DEF Client, Truthful
  <2>3. CASE k = m
    BY <1>2, <1>5, <2>1, <2>2, <2>3 DEF Sure
  <2>4. CASE k # m
    BY <1>2, <1>6, <2>2, <2>4 DEF Sure
  <2> QED BY <2>3, <2>4
<1>8. \A v \in Client : \A k \in e[v] : v \in NoWatch(u)[k]
  BY <1>3a DEF Truthful, NoWatch
<1> QED
  BY <1>3, <1>3a, <1>7, <1>8 DEF Truthful, x

-----------------------------------------------------------------------------
(* Modes.                                                                  *)

Privs == {"none", "line", "table"}
Ranks == {"h", "o"}

\* y is x with another nick, other modes, other privileges and other extras.
Remade(x, y, n, m, p, e) ==
    /\ y \in Record
    /\ y.st = x.st /\ y.nick = n /\ y.modes = m /\ y.cmd = x.cmd /\ y.privs = p /\ y.wait = x.wait
    /\ y.extra = e

LEMMA RecordIs ==
    ASSUME NEW x \in Record
    PROVE  /\ x.st \in Status /\ x.nick \in Nick \cup {None} /\ x.modes \in SUBSET Modes
           /\ x.cmd \in BOOLEAN /\ x.privs \in Privs /\ x.wait \in BOOLEAN /\ x.extra \in SUBSET Ranks
  BY DEF Record, Privs, Ranks

LEMMA SetModes ==
    ASSUME NEW x \in Record, NEW m \in SUBSET Modes
    PROVE  Remade(x, [x EXCEPT !.modes = m], x.nick, m, x.privs, x.extra)
<1>1. [x EXCEPT !.modes = m] \in Record
  BY DEF Record
<1> QED
  BY <1>1 DEF Remade, Record

LEMMA SetGrant ==
    ASSUME NEW x \in Record, NEW m \in SUBSET Modes, NEW p \in Privs
    PROVE  Remade(x, [x EXCEPT !.modes = m, !.privs = p], x.nick, m, p, x.extra)
<1>1. [x EXCEPT !.modes = m, !.privs = p] \in Record
  BY DEF Record, Privs
<1> QED
  BY <1>1 DEF Remade, Record

LEMMA SetNick ==
    ASSUME NEW x \in Record, NEW n \in Nick
    PROVE  Remade(x, [x EXCEPT !.nick = n], n, x.modes, x.privs, x.extra)
<1>1. [x EXCEPT !.nick = n] \in Record
  BY DEF Record
<1> QED
  BY <1>1 DEF Remade, Record

LEMMA SetBoth ==
    ASSUME NEW x \in Record, NEW m \in SUBSET Modes, NEW e \in SUBSET Ranks
    PROVE  Remade(x, [x EXCEPT !.modes = m, !.extra = e], x.nick, m, x.privs, e)
<1>1. [x EXCEPT !.modes = m, !.extra = e] \in Record
  BY DEF Record, Ranks
<1> QED
  BY <1>1 DEF Remade, Record

LEMMA SetExtra ==
    ASSUME NEW x \in Record, NEW e \in SUBSET Ranks
    PROVE  Remade(x, [x EXCEPT !.extra = e], x.nick, x.modes, x.privs, e)
<1>1. [x EXCEPT !.extra = e] \in Record
  BY DEF Record, Ranks
<1> QED
  BY <1>1 DEF Remade, Record

LEMMA RecsIs ==
    ASSUME Recs(ndb, adb, odb), NEW n \in Nick
    PROVE  /\ get_status(n) = odb[n] /\ odb[n] \subseteq {"o", "h"} /\ odb[n] \subseteq Modes
           /\ ndb[n] \in {"none", "ok", "susp", "forbid"} /\ adb[n] \subseteq Modes
  BY DEF Recs, get_status, Modes

LEMMA Remakes ==
    ASSUME NEW x, NEW y, NEW z, NEW n, NEW k, NEW m, NEW l, NEW p, NEW q, NEW e, NEW f,
           Remade(x, y, n, m, p, e), Remade(y, z, k, l, q, f)
    PROVE  Remade(x, z, k, l, q, f)
  BY DEF Remade

GrantPriv(x, s) == IF "o" \in s THEN "table" ELSE x.privs

LEMMA GrantedIs ==
    ASSUME Recs(ndb, adb, odb), NEW x \in Record, NEW n \in Nick
    PROVE  Remade(x, Granted(x, n), x.nick, x.modes \cup odb[n], GrantPriv(x, odb[n]), x.extra)
<1>1. x.modes \cup odb[n] \in SUBSET Modes /\ GrantPriv(x, odb[n]) \in Privs
  BY RecsIs, RecordIs DEF GrantPriv, Privs
<1>2. Granted(x, n) = [x EXCEPT !.modes = x.modes \cup odb[n], !.privs = GrantPriv(x, odb[n])]
  BY RecsIs DEF Granted, GrantPriv
<1> QED
  BY <1>1, <1>2, SetGrant

LEMMA WithoutIs ==
    ASSUME NEW x \in Record, NEW M
    PROVE  Remade(x, Without(x, M), x.nick, x.modes \ M, x.privs, x.extra \ M)
<1>1. x.modes \ M \in SUBSET Modes /\ x.extra \ M \in SUBSET Ranks
  BY RecordIs
<1>2. Without(x, M) = [x EXCEPT !.modes = x.modes \ M, !.extra = x.extra \ M]
  BY DEF Without
<1> QED
  BY <1>1, <1>2, SetBoth

(* mask_user_flags adds the automodes and nothing else.                    *)
LEMMA GivenIs ==
    ASSUME NEW x \in Record, NEW a \in SUBSET Modes
    PROVE  Remade(x, Given(x, a), x.nick, x.modes \cup a, x.privs, x.extra \cup (a \cap Ranks))
<1> DEFINE m == x.modes \cup a
           e == x.extra \cup (a \cap Ranks)
<1>1. m \in SUBSET Modes /\ e \in SUBSET Ranks
  BY RecordIs
<1>2. Given(x, a) = [x EXCEPT !.modes = m, !.extra = e]
  BY DEF Given, Ranks
<1> HIDE DEF m, e
<1>3. Remade(x, Given(x, a), x.nick, m, x.privs, e)
  BY <1>1, <1>2, SetBoth
<1> QED
  BY <1>3 DEF m, e

LEMMA AutomodesIs ==
    ASSUME Recs(ndb, adb, odb), NEW n \in Nick
    PROVE  /\ automodes(n) \in SUBSET Modes
           /\ ndb[n] \in {"none", "susp"} => automodes(n) = {}
  BY RecsIs DEF automodes

\* What leaving a registered nick takes.
PartedModes(x) == IF x.modes \cap {"r", "S"} # {} THEN x.modes \ {"r", "S", "h", "o"} ELSE x.modes
PartedExtra(x) == IF x.modes \cap {"r", "S"} # {} THEN x.extra \ {"r", "S", "h", "o"} ELSE x.extra

LEMMA PartedIs ==
    ASSUME NEW x \in Record
    PROVE  Remade(x, Parted(x), x.nick, PartedModes(x), x.privs, PartedExtra(x))
<1>1. Remade(x, x, x.nick, x.modes, x.privs, x.extra)
  BY DEF Remade
<1> QED
  BY <1>1, WithoutIs DEF Parted, Stripped, PartedModes, PartedExtra

\* What is left of them when NICK of a client of ours comes to the record.
NickModes(x) == IF x.st = "user" THEN PartedModes(x) ELSE x.modes
NickExtra(x) == IF x.st = "user" THEN PartedExtra(x) ELSE x.extra
NamedModes(x, n, ok) ==
    LET b == NickModes(x)
    IN  IF ~ok THEN b \ {"r", "S", "h", "o"}
        ELSE IF ndb[n] = "susp" THEN (b \ {"h", "o"}) \cup {"S"}
        ELSE IF odb[n] = {} THEN (b \cup {"r"}) \ {"h", "o"}
        ELSE (b \cup {"r"}) \cup odb[n]
NamedExtra(x, n, ok) ==
    IF ok /\ ndb[n] # "susp" /\ odb[n] # {} THEN (NickModes(x) \cap Ranks) \ odb[n] ELSE {}
NamedPrivs(x, n, ok) == IF ok /\ ndb[n] # "susp" THEN GrantPriv(x, odb[n]) ELSE x.privs

LEMMA NamedIs ==
    ASSUME Recs(ndb, adb, odb), NEW x \in Record, NEW n \in Nick, NEW ok \in BOOLEAN
    PROVE  Remade(x, Named(x, n, ok), n, NamedModes(x, n, ok), NamedPrivs(x, n, ok), NamedExtra(x, n, ok))
<1> DEFINE c == IF x.st = "user" THEN Parted(x) ELSE x
           b == NickModes(x)
           f == NickExtra(x)
           H == {"h", "o"}
           B == {"r", "S", "h", "o"}
           y == [c EXCEPT !.nick = n]
           v == Without(y, H)
           s == [v EXCEPT !.modes = @ \cup {"S"}]
           r == [y EXCEPT !.modes = @ \cup {"r"}]
           z == Granted(r, n)
           g == (b \cap Ranks) \ odb[n]
           k == [z EXCEPT !.extra = g]
<1>1. Remade(x, y, n, b, x.privs, f)
  <2>1. Remade(x, c, x.nick, b, x.privs, f)
    <3>1. Remade(x, x, x.nick, x.modes, x.privs, x.extra)
      BY DEF Remade
    <3> QED BY <3>1, PartedIs DEF NickModes, NickExtra
  <2>2. c \in Record /\ c.modes = b /\ c.privs = x.privs /\ c.extra = f
    BY <2>1 DEF Remade
  <2> HIDE DEF c, b, f
  <2>3. Remade(c, y, n, b, x.privs, f)
    BY <2>2, SetNick
  <2> QED BY ONLY <2>1, <2>3, Remakes
<1>2. y \in Record /\ y.modes = b /\ y.nick = n /\ y.privs = x.privs /\ y.extra = f
  BY <1>1 DEF Remade
<1>2a. f \ H = {} /\ f \ B = {} /\ b \in SUBSET Modes
  BY <1>2, RecordIs DEF Ranks
<1> HIDE DEF y, b, f, c
<1>3. Remade(x, Stripped(y), n, b \ B, x.privs, {})
  <2>1. Remade(y, Stripped(y), n, b \ B, x.privs, {})
    BY <1>2, <1>2a, WithoutIs DEF Stripped
  <2> QED BY ONLY <1>1, <2>1, Remakes
<1>4. Remade(x, v, n, b \ H, x.privs, {})
  <2>1. Remade(y, v, n, b \ H, x.privs, {})
    BY <1>2, <1>2a, WithoutIs
  <2> QED BY ONLY <1>1, <2>1, Remakes
<1>5. v \in Record /\ v.modes = b \ H /\ v.nick = n /\ v.privs = x.privs /\ v.extra = {}
  BY <1>4 DEF Remade
<1> HIDE DEF v
<1>6. Remade(x, s, n, (b \ H) \cup {"S"}, x.privs, {})
  <2>1. s = [v EXCEPT !.modes = (b \ H) \cup {"S"}] /\ (b \ H) \cup {"S"} \in SUBSET Modes
    BY <1>2a, <1>5 DEF Modes
  <2>2. Remade(v, s, n, (b \ H) \cup {"S"}, x.privs, {})
    BY <1>5, <2>1, SetModes
  <2> QED BY ONLY <1>4, <2>2, Remakes
<1>7. Remade(x, r, n, b \cup {"r"}, x.privs, f)
  <2>1. r = [y EXCEPT !.modes = b \cup {"r"}] /\ b \cup {"r"} \in SUBSET Modes
    BY <1>2, <1>2a DEF Modes
  <2>2. Remade(y, r, n, b \cup {"r"}, x.privs, f)
    BY <1>2, <2>1, SetModes
  <2> QED BY ONLY <1>1, <2>2, Remakes
<1>8. r \in Record /\ r.nick = n /\ r.modes = b \cup {"r"} /\ r.privs = x.privs /\ r.extra = f
  BY <1>7 DEF Remade
<1> HIDE DEF r, s
<1>9. Remade(x, Without(r, H), n, (b \cup {"r"}) \ H, x.privs, {})
  <2>1. Remade(r, Without(r, H), n, (b \cup {"r"}) \ H, x.privs, {})
    BY <1>2a, <1>8, WithoutIs
  <2> QED BY ONLY <1>7, <2>1, Remakes
<1>10. Remade(x, z, n, (b \cup {"r"}) \cup odb[n], GrantPriv(x, odb[n]), f)
  <2>1. Remade(r, z, n, (b \cup {"r"}) \cup odb[n], GrantPriv(x, odb[n]), f)
    BY <1>8, GrantedIs DEF GrantPriv
  <2> QED BY ONLY <1>7, <2>1, Remakes
<1>11. /\ z \in Record /\ z.nick = n /\ z.modes = (b \cup {"r"}) \cup odb[n] /\ z.privs = GrantPriv(x, odb[n])
  BY <1>10 DEF Remade
<1> HIDE DEF z
<1>12. Remade(x, k, n, (b \cup {"r"}) \cup odb[n], GrantPriv(x, odb[n]), g)
  <2>1. g \in SUBSET Ranks
    OBVIOUS
  <2> HIDE DEF g
  <2>2. Remade(z, k, n, (b \cup {"r"}) \cup odb[n], GrantPriv(x, odb[n]), g)
    BY <1>11, <2>1, SetExtra
  <2> QED BY ONLY <1>10, <2>2, Remakes
<1>13. Named(x, n, ok) = IF ~ok THEN Stripped(y) ELSE IF ndb[n] = "susp" THEN s
                         ELSE IF odb[n] = {} THEN Without(r, H) ELSE k
  <2>1. g = (y.modes \cap {"h", "o"}) \ get_status(n) /\ get_status(n) = odb[n]
    BY <1>2, RecsIs DEF Ranks
  <2> HIDE DEF g
  <2> QED BY <2>1 DEF Named, y, s, r, c, v, z
<1> HIDE DEF k
<1>14. CASE ~ok
  BY <1>3, <1>13, <1>14 DEF NamedModes, NamedPrivs, NamedExtra, b
<1>15. CASE ok /\ ndb[n] = "susp"
  BY <1>6, <1>13, <1>15 DEF NamedModes, NamedPrivs, NamedExtra, b
<1>16. CASE ok /\ ndb[n] # "susp" /\ odb[n] = {}
  BY <1>9, <1>13, <1>16 DEF NamedModes, NamedPrivs, NamedExtra, GrantPriv, b
<1>17. CASE ok /\ ndb[n] # "susp" /\ odb[n] # {}
  BY <1>12, <1>13, <1>17 DEF NamedModes, NamedPrivs, NamedExtra, b
<1> QED
  BY <1>14, <1>15, <1>16, <1>17

\* What rename_user makes of the modes.
RenamedModes(x, n) ==
    LET b == PartedModes(x)
    IN  IF ndb[n] = "none" THEN b ELSE IF ndb[n] = "susp" THEN b \cup {"S"} ELSE (b \cup {"r"}) \cup odb[n]
RenamedPrivs(x, n) == IF ndb[n] \in {"none", "susp"} THEN x.privs ELSE GrantPriv(x, odb[n])

LEMMA RenamedIs ==
    ASSUME Recs(ndb, adb, odb), NEW x \in Record, NEW n \in Nick
    PROVE  Remade(x, Renamed(x, n), n, RenamedModes(x, n), RenamedPrivs(x, n), PartedExtra(x))
<1> DEFINE c == Parted(x)
           b == PartedModes(x)
           f == PartedExtra(x)
           y == [c EXCEPT !.nick = n]
           s == [y EXCEPT !.modes = @ \cup {"S"}]
           r == [y EXCEPT !.modes = @ \cup {"r"}]
           z == Granted(r, n)
<1>0. Remade(x, c, x.nick, b, x.privs, f)
  BY PartedIs
<1> HIDE DEF c, b, f
<1>1. Remade(x, y, n, b, x.privs, f)
  <2>2. c \in Record /\ c.modes = b /\ c.privs = x.privs /\ c.extra = f
    BY <1>0 DEF Remade
  <2>3. Remade(c, y, n, b, x.privs, f)
    BY <2>2, SetNick
  <2> QED BY ONLY <1>0, <2>3, Remakes
<1>2. y \in Record /\ y.modes = b /\ y.nick = n /\ y.privs = x.privs /\ y.extra = f
  BY <1>1 DEF Remade
<1>3. b \cup {"S"} \in SUBSET Modes /\ b \cup {"r"} \in SUBSET Modes
  BY <1>2, RecordIs DEF Modes
<1> HIDE DEF y
<1>4. Remade(x, s, n, b \cup {"S"}, x.privs, f)
  <2>1. s = [y EXCEPT !.modes = b \cup {"S"}]
    BY <1>2
  <2>2. Remade(y, s, n, b \cup {"S"}, x.privs, f)
    BY <1>2, <1>3, <2>1, SetModes
  <2> QED BY ONLY <1>1, <2>2, Remakes
<1>5. Remade(x, r, n, b \cup {"r"}, x.privs, f)
  <2>1. r = [y EXCEPT !.modes = b \cup {"r"}]
    BY <1>2
  <2>2. Remade(y, r, n, b \cup {"r"}, x.privs, f)
    BY <1>2, <1>3, <2>1, SetModes
  <2> QED BY ONLY <1>1, <2>2, Remakes
<1>6. r \in Record /\ r.nick = n /\ r.modes = b \cup {"r"} /\ r.privs = x.privs /\ r.extra = f
  BY <1>5 DEF Remade
<1> HIDE DEF r, s
<1>7. Remade(r, z, n, (b \cup {"r"}) \cup odb[n], GrantPriv(x, odb[n]), f)
  BY <1>6, GrantedIs DEF GrantPriv
<1>8. Remade(x, z, n, (b \cup {"r"}) \cup odb[n], GrantPriv(x, odb[n]), f)
  BY ONLY <1>5, <1>7, Remakes
<1>9. Renamed(x, n) = IF ndb[n] = "none" THEN y ELSE IF ndb[n] = "susp" THEN s ELSE z
  BY DEF Renamed, y, s, r, c
<1> HIDE DEF z
<1>10. CASE ndb[n] = "none"
  BY <1>1, <1>9, <1>10 DEF RenamedModes, RenamedPrivs, b, f
<1>11. CASE ndb[n] = "susp"
  BY <1>4, <1>9, <1>11 DEF RenamedModes, RenamedPrivs, b, f
<1>12. CASE ndb[n] # "none" /\ ndb[n] # "susp"
  BY <1>8, <1>9, <1>12 DEF RenamedModes, RenamedPrivs, b, f
<1> QED
  BY <1>10, <1>11, <1>12

-----------------------------------------------------------------------------
(* Names, lists and history.                                               *)

\* All of the invariant but modes, tables and counters.
Steady ==
    /\ Shaped(who) /\ Single(who, clash)
    /\ Paired(wl, uw, cw) /\ Truthful(who, wl, told, early, clash)
    /\ Ring(who, wtab, wnext, hl, cl)

LEMMA SteadyHolds == UserInv => Steady
  BY DEF UserInv, Steady

(* A client that keeps its status, nick and waiting, and unregistered ones *)
(* that come or go, disturb no list.                                       *)
LEMMA SteadyQuiet ==
    ASSUME Steady, NEW u \in Client, NEW y, NEW G, Fits(u, y), who' = Turned(who, u, y, G),
           \A v \in G : v \in Client /\ who[v].st # "user",
           who[u].st = "user" <=> y.st = "user",
           y.st = "user" => y.nick = who[u].nick /\ y.wait = who[u].wait,
           \A v \in Client : v # u /\ v \notin G /\ who[v].nick = y.nick => y.nick \notin Nick \ clash',
           clash \subseteq clash', UNCHANGED <<wvars, hvars>>
    PROVE  Steady'
<1>1. Shaped(who') /\ Single(who', clash')
  BY ShapedTurns, SingleTurns DEF Steady
<1>2. \A z \in Client : who'[z] = IF z = u THEN y ELSE IF z \in G THEN Gone ELSE who[z]
  BY DEF Turned
<1>3. Alike(who, who')
  BY <1>2, GoneIs DEF Alike
<1>4. \A z \in Client : who[z].st = "user" => who'[z].st = "user"
  BY <1>3 DEF Alike
<1>5. wl' = wl /\ uw' = uw /\ cw' = cw /\ told' = told /\ early' = early
  BY DEF wvars
<1>6. wtab' = wtab /\ wnext' = wnext /\ hl' = hl /\ cl' = cl
  BY DEF hvars
<1>7. Truthful(who', wl, told, early, clash')
  BY <1>3, TruthfulAlike DEF Steady
<1>8. Ring(who', wtab, wnext, hl, cl)
  BY <1>4, RingKept DEF Steady
<1> QED
  BY <1>1, <1>5, <1>6, <1>7, <1>8 DEF Steady

LEMMA SteadyModes ==
    ASSUME Steady, NEW u \in Client, NEW y, Fits(u, y), who' = Turned(who, u, y, {}),
           y.st = who[u].st, y.nick = who[u].nick, y.wait = who[u].wait,
           UNCHANGED <<wvars, hvars, clash>>
    PROVE  Steady'
<1>1. \A v \in Client : v # u /\ v \notin {} /\ who[v].nick = y.nick => y.nick \notin Nick \ clash'
  BY DEF Steady, Single
<1> QED
  BY <1>1, SteadyQuiet

(* A client completes its registration.                                    *)
LEMMA SteadyComes ==
    ASSUME Steady, NEW u \in Client, NEW y, Fits(u, y), who' = Turned(who, u, y, {}),
           who[u].st # "user", y.st = "user",
           \A v \in Client : v # u /\ who[v].nick = y.nick => y.nick \notin Nick \ clash,
           told' = Heard(told, y.nick, "on"), early' = Past({y.nick}),
           UNCHANGED <<wl, uw, cw, hvars, clash>>
    PROVE  Steady'
<1>1. Shaped(who') /\ Single(who', clash)
  BY ShapedTurns, SingleTurns DEF Steady
<1>2. \A z \in Client : who'[z] = IF z = u THEN y ELSE who[z]
  BY DEF Turned
<1>3. \A z \in Client : who[z].st = "user" => who'[z].st = "user"
  BY <1>2
<1>4. Truthful(who', wl, told', early', clash)
  <2>1. y.nick \in Nick /\ wl \in [Nick -> SUBSET Local] /\ Truthful(who, wl, told, early, clash)
    BY DEF Fits, Steady, Paired
  <2> QED BY <2>1, TruthfulComes
<1>5. Ring(who', wtab, wnext, hl, cl)
  BY <1>3, RingKept DEF Steady
<1> QED
  BY <1>1, <1>4, <1>5 DEF Steady, hvars

(* A registered user changes its nick.                                     *)
LEMMA SteadyMoves ==
    ASSUME Steady, NEW u \in Client, NEW y, NEW G, Fits(u, y), who' = Turned(who, u, y, G),
           \A v \in G : v \in Client /\ who[v].st # "user",
           who[u].st = "user", y.st = "user", y.nick # who[u].nick,
           \A v \in Client : v # u /\ v \notin G /\ who[v].nick = y.nick => y.nick \notin Nick \ clash',
           clash \subseteq clash', NEW on \in BOOLEAN, on \/ y.wait, Moves(u, y, on)
    PROVE  Steady'
<1>1. Shaped(who') /\ Single(who', clash')
  BY ShapedTurns, SingleTurns DEF Steady
<1>2. \A z \in Client : who'[z] = IF z = u THEN y ELSE IF z \in G THEN Gone ELSE who[z]
  BY DEF Turned
<1>3. \A z \in Client : who[z].st = "user" => who'[z].st = "user"
  BY <1>2
<1>4. y.nick \in Nick /\ who[u].nick \in Nick
  BY ShapedIs DEF Fits, Steady
<1>5. /\ told' = IF on THEN Heard(Heard(told, who[u].nick, "off"), y.nick, "on")
                ELSE Heard(told, who[u].nick, "off")
      /\ early' = Past({who[u].nick} \cup IF on THEN {y.nick} ELSE {})
      /\ add_history(u, who[u].nick, TRUE) /\ wl' = wl /\ uw' = uw /\ cw' = cw
  BY DEF Moves
<1>6. Truthful(who', wl, told', early', clash')
  <2>1. \/ /\ told' = Heard(Heard(told, who[u].nick, "off"), y.nick, "on")
           /\ early' = Past({who[u].nick, y.nick})
        \/ told' = Heard(told, who[u].nick, "off") /\ early' = Past({who[u].nick}) /\ y.wait
    <3>1. {who[u].nick} \cup {y.nick} = {who[u].nick, y.nick} /\ {who[u].nick} \cup {} = {who[u].nick}
      OBVIOUS
    <3> QED BY <1>5, <3>1
  <2>2. /\ Single(who, clash) /\ wl \in [Nick -> SUBSET Local]
        /\ Truthful(who, wl, told, early, clash)
    BY DEF Steady, Paired
  <2> QED BY <1>4, <2>1, <2>2, TruthfulMoves
<1>7. Ring(who', wtab', wnext', hl', cl')
  <2>1. Ring(who, wtab, wnext, hl, cl)
    BY DEF Steady
  <2> QED BY <1>3, <1>4, <1>5, <2>1, RingMoves
<1> QED
  BY <1>1, <1>5, <1>6, <1>7 DEF Steady

(* A user leaves.                                                          *)
LEMMA SteadyGoes ==
    ASSUME Steady, NEW u \in Client, who' = Turned(who, u, Gone, {}), who[u].st = "user",
           told' = [Heard(told, who[u].nick, "off") EXCEPT ![u] = [n \in Nick |-> "off"]],
           early' = [Past({who[u].nick}) EXCEPT ![u] = {}],
           wl' = NoWatch(u), uw' = [uw EXCEPT ![u] = {}], cw' = [cw EXCEPT ![u] = 0],
           add_history(u, who[u].nick, FALSE), clash' = clash
    PROVE  Steady'
<1>1. Fits(u, Gone)
  BY GoneIs DEF Fits
<1>2. Shaped(who') /\ Single(who', clash)
  BY <1>1, UserConstants, GoneIs, ShapedTurns, SingleTurns DEF Steady
<1>3. \A z \in Client : who'[z] = IF z = u THEN Gone ELSE who[z]
  BY DEF Turned
<1>4. who[u].nick \in Nick
  BY ShapedIs DEF Fits, Steady
<1>5. Truthful(who', wl', told', early', clash)
  <2>1. /\ Single(who, clash) /\ wl \in [Nick -> SUBSET Local]
        /\ Truthful(who, wl, told, early, clash)
    BY DEF Steady, Paired
  <2> QED BY <1>4, <2>1, TruthfulGoes
<1>6. Ring(who', wtab', wnext', hl', cl')
  <2>1. Ring(who, wtab, wnext, hl, cl)
    BY DEF Steady
  <2>2. \A x \in Client : who[x].st = "user" /\ x # u => who'[x].st = "user"
    BY <1>3
  <2> QED BY <1>4, <2>1, <2>2, RingMoves
<1>7. Paired(wl', uw', cw')
  <2>1. Paired(wl, uw, cw)
    BY DEF Steady
  <2>2. wl' \in [Nick -> SUBSET Local] /\ \A n \in Nick : wl'[n] = wl[n] \ {u}
    BY <2>1 DEF NoWatch, Paired
  <2>3. uw' \in [Client -> SUBSET Nick] /\ cw' \in [Client -> 0..MaxWatch]
    BY <2>1, UserConstants DEF Paired
  <2>4. \A v \in Client : uw'[v] = (IF v = u THEN {} ELSE uw[v]) /\ cw'[v] = (IF v = u THEN 0 ELSE cw[v])
    BY <2>1 DEF Paired
  <2>5. \A v \in Local : v \in Client
    BY DEF Client
  <2>6. \A v \in Local, n \in Nick : v \in wl'[n] <=> n \in uw'[v]
    BY <2>1, <2>2, <2>4, <2>5 DEF Paired
  <2>7. \A v \in Local : IsFiniteSet(uw'[v]) /\ cw'[v] = Cardinality(uw'[v])
    BY <2>1, <2>4, <2>5, FS_EmptySet DEF Paired
  <2> QED BY <2>2, <2>3, <2>6, <2>7 DEF Paired
<1> QED
  BY <1>2, <1>5, <1>6, <1>7 DEF Steady

(* The commands of WATCH.                                                  *)
LEMMA LocalIsClient == \A u \in Local : u \in Client
  BY DEF Client

LEMMA RestKept ==
    ASSUME UserInv, Steady', UNCHANGED <<who, ndb, adb, odb, cnt, exempt, clash>>
    PROVE  UserInv'
  BY DEF UserInv, Steady

LEMMA WatchKeeps ==
    ASSUME UserInv, NEW u \in Local, NEW n \in Nick, Watch(u, n)
    PROVE  UserInv'
<1>1. /\ cw[u] < MaxWatch /\ wl' = [wl EXCEPT ![n] = @ \cup {u}] /\ uw' = [uw EXCEPT ![u] = @ \cup {n}]
      /\ cw' = [cw EXCEPT ![u] = IF u \in wl[n] THEN @ ELSE @ + 1]
      /\ told' = [told EXCEPT ![u][n] = IF FindClient(n) # {} THEN "on" ELSE "off"]
      /\ early' = [early EXCEPT ![u] = IF FindClient(n) # {} /\ FindUser(n) = {}
                                       THEN @ \cup {n} ELSE @ \ {n}]
      /\ UNCHANGED <<who, ndb, adb, odb, cnt, wtab, wnext, hl, cl, exempt, clash>>
  BY DEF Watch, Tables, hvars
<1>2. /\ Shaped(who) /\ Single(who, clash) /\ Paired(wl, uw, cw) /\ Truthful(who, wl, told, early, clash)
      /\ Ring(who, wtab, wnext, hl, cl)
  BY DEF UserInv
<1>3. /\ wl \in [Nick -> SUBSET Local] /\ uw \in [Client -> SUBSET Nick] /\ cw \in [Client -> 0..MaxWatch]
      /\ \A v \in Local, m \in Nick : v \in wl[m] <=> m \in uw[v]
      /\ \A v \in Local : IsFiniteSet(uw[v]) /\ cw[v] = Cardinality(uw[v])
  BY <1>2 DEF Paired
<1>4. u \in Client
  BY LocalIsClient
<1>5. Paired(wl', uw', cw')
  <2>1. wl' \in [Nick -> SUBSET Local] /\ \A m \in Nick : wl'[m] = IF m = n THEN wl[m] \cup {u} ELSE wl[m]
    BY <1>1, <1>3
  <2>2. uw' \in [Client -> SUBSET Nick] /\ \A v \in Client : uw'[v] = IF v = u THEN uw[v] \cup {n} ELSE uw[v]
    BY <1>1, <1>3, <1>4
  <2>3. /\ cw' \in [Client -> 0..MaxWatch]
        /\ \A v \in Client : cw'[v] = IF v = u THEN (IF u \in wl[n] THEN cw[u] ELSE cw[u] + 1) ELSE cw[v]
    BY <1>1, <1>3, <1>4, UserConstants
  <2>4. \A v \in Local, m \in Nick : v \in wl'[m] <=> m \in uw'[v]
    BY <1>3, <2>1, <2>2, LocalIsClient
  <2>5. IsFiniteSet(uw[u] \cup {n}) /\ (n \in uw[u] => uw[u] \cup {n} = uw[u])
        /\ (n \notin uw[u] => Cardinality(uw[u] \cup {n}) = Cardinality(uw[u]) + 1)
    BY <1>3, FS_AddElement
  <2>6. cw'[u] = Cardinality(uw'[u]) /\ IsFiniteSet(uw'[u])
    BY <1>3, <1>4, <2>2, <2>3, <2>5
  <2>7. \A v \in Local : IsFiniteSet(uw'[v]) /\ cw'[v] = Cardinality(uw'[v])
    BY <1>3, <2>2, <2>3, <2>6, LocalIsClient
  <2> QED BY <2>1, <2>2, <2>3, <2>4, <2>7 DEF Paired
<1>6. Truthful(who, wl', told', early', clash)
  <2> DEFINE d == IF FindClient(n) # {} THEN "on" ELSE "off"
             b == FindClient(n) # {} /\ FindUser(n) = {}
  <2>1. told \in [Client -> [Nick -> Marks]] /\ early \in [Client -> SUBSET Nick]
    BY <1>2 DEF Truthful
  <2>2. d \in Marks
    BY DEF Marks
  <2>3. FindUser(n) = Holders(who, n) /\ (FindClient(n) = {} => Holders(who, n) = {})
    BY DEF FindUser, FindClient, Holders, IsUser
  <2>4. Sure(who, n, d, b)
    BY <2>3 DEF Sure, FindClient, Holders
  <2>5. told' = [told EXCEPT ![u][n] = d] /\ early' = [early EXCEPT ![u] = IF b THEN @ \cup {n} ELSE @ \ {n}]
    BY <1>1
  <2> HIDE DEF d, b
  <2>6. /\ told' \in [Client -> [Nick -> Marks]] /\ told'[u][n] = d
        /\ \A v \in Client, m \in Nick : v # u \/ m # n => told'[v][m] = told[v][m]
    BY <1>4, <2>1, <2>2, <2>5
  <2>6a. /\ early' \in [Client -> SUBSET Nick] /\ (n \in early'[u] <=> b)
         /\ \A v \in Client, m \in Nick : v # u \/ m # n => (m \in early'[v] <=> m \in early[v])
    BY <1>4, <2>1, <2>5
  <2>7. ASSUME NEW m \in Nick \ clash, NEW v \in wl'[m] PROVE Sure(who, m, told'[v][m], m \in early'[v])
    <3>1. v \in Client
      BY <1>5, LocalIsClient DEF Paired
    <3>2. CASE v = u /\ m = n
      <4>1. told'[v][m] = d /\ (m \in early'[v] <=> b)
        BY <2>6, <2>6a, <3>2
      <4> QED BY <2>4, <3>2, <4>1 DEF Sure
    <3>3. CASE v # u \/ m # n
      <4>1. v \in wl[m] /\ told'[v][m] = told[v][m] /\ (m \in early'[v] <=> m \in early[v])
        BY <1>1, <1>3, <2>6, <2>6a, <3>1, <3>3
      <4> QED BY <1>2, <4>1 DEF Truthful, Sure
    <3> QED BY <3>2, <3>3
  <2>8. \A v \in Client : \A m \in early'[v] : v \in wl'[m]
    <3> SUFFICES ASSUME NEW v \in Client, NEW m \in early'[v] PROVE v \in wl'[m]
      OBVIOUS
    <3>1. m \in Nick /\ ((v = u /\ m = n) \/ m \in early[v])
      BY <2>6a
    <3>2. m \in early[v] => v \in wl[m]
      BY <1>2 DEF Truthful
    <3> QED BY <1>1, <1>3, <3>1, <3>2
  <2> QED BY <2>6, <2>6a, <2>7, <2>8 DEF Truthful
<1> QED
  BY <1>1, <1>2, <1>5, <1>6, RestKept DEF Steady

LEMMA UnwatchKeeps ==
    ASSUME UserInv, NEW u \in Local, NEW n \in Nick, Unwatch(u, n)
    PROVE  UserInv'
<1>1. /\ u \in wl[n] /\ wl' = [wl EXCEPT ![n] = @ \ {u}] /\ uw' = [uw EXCEPT ![u] = @ \ {n}]
      /\ cw' = [cw EXCEPT ![u] = @ - 1] /\ told' = [told EXCEPT ![u][n] = "off"]
      /\ early' = [early EXCEPT ![u] = @ \ {n}]
      /\ UNCHANGED <<who, ndb, adb, odb, cnt, wtab, wnext, hl, cl, exempt, clash>>
  BY DEF Unwatch, Tables, hvars
<1>2. /\ Shaped(who) /\ Single(who, clash) /\ Paired(wl, uw, cw) /\ Truthful(who, wl, told, early, clash)
      /\ Ring(who, wtab, wnext, hl, cl)
  BY DEF UserInv
<1>3. /\ wl \in [Nick -> SUBSET Local] /\ uw \in [Client -> SUBSET Nick] /\ cw \in [Client -> 0..MaxWatch]
      /\ \A v \in Local, m \in Nick : v \in wl[m] <=> m \in uw[v]
      /\ \A v \in Local : IsFiniteSet(uw[v]) /\ cw[v] = Cardinality(uw[v])
  BY <1>2 DEF Paired
<1>4. u \in Client /\ n \in uw[u]
  BY <1>1, <1>3, LocalIsClient
<1>5. Paired(wl', uw', cw')
  <2>1. wl' \in [Nick -> SUBSET Local] /\ \A m \in Nick : wl'[m] = IF m = n THEN wl[m] \ {u} ELSE wl[m]
    BY <1>1, <1>3
  <2>2. uw' \in [Client -> SUBSET Nick] /\ \A v \in Client : uw'[v] = IF v = u THEN uw[v] \ {n} ELSE uw[v]
    BY <1>1, <1>3, <1>4
  <2>3. IsFiniteSet(uw[u] \ {n}) /\ Cardinality(uw[u] \ {n}) = Cardinality(uw[u]) - 1
    BY <1>3, <1>4, FS_RemoveElement
  <2>4. Cardinality(uw[u] \ {n}) \in Nat
    BY <2>3, FS_CardinalityType
  <2>5. cw[u] - 1 \in 0..MaxWatch
    BY <1>3, <1>4, <2>3, <2>4, UserConstants
  <2>6. cw' \in [Client -> 0..MaxWatch] /\ \A v \in Client : cw'[v] = IF v = u THEN cw[u] - 1 ELSE cw[v]
    BY <1>1, <1>3, <1>4, <2>5
  <2>7. \A v \in Local, m \in Nick : v \in wl'[m] <=> m \in uw'[v]
    BY <1>3, <2>1, <2>2, LocalIsClient
  <2>8. \A v \in Local : IsFiniteSet(uw'[v]) /\ cw'[v] = Cardinality(uw'[v])
    BY <1>3, <1>4, <2>2, <2>3, <2>6, LocalIsClient
  <2> QED BY <2>1, <2>2, <2>6, <2>7, <2>8 DEF Paired
<1>6. Truthful(who, wl', told', early', clash)
  <2>1. told \in [Client -> [Nick -> Marks]] /\ early \in [Client -> SUBSET Nick] /\ "off" \in Marks
    BY <1>2 DEF Truthful, Marks
  <2>2. /\ told' \in [Client -> [Nick -> Marks]]
        /\ \A v \in Client, m \in Nick : v # u \/ m # n => told'[v][m] = told[v][m]
    BY <1>1, <1>4, <2>1
  <2>2a. /\ early' \in [Client -> SUBSET Nick] /\ n \notin early'[u]
         /\ \A v \in Client, m \in Nick : v # u \/ m # n => (m \in early'[v] <=> m \in early[v])
    BY <1>1, <1>4, <2>1
  <2>3. ASSUME NEW m \in Nick \ clash, NEW v \in wl'[m] PROVE Sure(who, m, told'[v][m], m \in early'[v])
    <3>1. v \in Client /\ v \in wl[m] /\ (v # u \/ m # n)
      BY <1>1, <1>3, LocalIsClient
    <3>2. Sure(who, m, told[v][m], m \in early[v]) /\ told'[v][m] = told[v][m] /\ (m \in early'[v] <=> m \in early[v])
      BY <1>2, <2>2, <2>2a, <3>1 DEF Truthful
    <3> QED BY <3>2 DEF Sure
  <2>4. \A v \in Client : \A m \in early'[v] : v \in wl'[m]
    <3> SUFFICES ASSUME NEW v \in Client, NEW m \in early'[v] PROVE v \in wl'[m]
      OBVIOUS
    <3>1. m \in Nick /\ m \in early[v] /\ ~(v = u /\ m = n)
      BY <2>2a
    <3>2. v \in wl[m]
      BY <1>2, <3>1 DEF Truthful
    <3> QED BY <1>1, <1>3, <3>1, <3>2
  <2> QED BY <2>2, <2>2a, <2>3, <2>4 DEF Truthful
<1> QED
  BY <1>1, <1>2, <1>5, <1>6, RestKept DEF Steady

LEMMA UnwatchAllKeeps ==
    ASSUME UserInv, NEW u \in Local, UnwatchAll(u)
    PROVE  UserInv'
<1>1. /\ wl' = NoWatch(u) /\ uw' = [uw EXCEPT ![u] = {}] /\ cw' = [cw EXCEPT ![u] = 0]
      /\ told' = [told EXCEPT ![u] = [n \in Nick |-> "off"]] /\ early' = [early EXCEPT ![u] = {}]
      /\ UNCHANGED <<who, ndb, adb, odb, cnt, wtab, wnext, hl, cl, exempt, clash>>
  BY DEF UnwatchAll, Tables, hvars
<1>2. /\ Shaped(who) /\ Single(who, clash) /\ Paired(wl, uw, cw) /\ Truthful(who, wl, told, early, clash)
      /\ Ring(who, wtab, wnext, hl, cl)
  BY DEF UserInv
<1>3. /\ wl \in [Nick -> SUBSET Local] /\ uw \in [Client -> SUBSET Nick] /\ cw \in [Client -> 0..MaxWatch]
      /\ \A v \in Local, m \in Nick : v \in wl[m] <=> m \in uw[v]
      /\ \A v \in Local : IsFiniteSet(uw[v]) /\ cw[v] = Cardinality(uw[v])
  BY <1>2 DEF Paired
<1>4. u \in Client
  BY LocalIsClient
<1>5. Paired(wl', uw', cw')
  <2>1. wl' \in [Nick -> SUBSET Local] /\ \A m \in Nick : wl'[m] = wl[m] \ {u}
    BY <1>1, <1>3 DEF NoWatch
  <2>2. uw' \in [Client -> SUBSET Nick] /\ \A v \in Client : uw'[v] = IF v = u THEN {} ELSE uw[v]
    BY <1>1, <1>3, <1>4
  <2>3. cw' \in [Client -> 0..MaxWatch] /\ \A v \in Client : cw'[v] = IF v = u THEN 0 ELSE cw[v]
    BY <1>1, <1>3, <1>4, UserConstants
  <2>4. \A v \in Local, m \in Nick : v \in wl'[m] <=> m \in uw'[v]
    BY <1>3, <2>1, <2>2, LocalIsClient
  <2>5. \A v \in Local : IsFiniteSet(uw'[v]) /\ cw'[v] = Cardinality(uw'[v])
    BY <1>3, <2>2, <2>3, LocalIsClient, FS_EmptySet
  <2> QED BY <2>1, <2>2, <2>3, <2>4, <2>5 DEF Paired
<1>6. Truthful(who, wl', told', early', clash)
  <2>1. told \in [Client -> [Nick -> Marks]] /\ early \in [Client -> SUBSET Nick] /\ [n \in Nick |-> "off"] \in [Nick -> Marks]
    BY <1>2 DEF Truthful, Marks
  <2>2. told' \in [Client -> [Nick -> Marks]] /\ \A v \in Client : v # u => told'[v] = told[v]
    BY <1>1, <1>4, <2>1
  <2>2a. /\ early' \in [Client -> SUBSET Nick] /\ early'[u] = {}
         /\ \A v \in Client : v # u => early'[v] = early[v]
    BY <1>1, <1>4, <2>1
  <2>3. ASSUME NEW m \in Nick \ clash, NEW v \in wl'[m] PROVE Sure(who, m, told'[v][m], m \in early'[v])
    <3>1. v \in Client /\ v \in wl[m] /\ v # u
      BY <1>1, <1>3, LocalIsClient DEF NoWatch
    <3> QED BY <1>2, <2>2, <2>2a, <3>1 DEF Truthful
  <2>4. \A v \in Client : \A m \in early'[v] : v \in wl'[m]
    <3> SUFFICES ASSUME NEW v \in Client, NEW m \in early'[v] PROVE v \in wl'[m]
      OBVIOUS
    <3>1. v # u /\ m \in early[v] /\ m \in Nick
      BY <2>1, <2>2a
    <3>2. v \in wl[m]
      BY <1>2, <3>1 DEF Truthful
    <3> QED BY <1>1, <3>1, <3>2 DEF NoWatch
  <2> QED BY <2>2, <2>2a, <2>3, <2>4 DEF Truthful
<1> QED
  BY <1>1, <1>2, <1>5, <1>6, RestKept DEF Steady

-----------------------------------------------------------------------------
(* Where the modes come from.                                              *)

\* y is in order for u, given the tables.
Earned(u, y, rec, ops, free, both) ==
    /\ y.cmd => y.privs # "none"
    /\ u \in Local \ free /\ y.st # "none" =>
         /\ Proper(y)
         /\ y.nick \notin both => Rooted(y, rec[y.nick], ops[y.nick])

LEMMA BasedIs ==
    ASSUME NEW w, NEW rec, NEW ops, NEW free, NEW both, Based(w, rec, ops, free, both), NEW u \in Client
    PROVE  Earned(u, w[u], rec, ops, free, both)
  BY DEF Based, Earned

LEMMA BasedTurns ==
    ASSUME NEW w, NEW u \in Client, NEW y, NEW G, NEW rec, NEW ops, NEW free, NEW both,
           NEW rec2, NEW ops2, NEW free2, NEW both2,
           Based(w, rec, ops, free, both), both \subseteq both2,
           Earned(u, y, rec2, ops2, free2, both2),
           \A v \in Local \ free2 : v # u /\ v \notin G /\ w[v].st # "none" =>
               v \notin free /\ (w[v].nick \notin both2 => rec2[w[v].nick] = rec[w[v].nick]
                                                           /\ ops2[w[v].nick] = ops[w[v].nick])
    PROVE  Based(Turned(w, u, y, G), rec2, ops2, free2, both2)
<1> DEFINE t == Turned(w, u, y, G)
<1>1. \A z \in Client : t[z] = IF z = u THEN y ELSE IF z \in G THEN Gone ELSE w[z]
  BY DEF Turned
<1> HIDE DEF t
<1>2. ASSUME NEW v \in Client PROVE Earned(v, t[v], rec2, ops2, free2, both2)
  <2>1. CASE v = u
    BY <1>1, <2>1
  <2>2. CASE v # u /\ v \in G
    <3>1. t[v] = Gone
      BY <1>1, <2>2
    <3> QED BY <3>1, GoneIs DEF Earned
  <2>3. CASE v # u /\ v \notin G
    <3>1. t[v] = w[v] /\ Earned(v, w[v], rec, ops, free, both)
      BY <1>1, <2>3, BasedIs
    <3>2. v \in Local \ free2 /\ w[v].st # "none" =>
            v \notin free /\ (w[v].nick \notin both2 => rec2[w[v].nick] = rec[w[v].nick]
                                                        /\ ops2[w[v].nick] = ops[w[v].nick])
      BY <2>3
    <3> QED BY <3>1, <3>2 DEF Earned
  <2> QED BY <2>1, <2>2, <2>3
<1> QED
  BY <1>2, LocalIsClient DEF Based, Earned, t

(* NICK with the right password, or on a nick without a record.            *)
LEMMA NamedEarned ==
    ASSUME Recs(ndb, adb, odb), NEW u, NEW x \in Record, x.cmd => x.privs # "none", NEW n \in Nick,
           NEW ok \in BOOLEAN, NEW suspends, Allowed(n, ok, suspends), NEW free, NEW both
    PROVE  Earned(u, Named(x, n, ok), ndb, odb, free, both)
<1> DEFINE y == Named(x, n, ok)
<1>1. /\ y.nick = n /\ y.modes = NamedModes(x, n, ok) /\ y.cmd = x.cmd /\ y.privs = NamedPrivs(x, n, ok)
      /\ y.extra = NamedExtra(x, n, ok)
  BY NamedIs DEF Remade
<1> HIDE DEF y
<1>2. /\ "o" \in y.modes => "o" \in odb[n] \cup y.extra /\ "r" \in y.modes
      /\ "h" \in y.modes => "h" \in odb[n] \cup y.extra /\ "r" \in y.modes
      /\ "r" \in y.modes => ok
      /\ "S" \in y.modes => ok
      /\ y.extra \subseteq y.modes
      /\ ok => "r" \in y.modes \/ "S" \in y.modes
  BY <1>1, RecsIs DEF NamedModes, NamedExtra, Ranks
<1>3. (ok => ndb[n] \in {"ok", "susp"}) /\ (~ok => ndb[n] = "none")
  BY DEF Allowed
<1>4. y.cmd => y.privs # "none"
  BY <1>1, <1>2 DEF NamedPrivs, GrantPriv
<1>5. Proper(y) /\ Rooted(y, ndb[n], odb[n])
  BY <1>2, <1>3, <1>4 DEF Proper, Rooted
<1> QED
  BY <1>1, <1>4, <1>5 DEF Earned, y

(* Automodes come with a nick whose password was shown.                    *)
LEMMA NamedAutos ==
    ASSUME Recs(ndb, adb, odb), NEW x \in Record, NEW n \in Nick, NEW ok \in BOOLEAN, NEW a,
           a = IF ok THEN automodes(n) ELSE {}
    PROVE  a \in SUBSET Modes /\ (a = {} \/ "r" \in Named(x, n, ok).modes)
<1>1. Named(x, n, ok).modes = NamedModes(x, n, ok)
  BY NamedIs DEF Remade
<1>2. CASE ok /\ ndb[n] \notin {"none", "susp"}
  <2>1. "r" \in NamedModes(x, n, ok)
    BY <1>2 DEF NamedModes
  <2> QED BY <1>1, <2>1, <1>2, AutomodesIs
<1>3. CASE ~(ok /\ ndb[n] \notin {"none", "susp"})
  BY <1>3, AutomodesIs
<1> QED
  BY <1>2, <1>3

LEMMA GivenEarned ==
    ASSUME NEW u, NEW x \in Record, NEW a \in SUBSET Modes, a = {} \/ "r" \in x.modes,
           NEW rec, NEW ops, NEW free, NEW both, Earned(u, x, rec, ops, free, both)
    PROVE  Earned(u, Given(x, a), rec, ops, free, both)
<1> DEFINE y == Given(x, a)
<1>1. /\ y.st = x.st /\ y.nick = x.nick /\ y.modes = x.modes \cup a /\ y.cmd = x.cmd /\ y.privs = x.privs
      /\ y.extra = x.extra \cup (a \cap Ranks)
  BY GivenIs DEF Remade
<1> HIDE DEF y
<1>2. Proper(x) => Proper(y)
  BY <1>1 DEF Proper
<1>3. ASSUME NEW d, NEW s, Rooted(x, d, s) PROVE Rooted(y, d, s)
  <2>1. x.modes \cap {"r", "S"} # {} <=> y.modes \cap {"r", "S"} # {}
    BY <1>1
  <2>2. /\ "h" \in y.modes => "h" \in s \cup y.extra
        /\ "o" \in y.modes => y.cmd \/ "o" \in s \cup y.extra
    BY <1>1, <1>3 DEF Rooted, Ranks
  <2> QED BY <1>3, <2>1, <2>2 DEF Rooted
<1> QED
  BY <1>1, <1>2, <1>3 DEF Earned, y

(* rename_user to a guest name leaves only what OPER gave.                 *)
LEMMA RenamedEarned ==
    ASSUME Recs(ndb, adb, odb), NEW u, NEW x \in Record, x.cmd => x.privs # "none", NEW g \in Nick,
           g \in Guest, u \in Local \ exempt => Proper(x), NEW rec, NEW ops, rec[g] = "none", ops[g] = {},
           NEW free, exempt \subseteq free, NEW both
    PROVE  Earned(u, Renamed(x, g), rec, ops, free, both)
<1> DEFINE y == Renamed(x, g)
<1>1. ndb[g] = "none"
  BY DEF Recs
<1>2. /\ y.nick = g /\ y.cmd = x.cmd /\ y.privs = x.privs
      /\ y.modes = (IF x.modes \cap {"r", "S"} # {} THEN x.modes \ {"r", "S", "h", "o"} ELSE x.modes)
      /\ y.extra = (IF x.modes \cap {"r", "S"} # {} THEN {} ELSE x.extra)
  <2>1. x.extra \ {"r", "S", "h", "o"} = {}
    BY RecordIs DEF Ranks
  <2> QED BY <1>1, <2>1, RenamedIs DEF Remade, RenamedModes, RenamedPrivs, PartedModes, PartedExtra
<1> HIDE DEF y
<1>3. "r" \notin y.modes /\ "S" \notin y.modes
  BY <1>2
<1>4. Proper(x) => "h" \notin y.modes /\ ("o" \in y.modes => y.cmd) /\ y.extra \subseteq y.modes
  BY <1>2 DEF Proper
<1>5. Proper(x) => Proper(y) /\ Rooted(y, "none", {})
  BY <1>3, <1>4 DEF Proper, Rooted
<1> QED
  BY <1>2, <1>5 DEF Earned, y

-----------------------------------------------------------------------------
(* Each action keeps the invariant.                                        *)

LEMMA Parts ==
    ASSUME UserInv
    PROVE  /\ Steady /\ Shaped(who) /\ who \in [Client -> Record] /\ Single(who, clash)
           /\ Recs(ndb, adb, odb) /\ Based(who, ndb, odb, exempt, clash) /\ Numbered(who, cnt)
           /\ cnt \in Counts /\ exempt \subseteq Local /\ clash \subseteq Nick
           /\ \A u \in Client : who[u] \in Record /\ Fits(u, who[u]) /\ Earned(u, who[u], ndb, odb, exempt, clash)
<1>1. \A u \in Client : Fits(u, who[u]) /\ Earned(u, who[u], ndb, odb, exempt, clash)
  BY ShapedIs, BasedIs DEF UserInv
<1> QED
  BY <1>1, SteadyHolds DEF UserInv, Shaped, Numbered

LEMMA Assembled ==
    ASSUME Steady', Recs(ndb', adb', odb'), Based(who', ndb', odb', exempt', clash'), Numbered(who', cnt'),
           exempt' \subseteq Local, clash' \subseteq Nick
    PROVE  UserInv'
  BY DEF Steady, UserInv

LEMMA NameIsNick == \A n \in Name : n \in Nick
  BY DEF Nick

LEMMA FirstNickKeeps ==
    ASSUME UserInv, NEW u \in Local, NEW n \in Name, NEW ok \in BOOLEAN, NEW suspends \in BOOLEAN,
           FirstNick(u, n, ok, suspends)
    PROVE  UserInv'
<1> DEFINE z == [Gone EXCEPT !.st = "named", !.modes = AutoModes]
           x == Named(z, n, ok)
           a == IF ok THEN automodes(n) ELSE {}
           y == Given(x, a)
           G == FindClient(n)
<1>1. /\ who[u] = Gone /\ ~Taken(n) /\ Allowed(n, ok, suspends)
      /\ who' = Turned(who, u, y, G)
      /\ cnt' = Counted(cnt, {}, x.modes) /\ exempt' = exempt \ ({u} \cup G)
      /\ ndb' = ndb /\ adb' = adb /\ odb' = odb /\ UNCHANGED <<wvars, hvars>> /\ clash' = clash
  BY DEF FirstNick, Turned, Tables
<1>2. u \in Client /\ n \in Nick
  BY LocalIsClient, NameIsNick
<1>3. z \in Record /\ z.st = "named" /\ z.cmd = FALSE /\ z.privs = "none" /\ z.wait = FALSE
  <2>1. AutoModes \subseteq Modes
    BY UserConstants DEF Modes
  <2> QED BY <2>1 DEF Gone, Record, Status
<1> HIDE DEF z
<1>4. x \in Record /\ x.st = "named" /\ x.nick = n /\ x.wait = FALSE
  BY <1>2, <1>3, Parts, NamedIs DEF Remade
<1>4a. a \in SUBSET Modes /\ (a = {} \/ "r" \in x.modes)
  BY <1>2, <1>3, Parts, NamedAutos
<1>6a. Earned(u, x, ndb, odb, exempt', clash)
  BY <1>1, <1>2, <1>3, Parts, NamedEarned
<1> HIDE DEF x, a
<1>4b. y \in Record /\ y.st = "named" /\ y.nick = n /\ y.wait = FALSE
  BY <1>4, <1>4a, GivenIs DEF Remade
<1>6. Earned(u, y, ndb, odb, exempt', clash)
  BY <1>4, <1>4a, <1>6a, GivenEarned
<1> HIDE DEF y
<1>5. Fits(u, y)
  BY <1>2, <1>4b DEF Fits
<1>7. \A v \in G : v \in Client /\ who[v].st # "user"
  BY <1>1 DEF Taken, IsUser, FindClient
<1>8. \A v \in Client : v \notin G => who[v].nick # n
  BY DEF FindClient
<1> HIDE DEF G
<1>9. Steady'
  BY <1>1, <1>2, <1>4b, <1>5, <1>7, <1>8, Parts, GoneIs, SteadyQuiet
<1>10. Based(who', ndb, odb, exempt', clash)
  <2>1. \A v \in Local \ exempt' : v # u /\ v \notin G => v \notin exempt
    BY <1>1
  <2> QED BY <1>1, <1>2, <1>6, <2>1, Parts, BasedTurns
<1>11. Numbered(who', cnt')
  <2>1. cnt' \in Counts /\ Total(cnt') = Total(cnt) /\ Total(cnt) \in Int
    BY <1>1, Parts, CountedIs, TotalIs
  <2>2. Total(cnt') = Total(cnt) + One(y.st = "user" /\ "i" \in y.modes) - One(who[u].st = "user" /\ "i" \in who[u].modes)
    BY <1>1, <1>4b, <2>1, GoneIs DEF One
  <2> QED BY <1>1, <1>2, <1>5, <1>7, <2>1, <2>2, Parts, NumberedTurns
<1> QED
  BY <1>1, <1>9, <1>10, <1>11, Parts, Assembled

(* register_user, by PONG or USER.                                         *)
LEMMA RegisteredKeeps ==
    ASSUME UserInv, NEW u \in Local, NEW x, x = [who[u] EXCEPT !.st = "user"],
           who[u].st \in {"named", "ponged"}, Registered(u, x),
           ndb' = ndb, adb' = adb, odb' = odb, UNCHANGED hvars, exempt' = exempt, clash' = clash
    PROVE  UserInv'
<1>1. u \in Client /\ who[u] \in Record /\ Fits(u, who[u]) /\ Earned(u, who[u], ndb, odb, exempt, clash)
  BY LocalIsClient, Parts
<1>2. /\ x \in Record /\ x.st = "user" /\ x.nick = who[u].nick /\ x.modes = who[u].modes /\ x.cmd = who[u].cmd
      /\ x.privs = who[u].privs /\ x.wait = who[u].wait /\ x.extra = who[u].extra
  <2>1. x \in Record
    BY <1>1 DEF Record, Status
  <2> QED BY <1>1, <2>1 DEF Record
<1>3. Fits(u, x)
  BY <1>1, <1>2 DEF Fits
<1>4. Earned(u, x, ndb, odb, exempt, clash)
  BY <1>1, <1>2 DEF Earned, Proper, Rooted
<1>5. /\ who' = Turned(who, u, x, {})
      /\ cnt' = [cnt EXCEPT !.inv = @ + One("i" \in x.modes)]
      /\ told' = Heard(told, x.nick, "on") /\ early' = Past({x.nick}) /\ wl' = wl /\ uw' = uw /\ cw' = cw
  BY <1>1, Parts, ExceptIs DEF Registered
<1>6. \A v \in Client : v # u /\ who[v].nick = x.nick => x.nick \notin Nick \ clash
  BY <1>1, <1>2, Parts DEF Single
<1>7. Steady'
  BY <1>1, <1>2, <1>3, <1>5, <1>6, Parts, SteadyComes
<1>8. Based(who', ndb, odb, exempt, clash)
  BY <1>1, <1>4, <1>5, Parts, BasedTurns
<1>9. Numbered(who', cnt')
  <2>1. cnt \in Counts
    BY Parts
  <2>2. cnt' \in Counts /\ Total(cnt') = Total(cnt) + One("i" \in x.modes) /\ Total(cnt) \in Int
    <3> DEFINE k == One("i" \in x.modes)
    <3>1. k \in Int /\ cnt.inv \in Int /\ Total(cnt) \in Int /\ cnt' = [cnt EXCEPT !.inv = cnt.inv + k]
      BY <1>5, <2>1, OneIs, TotalIs
    <3> HIDE DEF k
    <3>2. cnt.inv + k \in Int
      BY <3>1
    <3>3. cnt' \in Counts /\ Total(cnt') = Total(cnt) + (cnt.inv + k) - cnt.inv
      BY <2>1, <3>1, <3>2, InvIs
    <3> QED BY <3>1, <3>3 DEF k
  <2>3. Total(cnt') = Total(cnt) + One(x.st = "user" /\ "i" \in x.modes) - One(who[u].st = "user" /\ "i" \in who[u].modes)
    BY <1>2, <2>2 DEF One
  <2>4. Shaped(who) /\ Numbered(who, cnt)
    BY Parts
  <2>5. who' = Turned(who, u, x, {}) /\ \A v \in {} : v \in Client /\ who[v].st # "user"
    BY <1>5
  <2> QED BY ONLY <1>1, <1>3, <2>2, <2>3, <2>4, <2>5, NumberedTurns
<1> QED
  BY <1>7, <1>8, <1>9, Parts, Assembled

LEMMA PongKeeps ==
    ASSUME UserInv, NEW u \in Local, NEW complete \in BOOLEAN, Pong(u, complete)
    PROVE  UserInv'
<1>1. /\ who[u].st = "named" /\ ndb' = ndb /\ adb' = adb /\ odb' = odb /\ UNCHANGED hvars /\ exempt' = exempt /\ clash' = clash
      /\ complete => Registered(u, [who[u] EXCEPT !.st = "user"])
      /\ ~complete => who' = [who EXCEPT ![u].st = "ponged"] /\ UNCHANGED <<cnt, wvars>>
  BY DEF Pong, Tables
<1>2. CASE complete
  BY <1>1, <1>2, RegisteredKeeps
<1>3. CASE ~complete
  <2> DEFINE x == [who[u] EXCEPT !.st = "ponged"]
  <2>1. u \in Client /\ who[u] \in Record /\ Fits(u, who[u]) /\ Earned(u, who[u], ndb, odb, exempt, clash)
    BY LocalIsClient, Parts
  <2>2. /\ x \in Record /\ x.st = "ponged" /\ x.nick = who[u].nick /\ x.modes = who[u].modes /\ x.cmd = who[u].cmd
        /\ x.privs = who[u].privs /\ x.wait = who[u].wait /\ x.extra = who[u].extra
    <3>1. x \in Record
      BY <2>1 DEF Record, Status
    <3> QED BY <2>1, <3>1 DEF Record
  <2>3. who' = Turned(who, u, x, {})
    BY <1>1, <1>3, <2>1, Parts, ExceptIs
  <2> HIDE DEF x
  <2>4. Fits(u, x)
    BY <1>1, <2>1, <2>2 DEF Fits
  <2>5. Earned(u, x, ndb, odb, exempt, clash)
    BY <1>1, <2>1, <2>2 DEF Earned, Proper, Rooted
  <2>6. \A v \in Client : v # u /\ who[v].nick = x.nick => x.nick \notin Nick \ clash
    BY <2>1, <2>2, Parts DEF Single
  <2>7. Steady'
    BY <1>1, <1>3, <2>1, <2>2, <2>3, <2>4, <2>6, Parts, SteadyQuiet
  <2>8. Based(who', ndb, odb, exempt, clash)
    BY <2>1, <2>3, <2>5, Parts, BasedTurns
  <2>9. Numbered(who', cnt')
    <3>1. cnt' = cnt /\ cnt \in Counts /\ Total(cnt) \in Int
      BY <1>1, <1>3, Parts, TotalIs
    <3>2. Total(cnt) = Total(cnt) + One(x.st = "user" /\ "i" \in x.modes) - One(who[u].st = "user" /\ "i" \in who[u].modes)
      BY <1>1, <2>2, <3>1 DEF One
    <3> QED BY <2>1, <2>3, <2>4, <3>1, <3>2, Parts, NumberedTurns
  <2> QED BY <1>1, <2>7, <2>8, <2>9, Parts, Assembled
<1> QED
  BY <1>2, <1>3

LEMMA UserCmdKeeps ==
    ASSUME UserInv, NEW u \in Local, UserCmd(u)
    PROVE  UserInv'
<1>1. /\ who[u].st = "ponged" /\ ndb' = ndb /\ adb' = adb /\ odb' = odb /\ UNCHANGED hvars /\ exempt' = exempt /\ clash' = clash
      /\ Registered(u, [who[u] EXCEPT !.st = "user"])
  BY DEF UserCmd, Tables
<1> QED
  BY <1>1, RegisteredKeeps

(* Counters when a client keeps its status and its visibility.             *)
LEMMA NumberedSame ==
    ASSUME Shaped(who), Numbered(who, cnt), NEW u \in Client, NEW y, Fits(u, y), NEW G,
           who' = Turned(who, u, y, G), \A v \in G : v \in Client /\ who[v].st # "user",
           y.st = who[u].st, "i" \in y.modes <=> "i" \in who[u].modes,
           cnt' \in Counts, Total(cnt') = Total(cnt)
    PROVE  Numbered(who', cnt')
<1>1. Total(cnt) \in Int
  BY TotalIs DEF Numbered
<1>2. Total(cnt') = Total(cnt) + One(y.st = "user" /\ "i" \in y.modes) - One(who[u].st = "user" /\ "i" \in who[u].modes)
  BY <1>1 DEF One
<1> QED
  BY <1>2, NumberedTurns

LEMMA NumberedGiven ==
    ASSUME Shaped(who), Numbered(who, cnt), NEW u \in Client, NEW x \in Record, NEW a \in SUBSET Modes, NEW G,
           NEW c \in Counts, Total(c) = Total(cnt), x.st = who[u].st, "i" \in x.modes <=> "i" \in who[u].modes,
           Fits(u, Given(x, a)), who' = Turned(who, u, Given(x, a), G),
           \A v \in G : v \in Client /\ who[v].st # "user", cnt' = Missed(c, x, a)
    PROVE  Numbered(who', cnt')
<1> DEFINE y == Given(x, a)
<1>1. y.st = x.st /\ y.modes = x.modes \cup a
  BY GivenIs DEF Remade
<1> HIDE DEF y
<1>2. Total(cnt) \in Int /\ cnt' \in Counts
      /\ Total(cnt') = Total(cnt) + One(x.st = "user" /\ "i" \in a \ x.modes)
  BY TotalIs, MissedIs DEF Numbered
<1>3. One(x.st = "user" /\ "i" \in a \ x.modes)
        = One(y.st = "user" /\ "i" \in y.modes) - One(who[u].st = "user" /\ "i" \in who[u].modes)
  BY <1>1 DEF One
<1>4. One(y.st = "user" /\ "i" \in y.modes) \in Int /\ One(who[u].st = "user" /\ "i" \in who[u].modes) \in Int
  BY OneIs
<1>5. Total(cnt') = Total(cnt) + One(y.st = "user" /\ "i" \in y.modes)
                              - One(who[u].st = "user" /\ "i" \in who[u].modes)
  BY <1>2, <1>3, <1>4
<1> QED
  BY <1>2, <1>5, NumberedTurns DEF y

LEMMA ChangeNickKeeps ==
    ASSUME UserInv, NEW u \in Local, NEW n \in Name, NEW ok \in BOOLEAN, NEW suspends \in BOOLEAN,
           NEW fast \in BOOLEAN, ChangeNick(u, n, ok, fast, suspends)
    PROVE  UserInv'
<1> DEFINE x == Named(who[u], n, ok /\ ~fast)
           a == IF ok /\ ~fast THEN automodes(n) ELSE {}
           y == Given(x, a)
           G == FindClient(n)
<1>1. /\ who[u].st \in {"ponged", "user"} /\ who[u].nick # n
      /\ G \subseteq {v \in Local : ~IsUser(v)}
      /\ IF fast THEN "k" \in who[u].modes /\ ~ok ELSE Allowed(n, ok, suspends)
      /\ who' = Turned(who, u, y, G) /\ cnt' = Missed(Counted(cnt, who[u].modes, x.modes), x, a)
      /\ IF IsUser(u) THEN Moves(u, y, TRUE) ELSE UNCHANGED <<wvars, hvars>>
      /\ exempt' = (exempt \ (G \cup {u})) \cup (IF fast THEN {u} ELSE {})
      /\ ndb' = ndb /\ adb' = adb /\ odb' = odb /\ clash' = clash
  BY DEF ChangeNick, Turned, Tables
<1>2. u \in Client /\ n \in Nick /\ (ok /\ ~fast) \in BOOLEAN
  BY LocalIsClient, NameIsNick
<1>3. who[u] \in Record /\ Fits(u, who[u]) /\ (who[u].cmd => who[u].privs # "none")
  BY <1>2, Parts DEF Earned
<1>4. Remade(who[u], x, n, NamedModes(who[u], n, ok /\ ~fast), NamedPrivs(who[u], n, ok /\ ~fast),
             NamedExtra(who[u], n, ok /\ ~fast))
  BY <1>2, <1>3, Parts, NamedIs
<1>5. /\ x \in Record /\ x.st = who[u].st /\ x.nick = n /\ x.wait = who[u].wait /\ x.cmd = who[u].cmd
      /\ x.modes = NamedModes(who[u], n, ok /\ ~fast) /\ x.privs = NamedPrivs(who[u], n, ok /\ ~fast)
  BY <1>4 DEF Remade
<1>5a. a \in SUBSET Modes /\ (a = {} \/ "r" \in x.modes)
  BY <1>2, <1>3, Parts, NamedAutos
<1>6a. Earned(u, x, ndb, odb, exempt', clash)
  <2>1. CASE fast
    <3>1. u \in exempt' /\ (x.cmd => x.privs # "none")
      BY <1>1, <1>3, <1>5, <2>1 DEF NamedPrivs, GrantPriv
    <3> QED BY <3>1 DEF Earned
  <2>2. CASE ~fast
    <3>1. (ok /\ ~fast) = ok /\ Allowed(n, ok, suspends)
      BY <1>1, <2>2
    <3>2. x = Named(who[u], n, ok)
      BY <3>1
    <3> QED BY <1>2, <1>3, <3>1, <3>2, Parts, NamedEarned
  <2> QED BY <2>1, <2>2
<1> HIDE DEF x, a
<1>5b. y \in Record /\ y.st = who[u].st /\ y.nick = n /\ y.wait = who[u].wait
  BY <1>5, <1>5a, GivenIs DEF Remade
<1>6. Earned(u, y, ndb, odb, exempt', clash)
  BY <1>5, <1>5a, <1>6a, GivenEarned
<1> HIDE DEF y
<1>7. Fits(u, y)
  BY <1>1, <1>2, <1>3, <1>5b DEF Fits
<1>8. "i" \in x.modes <=> "i" \in who[u].modes
  <2>1. "i" \notin odb[n]
    BY <1>2, Parts, RecsIs
  <2> QED BY <1>5, <2>1 DEF NamedModes, NickModes, PartedModes
<1>9. \A v \in G : v \in Client /\ who[v].st # "user"
  BY <1>1, LocalIsClient DEF IsUser
<1>10. \A v \in Client : v \notin G => who[v].nick # n
  BY DEF FindClient
<1> HIDE DEF G
<1>11. Steady'
  <2>1. CASE IsUser(u)
    <3>1. Moves(u, y, TRUE) /\ who[u].st = "user"
      BY <1>1, <2>1 DEF IsUser
    <3>2. \A v \in Client : v # u /\ v \notin G /\ who[v].nick = y.nick => y.nick \notin Nick \ clash'
      BY <1>5b, <1>10
    <3>3. Steady /\ TRUE \in BOOLEAN /\ (TRUE \/ y.wait) /\ clash \subseteq clash' /\ y.nick # who[u].nick
      BY <1>1, <1>5b, Parts
    <3>4. y.st = "user" /\ who' = Turned(who, u, y, G)
      BY <1>1, <1>5b, <3>1
    <3> QED BY ONLY <1>2, <1>7, <1>9, <3>1, <3>2, <3>3, <3>4, SteadyMoves
  <2>2. CASE ~IsUser(u)
    <3>1. UNCHANGED <<wvars, hvars>> /\ who[u].st # "user"
      BY <1>1, <2>2 DEF IsUser
    <3> QED BY <1>1, <1>2, <1>5b, <1>7, <1>9, <1>10, <3>1, Parts, SteadyQuiet
  <2> QED BY <2>1, <2>2
<1>12. Based(who', ndb, odb, exempt', clash)
  <2>1. \A v \in Local \ exempt' : v # u /\ v \notin G => v \notin exempt
    BY <1>1
  <2> QED BY <1>1, <1>2, <1>6, <2>1, Parts, BasedTurns
<1>13. Numbered(who', cnt')
  <2> DEFINE c == Counted(cnt, who[u].modes, x.modes)
  <2>1. c \in Counts /\ Total(c) = Total(cnt) /\ cnt' = Missed(c, x, a)
    BY <1>1, Parts, CountedIs
  <2> HIDE DEF c
  <2>2. Shaped(who) /\ Numbered(who, cnt)
    BY Parts
  <2>3. who' = Turned(who, u, y, G) /\ x.st = who[u].st /\ x \in Record
    BY <1>1, <1>5
  <2> QED BY ONLY <1>2, <1>5a, <1>7, <1>8, <1>9, <2>1, <2>2, <2>3, NumberedGiven DEF y
<1>14. exempt' \subseteq Local /\ clash' \subseteq Nick
  BY <1>1, Parts
<1> QED
  BY <1>1, <1>11, <1>12, <1>13, <1>14, Parts, Assembled

LEMMA ExitKeeps ==
    ASSUME UserInv, NEW u \in Client, Exit(u)
    PROVE  UserInv'
<1>1. /\ who' = [who EXCEPT ![u] = Gone] /\ cnt' = Left(cnt, who[u]) /\ exempt' = exempt \ {u}
      /\ ndb' = ndb /\ adb' = adb /\ odb' = odb /\ clash' = clash
      /\ IF IsUser(u)
         THEN /\ told' = [Heard(told, who[u].nick, "off") EXCEPT ![u] = [n \in Nick |-> "off"]]
              /\ early' = [Past({who[u].nick}) EXCEPT ![u] = {}]
              /\ wl' = NoWatch(u) /\ uw' = [uw EXCEPT ![u] = {}] /\ cw' = [cw EXCEPT ![u] = 0]
              /\ add_history(u, who[u].nick, FALSE)
         ELSE UNCHANGED <<wvars, hvars>>
  BY DEF Exit, Tables
<1>2. who' = Turned(who, u, Gone, {})
  BY <1>1, Parts, ExceptIs
<1>3. Fits(u, Gone) /\ Gone.nick \notin Nick /\ Gone.st = "none" /\ Gone.modes = {}
  BY GoneIs, UserConstants DEF Fits
<1>4. Steady'
  <2>1. CASE IsUser(u)
    BY <1>1, <1>2, <2>1, Parts, SteadyGoes DEF IsUser
  <2>2. CASE ~IsUser(u)
    <3>1. who[u].st # "user" /\ UNCHANGED <<wvars, hvars>>
      BY <1>1, <2>2 DEF IsUser
    <3> QED BY <1>1, <1>2, <1>3, <3>1, Parts, SteadyQuiet
  <2> QED BY <2>1, <2>2
<1>5. Based(who', ndb, odb, exempt', clash)
  <2>1. Earned(u, Gone, ndb, odb, exempt', clash)
    BY GoneIs DEF Earned
  <2>2. \A v \in Local \ exempt' : v # u => v \notin exempt
    BY <1>1
  <2> QED BY <1>2, <2>1, <2>2, Parts, BasedTurns
<1>6. Numbered(who', cnt')
  <2>1. cnt \in Counts /\ Total(cnt) \in Int
    BY Parts, TotalIs
  <2>2. Counted(cnt, who[u].modes, {}) \in Counts /\ Total(Counted(cnt, who[u].modes, {})) = Total(cnt)
    BY <2>1, CountedIs
  <2>3. cnt' \in Counts /\ Total(cnt') = Total(cnt) - One(who[u].st = "user" /\ "i" \in who[u].modes)
    <3>1. CASE who[u].st # "user"
      BY <1>1, <2>1, <3>1 DEF Left, One
    <3>2. CASE who[u].st = "user"
      <4> DEFINE c == Counted(cnt, who[u].modes, {})
                 k == One("i" \in who[u].modes)
      <4>1. cnt' = [c EXCEPT !.inv = c.inv - k] /\ k = One(who[u].st = "user" /\ "i" \in who[u].modes)
        BY <1>1, <3>2 DEF Left, One
      <4>2. c \in Counts /\ Total(c) = Total(cnt) /\ k \in Int
        BY <2>2, OneIs
      <4> HIDE DEF c, k
      <4>3. c.inv \in Int /\ c.inv - k \in Int
        BY <4>2, TotalIs
      <4>4. cnt' \in Counts /\ Total(cnt') = Total(c) + (c.inv - k) - c.inv
        BY <4>1, <4>2, <4>3, InvIs
      <4> QED BY <2>1, <4>1, <4>2, <4>3, <4>4
    <3> QED BY <3>1, <3>2
  <2>4. Total(cnt') = Total(cnt) + One(Gone.st = "user" /\ "i" \in Gone.modes)
                          - One(who[u].st = "user" /\ "i" \in who[u].modes)
    BY <1>3, <2>1, <2>3 DEF One
  <2>5. Shaped(who) /\ Numbered(who, cnt) /\ \A v \in {} : v \in Client /\ who[v].st # "user"
    BY Parts
  <2> QED BY ONLY <1>2, <1>3, <2>3, <2>4, <2>5, NumberedTurns, u \in Client
<1>7. exempt' \subseteq Local
  BY <1>1, Parts
<1> QED
  BY <1>1, <1>4, <1>5, <1>6, <1>7, Parts, Assembled

(* rename_user of a user of ours, or of what the table made of it.         *)
LEMMA RenameSteps ==
    ASSUME UserInv, NEW u \in Local, IsUser(u), NEW x \in Record, x.st = "user", x.wait = who[u].wait,
           "i" \in x.modes <=> "i" \in who[u].modes,
           NEW n \in Nick, n # who[u].nick, rename_user(u, x, n), clash \subseteq clash',
           \A v \in Client : v # u /\ who[v].nick = n => n \in clash'
    PROVE  /\ who' = Turned(who, u, Given(Renamed(x, n), automodes(n)), {}) /\ Steady' /\ Numbered(who', cnt')
<1> DEFINE y == Renamed(x, n)
           a == automodes(n)
           z == Given(y, a)
<1>1. /\ who' = [who EXCEPT ![u] = z] /\ cnt' = Missed(Counted(cnt, who[u].modes, y.modes), y, a)
      /\ Moves(u, y, TRUE)
  BY DEF rename_user
<1>2. u \in Client /\ who[u].st = "user" /\ Fits(u, who[u])
  BY LocalIsClient, Parts DEF IsUser
<1>3. y \in Record /\ y.st = "user" /\ y.nick = n /\ y.wait = who[u].wait /\ y.modes = RenamedModes(x, n)
  BY Parts, RenamedIs DEF Remade
<1>3a. a \in SUBSET Modes
  BY Parts, AutomodesIs
<1> HIDE DEF y, a
<1>3b. z \in Record /\ z.st = "user" /\ z.nick = n /\ z.wait = who[u].wait
  BY <1>3, <1>3a, GivenIs DEF Remade
<1> HIDE DEF z
<1>4. who' = Turned(who, u, z, {})
  BY <1>1, <1>2, Parts, ExceptIs
<1>5. Fits(u, z)
  BY <1>2, <1>3b DEF Fits
<1>6. "i" \in y.modes <=> "i" \in who[u].modes
  <2>1. "i" \notin odb[n]
    BY Parts, RecsIs
  <2> QED BY <1>3, <2>1 DEF RenamedModes, PartedModes
<1>7. Steady'
  <2> DEFINE b == TRUE
  <2>1. \A v \in Client : v # u /\ v \notin {} /\ who[v].nick = z.nick => z.nick \notin Nick \ clash'
    BY <1>3b
  <2>2. Steady /\ Moves(u, z, b) /\ z.nick # who[u].nick /\ \A v \in {} : v \in Client /\ who[v].st # "user"
    <3>1. y.nick = z.nick
      BY <1>3, <1>3b
    <3>2. Moves(u, z, TRUE)
      BY <1>1, <3>1 DEF Moves
    <3> QED BY <1>3b, <3>2, Parts
  <2>3. b \in BOOLEAN /\ (b \/ z.wait) /\ clash \subseteq clash' /\ u \in Client /\ who[u].st = "user" /\ z.st = "user"
    BY <1>2, <1>3b
  <2> HIDE DEF b
  <2> QED BY ONLY <1>4, <1>5, <2>1, <2>2, <2>3, SteadyMoves
<1>8. Numbered(who', cnt')
  <2> DEFINE c == Counted(cnt, who[u].modes, y.modes)
  <2>1. c \in Counts /\ Total(c) = Total(cnt) /\ cnt' = Missed(c, y, a)
    BY <1>1, Parts, CountedIs
  <2> HIDE DEF c
  <2>2. Shaped(who) /\ Numbered(who, cnt) /\ \A v \in {} : v \in Client /\ who[v].st # "user"
    BY Parts
  <2>3. y.st = who[u].st /\ u \in Client /\ y \in Record
    BY <1>2, <1>3
  <2> QED BY ONLY <1>3a, <1>4, <1>5, <1>6, <2>1, <2>2, <2>3, NumberedGiven DEF z
<1> QED
  BY <1>4, <1>7, <1>8 DEF y, a, z

LEMMA SvsNickKeeps ==
    ASSUME UserInv, NEW u \in Local, NEW n \in Nick, SvsNick(u, n)
    PROVE  UserInv'
<1>1. /\ IsUser(u) /\ FindUser(n) = {} /\ rename_user(u, who[u], n)
      /\ exempt' = exempt \cup {u} /\ clash' = (IF FindClient(n) = {} THEN clash ELSE clash \cup {n})
      /\ ndb' = ndb /\ adb' = adb /\ odb' = odb
  BY DEF SvsNick, Tables
<1>2. u \in Client /\ who[u] \in Record /\ who[u].st = "user" /\ (who[u].cmd => who[u].privs # "none")
  BY <1>1, LocalIsClient, Parts DEF IsUser, Earned
<1>3. n # who[u].nick
  BY <1>1, <1>2 DEF FindUser
<1>4. clash \subseteq clash' /\ \A v \in Client : v # u /\ who[v].nick = n => n \in clash'
  BY <1>1 DEF FindClient
<1> DEFINE z == Given(Renamed(who[u], n), automodes(n))
<1>5. /\ who' = Turned(who, u, z, {}) /\ Steady' /\ Numbered(who', cnt')
  BY <1>1, <1>2, <1>3, <1>4, RenameSteps
<1>6. Earned(u, z, ndb, odb, exempt', clash')
  <2>1. Renamed(who[u], n) \in Record /\ Renamed(who[u], n).cmd = who[u].cmd /\ Renamed(who[u], n).privs = RenamedPrivs(who[u], n)
    BY <1>2, Parts, RenamedIs DEF Remade
  <2>1a. z.cmd = Renamed(who[u], n).cmd /\ z.privs = Renamed(who[u], n).privs
    BY <2>1, Parts, AutomodesIs, GivenIs DEF Remade
  <2> HIDE DEF z
  <2>2. z.cmd => z.privs # "none"
    BY <1>2, <2>1, <2>1a DEF RenamedPrivs, GrantPriv
  <2> QED BY <1>1, <2>2 DEF Earned
<1> HIDE DEF z
<1>7. Based(who', ndb, odb, exempt', clash')
  <2>1. \A v \in Local \ exempt' : v \notin exempt
    BY <1>1
  <2> QED BY <1>2, <1>4, <1>5, <1>6, <2>1, Parts, BasedTurns
<1>8. exempt' \subseteq Local /\ clash' \subseteq Nick
  BY <1>1, Parts
<1> QED
  BY <1>1, <1>5, <1>7, <1>8, Parts, Assembled

(* Users of other servers.                                                 *)
LEMMA IntroduceKeeps ==
    ASSUME UserInv, NEW u \in Remote, NEW n \in Name, NEW m \in {{}, {"r", "o", "h"}, {"i"}}, Introduce(u, n, m)
    PROVE  UserInv'
<1> DEFINE y == [Gone EXCEPT !.st = "user", !.nick = n, !.modes = m]
<1>1. /\ who[u] = Gone /\ FindClient(n) = {} /\ who' = [who EXCEPT ![u] = y]
      /\ cnt' = [cnt EXCEPT !.inv = @ + One("i" \in m), !.helpers = @ + One("h" \in m)]
      /\ told' = Heard(told, n, "on") /\ early' = Past({n}) /\ ndb' = ndb /\ adb' = adb /\ odb' = odb
      /\ UNCHANGED <<wl, uw, cw, hvars>> /\ exempt' = exempt /\ clash' = clash
  BY DEF Introduce, Tables
<1>2. u \in Client /\ n \in Nick /\ u \notin Local
  BY NameIsNick, UserConstants DEF Client
<1>3. /\ y \in Record /\ y.st = "user" /\ y.nick = n /\ y.modes = m /\ y.cmd = FALSE /\ y.privs = "none"
      /\ y.wait = FALSE /\ y.extra = {}
  BY <1>2 DEF Gone, Record, Status, Modes
<1>4. who' = Turned(who, u, y, {})
  BY <1>1, <1>2, Parts, ExceptIs
<1> HIDE DEF y
<1>5. Fits(u, y)
  BY <1>2, <1>3 DEF Fits
<1>6. Steady'
  <2>1. \A v \in Client : v # u /\ who[v].nick = y.nick => y.nick \notin Nick \ clash
    BY <1>1, <1>3 DEF FindClient
  <2>2. /\ Steady /\ who[u].st # "user" /\ y.st = "user" /\ told' = Heard(told, y.nick, "on")
        /\ early' = Past({y.nick})
    BY <1>1, <1>3, Parts, GoneIs
  <2>3. UNCHANGED <<wl, uw, cw, hvars, clash>>
    BY <1>1
  <2> QED BY ONLY <1>2, <1>4, <1>5, <2>1, <2>2, <2>3, SteadyComes
<1>7. Based(who', ndb, odb, exempt, clash)
  <2>1. Earned(u, y, ndb, odb, exempt, clash)
    BY <1>2, <1>3 DEF Earned
  <2> QED BY <1>2, <1>4, <2>1, Parts, BasedTurns
<1>8. Numbered(who', cnt')
  <2> DEFINE a == One("i" \in m)
             b == One("h" \in m)
  <2>1. cnt \in Counts /\ a \in Int /\ b \in Int
    BY Parts DEF One
  <2>2. cnt' \in Counts /\ Total(cnt') = Total(cnt) + One("i" \in m) /\ Total(cnt) \in Int
    <3>1. cnt' = [cnt EXCEPT !.inv = @ + a, !.helpers = @ + b]
      BY <1>1
    <3> HIDE DEF a, b
    <3>2. cnt.inv + a \in Int /\ cnt.helpers + b \in Int /\ cnt.inv \in Int /\ cnt.missed \in Nat
      BY <2>1 DEF Counts
    <3>3. cnt' = [cnt EXCEPT !.inv = cnt.inv + a, !.helpers = cnt.helpers + b]
      BY <3>1
    <3>4. cnt' \in Counts
      BY <2>1, <3>2, <3>3 DEF Counts
    <3>5. cnt'.inv = cnt.inv + a /\ cnt'.missed = cnt.missed
      BY <2>1, <3>3 DEF Counts
    <3> QED BY <2>1, <3>2, <3>4, <3>5 DEF a, Total
  <2>3. Total(cnt') = Total(cnt) + One(y.st = "user" /\ "i" \in y.modes) - One(who[u].st = "user" /\ "i" \in who[u].modes)
    BY <1>1, <1>3, <2>2, GoneIs DEF One
  <2>4. Shaped(who) /\ Numbered(who, cnt) /\ \A v \in {} : v \in Client /\ who[v].st # "user"
    BY Parts
  <2> QED BY ONLY <1>2, <1>4, <1>5, <2>2, <2>3, <2>4, NumberedTurns
<1> QED
  BY <1>1, <1>6, <1>7, <1>8, Parts, Assembled

LEMMA RemoteNickKeeps ==
    ASSUME UserInv, NEW u \in Remote, NEW n \in Name, RemoteNick(u, n)
    PROVE  UserInv'
<1> DEFINE x == Parted(who[u])
           y == [x EXCEPT !.nick = n, !.wait = n \in Vip]
<1>1. /\ IsUser(u) /\ FindClient(n) = {} /\ who' = [who EXCEPT ![u] = y]
      /\ cnt' = Counted(cnt, who[u].modes, y.modes) /\ Moves(u, y, n \notin Vip)
      /\ ndb' = ndb /\ adb' = adb /\ odb' = odb /\ exempt' = exempt /\ clash' = clash
  BY DEF RemoteNick, Tables
<1>2. u \in Client /\ n \in Nick /\ u \notin Local
  BY NameIsNick, UserConstants DEF Client
<1>3. who[u] \in Record /\ who[u].st = "user" /\ (who[u].cmd => who[u].privs # "none")
  BY <1>1, <1>2, Parts DEF IsUser, Earned
<1>4. /\ x \in Record /\ x.st = "user" /\ x.cmd = who[u].cmd /\ x.privs = who[u].privs
      /\ "i" \in x.modes <=> "i" \in who[u].modes
  BY <1>3, PartedIs DEF Remade, PartedModes
<1> HIDE DEF x
<1>5. (n \in Vip) \in BOOLEAN /\ (n \notin Vip) \in BOOLEAN
  OBVIOUS
<1>6. /\ y \in Record /\ y.st = "user" /\ y.nick = n /\ y.modes = x.modes /\ y.cmd = x.cmd
      /\ y.privs = x.privs /\ y.wait = (n \in Vip) /\ y.extra = x.extra
  <2> DEFINE b == n \in Vip
  <2>1. b \in BOOLEAN /\ y = [x EXCEPT !.nick = n, !.wait = b]
    OBVIOUS
  <2> HIDE DEF b, y
  <2>2. y \in Record
    BY <1>2, <1>4, <2>1 DEF Record
  <2>3. /\ y.st = x.st /\ y.nick = n /\ y.modes = x.modes /\ y.cmd = x.cmd /\ y.privs = x.privs /\ y.wait = b
        /\ y.extra = x.extra
    BY <1>4, <2>1 DEF Record
  <2> QED BY <1>4, <2>2, <2>3 DEF b
<1>7. who' = Turned(who, u, y, {})
  BY <1>1, <1>2, Parts, ExceptIs
<1> HIDE DEF y
<1>8. Fits(u, y)
  BY <1>2, <1>6 DEF Fits
<1>9. Steady'
  <2> DEFINE b == n \notin Vip
  <2>1. \A v \in Client : v # u /\ v \notin {} /\ who[v].nick = y.nick => y.nick \notin Nick \ clash'
    BY <1>1, <1>6 DEF FindClient
  <2>2. Steady /\ Moves(u, y, b) /\ y.nick # who[u].nick /\ \A v \in {} : v \in Client /\ who[v].st # "user"
    BY <1>1, <1>2, <1>6, Parts DEF FindClient
  <2>3. b \in BOOLEAN /\ (b \/ y.wait)
    BY <1>6
  <2>4. clash \subseteq clash' /\ who[u].st = "user" /\ y.st = "user"
    BY <1>1, <1>3, <1>6
  <2> HIDE DEF b
  <2> QED BY ONLY <1>2, <1>7, <1>8, <2>1, <2>2, <2>3, <2>4, SteadyMoves
<1>10. Based(who', ndb, odb, exempt, clash)
  <2>1. Earned(u, y, ndb, odb, exempt, clash)
    BY <1>2, <1>3, <1>4, <1>6 DEF Earned
  <2> QED BY <1>2, <1>7, <2>1, Parts, BasedTurns
<1>11. Numbered(who', cnt')
  <2>1. cnt' \in Counts /\ Total(cnt') = Total(cnt)
    BY <1>1, Parts, CountedIs
  <2>2. Shaped(who) /\ Numbered(who, cnt) /\ \A v \in {} : v \in Client /\ who[v].st # "user"
    BY Parts
  <2>3. y.st = who[u].st /\ ("i" \in y.modes <=> "i" \in who[u].modes)
    BY <1>3, <1>4, <1>6
  <2> QED BY ONLY <1>2, <1>7, <1>8, <2>1, <2>2, <2>3, NumberedSame
<1> QED
  BY <1>1, <1>9, <1>10, <1>11, Parts, Assembled

(* Modes of a user.                                                        *)
LEMMA ModesKeep ==
    ASSUME UserInv, NEW u \in Client, NEW y, who' = Turned(who, u, y, {}),
           y \in Record, who[u].st = "user", y.st = "user", y.nick = who[u].nick, y.wait = who[u].wait,
           UNCHANGED <<wvars, hvars>>, clash' = clash, exempt' \subseteq Local,
           exempt \subseteq exempt', Recs(ndb', adb', odb'), Earned(u, y, ndb', odb', exempt', clash),
           \A v \in Local \ exempt' : v # u /\ who[v].st # "none" /\ who[v].nick \notin clash =>
               ndb'[who[v].nick] = ndb[who[v].nick] /\ odb'[who[v].nick] = odb[who[v].nick],
           cnt' \in Counts, Total(cnt') = Total(cnt) + One("i" \in y.modes) - One("i" \in who[u].modes)
    PROVE  UserInv'
<1>1. Fits(u, who[u])
  BY Parts
<1>2. Fits(u, y)
  BY <1>1 DEF Fits
<1>3. Steady'
  <2>1. Steady /\ y.st = who[u].st /\ UNCHANGED <<wvars, hvars, clash>>
    BY Parts
  <2> QED BY <1>2, <2>1, SteadyModes
<1>4. Based(who', ndb', odb', exempt', clash)
  <2>1. \A v \in Local \ exempt' : v # u /\ v \notin {} /\ who[v].st # "none" =>
               v \notin exempt /\ (who[v].nick \notin clash => ndb'[who[v].nick] = ndb[who[v].nick]
                                                           /\ odb'[who[v].nick] = odb[who[v].nick])
    OBVIOUS
  <2>2. Based(who, ndb, odb, exempt, clash) /\ clash \subseteq clash
    BY Parts
  <2> QED BY <2>1, <2>2, BasedTurns
<1>5. Numbered(who', cnt')
  <2>1. Total(cnt') = Total(cnt) + One(y.st = "user" /\ "i" \in y.modes) - One(who[u].st = "user" /\ "i" \in who[u].modes)
    BY DEF One
  <2>2. Shaped(who) /\ Numbered(who, cnt) /\ \A v \in {} : v \in Client /\ who[v].st # "user"
    BY Parts
  <2> QED BY <1>2, <2>1, <2>2, NumberedTurns
<1> QED
  BY <1>3, <1>4, <1>5, Parts, Assembled

LEMMA OperKeeps ==
    ASSUME UserInv, NEW u \in Local, NEW k \in Lines, Oper(u, k)
    PROVE  UserInv'
<1> DEFINE y == [who[u] EXCEPT !.modes = @ \cup {k}, !.cmd = TRUE, !.privs = "line"]
<1>1. /\ IsUser(u) /\ who' = [who EXCEPT ![u] = y] /\ cnt' = Counted(cnt, who[u].modes, y.modes)
      /\ ndb' = ndb /\ adb' = adb /\ odb' = odb /\ UNCHANGED <<wvars, hvars>> /\ exempt' = exempt /\ clash' = clash
  BY DEF Oper, Tables
<1>2. /\ u \in Client /\ who[u] \in Record /\ who[u].st = "user" /\ k \in {"o", "O"}
      /\ Earned(u, who[u], ndb, odb, exempt, clash)
  BY <1>1, LocalIsClient, Parts, UserConstants DEF IsUser
<1>3. /\ y \in Record /\ y.st = "user" /\ y.nick = who[u].nick /\ y.modes = who[u].modes \cup {k} /\ y.cmd = TRUE
      /\ y.privs = "line" /\ y.wait = who[u].wait /\ y.extra = who[u].extra
  <2> DEFINE m == who[u].modes \cup {k}
  <2>1. m \in SUBSET Modes /\ y = [who[u] EXCEPT !.modes = m, !.cmd = TRUE, !.privs = "line"]
    BY <1>2, RecordIs DEF Modes
  <2> HIDE DEF m, y
  <2>2. y \in Record
    BY <1>2, <2>1 DEF Record
  <2>3. /\ y.st = who[u].st /\ y.nick = who[u].nick /\ y.modes = m /\ y.cmd = TRUE
        /\ y.privs = "line" /\ y.wait = who[u].wait /\ y.extra = who[u].extra
    BY <1>2, <2>1 DEF Record
  <2> QED BY <1>2, <2>2, <2>3 DEF m
<1>4. who' = Turned(who, u, y, {})
  BY <1>1, <1>2, Parts, ExceptIs
<1> HIDE DEF y
<1>5. Earned(u, y, ndb, odb, exempt, clash)
  BY <1>2, <1>3 DEF Earned, Proper, Rooted
<1>6. cnt' \in Counts /\ Total(cnt') = Total(cnt) /\ Total(cnt) \in Int /\ ("i" \in y.modes <=> "i" \in who[u].modes)
  BY <1>1, <1>2, <1>3, Parts, CountedIs, TotalIs
<1>7. Total(cnt') = Total(cnt) + One("i" \in y.modes) - One("i" \in who[u].modes)
  BY <1>6 DEF One
<1>8. Recs(ndb', adb', odb') /\ exempt' \subseteq Local /\ exempt \subseteq exempt'
  BY <1>1, Parts
<1> QED
  BY <1>1, <1>2, <1>3, <1>4, <1>5, <1>6, <1>7, <1>8, ModesKeep

(* What MODE leaves.                                                       *)
LEMMA PermittedIs ==
    ASSUME NEW x \in Record, NEW s, get_status(x.nick) = s, NEW m \in SUBSET Modes
    PROVE  LET new == Permitted(x, m)
           IN  /\ new \in SUBSET Modes
               /\ "r" \in new <=> "r" \in x.modes
               /\ "S" \in new <=> "S" \in x.modes
               /\ "h" \in new => "r" \in x.modes /\ ("h" \in x.modes \/ "h" \in s)
               /\ "o" \in new => "r" \in x.modes /\ "o" \in m /\ ("o" \in x.modes \/ "o" \in s)
<1> DEFINE old == x.modes
           m1 == m \ (IF "o" \notin old /\ "o" \notin s THEN {"o"} ELSE {})
           m2 == m1 \ (IF "O" \notin old THEN {"O"} ELSE {})
           m3 == (m2 \ {"r", "S"}) \cup (old \cap {"r", "S"})
           m4 == IF "r" \in m3
                 THEN m3 \ (IF "h" \notin old /\ "h" \notin s THEN {"h"} ELSE {})
                 ELSE m3 \ {"h", "o"}
           new == Permitted(x, m)
<1>1. new = m4 \ (IF "k" \notin old /\ ~HasPriv(m4, x) THEN {"k"} ELSE {})
  BY DEF Permitted
<1>2. old \in SUBSET Modes
  BY RecordIs
<1> HIDE DEF old, new
<1>3. /\ m3 \in SUBSET Modes /\ ("r" \in m3 <=> "r" \in old) /\ ("S" \in m3 <=> "S" \in old)
      /\ "o" \in m3 => "o" \in m /\ ("o" \in old \/ "o" \in s)
  BY <1>2 DEF Modes
<1> HIDE DEF m3
<1>4. /\ m4 \in SUBSET Modes /\ ("r" \in m4 <=> "r" \in old) /\ ("S" \in m4 <=> "S" \in old)
      /\ "h" \in m4 => "r" \in old /\ ("h" \in old \/ "h" \in s)
      /\ "o" \in m4 => "r" \in old /\ "o" \in m /\ ("o" \in old \/ "o" \in s)
  BY <1>3
<1> HIDE DEF m4
<1>5. /\ new \in SUBSET Modes /\ ("r" \in new <=> "r" \in m4) /\ ("S" \in new <=> "S" \in m4)
      /\ ("h" \in new <=> "h" \in m4) /\ ("o" \in new <=> "o" \in m4)
  BY <1>1, <1>4
<1> QED
  BY <1>4, <1>5 DEF new, old

LEMMA FlaggedIs ==
    ASSUME NEW m \in SUBSET Modes, NEW add \in BOOLEAN, NEW f \in Modes
    PROVE  Flagged(m, add, f) \in SUBSET Modes /\ (~add /\ f \in {"o", "O"} => "o" \notin Flagged(m, add, f))
  BY DEF Flagged

LEMMA UmodeKeeps ==
    ASSUME UserInv, NEW u \in Local, NEW add \in BOOLEAN, NEW f \in Modes, Umode(u, add, f)
    PROVE  UserInv'
<1> DEFINE x == who[u]
           m == Flagged(x.modes, add, f)
           new == Permitted(x, m)
           bare == "r" \notin x.modes
           y == [x EXCEPT !.modes = new, !.extra = @ \cap new, !.cmd = @ /\ (add \/ f \notin {"o", "O"})]
           c == [cnt EXCEPT !.helpers = @ - One(bare /\ "h" \in m),
                            !.opers = @ - One(bare /\ "o" \in m \cap (x.modes \cup get_status(x.nick)))]
           s == odb[x.nick]
<1>1. /\ IsUser(u) /\ who' = [who EXCEPT ![u] = y]
      /\ cnt' = [Counted(c, x.modes, new) EXCEPT !.inv = @ + One("i" \in new) - One("i" \in x.modes)]
      /\ ndb' = ndb /\ adb' = adb /\ odb' = odb /\ UNCHANGED <<wvars, hvars>> /\ exempt' = exempt /\ clash' = clash
  BY DEF Umode, Tables
<1>2. /\ u \in Client /\ x \in Record /\ x.st = "user" /\ x.nick \in Nick
      /\ Earned(u, x, ndb, odb, exempt, clash)
  <2>1. u \in Client /\ x \in Record /\ x.st = "user" /\ Fits(u, x) /\ Earned(u, x, ndb, odb, exempt, clash)
    BY <1>1, LocalIsClient, Parts DEF IsUser
  <2> QED BY <2>1 DEF Fits
<1>3. get_status(x.nick) = s /\ x.modes \in SUBSET Modes
  BY <1>2, Parts, RecsIs, RecordIs
<1>4. c \in Counts /\ Total(c) = Total(cnt) /\ Total(cnt) \in Int
  <2> DEFINE a == One(bare /\ "h" \in m)
             b == One(bare /\ "o" \in m \cap (x.modes \cup get_status(x.nick)))
  <2>1. a \in Int /\ b \in Int /\ cnt \in Counts /\ c = [cnt EXCEPT !.helpers = cnt.helpers - a, !.opers = cnt.opers - b]
    BY Parts DEF One
  <2> HIDE DEF a, b, c
  <2>2. cnt.helpers - a \in Int /\ cnt.opers - b \in Int /\ cnt.inv \in Int
    BY <2>1 DEF Counts
  <2>3. c \in Counts
    BY <2>1, <2>2 DEF Counts
  <2>4. c.inv = cnt.inv /\ c.missed = cnt.missed
    BY <2>1 DEF Counts
  <2> QED BY <2>1, <2>3, <2>4, TotalIs DEF Total
<1> HIDE DEF c
<1>5. m \in SUBSET Modes /\ (~add /\ f \in {"o", "O"} => "o" \notin m)
  BY <1>3, FlaggedIs
<1> HIDE DEF m
<1>6. /\ new \in SUBSET Modes
      /\ "r" \in new <=> "r" \in x.modes
      /\ "S" \in new <=> "S" \in x.modes
      /\ "h" \in new => "r" \in x.modes /\ ("h" \in x.modes \/ "h" \in s)
      /\ "o" \in new => "r" \in x.modes /\ "o" \in m /\ ("o" \in x.modes \/ "o" \in s)
  BY <1>2, <1>3, <1>5, PermittedIs
<1> HIDE DEF new
<1>7. /\ y \in Record /\ y.st = "user" /\ y.nick = x.nick /\ y.modes = new
      /\ y.cmd = (x.cmd /\ (add \/ f \notin {"o", "O"})) /\ y.privs = x.privs /\ y.wait = x.wait
      /\ y.extra = x.extra \cap new
  <2> DEFINE d == x.cmd /\ (add \/ f \notin {"o", "O"})
             e == x.extra \cap new
  <2>1. d \in BOOLEAN /\ e \in SUBSET {"h", "o"} /\ y = [x EXCEPT !.modes = new, !.extra = e, !.cmd = d]
    BY <1>2, RecordIs DEF Ranks
  <2> HIDE DEF d, e, y, x
  <2>2. y \in Record
    BY <1>2, <1>6, <2>1 DEF Record
  <2>3. /\ y.st = x.st /\ y.nick = x.nick /\ y.modes = new /\ y.cmd = d
        /\ y.privs = x.privs /\ y.wait = x.wait /\ y.extra = e
    BY <1>2, <2>1 DEF Record
  <2> QED BY <1>2, <2>2, <2>3 DEF d, e
<1>8. who' = Turned(who, u, y, {})
  BY <1>1, <1>2, Parts, ExceptIs
<1> HIDE DEF y
<1>9. Earned(u, y, ndb, odb, exempt, clash)
  <2>1. y.cmd => y.privs # "none"
    BY <1>2, <1>7 DEF Earned
  <2>2. Proper(y)
    BY <1>6, <1>7 DEF Proper
  <2>3. ASSUME Rooted(x, ndb[x.nick], s) PROVE Rooted(y, ndb[x.nick], s)
    <3>1. /\ "o" \in new => y.cmd \/ "o" \in s \cup y.extra
          /\ "h" \in new => "h" \in s \cup y.extra
      BY <1>5, <1>6, <1>7, <2>3 DEF Rooted
    <3> QED BY <1>6, <1>7, <2>3, <3>1 DEF Rooted
  <2> QED BY <1>2, <1>7, <2>1, <2>2, <2>3 DEF Earned
<1>10. cnt' \in Counts /\ Total(cnt') = Total(cnt) + One("i" \in y.modes) - One("i" \in x.modes)
  <2> DEFINE d == Counted(c, x.modes, new)
             a == One("i" \in new)
             b == One("i" \in x.modes)
  <2>1. d \in Counts /\ Total(d) = Total(cnt) /\ a \in Int /\ b \in Int
    BY <1>4, CountedIs, OneIs
  <2>2. cnt' = [d EXCEPT !.inv = @ + a - b]
    BY <1>1
  <2> HIDE DEF d, a, b
  <2>3. cnt' \in Counts /\ Total(cnt') = Total(d) + a - b
    BY <2>1, <2>2, InvMoves
  <2> QED BY <1>7, <2>1, <2>3 DEF a, b
<1>11. Recs(ndb', adb', odb') /\ exempt' \subseteq Local /\ exempt \subseteq exempt'
  BY <1>1, Parts
<1> QED
  BY <1>1, <1>2, <1>7, <1>8, <1>9, <1>10, <1>11, ModesKeep

(* The notice a user waited with is sent.                                  *)
LEMMA TruthfulReleased ==
    ASSUME NEW w, NEW u \in Client, NEW y, w[u].st = "user", y.st = "user", y.nick = w[u].nick, w[u].nick \in Nick,
           wl \in [Nick -> SUBSET Local], Truthful(w, wl, told, early, clash)
    PROVE  Truthful(Turned(w, u, y, {}), wl, Heard(told, y.nick, "on"), Past({y.nick}), clash)
<1> DEFINE x == Turned(w, u, y, {})
           h == Heard(told, y.nick, "on")
           e == Past({y.nick})
           n == y.nick
<1>1. told \in [Client -> [Nick -> Marks]] /\ early \in [Client -> SUBSET Nick]
  BY DEF Truthful
<1>2. /\ h \in [Client -> [Nick -> Marks]]
      /\ \A v \in wl[n] : v \in Client /\ h[v][n] = "on"
      /\ \A v \in Client, m \in Nick : m # n => h[v][m] = told[v][m]
  BY <1>1, HeardIs DEF Marks
<1>2a. /\ e \in [Client -> SUBSET Nick]
       /\ \A v \in Client, m \in Nick : m \in e[v] <=> m \in early[v] /\ m # n
  BY <1>1, PastIs
<1>3. x[u] = y /\ \A z \in Client : z # u => x[z] = w[z]
  BY DEF Turned
<1> HIDE DEF x, h, e
<1>4. u \in Holders(x, n)
  BY <1>3 DEF Holders
<1>5. ASSUME NEW m \in Nick, m # n
      PROVE  Holders(x, m) = Holders(w, m) /\ \A v \in Holders(w, m) : x[v].wait = w[v].wait
  BY <1>3, <1>5 DEF Holders
<1>6. ASSUME NEW m \in Nick \ clash, NEW v \in wl[m] PROVE Sure(x, m, h[v][m], m \in e[v])
  <2>1. v \in Client
    BY DEF Client
  <2>2. CASE m = n
    BY <1>2, <1>2a, <1>4, <2>1, <2>2 DEF Sure
  <2>3. CASE m # n
    <3>1. Sure(w, m, told[v][m], m \in early[v]) /\ h[v][m] = told[v][m] /\ (m \in e[v] <=> m \in early[v])
      BY <1>2, <1>2a, <2>1, <2>3 DEF Truthful
    <3> QED BY <1>5, <2>3, <3>1 DEF Sure
  <2> QED BY <2>2, <2>3
<1>7. \A v \in Client : \A m \in e[v] : v \in wl[m]
  BY <1>2a DEF Truthful
<1> QED
  BY <1>2, <1>2a, <1>6, <1>7 DEF Truthful, x, h, e

LEMMA SteadyReleased ==
    ASSUME Steady, NEW u \in Client, NEW y, Fits(u, y), who' = Turned(who, u, y, {}),
           who[u].st = "user", y.st = "user", y.nick = who[u].nick,
           told' = Heard(told, y.nick, "on"), early' = Past({y.nick}),
           UNCHANGED <<wl, uw, cw, hvars, clash>>
    PROVE  Steady'
<1>1. \A v \in Client : v # u /\ v \notin {} /\ who[v].nick = y.nick => y.nick \notin Nick \ clash
  BY DEF Steady, Single
<1>2. Shaped(who') /\ Single(who', clash)
  BY <1>1, ShapedTurns, SingleTurns DEF Steady
<1>3. \A z \in Client : who[z].st = "user" => who'[z].st = "user"
  BY DEF Turned
<1>4. Truthful(who', wl, told', early', clash)
  <2>1. who[u].nick \in Nick /\ wl \in [Nick -> SUBSET Local] /\ Truthful(who, wl, told, early, clash)
    BY DEF Fits, Steady, Paired
  <2> QED BY <2>1, TruthfulReleased
<1>5. Ring(who', wtab, wnext, hl, cl)
  BY <1>3, RingKept DEF Steady
<1> QED
  BY <1>2, <1>4, <1>5 DEF Steady, hvars

LEMMA SvsUmodeKeeps ==
    ASSUME UserInv, NEW u \in Client, NEW add \in BOOLEAN, NEW f \in Modes, SvsUmode(u, add, f)
    PROVE  UserInv'
<1> DEFINE x == who[u]
           new == Flagged(x.modes, add, f)
           y == [x EXCEPT !.modes = new, !.extra = @ \cap new, !.wait = FALSE]
           held == u \in Remote /\ x.wait
<1>1. /\ IsUser(u) /\ who' = [who EXCEPT ![u] = y]
      /\ cnt' = [Counted(cnt, x.modes, new) EXCEPT !.inv = @ + One("i" \in new) - One("i" \in x.modes)]
      /\ told' = (IF held THEN Heard(told, x.nick, "on") ELSE told)
      /\ early' = (IF held THEN Past({x.nick}) ELSE early)
      /\ exempt' = exempt \cup ({u} \cap Local)
      /\ ndb' = ndb /\ adb' = adb /\ odb' = odb /\ UNCHANGED <<wl, uw, cw, hvars>> /\ clash' = clash
  BY DEF SvsUmode, Tables
<1>2. /\ x \in Record /\ x.st = "user" /\ Fits(u, x) /\ Earned(u, x, ndb, odb, exempt, clash)
  BY <1>1, Parts DEF IsUser
<1>3. x.modes \in SUBSET Modes /\ new \in SUBSET Modes
  BY <1>2, RecordIs, FlaggedIs
<1> HIDE DEF new
<1>4. /\ y \in Record /\ y.st = "user" /\ y.nick = x.nick /\ y.modes = new /\ y.cmd = x.cmd
      /\ y.privs = x.privs /\ y.wait = FALSE
  <2> DEFINE e == x.extra \cap new
  <2>0. e \in SUBSET {"h", "o"} /\ y = [x EXCEPT !.modes = new, !.extra = e, !.wait = FALSE]
    BY <1>2, RecordIs DEF Ranks
  <2> HIDE DEF e, y
  <2>1. y \in Record
    BY <1>2, <1>3, <2>0 DEF Record
  <2>2. /\ y.st = x.st /\ y.nick = x.nick /\ y.modes = new /\ y.cmd = x.cmd
        /\ y.privs = x.privs /\ y.wait = FALSE
    BY <1>2, <2>0 DEF Record
  <2> QED BY <1>2, <2>1, <2>2
<1>5. who' = Turned(who, u, y, {})
  BY <1>1, Parts, ExceptIs
<1> HIDE DEF y
<1>6. Fits(u, y)
  BY <1>2, <1>4 DEF Fits
<1>7. Steady'
  <2>1. CASE held
    <3>1. told' = Heard(told, y.nick, "on") /\ early' = Past({y.nick}) /\ UNCHANGED <<wl, uw, cw, hvars, clash>> /\ Steady
      BY <1>1, <1>4, <2>1, Parts
    <3>2. who[u].st = "user" /\ y.st = "user" /\ y.nick = who[u].nick
      BY <1>2, <1>4
    <3> QED BY ONLY u \in Client, <1>5, <1>6, <3>1, <3>2, SteadyReleased
  <2>2. CASE ~held
    <3>1. x.wait = FALSE
      <4>1. x.wait \in BOOLEAN /\ (u \in Local => ~x.wait) /\ (u \in Local \/ u \in Remote)
        BY <1>2, RecordIs DEF Fits, Client
      <4> QED BY <2>2, <4>1
    <3>2. UNCHANGED <<wvars, hvars, clash>> /\ Steady
      BY <1>1, <2>2, Parts DEF wvars
    <3>3. y.st = who[u].st /\ y.nick = who[u].nick /\ y.wait = who[u].wait
      BY <1>2, <1>4, <3>1
    <3> QED BY ONLY u \in Client, <1>5, <1>6, <3>2, <3>3, SteadyModes
  <2> QED BY <2>1, <2>2
<1>8. Based(who', ndb, odb, exempt', clash)
  <2>1. Earned(u, y, ndb, odb, exempt', clash)
    BY <1>1, <1>2, <1>4 DEF Earned
  <2>2. \A v \in Local \ exempt' : v \notin exempt
    BY <1>1
  <2> QED BY <1>5, <2>1, <2>2, Parts, BasedTurns
<1>9. Numbered(who', cnt')
  <2> DEFINE d == Counted(cnt, x.modes, new)
             a == One("i" \in new)
             b == One("i" \in x.modes)
  <2>1. d \in Counts /\ Total(d) = Total(cnt) /\ a \in Int /\ b \in Int
    BY Parts, CountedIs, OneIs
  <2>2. cnt' = [d EXCEPT !.inv = @ + a - b]
    BY <1>1
  <2> HIDE DEF d, a, b
  <2>3. cnt' \in Counts /\ Total(cnt') = Total(d) + a - b
    BY <2>1, <2>2, InvMoves
  <2>4. Total(cnt') = Total(cnt) + One(y.st = "user" /\ "i" \in y.modes) - One(who[u].st = "user" /\ "i" \in who[u].modes)
    BY <1>2, <1>4, <2>1, <2>3 DEF a, b, One
  <2>5. Shaped(who) /\ Numbered(who, cnt) /\ \A v \in {} : v \in Client /\ who[v].st # "user"
    BY Parts
  <2> QED BY ONLY u \in Client, <1>5, <1>6, <2>3, <2>4, <2>5, NumberedTurns
<1>10. exempt' \subseteq Local /\ clash' \subseteq Nick
  BY <1>1, Parts
<1> QED
  BY <1>1, <1>7, <1>8, <1>9, <1>10, Parts, Assembled

(* Records of the tables.                                                  *)
LEMMA BasedStays ==
    ASSUME NEW w, NEW rec, NEW ops, NEW free, NEW both, NEW rec2, NEW ops2, NEW free2,
           Based(w, rec, ops, free, both),
           \A v \in Local \ free2 : w[v].st # "none" =>
               v \notin free /\ (w[v].nick \notin both => rec2[w[v].nick] = rec[w[v].nick]
                                                          /\ ops2[w[v].nick] = ops[w[v].nick])
    PROVE  Based(w, rec2, ops2, free2, both)
  BY DEF Based

\* Only the record of n changes, and who is registering with n is excepted.
Recorded(n) ==
    /\ Recs(ndb', adb', odb') /\ exempt' = exempt \cup Unfinished(n) /\ clash' = clash
    /\ \A k \in Nick : k # n => ndb'[k] = ndb[k] /\ odb'[k] = odb[k]

LEMMA RecordedIs ==
    ASSUME UserInv, NEW n \in Nick, Recorded(n)
    PROVE  /\ exempt \subseteq exempt' /\ exempt' \subseteq Local /\ clash' \subseteq Nick
           /\ \A v \in Local \ exempt' : v \in Client /\ v \notin exempt
           /\ \A v \in Local \ exempt' : who[v].st # "none" /\ v \notin Ours(n) =>
                 /\ who[v].nick # n /\ who[v].nick \in Nick
                 /\ ndb'[who[v].nick] = ndb[who[v].nick] /\ odb'[who[v].nick] = odb[who[v].nick]
           /\ \A u \in Ours(n), v \in Local : v \in Ours(n) /\ v # u => who[v].nick \in clash
<1>1. exempt \subseteq exempt' /\ exempt' \subseteq Local /\ clash' \subseteq Nick
  BY Parts DEF Recorded, Unfinished
<1>2. \A v \in Local \ exempt' : v \in Client /\ v \notin exempt
  BY <1>1, LocalIsClient
<1>3. ASSUME NEW v \in Local \ exempt', who[v].st # "none", v \notin Ours(n)
      PROVE  who[v].nick # n /\ who[v].nick \in Nick
  <2>1. v \in Client /\ who[v].st \in Status /\ Fits(v, who[v])
    BY <1>2, Parts, RecordIs
  <2>2. CASE who[v].st = "user"
    BY <1>3, <2>1, <2>2 DEF Ours, FindUser, IsUser, Fits
  <2>3. CASE who[v].st \in {"named", "ponged"}
    <3>1. v \notin Unfinished(n)
      BY DEF Recorded
    <3> QED BY <1>3, <2>1, <2>3, <3>1 DEF Unfinished, Fits
  <2> QED BY <1>3, <2>1, <2>2, <2>3 DEF Status
<1>4. ASSUME NEW u \in Ours(n), NEW v \in Ours(n), v # u PROVE who[v].nick \in clash
  BY <1>4, Parts DEF Ours, FindUser, Single
<1>5. ASSUME NEW v \in Local \ exempt', who[v].st # "none", v \notin Ours(n)
      PROVE  ndb'[who[v].nick] = ndb[who[v].nick] /\ odb'[who[v].nick] = odb[who[v].nick]
  BY <1>3, <1>5 DEF Recorded
<1> QED
  BY <1>1, <1>2, <1>3, <1>4, <1>5

LEMMA OursIs ==
    ASSUME UserInv, NEW n \in Nick, NEW u \in Ours(n)
    PROVE  /\ u \in Local /\ u \in Client /\ IsUser(u) /\ who[u].st = "user" /\ who[u].nick = n
           /\ who[u] \in Record /\ Earned(u, who[u], ndb, odb, exempt, clash)
  BY Parts DEF Ours, FindUser, IsUser

(* Nobody of ours has the nick.                                            *)
LEMMA NobodyKeeps ==
    ASSUME UserInv, NEW n \in Nick, Recorded(n), Ours(n) = {}, Nothing
    PROVE  UserInv'
<1>1. UNCHANGED <<who, cnt, wvars, hvars, clash>>
  BY DEF Nothing, Recorded
<1>2. Steady'
  BY <1>1, Parts DEF Steady, wvars, hvars
<1>3. Based(who', ndb', odb', exempt', clash')
  <2>1. Based(who, ndb, odb, exempt, clash)
    BY Parts
  <2>2. \A v \in Local \ exempt' : who[v].st # "none" =>
               v \notin exempt /\ (who[v].nick \notin clash => ndb'[who[v].nick] = ndb[who[v].nick]
                                                          /\ odb'[who[v].nick] = odb[who[v].nick])
    BY RecordedIs
  <2>3. Based(who, ndb', odb', exempt', clash)
    BY ONLY <2>1, <2>2, BasedStays
  <2> QED BY <1>1, <2>3
<1>4. Numbered(who', cnt')
  BY <1>1, Parts
<1> QED
  BY <1>2, <1>3, <1>4, RecordedIs, Assembled DEF Recorded

(* The user is renamed to a guest name.                                    *)
LEMMA GuestKeeps ==
    ASSUME UserInv, NEW n \in Nick, Recorded(n), NEW u \in Ours(n), NEW x \in Record, x.st = "user",
           x.wait = who[u].wait, x.cmd = who[u].cmd, x.privs = who[u].privs,
           Proper(who[u]) => Proper(x), "i" \in x.modes <=> "i" \in who[u].modes,
           NEW g \in Free, rename_user(u, x, g)
    PROVE  UserInv'
<1>1. /\ u \in Local /\ u \in Client /\ IsUser(u) /\ who[u].st = "user" /\ who[u].nick = n
      /\ who[u] \in Record /\ Earned(u, who[u], ndb, odb, exempt, clash)
  BY OursIs
<1>2. g \in Guest /\ g \in Nick /\ FindClient(g) = {}
  BY DEF Free, Nick
<1>3. g # who[u].nick /\ \A v \in Client : v # u /\ who[v].nick = g => g \in clash'
  BY <1>1, <1>2 DEF FindClient
<1>4. clash \subseteq clash' /\ clash' = clash /\ Recs(ndb', adb', odb')
  BY DEF Recorded
<1> DEFINE z == Given(Renamed(x, g), automodes(g))
<1>5. who' = Turned(who, u, z, {}) /\ Steady' /\ Numbered(who', cnt')
  BY <1>1, <1>2, <1>3, <1>4, RenameSteps
<1>6. ndb'[g] = "none" /\ odb'[g] = {}
  BY <1>2, <1>4 DEF Recs
<1>7. Earned(u, z, ndb', odb', exempt', clash)
  <2>1. (x.cmd => x.privs # "none") /\ (u \in Local \ exempt => Proper(x))
    BY <1>1 DEF Earned
  <2>2. Recs(ndb, adb, odb) /\ exempt \subseteq exempt'
    BY Parts, RecordedIs
  <2>3. Earned(u, Renamed(x, g), ndb', odb', exempt', clash)
    BY <1>2, <1>6, <2>1, <2>2, RenamedEarned
  <2>4. Renamed(x, g) \in Record
    BY <1>2, <2>2, RenamedIs DEF Remade
  <2>5. automodes(g) \in SUBSET Modes /\ automodes(g) = {}
    BY <1>2, <2>2, AutomodesIs DEF Recs
  <2> QED BY ONLY <2>3, <2>4, <2>5, GivenEarned
<1> HIDE DEF z
<1>8. Based(who', ndb', odb', exempt', clash)
  <2>1. Based(who, ndb, odb, exempt, clash) /\ clash \subseteq clash
    BY Parts
  <2>2. \A v \in Local \ exempt' : v # u /\ v \notin {} /\ who[v].st # "none" =>
               v \notin exempt /\ (who[v].nick \notin clash => ndb'[who[v].nick] = ndb[who[v].nick]
                                                          /\ odb'[who[v].nick] = odb[who[v].nick])
    BY RecordedIs
  <2>3. u \in Client
    BY <1>1
  <2>4. Based(Turned(who, u, z, {}), ndb', odb', exempt', clash)
    BY ONLY <1>7, <2>1, <2>2, <2>3, BasedTurns
  <2> QED BY <1>5, <2>4
<1> QED
  BY <1>4, <1>5, <1>8, RecordedIs, Assembled

(* The user keeps the nick and gets other modes.                           *)
LEMMA MarkedKeeps ==
    ASSUME UserInv, NEW n \in Nick, Recorded(n), NEW u \in Ours(n), NEW y, NEW m, NEW p, NEW e,
           Remade(who[u], y, n, m, p, e),
           Earned(u, y, ndb', odb', exempt', clash), who' = [who EXCEPT ![u] = y],
           cnt' \in Counts, Total(cnt') = Total(cnt) + One("i" \in y.modes) - One("i" \in who[u].modes), UNCHANGED <<wvars, hvars>>
    PROVE  UserInv'
<1>1. u \in Client /\ who[u].st = "user" /\ who[u].nick = n
  BY OursIs
<1>2. y \in Record /\ y.st = "user" /\ y.nick = who[u].nick /\ y.wait = who[u].wait /\ y.modes = m
  BY <1>1 DEF Remade
<1>3. who' = Turned(who, u, y, {})
  BY <1>1, Parts, ExceptIs
<1>4. /\ exempt \subseteq exempt' /\ exempt' \subseteq Local /\ clash' = clash /\ Recs(ndb', adb', odb')
      /\ \A v \in Local \ exempt' : v # u /\ who[v].st # "none" /\ who[v].nick \notin clash =>
               ndb'[who[v].nick] = ndb[who[v].nick] /\ odb'[who[v].nick] = odb[who[v].nick]
  BY RecordedIs DEF Recorded
<1> QED
  BY <1>1, <1>2, <1>3, <1>4, ModesKeep

LEMMA NameNoGuest == \A n \in Name : n \in Nick /\ n \notin Guest
  BY UserConstants DEF Nick

LEMMA InsertNickKeeps ==
    ASSUME UserInv, NEW n \in Name, NEW v \in {"ok", "susp", "forbid"}, NEW a \in Autos[n], InsertNick(n, v, a)
    PROVE  UserInv'
<1>1. /\ ndb' = [ndb EXCEPT ![n] = v] /\ adb' = [adb EXCEPT ![n] = a] /\ odb' = odb /\ clash' = clash /\ exempt' = exempt \cup Unfinished(n)
      /\ IF Ours(n) = {} THEN Nothing ELSE \E u \in Ours(n) : NickEffect(u, who[u], v, a)
  BY DEF InsertNick
<1>2. n \in Nick /\ n \notin Guest /\ a \in SUBSET Modes
  BY NameNoGuest, UserConstants
<1>3. Recorded(n) /\ ndb'[n] = v
  <2>1. Recs(ndb', adb', odb')
    BY <1>1, <1>2, Parts DEF Recs, Nick
  <2> QED BY <1>1, <1>2, <2>1, Parts DEF Recorded, Recs
<1>4. CASE Ours(n) = {}
  BY <1>1, <1>2, <1>3, <1>4, NobodyKeeps
<1>5. ASSUME NEW u \in Ours(n), NickEffect(u, who[u], v, a) PROVE UserInv'
  <2> DEFINE x == who[u]
  <2>1. /\ u \in Local /\ x.st = "user" /\ x.nick = n /\ x \in Record /\ Earned(u, x, ndb, odb, exempt, clash)
    BY <1>2, OursIs
  <2>2. CASE v # "ok" \/ x.modes \cap {"r", "S"} = {}
    <3>1. PICK g \in Free : rename_user(u, x, g)
      BY <1>5, <2>2 DEF NickEffect
    <3> QED BY <1>2, <1>3, <2>1, <3>1, GuestKeeps
  <2>3. CASE ~(v # "ok" \/ x.modes \cap {"r", "S"} = {})
    <3> DEFINE q == [x EXCEPT !.modes = (@ \ {"S"}) \cup {"r"}]
               y == IF "S" \in x.modes THEN Granted(q, x.nick) ELSE x
               m == IF "S" \in x.modes THEN ((x.modes \ {"S"}) \cup {"r"}) \cup odb[n] ELSE x.modes
               p == IF "S" \in x.modes THEN GrantPriv(x, odb[n]) ELSE x.privs
    <3>1. /\ who' = [who EXCEPT ![u] = Given(y, a)] /\ cnt' = Missed(Counted(cnt, who[u].modes, y.modes), y, a)
          /\ UNCHANGED <<wvars, hvars>>
      BY <1>5, <2>3 DEF NickEffect
    <3>2. Remade(x, y, n, m, p, x.extra)
      <4>1. CASE "S" \in x.modes
        <5>1. Remade(x, q, n, (x.modes \ {"S"}) \cup {"r"}, x.privs, x.extra)
          <6>1. (x.modes \ {"S"}) \cup {"r"} \in SUBSET Modes
            BY <2>1, RecordIs DEF Modes
          <6> QED BY <2>1, <6>1, SetModes
        <5> HIDE DEF q
        <5>2. /\ q \in Record /\ q.nick = n /\ q.modes = (x.modes \ {"S"}) \cup {"r"} /\ q.privs = x.privs
              /\ q.extra = x.extra
          BY <5>1 DEF Remade
        <5>3. Remade(q, Granted(q, n), q.nick, q.modes \cup odb[n], GrantPriv(q, odb[n]), q.extra)
          BY <1>2, <5>2, Parts, GrantedIs
        <5>4. Remade(q, Granted(q, n), n, m, p, x.extra)
          BY <4>1, <5>2, <5>3 DEF GrantPriv
        <5>5. y = Granted(q, n)
          BY <2>1, <4>1
        <5> QED BY ONLY <5>1, <5>4, <5>5, Remakes
      <4>2. CASE "S" \notin x.modes
        BY <2>1, <4>2 DEF Remade
      <4> QED BY <4>1, <4>2
    <3> HIDE DEF y
    <3>3. y \in Record /\ y.st = "user" /\ y.nick = n /\ y.modes = m /\ y.cmd = x.cmd /\ y.privs = p /\ y.extra = x.extra
      BY <2>1, <3>2 DEF Remade
    <3>4. "i" \in m <=> "i" \in x.modes
      <4>1. "i" \notin odb[n]
        BY <1>2, Parts, RecsIs
      <4> QED BY <4>1
    <3>5. Earned(u, y, ndb', odb', exempt', clash)
      <4>1. y.cmd => y.privs # "none"
        BY <2>1, <3>3 DEF Earned, GrantPriv
      <4>2. u \notin exempt' => u \notin exempt
        BY <1>1
      <4>3. "r" \in m
        BY <2>3
      <4>4. Proper(x) => Proper(y)
        <5>1. Proper(x) => x.extra \subseteq m
          BY <2>1, RecordIs DEF Proper, Ranks
        <5> QED BY <3>3, <4>3, <5>1 DEF Proper
      <4>5. ASSUME Rooted(x, ndb[n], odb[n]) PROVE Rooted(y, "ok", odb[n])
        <5>1. /\ "h" \in m => "h" \in odb[n] \cup x.extra
              /\ "o" \in m => x.cmd \/ "o" \in odb[n] \cup x.extra
          BY <2>3, <4>5 DEF Rooted
        <5> QED BY <3>3, <4>3, <5>1 DEF Rooted
      <4>6. ndb'[n] = "ok" /\ odb' = odb
        BY <1>1, <1>3, <2>3
      <4> QED BY <2>1, <3>3, <4>1, <4>2, <4>4, <4>5, <4>6 DEF Earned
    <3>6. "r" \in y.modes
      BY <2>3, <3>3
    <3> HIDE DEF m, p
    <3> DEFINE z == Given(y, a)
    <3>7. Remade(y, z, n, m \cup a, p, x.extra \cup (a \cap Ranks))
      BY <1>2, <3>3, GivenIs
    <3>8. Remade(x, z, n, m \cup a, p, x.extra \cup (a \cap Ranks))
      BY ONLY <3>2, <3>7, Remakes
    <3>9. Earned(u, z, ndb', odb', exempt', clash)
      BY <1>2, <3>3, <3>5, <3>6, GivenEarned
    <3>10. z.modes = m \cup a
      BY <3>7 DEF Remade
    <3>11. who' = [who EXCEPT ![u] = z]
      BY <3>1
    <3> HIDE DEF z
    <3>12. cnt' \in Counts /\ Total(cnt') = Total(cnt) + One("i" \in z.modes) - One("i" \in who[u].modes)
      <4> DEFINE c == Counted(cnt, who[u].modes, y.modes)
      <4>1. c \in Counts /\ Total(c) = Total(cnt) /\ Total(cnt) \in Int
        BY Parts, CountedIs, TotalIs
      <4>2. cnt' = Missed(c, y, a)
        BY <3>1
      <4> HIDE DEF c
      <4>3. cnt' \in Counts /\ Total(cnt') = Total(cnt) + One(y.st = "user" /\ "i" \in a \ y.modes)
        BY <4>1, <4>2, MissedIs
      <4>4. One(y.st = "user" /\ "i" \in a \ y.modes) = One("i" \in z.modes) - One("i" \in who[u].modes)
        BY <3>3, <3>4, <3>10 DEF One
      <4>5. One("i" \in z.modes) \in Int /\ One("i" \in who[u].modes) \in Int
        BY OneIs
      <4> QED BY <4>1, <4>3, <4>4, <4>5
    <3>13. UNCHANGED <<wvars, hvars>>
      BY <3>1
    <3> QED BY <1>2, <1>3, <3>8, <3>9, <3>11, <3>12, <3>13, MarkedKeeps
  <2> QED BY <2>2, <2>3
<1> QED
  BY <1>1, <1>4, <1>5

LEMMA InsertOperKeeps ==
    ASSUME UserInv, NEW n \in Name, NEW s \in SUBSET {"o", "h"}, InsertOper(n, s)
    PROVE  UserInv'
<1> DEFINE X(u) == IF odb[n] = {} THEN who[u] ELSE Without(who[u], {"h", "o"})
           Y(u) == IF "r" \notin X(u).modes THEN X(u)
                   ELSE [X(u) EXCEPT !.modes = @ \cup s, !.privs = IF "o" \in s THEN "table" ELSE @]
           Z(u) == IF "S" \in Y(u).modes
                   THEN [Y(u) EXCEPT !.modes = (@ \ {"S"}) \cup {"r"} \cup s,
                                     !.privs = IF "o" \in s THEN "table" ELSE @] ELSE Y(u)
<1>1. /\ odb' = [odb EXCEPT ![n] = s] /\ ndb' = ndb /\ adb' = adb /\ clash' = clash /\ exempt' = exempt \cup Unfinished(n)
      /\ IF Ours(n) = {} THEN Nothing
         ELSE \E u \in Ours(n) :
                IF X(u).modes \cap {"r", "S"} = {} THEN \E g \in Free : rename_user(u, X(u), g)
                ELSE /\ who' = [who EXCEPT ![u] = Z(u)] /\ cnt' = Counted(cnt, who[u].modes, Z(u).modes)
                     /\ UNCHANGED <<wvars, hvars>>
  BY DEF InsertOper
<1>2. n \in Nick /\ n \notin Guest
  BY NameNoGuest
<1>3. Recorded(n) /\ odb'[n] = s
  <2>1. Recs(ndb', adb', odb')
    BY <1>1, <1>2, Parts DEF Recs, Nick
  <2> QED BY <1>1, <1>2, <2>1, Parts DEF Recorded, Recs
<1>4. CASE Ours(n) = {}
  BY <1>1, <1>2, <1>3, <1>4, NobodyKeeps
<1>5. CASE Ours(n) # {}
  <2>1. PICK u \in Ours(n) :
           IF X(u).modes \cap {"r", "S"} = {} THEN \E g \in Free : rename_user(u, X(u), g)
           ELSE /\ who' = [who EXCEPT ![u] = Z(u)] /\ cnt' = Counted(cnt, who[u].modes, Z(u).modes)
                /\ UNCHANGED <<wvars, hvars>>
    BY <1>1, <1>5
  <2> DEFINE w == who[u]
             x == X(u)
             y == Y(u)
             z == Z(u)
             M == IF odb[n] = {} THEN {} ELSE {"h", "o"}
             e == w.extra \ M
             a == w.modes \ M
             b == IF "r" \in a THEN a \cup s ELSE a
             p == IF "r" \in a THEN GrantPriv(w, s) ELSE w.privs
             m == IF "S" \in b THEN ((b \ {"S"}) \cup {"r"}) \cup s ELSE b
             q == IF "S" \in b /\ "o" \in s THEN "table" ELSE p
  <2>2. /\ u \in Local /\ w.st = "user" /\ w.nick = n /\ w \in Record /\ Earned(u, w, ndb, odb, exempt, clash)
    BY <1>2, OursIs
  <2>3. s \in SUBSET Modes /\ w.modes \in SUBSET Modes /\ w.privs \in Privs
    BY <2>2, RecordIs DEF Modes
  <2>4. a \in SUBSET Modes /\ b \in SUBSET Modes /\ m \in SUBSET Modes /\ p \in Privs /\ q \in Privs
    BY <2>3 DEF Modes, Privs, GrantPriv
  <2>5. Remade(w, x, n, a, w.privs, e)
    <3>1. CASE odb[n] = {}
      <4>1. x = w /\ a = w.modes /\ e = w.extra
        BY <3>1
      <4> QED BY <2>2, <4>1 DEF Remade
    <3>2. CASE odb[n] # {}
      BY <2>2, <3>2, WithoutIs
    <3> QED BY <3>1, <3>2
  <2>6. x \in Record /\ x.nick = n /\ x.modes = a /\ x.privs = w.privs /\ x.st = "user" /\ x.cmd = w.cmd /\ x.wait = w.wait /\ x.extra = e
    BY <2>2, <2>5 DEF Remade
  <2>7. Remade(x, y, n, b, p, e)
    <3>1. CASE "r" \in a
      <4>1. y = [x EXCEPT !.modes = b, !.privs = p]
        BY <2>6, <3>1 DEF GrantPriv
      <4> HIDE DEF x, y, b, p, e
      <4>2. Remade(x, [x EXCEPT !.modes = b, !.privs = p], x.nick, b, p, x.extra)
        BY ONLY <2>4, <2>6, SetGrant
      <4>3. x.nick = n /\ x.extra = e
        BY <2>6
      <4> QED BY ONLY <4>1, <4>2, <4>3
    <3>2. CASE "r" \notin a
      <4>1. y = x
        BY <2>6, <3>2
      <4> QED BY <2>6, <3>2, <4>1 DEF Remade
    <3> QED BY <3>1, <3>2
  <2>8. CASE x.modes \cap {"r", "S"} = {}
    <3>1. PICK g \in Free : rename_user(u, x, g)
      BY <2>1, <2>8
    <3>2. (Proper(w) => Proper(x)) /\ ("i" \in x.modes <=> "i" \in w.modes)
      BY <2>6 DEF Proper
    <3> HIDE DEF X
    <3> QED BY <1>2, <1>3, <2>2, <2>6, <3>1, <3>2, GuestKeeps
  <2>9. CASE x.modes \cap {"r", "S"} # {}
    <3>1. who' = [who EXCEPT ![u] = z] /\ cnt' = Counted(cnt, who[u].modes, z.modes) /\ UNCHANGED <<wvars, hvars>>
      BY <2>1, <2>9
    <3>2. y \in Record /\ y.nick = n /\ y.modes = b /\ y.privs = p /\ y.extra = e
      BY <2>7 DEF Remade
    <3>3. Remade(y, z, n, m, q, e)
      <4>1. CASE "S" \in b
        <5>1. z = [y EXCEPT !.modes = m, !.privs = q]
          BY <3>2, <4>1
        <5> HIDE DEF y, z, m, q, b, p, e
        <5>2. Remade(y, [y EXCEPT !.modes = m, !.privs = q], y.nick, m, q, y.extra)
          BY ONLY <2>4, <3>2, SetGrant
        <5>3. y.nick = n /\ y.extra = e
          BY <3>2
        <5> QED BY ONLY <5>1, <5>2, <5>3
      <4>2. CASE "S" \notin b
        <5>1. z = y
          BY <3>2, <4>2
        <5> QED BY <3>2, <4>2, <5>1 DEF Remade
      <4> QED BY <4>1, <4>2
    <3>4. Remade(w, z, n, m, q, e)
      <4> HIDE DEF w, x, y, z, a, b, m, p, q, e
      <4>1. Remade(w, y, n, b, p, e)
        BY ONLY <2>5, <2>7, Remakes
      <4> QED BY ONLY <3>3, <4>1, Remakes
    <3> HIDE DEF X, Y, Z
    <3>5. z.nick = n /\ z.modes = m /\ z.cmd = w.cmd /\ z.privs = q /\ z.extra = e
      BY <3>4 DEF Remade
    <3>6. "i" \in m <=> "i" \in w.modes
      BY <2>3
    <3>7. "r" \in m /\ ("r" \in w.modes \/ "S" \in w.modes)
      BY <2>6, <2>9
    <3>8. Earned(u, z, ndb', odb', exempt', clash)
      <4>1. z.cmd => z.privs # "none"
        BY <2>2, <3>5 DEF Earned, GrantPriv
      <4>2. u \notin exempt' => u \notin exempt
        BY <1>1
      <4>3. Proper(w) => Proper(z)
        <5>1. Proper(w) => e \subseteq m
          BY <2>2, RecordIs DEF Proper, Ranks
        <5> QED BY <3>5, <3>7, <5>1 DEF Proper
      <4>4. ASSUME Rooted(w, ndb[n], odb[n]) PROVE Rooted(z, ndb[n], s)
        <5>1. /\ "h" \in a => "h" \in e
              /\ "o" \in a => w.cmd \/ "o" \in e
          BY <4>4 DEF Rooted
        <5>2. /\ "h" \in m => "h" \in s \cup e
              /\ "o" \in m => w.cmd \/ "o" \in s \cup e
          BY <2>6, <2>9, <5>1
        <5>3. ndb[n] \in {"ok", "susp"}
          BY <3>7, <4>4 DEF Rooted
        <5> QED BY <3>5, <3>7, <5>2, <5>3 DEF Rooted
      <4>5. odb'[n] = s /\ ndb' = ndb
        BY <1>1, <1>3
      <4> QED BY <2>2, <3>5, <4>1, <4>2, <4>3, <4>4, <4>5 DEF Earned
    <3>9. cnt' \in Counts /\ Total(cnt') = Total(cnt) + One("i" \in z.modes) - One("i" \in who[u].modes)
      <4>1. cnt' \in Counts /\ Total(cnt') = Total(cnt) /\ Total(cnt) \in Int
        BY <3>1, Parts, CountedIs, TotalIs
      <4> HIDE DEF m, z
      <4> QED BY <3>5, <3>6, <4>1 DEF One
    <3> HIDE DEF m, q, z, e
    <3> QED BY <1>2, <1>3, <3>1, <3>4, <3>8, <3>9, MarkedKeeps
  <2> QED BY <2>8, <2>9
<1> QED
  BY <1>4, <1>5

(* A record goes, and with it the modes it gave.                           *)
LEMMA DeprivedKeeps ==
    ASSUME UserInv, NEW n \in Nick, Recorded(n), NEW M, "h" \in M, "o" \in M, "i" \notin M,
           \/ ndb'[n] = "none" /\ "r" \in M /\ "S" \in M
           \/ odb'[n] = {} /\ "r" \notin M /\ "S" \notin M /\ ndb' = ndb,
           Deprived(n, M)
    PROVE  UserInv'
<1> DEFINE d(u) == Without(who[u], M)
<1>1. /\ who' = [u \in Client |-> IF u \in Ours(n) THEN d(u) ELSE who[u]]
      /\ UNCHANGED <<wvars, hvars, clash>>
  BY DEF Deprived
<1>2. ASSUME NEW u \in Client
      PROVE  /\ Remade(who[u], d(u), who[u].nick, who[u].modes \ M, who[u].privs, who[u].extra \ M)
             /\ who[u] \in Record /\ Fits(u, who[u])
  <2>1. who[u] \in Record /\ Fits(u, who[u])
    BY Parts
  <2> QED BY <2>1, WithoutIs
<1> HIDE DEF d
<1>3. ASSUME NEW u \in Client
      PROVE  /\ who'[u] \in Record /\ who'[u].st = who[u].st /\ who'[u].nick = who[u].nick
             /\ who'[u].cmd = who[u].cmd /\ who'[u].privs = who[u].privs /\ who'[u].wait = who[u].wait
             /\ "i" \in who'[u].modes <=> "i" \in who[u].modes
             /\ u \in Ours(n) => who'[u].modes = who[u].modes \ M /\ who'[u].extra = who[u].extra \ M
             /\ u \notin Ours(n) => who'[u] = who[u]
  <2>1. CASE u \in Ours(n)
    <3>1. who'[u] = d(u)
      BY <1>1, <2>1
    <3> QED BY <1>2, <2>1, <3>1 DEF Remade
  <2>2. CASE u \notin Ours(n)
    <3>1. who'[u] = who[u]
      BY <1>1, <2>2
    <3> QED BY <1>2, <2>2, <3>1
  <2> QED BY <2>1, <2>2
<1>4. Shaped(who') /\ Single(who', clash)
  <2>1. DOMAIN who' = Client /\ who' = [u \in Client |-> who'[u]]
    BY <1>1
  <2>2. who' \in [Client -> Record]
    BY <1>3, <2>1
  <2>3. ASSUME NEW u \in Client, who[u].st = "none" PROVE who'[u] = Gone
    <3>1. who[u] = Gone
      BY <1>2, <2>3 DEF Fits
    <3>2. u \notin Ours(n)
      BY <2>3 DEF Ours, FindUser, IsUser
    <3> QED BY <1>3, <3>1, <3>2
  <2>4. Shaped(who')
    BY <1>2, <1>3, <2>2, <2>3 DEF Shaped, Fits
  <2>5. Single(who, clash)
    BY Parts
  <2> QED BY <1>3, <2>4, <2>5 DEF Single
<1>5. Truthful(who', wl, told, early, clash)
  <2>1. Alike(who, who')
    BY <1>3 DEF Alike
  <2>2. Truthful(who, wl, told, early, clash) /\ clash \subseteq clash
    BY Parts DEF Steady
  <2> QED BY <2>1, <2>2, TruthfulAlike
<1>6. Ring(who', wtab, wnext, hl, cl)
  BY <1>3, Parts, RingKept DEF Steady
<1>7. Steady'
  <2>1. Paired(wl, uw, cw)
    BY Parts DEF Steady
  <2> QED BY <1>1, <1>4, <1>5, <1>6, <2>1 DEF Steady, wvars, hvars
<1>8. Numbered(who', cnt')
  <2>1. Invisible(who') = Invisible(who)
    BY <1>3 DEF Invisible
  <2>2. cnt' \in Counts /\ Total(cnt') = Total(cnt)
    <3>1. cnt \in Counts
      BY Parts
    <3>2. CASE Ours(n) = {}
      BY <3>1, <3>2 DEF Deprived
    <3>3. CASE Ours(n) # {}
      <4>1. PICK a, b : cnt' = Counted(cnt, a, b)
        BY <3>3 DEF Deprived
      <4> QED BY <3>1, <4>1, CountedIs
    <3> QED BY <3>2, <3>3
  <2>3. Numbered(who, cnt)
    BY Parts
  <2> QED BY <2>1, <2>2, <2>3 DEF Numbered
<1>9. Based(who', ndb', odb', exempt', clash)
  <2>1. \A u \in Client : who'[u].cmd => who'[u].privs # "none"
    BY <1>3, Parts DEF Earned
  <2>2. ASSUME NEW u \in Local \ exempt', who'[u].st # "none"
        PROVE  Proper(who'[u]) /\ (who'[u].nick \notin clash => Rooted(who'[u], ndb'[who'[u].nick], odb'[who'[u].nick]))
    <3>1. u \in Client /\ u \notin exempt /\ who[u].st # "none"
      BY <1>3, <2>2, RecordedIs
    <3>2. Proper(who[u]) /\ (who[u].nick \notin clash => Rooted(who[u], ndb[who[u].nick], odb[who[u].nick]))
      <4>1. Earned(u, who[u], ndb, odb, exempt, clash)
        BY <3>1, Parts
      <4> QED BY <3>1, <4>1 DEF Earned
    <3>3. CASE u \in Ours(n)
      <4>1. /\ who'[u].modes = who[u].modes \ M /\ who'[u].nick = n /\ who[u].nick = n
            /\ who'[u].cmd = who[u].cmd /\ who'[u].privs = who[u].privs /\ who'[u].extra = who[u].extra \ M
        BY <1>3, <3>1, <3>3, OursIs
      <4>2. Proper(who'[u])
        BY <3>2, <4>1 DEF Proper
      <4>3. ASSUME n \notin clash PROVE Rooted(who'[u], ndb'[n], odb'[n])
        BY <3>2, <4>1, <4>3 DEF Rooted
      <4> QED BY <4>1, <4>2, <4>3
    <3>4. CASE u \notin Ours(n)
      <4>1. who'[u] = who[u] /\ ndb'[who[u].nick] = ndb[who[u].nick] /\ odb'[who[u].nick] = odb[who[u].nick]
        BY <1>3, <3>1, <3>4, RecordedIs
      <4> QED BY <3>2, <4>1
    <3> QED BY <3>3, <3>4
  <2> QED BY <2>1, <2>2 DEF Based
<1> QED
  BY <1>1, <1>7, <1>8, <1>9, RecordedIs, Assembled DEF Recorded

LEMMA DeleteNickKeeps ==
    ASSUME UserInv, NEW n \in Name, DeleteNick(n)
    PROVE  UserInv'
<1>1. /\ ndb' = [ndb EXCEPT ![n] = "none"] /\ adb' = [adb EXCEPT ![n] = {}]
      /\ odb' = odb /\ Deprived(n, {"r", "S", "h", "o"})
  BY DEF DeleteNick
<1>2. clash' = clash /\ exempt' = exempt \cup Unfinished(n)
  BY <1>1 DEF Deprived
<1>3. n \in Nick /\ n \notin Guest
  BY NameNoGuest
<1>4. Recorded(n) /\ ndb'[n] = "none"
  <2>1. Recs(ndb', adb', odb')
    BY <1>1, <1>3, Parts DEF Recs, Nick
  <2> QED BY <1>1, <1>2, <1>3, <2>1, Parts DEF Recorded, Recs
<1> QED
  BY <1>1, <1>3, <1>4, DeprivedKeeps

LEMMA DeleteOperKeeps ==
    ASSUME UserInv, NEW n \in Name, DeleteOper(n)
    PROVE  UserInv'
<1>1. /\ odb' = [odb EXCEPT ![n] = {}] /\ ndb' = ndb /\ adb' = adb /\ Deprived(n, {"h", "o"})
  BY DEF DeleteOper
<1>2. clash' = clash /\ exempt' = exempt \cup Unfinished(n)
  BY <1>1 DEF Deprived
<1>3. n \in Nick /\ n \notin Guest
  BY NameNoGuest
<1>4. Recorded(n) /\ odb'[n] = {}
  <2>1. Recs(ndb', adb', odb')
    BY <1>1, <1>3, Parts DEF Recs, Nick
  <2> QED BY <1>1, <1>2, <1>3, <2>1, Parts DEF Recorded, Recs
<1> QED
  BY <1>1, <1>3, <1>4, DeprivedKeeps

LEMMA DropTablesKeeps ==
    ASSUME UserInv, DropTables
    PROVE  UserInv'
<1>1. /\ ndb' = [n \in Nick |-> "none"] /\ adb' = [n \in Nick |-> {}] /\ odb' = [n \in Nick |-> {}]
      /\ exempt' = exempt \cup {u \in Local : who[u] # Gone} /\ UNCHANGED <<who, cnt, wvars, hvars, clash>>
  BY DEF DropTables, Nothing
<1>2. Recs(ndb', adb', odb')
  BY <1>1 DEF Recs, Nick
<1>3. Steady'
  BY <1>1, Parts DEF Steady, wvars, hvars
<1>4. Based(who, ndb', odb', exempt', clash)
  <2>1. \A v \in Local \ exempt' : who[v].st = "none"
    BY <1>1, GoneIs
  <2>2. Based(who, ndb, odb, exempt, clash)
    BY Parts
  <2> QED BY <2>1, <2>2 DEF Based
<1>5. exempt' \subseteq Local /\ clash' \subseteq Nick /\ Numbered(who', cnt')
  BY <1>1, Parts
<1> QED
  BY <1>1, <1>2, <1>3, <1>4, <1>5, Assembled

-----------------------------------------------------------------------------
(* The invariant, and what follows from it.                                *)

LEMMA InitHolds == UserInit => UserInv
<1> SUFFICES ASSUME UserInit PROVE UserInv
  OBVIOUS
<1>1. /\ who = [u \in Client |-> Gone] /\ ndb = [n \in Nick |-> "none"]
      /\ adb = [n \in Nick |-> {}] /\ odb = [n \in Nick |-> {}] /\ early = [u \in Client |-> {}]
      /\ cnt = [opers |-> 0, helpers |-> 0, inv |-> 0, missed |-> 0]
      /\ wl = [n \in Nick |-> {}] /\ uw = [u \in Client |-> {}] /\ cw = [u \in Client |-> 0]
      /\ told = [u \in Client |-> [n \in Nick |-> "off"]]
      /\ wtab = [i \in Slot |-> Unused] /\ wnext = 1
      /\ hl = [n \in Nick |-> <<>>] /\ cl = [u \in Client |-> <<>>] /\ exempt = {} /\ clash = {}
  BY DEF UserInit, Slot
<1>2. None \notin Nick /\ None \notin Client
  BY UserConstants
<1>3. Shaped(who) /\ Single(who, clash)
  BY <1>1, <1>2, GoneIs DEF Shaped, Single
<1>4. Paired(wl, uw, cw)
  <2>1. IsFiniteSet({}) /\ Cardinality({}) = 0
    BY FS_EmptySet
  <2>2. 0 \in 0..MaxWatch
    BY UserConstants
  <2> QED BY <1>1, <2>1, <2>2, LocalIsClient DEF Paired
<1>5. Truthful(who, wl, told, early, clash)
  BY <1>1 DEF Truthful, Marks
<1>6. Ring(who, wtab, wnext, hl, cl)
  <2>1. Unused \in Entry /\ Unused.nick = None /\ Unused.online = None
    BY DEF Unused, Entry
  <2>2. \A k : Filed(<<>>, {}, k)
    BY DEF Filed, ToSet
  <2>3. 1 \in Slot
    BY UserConstants DEF Slot
  <2>4. /\ \A n \in Nick : {i \in Slot : wtab[i].nick = n} = {}
        /\ \A u \in Client : {i \in Slot : wtab[i].online = u} = {}
    BY <1>1, <1>2, <2>1
  <2>5. <<>> \in Seq(Slot)
    OBVIOUS
  <2> QED BY <1>1, <2>1, <2>2, <2>3, <2>4, <2>5 DEF Ring
<1>7. Recs(ndb, adb, odb)
  BY <1>1 DEF Recs, Nick
<1>8. Based(who, ndb, odb, exempt, clash)
  BY <1>1, GoneIs, LocalIsClient DEF Based
<1>9. Numbered(who, cnt)
  <2>1. Invisible(who) = {}
    BY <1>1, GoneIs DEF Invisible
  <2>2. Cardinality({}) = 0
    BY FS_EmptySet
  <2>3. cnt \in Counts /\ Total(cnt) = 0
    BY <1>1 DEF Counts, Total
  <2> QED BY <2>1, <2>2, <2>3 DEF Numbered
<1> QED
  BY <1>1, <1>3, <1>4, <1>5, <1>6, <1>7, <1>8, <1>9 DEF UserInv

LEMMA NextKeeps == UserInv /\ [UserNext]_userVars => UserInv'
<1> SUFFICES ASSUME UserInv, [UserNext]_userVars PROVE UserInv'
  OBVIOUS
<1>1. ASSUME UNCHANGED userVars PROVE UserInv'
  BY <1>1 DEF userVars, wvars, hvars, UserInv
<1>2. ASSUME NEW u \in Local, NEW n \in Name, NEW ok \in BOOLEAN, NEW suspends \in BOOLEAN,
             FirstNick(u, n, ok, suspends) \/ \E fast \in BOOLEAN : ChangeNick(u, n, ok, fast, suspends)
      PROVE  UserInv'
  BY <1>2, FirstNickKeeps, ChangeNickKeeps
<1>3. ASSUME NEW u \in Local, (\E complete \in BOOLEAN : Pong(u, complete)) \/ UserCmd(u) \/ UnwatchAll(u)
      PROVE  UserInv'
  BY <1>3, PongKeeps, UserCmdKeeps, UnwatchAllKeeps
<1>4. ASSUME NEW u \in Client, Exit(u) PROVE UserInv'
  BY <1>4, ExitKeeps
<1>5. ASSUME NEW u \in Local, NEW n \in Nick, Watch(u, n) \/ Unwatch(u, n) \/ SvsNick(u, n) PROVE UserInv'
  BY <1>5, WatchKeeps, UnwatchKeeps, SvsNickKeeps
<1>6. ASSUME NEW u \in Local, NEW k \in Lines, Oper(u, k) PROVE UserInv'
  BY <1>6, OperKeeps
<1>7. ASSUME NEW u \in Client, NEW add \in BOOLEAN, NEW f \in Modes, SvsUmode(u, add, f) PROVE UserInv'
  BY <1>7, SvsUmodeKeeps
<1>8. ASSUME NEW u \in Local, NEW add \in BOOLEAN, NEW f \in Modes, Umode(u, add, f) PROVE UserInv'
  BY <1>8, UmodeKeeps
<1>9. ASSUME NEW u \in Remote, NEW n \in Name,
             RemoteNick(u, n) \/ \E m \in {{}, {"r", "o", "h"}, {"i"}} : Introduce(u, n, m)
      PROVE  UserInv'
  BY <1>9, RemoteNickKeeps, IntroduceKeeps
<1>10. ASSUME NEW n \in Name,
              \/ \E v \in {"ok", "susp", "forbid"}, a \in Autos[n] : InsertNick(n, v, a)
              \/ \E s \in SUBSET {"o", "h"} : InsertOper(n, s)
              \/ DeleteNick(n) \/ DeleteOper(n)
       PROVE  UserInv'
  BY <1>10, InsertNickKeeps, InsertOperKeeps, DeleteNickKeeps, DeleteOperKeeps
<1> QED
  BY <1>1, <1>2, <1>3, <1>4, <1>5, <1>6, <1>7, <1>8, <1>9, <1>10, DropTablesKeeps DEF UserNext

LEMMA InvHolds == UserSpec => []UserInv
<1>1. UserInit => UserInv
  BY InitHolds
<1>2. UserInv /\ [UserNext]_userVars => UserInv'
  BY NextKeeps
<1> QED
  BY <1>1, <1>2, PTL DEF UserSpec

LEMMA ToldFollows == UserInv => WatchTold
<1> SUFFICES ASSUME UserInv PROVE WatchTold
  OBVIOUS
<1>1. \A n : FindUser(n) = Holders(who, n)
  BY DEF FindUser, IsUser, Holders
<1>2. Paired(wl, uw, cw) /\ Truthful(who, wl, told, early, clash)
  BY DEF UserInv
<1>3. ASSUME NEW u \in Local PROVE early[u] \subseteq uw[u]
  <2> SUFFICES ASSUME NEW n \in early[u] PROVE n \in uw[u]
    OBVIOUS
  <2>1. n \in Nick /\ u \in wl[n]
    BY <1>2, LocalIsClient DEF Truthful
  <2> QED BY <1>2, <2>1 DEF Paired
<1> QED
  BY <1>1, <1>2, <1>3 DEF WatchTold, Paired, Truthful, Sure

LEMMA ListsFollow == UserInv => HistoryLists
<1> SUFFICES ASSUME UserInv PROVE HistoryLists
  OBVIOUS
<1>1. /\ wtab \in [Slot -> Entry] /\ wnext \in Slot
      /\ \A n \in Nick : Filed(hl[n], Named1(wtab, n), wnext)
      /\ \A u \in Client : Filed(cl[u], Of(wtab, u), wnext)
      /\ \A i \in Slot : wtab[i].online # None => who[wtab[i].online].st = "user" /\ wtab[i].nick # None
  BY RingIs DEF UserInv
<1>2. \A i \in Slot : wtab[i].nick \in Nick \cup {None} /\ wtab[i].online \in Client \cup {None}
  BY <1>1 DEF Entry
<1>3. ASSUME Used(wnext) PROVE IsLast(wnext, hl[wtab[wnext].nick])
  <2>1. wtab[wnext].nick \in Nick
    BY <1>1, <1>2, <1>3 DEF Used
  <2>2. wnext \in Named1(wtab, wtab[wnext].nick)
    BY <1>1 DEF Named1
  <2> QED BY <1>1, <2>1, <2>2, OldestLast DEF IsLast
<1>4. ASSUME wtab[wnext].online # None PROVE IsLast(wnext, cl[wtab[wnext].online])
  <2>1. wtab[wnext].online \in Client
    BY <1>1, <1>2, <1>4
  <2>2. wnext \in Of(wtab, wtab[wnext].online)
    BY <1>1 DEF Of
  <2> QED BY <1>1, <2>1, <2>2, OldestLast DEF IsLast
<1>5. ASSUME NEW i \in Slot, wtab[i].online # None
      PROVE  IsUser(wtab[i].online) /\ i \in ToSet(cl[wtab[i].online])
  <2>1. wtab[i].online \in Client /\ i \in Of(wtab, wtab[i].online)
    BY <1>2, <1>5 DEF Of
  <2>2. ToSet(cl[wtab[i].online]) = Of(wtab, wtab[i].online)
    BY <1>1, <2>1, FiledIs
  <2> QED BY <1>1, <1>5, <2>1, <2>2 DEF IsUser
<1>6. ASSUME NEW n \in Nick, get_history(n) # None PROVE IsUser(get_history(n))
  <2>1. hl[n] # <<>> /\ get_history(n) = wtab[Head(hl[n])].online
    BY <1>6 DEF get_history
  <2>2. hl[n] \in Seq(Slot)
    BY <1>1, FiledIs
  <2>3. Head(hl[n]) \in Slot
    BY <2>1, <2>2
  <2> QED BY <1>5, <1>6, <2>1, <2>3
<1> QED
  BY <1>3, <1>4, <1>5, <1>6 DEF HistoryLists, Slot

LEMMA EntitledFollows == UserInv => Entitled
<1> SUFFICES ASSUME UserInv PROVE Entitled
  OBVIOUS
<1>1. UserTypeOK
  <2>1. who \in [Client -> Record] /\ Recs(ndb, adb, odb) /\ cnt \in Counts /\ exempt \subseteq Local /\ clash \subseteq Nick
    BY Parts
  <2>2. wl \in [Nick -> SUBSET Local] /\ uw \in [Client -> SUBSET Nick] /\ cw \in [Client -> 0..MaxWatch]
    BY DEF UserInv, Paired
  <2>3. told \in [Client -> [Nick -> {"on", "off"}]] /\ early \in [Client -> SUBSET Nick]
    BY DEF UserInv, Truthful, Marks
  <2>4. wtab \in [1..Hist -> [nick : Nick \cup {None}, online : Client \cup {None}]] /\ wnext \in 1..Hist
    BY RingIs DEF UserInv, Slot, Entry
  <2> QED BY <2>1, <2>2, <2>3, <2>4 DEF UserTypeOK, Recs, Counts
<1>2. ASSUME NEW u \in Local \ exempt, IsUser(u), who[u].nick \notin clash
      PROVE  /\ Proper(who[u]) /\ Rooted(who[u], ndb[who[u].nick], odb[who[u].nick])
             /\ who[u].cmd => who[u].privs # "none"
  <2>1. Earned(u, who[u], ndb, odb, exempt, clash)
    BY Parts, LocalIsClient
  <2> QED BY <1>2, <2>1 DEF Earned, IsUser
<1>3. Grounds
  <2> SUFFICES ASSUME NEW u \in Local \ exempt, IsUser(u), who[u].nick \notin clash
               PROVE  LET x == who[u]
                      IN  /\ "r" \in x.modes => ndb[x.nick] \in {"ok", "susp"}
                          /\ "h" \in x.modes => "r" \in x.modes /\ "h" \in odb[x.nick] \cup x.extra
                          /\ "o" \in x.modes =>
                               x.cmd \/ ("r" \in x.modes /\ "o" \in odb[x.nick] \cup x.extra)
                          /\ "o" \in x.modes /\ "O" \notin x.modes /\ "o" \notin odb[x.nick] \cup x.extra =>
                               x.privs # "none"
                          /\ x.extra \subseteq x.modes
    BY DEF Grounds
  <2> QED BY <1>2 DEF Proper, Rooted
<1>4. Protected
  BY <1>2 DEF Protected, Rooted
<1>5. InvisibleCount
  BY DEF InvisibleCount, UserInv, Numbered, Total, Invisible, IsUser
<1> QED
  BY <1>1, <1>3, <1>4, <1>5 DEF Entitled

(* Whoever watches a nick has last heard the truth about it, however NICK, *)
(* renames, SVSNICK, remote users and exits follow each other, but for the *)
(* early answer of WATCH about a client that is still registering.         *)
THEOREM UsersWatchTold == UserSpec => []WatchTold
  BY InvHolds, ToldFollows, PTL

(* The entry that add_history overwrites is the last of its two lists, and *)
(* get_history never answers with a client that has gone.                  *)
THEOREM UsersHistoryLists == UserSpec => []HistoryLists
  BY InvHolds, ListsFollow, PTL

(* The modes and the protected nicks of the users of the server have their *)
(* ground in the tables, or are extra: automodes of the nick's record, and *)
(* modes kept by a client that was registering; the invisible users are    *)
(* counted right but for those whom automodes made invisible.              *)
THEOREM UsersEntitled == UserSpec => []Entitled
  BY InvHolds, EntitledFollows, PTL
=============================================================================
