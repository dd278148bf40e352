---------------------------- MODULE PartsProofs -----------------------------
(***************************************************************************)
(* Proofs about two of the parts of the run parts, IpCheck and Uping.      *)
(*                                                                         *)
(* The registry of addresses counts who is connected and the clone limit   *)
(* holds, for every number of clients and addresses and all widths of the  *)
(* bit fields.  ConnectedCount is read through one number per address,     *)
(* Count: each operation of IPcheck.c moves the count of its address by    *)
(* one and leaves the others, expiry included, which only drops entries    *)
(* that count 0.  The callers then have to pair every move with a client   *)
(* that comes or goes.                                                     *)
(*                                                                         *)
(* A ping has one owner, one place in loc_clients and one thing that will  *)
(* end it, for every number of operators, pings and descriptors.           *)
(* PingsOwned is not inductive: that an entry of loc_clients is the one    *)
(* its ping says (close_connection moves by the entry, end_ping frees by   *)
(* the ping), that no two pings have one asker, and that a ping waiting    *)
(* for the resolver has sent nothing (so that no answer, which would free  *)
(* it, can arrive while a query names it) are needed as well.              *)
(***************************************************************************)
EXTENDS IpCheck, Uping, TLAPS, FiniteSetTheorems, WellFoundedInduction

-----------------------------------------------------------------------------
(* The registry of addresses.                                              *)

RegType == [Ip -> IpEntry \cup {NoEntry}]

\* How many clients the registry R says address i has.
Count(R, i) == IF R[i] = NoEntry THEN 0 ELSE R[i].conn

\* `connected' has room for every client structure, and no gateway sends a
\* PROXY line of another protocol, for which m_proxy charges an address off
\* twice.
RoomForAll == Cardinality(Client) < ConnMod
OnlyTCP4 == ProxyProto \subseteq {"TCP4"}

(* An entry of the registry and its count stay within the bit fields.      *)
LEMMA EntryFacts ==
    /\ NoEntry \notin IpEntry
    /\ \A R \in RegType, i \in Ip :
         /\ Count(R, i) \in 0..(ConnMod - 1)
         /\ R[i] # NoEntry => R[i] \in IpEntry /\ Count(R, i) = R[i].conn
BY IpConstants DEF NoEntry, IpEntry, RegType, Count

(* The seconds since the last connect, modulo the width of the field.      *)
LEMMA TimeType ==
    ASSUME now \in Nat
    PROVE  /\ now % TimeMod \in 0..(TimeMod - 1)
           /\ \A e \in IpEntry : Since(e) \in 0..(TimeMod - 1)
BY IpConstants DEF Since, IpEntry

(* The attempt counter sticks at its maximum instead of wrapping.          *)
LEMMA SaturatedType ==
    ASSUME NEW a \in 0..(AttMod - 1)
    PROVE  Saturated(a) \in 0..(AttMod - 1)
BY IpConstants DEF Saturated

-----------------------------------------------------------------------------
(* The operations of IPcheck.c.                                            *)

\* One client more at i, of a registry that has room for it.
OneMore(R, Q, i) ==
    /\ Q \in RegType
    /\ Q[i] # NoEntry
    /\ Count(Q, i) = Count(R, i) + 1
    /\ \A j \in Ip \ {i} : Count(Q, j) = Count(R, j)

OneLess(R, Q, i) ==
    /\ Q \in RegType
    /\ Count(Q, i) = Count(R, i) - 1
    /\ \A j \in Ip \ {i} : Count(Q, j) = Count(R, j)

\* IPcheck_local_connect counts one client more.
LEMMA LocalConnectCounts ==
    ASSUME NEW R \in RegType, NEW i \in Ip, now \in Nat,
           Count(R, i) + 1 < ConnMod
    PROVE  OneMore(R, LocalConnect(R, i), i)
<1> DEFINE e == R[i]
           base == IF Since(e) > Period \/ i \in Iline THEN 0 ELSE e.att
           next == [conn |-> e.conn + 1, att |-> Saturated(base),
                    last |-> now % TimeMod]
<1>1. CASE e = NoEntry
  <2>1. LocalConnect(R, i) = [R EXCEPT ![i] = NewEntry(1)]
    BY <1>1 DEF LocalConnect
  <2>2. NewEntry(1) \in IpEntry /\ NewEntry(1).conn = 1
    BY TimeType, IpConstants DEF NewEntry, IpEntry
  <2>3. Count(R, i) = 0
    BY <1>1 DEF Count
  <2> QED
    BY <2>1, <2>2, <2>3, EntryFacts DEF OneMore, RegType, Count
<1>2. CASE e # NoEntry
  <2>1. e \in IpEntry /\ e.conn = Count(R, i)
    BY <1>2, EntryFacts
  <2>2. (e.conn + 1) % ConnMod # 0
    BY <2>1, IpConstants DEF IpEntry
  <2>3. LocalConnect(R, i) = [R EXCEPT ![i] = next]
    BY <1>2, <2>2 DEF LocalConnect
  <2>4. base \in 0..(AttMod - 1)
    BY <2>1, IpConstants DEF IpEntry
  <2>5. next \in IpEntry /\ next.conn = e.conn + 1
    <3> HIDE DEF base
    <3> QED BY <2>1, <2>4, SaturatedType, TimeType, IpConstants DEF IpEntry
  <2> HIDE DEF next, e
  <2> QED
    BY <2>1, <2>3, <2>5, EntryFacts DEF OneMore, RegType, Count
<1> QED
  BY <1>1, <1>2

\* IPcheck_remote_connect counts one client more.
LEMMA RemoteConnectCounts ==
    ASSUME NEW R \in RegType, NEW i \in Ip, now \in Nat, NEW burst \in BOOLEAN,
           Count(R, i) + 1 < ConnMod
    PROVE  OneMore(R, RemoteConnect(R, i, burst), i)
<1> DEFINE e == R[i]
           base == IF Since(e) > Period THEN 0 ELSE e.att
           first == NewEntry(IF burst THEN 1 ELSE 0)
           next == [conn |-> e.conn + 1,
                    att  |-> IF burst THEN base ELSE Saturated(base),
                    last |-> IF burst THEN e.last ELSE now % TimeMod]
<1>1. CASE e = NoEntry
  <2>1. RemoteConnect(R, i, burst) = [R EXCEPT ![i] = first]
    BY <1>1 DEF RemoteConnect
  <2>2. first \in IpEntry /\ first.conn = 1
    BY TimeType, IpConstants DEF NewEntry, IpEntry
  <2>3. Count(R, i) = 0
    BY <1>1 DEF Count
  <2> HIDE DEF first
  <2> QED
    BY <2>1, <2>2, <2>3, EntryFacts DEF OneMore, RegType, Count
<1>2. CASE e # NoEntry
  <2>1. e \in IpEntry /\ e.conn = Count(R, i)
    BY <1>2, EntryFacts
  <2>2. (e.conn + 1) % ConnMod # 0
    BY <2>1, IpConstants DEF IpEntry
  <2>3. RemoteConnect(R, i, burst) = [R EXCEPT ![i] = next]
    BY <1>2, <2>2 DEF RemoteConnect
  <2>4. base \in 0..(AttMod - 1)
    BY <2>1, IpConstants DEF IpEntry
  <2>5. next \in IpEntry /\ next.conn = e.conn + 1
    <3> HIDE DEF base
    <3> QED BY <2>1, <2>4, SaturatedType, TimeType, IpConstants DEF IpEntry
  <2> HIDE DEF next, e
  <2> QED
    BY <2>1, <2>3, <2>5, EntryFacts DEF OneMore, RegType, Count
<1> QED
  BY <1>1, <1>2

\* IPcheck_connect_fail takes back an attempt, not a client.
LEMMA ConnectFailCounts ==
    ASSUME NEW R \in RegType, NEW i \in Ip, R[i] # NoEntry
    PROVE  /\ ConnectFail(R, i) \in RegType
           /\ ConnectFail(R, i)[i] # NoEntry
           /\ \A j \in Ip : Count(ConnectFail(R, i), j) = Count(R, j)
<1> DEFINE e == [R[i] EXCEPT !.att = (@ - 1) % AttMod]
<1>1. R[i] \in IpEntry /\ Count(R, i) = R[i].conn
  BY EntryFacts
<1>2. e \in IpEntry /\ e.conn = R[i].conn
  BY <1>1, IpConstants DEF IpEntry
<1>3. ConnectFail(R, i) = [R EXCEPT ![i] = e]
  BY DEF ConnectFail
<1> HIDE DEF e
<1> QED
  BY <1>1, <1>2, <1>3, EntryFacts DEF RegType, Count

\* IPcheck_disconnect counts one client less, and the entries that expire on
\* the way count none.
LEMMA DisconnectCounts ==
    ASSUME NEW R \in RegType, NEW i \in Ip, now \in Nat, Count(R, i) > 0
    PROVE  OneLess(R, Disconnect(R, i), i)
<1> DEFINE S == [j \in Ip |-> IF j \in Expired(R, i) THEN NoEntry ELSE R[j]]
           e == S[i]
           conn == (e.conn - 1) % ConnMod
           some == [e EXCEPT !.conn = conn]
           none == [conn |-> 0,
                    att  |-> IF Since(e) > Limit * Period THEN 0 ELSE e.att,
                    last |-> now % TimeMod]
<1>1. S \in RegType
  BY DEF RegType
<1>2. e = R[i] /\ e \in IpEntry /\ e.conn = Count(R, i)
  BY EntryFacts DEF Expired, Count
<1>3. \A j \in Ip \ {i} : Count(S, j) = Count(R, j)
  BY EntryFacts DEF Expired, Count
<1>4. conn = Count(R, i) - 1
  BY <1>2, EntryFacts, IpConstants DEF IpEntry
<1>5. Disconnect(R, i) = [S EXCEPT ![i] = IF conn # 0 THEN some ELSE none]
  BY DEF Disconnect
<1>6. some \in IpEntry /\ some.conn = conn
  BY <1>2, <1>4, EntryFacts, IpConstants DEF IpEntry
<1>7. none \in IpEntry /\ none.conn = 0
  BY <1>2, TimeType, IpConstants DEF IpEntry
<1> HIDE DEF S, e, conn, some, none
<1> QED
  BY <1>1, <1>3, <1>4, <1>5, <1>6, <1>7, EntryFacts DEF OneLess, RegType, Count

-----------------------------------------------------------------------------
(* Counts and clients.                                                     *)

Users(i) == {c \in Online(i) : state[c] = "user"}

\* The registry counts Online, read as one equation per address.
Counted == \A i \in Ip : Count(reg, i) = Cardinality(Online(i))

(* The clients of an address are finitely many, and its users no more.     *)
LEMMA FewOnline ==
    \A i \in Ip : /\ Online(i) \subseteq Client /\ IsFiniteSet(Online(i))
                  /\ Cardinality(Online(i)) \in Nat
                  /\ IsFiniteSet(Users(i)) /\ Cardinality(Users(i)) \in Nat
                  /\ Cardinality(Users(i)) <= Cardinality(Online(i))
<1> TAKE i \in Ip
<1>1. Online(i) \in SUBSET Client /\ Users(i) \in SUBSET Online(i)
  BY DEF Online, Users
<1>2. IsFiniteSet(Online(i))
  BY <1>1, FS_Subset, IpConstants
<1>3. IsFiniteSet(Users(i)) /\ Cardinality(Users(i)) <= Cardinality(Online(i))
  BY <1>1, <1>2, FS_Subset
<1> QED
  BY <1>1, <1>2, <1>3, FS_CardinalityType

(* The registry agrees with the clients exactly if every Count does.       *)
LEMMA CountedIff ==
    ASSUME IpTypeOK
    PROVE  ConnectedCount <=> Counted
<1>1. \A i \in Ip : Cardinality(Online(i)) = 0 <=> Online(i) = {}
  BY FewOnline, FS_EmptySet
<1> QED
  BY <1>1, FS_EmptySet DEF ConnectedCount, Counted, Count

\* A free structure leaves room for one client more.
LEMMA RoomForOne ==
    ASSUME IpTypeOK, Counted, RoomForAll,
           NEW c \in Client, state[c] = "free", NEW i \in Ip
    PROVE  Count(reg, i) + 1 < ConnMod
<1>1. c \notin Online(i)
  BY DEF Online
<1>2. Cardinality(Online(i) \cup {c}) = Cardinality(Online(i)) + 1
  BY <1>1, FewOnline, FS_AddElement
<1>3. Online(i) \cup {c} \in SUBSET Client
  BY FewOnline
<1>4. Cardinality(Online(i) \cup {c}) <= Cardinality(Client)
  BY <1>3, FS_Subset, IpConstants
<1>5. Cardinality(Client) \in Nat
  BY FS_CardinalityType, IpConstants
<1> QED
  BY <1>2, <1>4, <1>5, FewOnline, IpConstants DEF RoomForAll, Counted

\* A client comes to i.
LEMMA ClientComes ==
    ASSUME IpTypeOK, Counted, CloneCap,
           NEW c \in Client, NEW i \in Ip, state[c] = "free",
           OneMore(reg, reg', i),
           NEW x \in IpState \ {"free", "user"},
           state' = [state EXCEPT ![c] = x], ip' = [ip EXCEPT ![c] = i]
    PROVE  Counted' /\ CloneCap'
<1>1. Online(i)' = Online(i) \cup {c} /\ c \notin Online(i)
  BY DEF Online, IpTypeOK
<1>2. \A j \in Ip \ {i} : Online(j)' = Online(j)
  BY DEF Online, IpTypeOK
<1>3. \A j \in Ip : Users(j)' = Users(j)
  BY DEF Users, Online, IpTypeOK
<1>4. Cardinality(Online(i)') = Cardinality(Online(i)) + 1
  BY <1>1, FewOnline, FS_AddElement
<1>5. Counted'
  BY <1>2, <1>4 DEF Counted, OneMore
<1> QED
  BY <1>3, <1>5 DEF CloneCap, Users

\* A client leaves its address.
LEMMA ClientGoes ==
    ASSUME IpTypeOK, Counted, CloneCap,
           NEW c \in Client, state[c] # "free", NEW R,
           \A j \in Ip : Count(R, j) = Count(reg, j),
           OneLess(R, reg', ip[c]),
           state' = [state EXCEPT ![c] = "free"], ip' = ip
    PROVE  Counted' /\ CloneCap'
<1>0. ip[c] \in Ip
  BY DEF IpTypeOK
<1>1. Online(ip[c])' = Online(ip[c]) \ {c} /\ c \in Online(ip[c])
  BY DEF Online, IpTypeOK
<1>2. \A j \in Ip \ {ip[c]} : Online(j)' = Online(j)
  BY DEF Online, IpTypeOK
<1>3. \A j \in Ip : Users(j)' \in SUBSET Users(j)
  BY DEF Users, Online, IpTypeOK
<1>4. Cardinality(Online(ip[c])') = Cardinality(Online(ip[c])) - 1
  BY <1>0, <1>1, FewOnline, FS_RemoveElement
<1>5. Counted'
  BY <1>0, <1>2, <1>4 DEF Counted, OneLess
<1>6. \A j \in Ip : /\ Cardinality(Users(j)') \in Nat
                    /\ Cardinality(Users(j)') <= Cardinality(Users(j))
  BY <1>3, FewOnline, FS_Subset, FS_CardinalityType
<1>7. /\ \A j \in Ip : Cardinality(Users(j)) <= MaxClones
      /\ CloneCap' <=> \A j \in Ip : Cardinality(Users(j)') <= MaxClones
  BY DEF CloneCap, Users
<1> QED
  BY <1>5, <1>6, <1>7, FewOnline, IpConstants

\* Nobody comes or goes: the counts and the clients stay.
LEMMA NobodyMoves ==
    ASSUME IpTypeOK, Counted, CloneCap,
           \A j \in Ip : Count(reg', j) = Count(reg, j),
           \A j \in Ip : Online(j)' = Online(j) /\ Users(j)' = Users(j)
    PROVE  Counted' /\ CloneCap'
<1>1. /\ \A j \in Ip : Cardinality(Users(j)) <= MaxClones
      /\ CloneCap' <=> \A j \in Ip : Cardinality(Users(j)') <= MaxClones
  BY DEF CloneCap, Users
<1>2. Counted'
  BY DEF Counted
<1> QED
  BY <1>1, <1>2

\* WEBIRC and PROXY: a client that has not registered changes its address.
LEMMA ClientMoves ==
    ASSUME IpTypeOK, Counted, CloneCap, RoomForAll,
           NEW c \in Client, NEW i \in Ip, state[c] = "unknown",
           reg' = Moved(reg, c, i), ip' = [ip EXCEPT ![c] = i],
           state' = state
    PROVE  reg' \in RegType /\ Counted' /\ CloneCap'
<1> DEFINE a == ip[c]
           R1 == ConnectFail(reg, a)
           R2 == Disconnect(R1, a)
<1>1. a \in Ip /\ now \in Nat /\ reg \in RegType
  BY IpConstants DEF IpTypeOK, RegType
<1>2. c \in Online(a) /\ \A j \in Ip \ {a} : c \notin Online(j)
  BY DEF Online
<1>3. Count(reg, a) > 0
  BY <1>1, <1>2, FewOnline, FS_EmptySet, EntryFacts DEF Counted
<1>4. reg[a] # NoEntry
  BY <1>3 DEF Count
<1>5. R1 \in RegType /\ \A j \in Ip : Count(R1, j) = Count(reg, j)
  BY <1>1, <1>4, ConnectFailCounts
<1> HIDE DEF R1
<1>6. OneLess(R1, R2, a)
  BY <1>1, <1>3, <1>5, DisconnectCounts
<1> HIDE DEF R2
<1>7. \A j \in Ip : Count(R2, j) = Cardinality(Online(j) \ {c})
  <2> TAKE j \in Ip
  <2>1. Cardinality(Online(j) \ {c}) =
          IF j = a THEN Cardinality(Online(j)) - 1 ELSE Cardinality(Online(j))
    BY <1>2, FewOnline, FS_RemoveElement
  <2> QED
    BY <1>1, <1>5, <1>6, <2>1 DEF OneLess, Counted
<1>8. Count(R2, i) + 1 < ConnMod
  <2>1. Online(i) \ {c} \in SUBSET (Client \ {c})
    BY DEF Online
  <2>2. /\ IsFiniteSet(Client \ {c})
        /\ Cardinality(Client \ {c}) = Cardinality(Client) - 1
    BY FS_RemoveElement, IpConstants
  <2>3. Cardinality(Online(i) \ {c}) <= Cardinality(Client \ {c})
    BY <2>1, <2>2, FS_Subset
  <2>4. Cardinality(Client) \in Nat /\ Cardinality(Online(i) \ {c}) \in Nat
    BY <2>1, <2>2, FS_Subset, FS_CardinalityType, IpConstants
  <2> QED
    BY <1>7, <2>2, <2>3, <2>4, IpConstants DEF RoomForAll
<1>9. OneMore(R2, reg', i)
  BY <1>1, <1>6, <1>8, LocalConnectCounts DEF Moved, R1, R2, OneLess
<1>10. \A j \in Ip : Online(j)' = IF j = i THEN (Online(j) \ {c}) \cup {c}
                                  ELSE Online(j) \ {c}
  BY DEF Online, IpTypeOK
<1>11. Cardinality((Online(i) \ {c}) \cup {c}) = Cardinality(Online(i) \ {c}) + 1
  BY FewOnline, FS_RemoveElement, FS_AddElement
<1>12. Counted'
  BY <1>7, <1>9, <1>10, <1>11 DEF OneMore, Counted
<1>13. \A j \in Ip : Users(j)' = Users(j)
  BY DEF Users, Online, IpTypeOK
<1>14. /\ \A j \in Ip : Cardinality(Users(j)) <= MaxClones
       /\ CloneCap' <=> \A j \in Ip : Cardinality(Users(j)') <= MaxClones
  BY DEF CloneCap, Users
<1> QED
  BY <1>9, <1>12, <1>13, <1>14 DEF OneMore

-----------------------------------------------------------------------------
(* The callers.                                                            *)

\* ClonesCounted with ConnectedCount in the form the lemmas use.
IpInv == IpTypeOK /\ Counted /\ CloneCap

(* The inductive invariant is the property itself, read through Count.     *)
LEMMA IpInvIff == IpInv <=> ClonesCounted
BY CountedIff DEF IpInv, ClonesCounted

(* At the start nobody is connected and nothing is counted.                *)
LEMMA IpInitInv == IpInit => IpInv
<1> SUFFICES ASSUME IpInit PROVE IpInv
  OBVIOUS
<1>1. \A i \in Ip : Online(i) = {} /\ Users(i) = {}
  BY DEF IpInit, Online, Users
<1>2. IpTypeOK
  BY IpConstants DEF IpInit, IpTypeOK, IpState
<1>3. Counted
  BY <1>1, FS_EmptySet DEF IpInit, Counted, Count
<1>4. CloneCap
  BY <1>1, FS_EmptySet, IpConstants DEF CloneCap, Users
<1> QED
  BY <1>2, <1>3, <1>4 DEF IpInv

\* exit_one_client, of a registry that counts as the current one does.
LEMMA ExitInv ==
    ASSUME IpInv, NEW c \in Client, state[c] # "free", NEW R \in RegType,
           \A j \in Ip : Count(R, j) = Count(reg, j), Exit(R, c)
    PROVE  IpInv'
<1>1. ip[c] \in Ip /\ now \in Nat /\ c \in Online(ip[c])
  BY IpConstants DEF IpInv, IpTypeOK, Online
<1>2. Count(reg, ip[c]) > 0
  BY <1>1, FewOnline, FS_EmptySet DEF IpInv, Counted
<1>3. OneLess(R, reg', ip[c])
  BY <1>1, <1>2, DisconnectCounts DEF Exit
<1>4. Counted' /\ CloneCap'
  BY <1>3, ClientGoes DEF IpInv, Exit
<1>5. IpTypeOK'
  BY <1>3 DEF IpInv, IpTypeOK, Exit, OneLess, RegType, IpState
<1> QED
  BY <1>4, <1>5 DEF IpInv

\* The entry of a client that is here exists.
LEMMA EntryThere ==
    ASSUME IpInv, NEW c \in Client, state[c] # "free"
    PROVE  ip[c] \in Ip /\ reg[ip[c]] # NoEntry /\ reg \in RegType
<1>1. ip[c] \in Ip /\ c \in Online(ip[c])
  BY DEF IpInv, IpTypeOK, Online
<1>2. Count(reg, ip[c]) > 0
  BY <1>1, FewOnline, FS_EmptySet DEF IpInv, Counted
<1> QED
  BY <1>1, <1>2 DEF IpInv, IpTypeOK, RegType, Count

\* A client that is let go as it comes, or comes.
LEMMA ArrivalInv ==
    ASSUME IpInv, NEW c \in Client, NEW i \in Ip, state[c] = "free",
           NEW Q, OneMore(reg, Q, i), NEW x \in {"unknown", "remote"},
           ip' = [ip EXCEPT ![c] = i], now' = now,
           tries[i] < MaxIpTries, tries' = [tries EXCEPT ![i] = @ + 1],
           \/ reg' = Disconnect(Q, i) /\ state' = state
           \/ reg' = Q /\ state' = [state EXCEPT ![c] = x]
    PROVE  IpInv'
<1>1. tries' \in [Ip -> 0..MaxIpTries] /\ ip' \in [Client -> Ip] /\ now \in Nat
  BY IpConstants DEF IpInv, IpTypeOK
<1>2. CASE reg' = Disconnect(Q, i) /\ state' = state
  <2>1. Q \in RegType /\ Count(Q, i) > 0
    BY EntryFacts DEF OneMore, IpInv, IpTypeOK, RegType
  <2>2. OneLess(Q, reg', i)
    BY <1>1, <1>2, <2>1, DisconnectCounts
  <2>3. \A j \in Ip : Count(reg', j) = Count(reg, j)
    BY <2>2, EntryFacts DEF OneLess, OneMore, IpInv, IpTypeOK, RegType
  <2>4. \A j \in Ip : Online(j)' = Online(j) /\ Users(j)' = Users(j)
    BY <1>2 DEF Online, Users, IpInv, IpTypeOK
  <2>5. Counted' /\ CloneCap'
    BY <2>3, <2>4, NobodyMoves DEF IpInv
  <2>6. IpTypeOK'
    BY <1>1, <1>2, <2>2 DEF IpInv, IpTypeOK, OneLess, RegType
  <2> QED
    BY <2>5, <2>6 DEF IpInv
<1>3. CASE reg' = Q /\ state' = [state EXCEPT ![c] = x]
  <2>1. x \in IpState \ {"free", "user"}
    BY DEF IpState
  <2>2. Counted' /\ CloneCap'
    BY <1>3, <2>1, ClientComes DEF IpInv
  <2>3. IpTypeOK'
    BY <1>1, <1>3, <2>1 DEF IpInv, IpTypeOK, OneMore, RegType
  <2> QED
    BY <2>2, <2>3 DEF IpInv
<1> QED
  BY <1>2, <1>3

\* No step of a client, a server or the clock upsets the count.
LEMMA IpNextInv ==
    ASSUME RoomForAll, OnlyTCP4, IpInv, [IpNext]_ipVars
    PROVE  IpInv'
<1> USE DEF IpInv
<1>0. reg \in RegType /\ now \in Nat
  BY IpConstants DEF IpTypeOK, RegType
<1>1. ASSUME NEW c \in Client, NEW i \in Ip, NEW b \in BOOLEAN, Accept(c, i, b)
      PROVE  IpInv'
  <2>1. OneMore(reg, LocalConnect(reg, i), i)
    BY <1>0, <1>1, RoomForOne, LocalConnectCounts DEF Accept
  <2> QED
    BY <1>1, <2>1, ArrivalInv DEF Accept
<1>2. ASSUME NEW c \in Client, NEW i \in Ip, NEW b \in BOOLEAN, RemoteJoin(c, i, b)
      PROVE  IpInv'
  <2>1. OneMore(reg, RemoteConnect(reg, i, b), i)
    BY <1>0, <1>2, RoomForOne, RemoteConnectCounts DEF RemoteJoin
  <2> QED
    BY <1>2, <2>1, ArrivalInv DEF RemoteJoin
<1>3. ASSUME NEW c \in Client, Register(c) PROVE IpInv'
  <2>1. ip[c] \in Ip /\ Nr(ip[c]) <= MaxClones /\ Nr(ip[c]) = Count(reg, ip[c])
    BY <1>0, <1>3, EntryFacts, IpConstants
       DEF Register, TooMany, IpTypeOK, Nr, Count
  <2>2. \A j \in Ip : Online(j)' = Online(j)
    BY <1>3 DEF Register, Online, IpTypeOK
  <2>3. \A j \in Ip : j # ip[c] => Users(j)' = Users(j)
    BY <1>3, <2>2 DEF Register, Users, Online, IpTypeOK
  <2>4. \A j \in Ip : Users(j)' \in SUBSET Online(j)
    BY <2>2 DEF Users
  <2>5. \A j \in Ip : /\ Cardinality(Users(j)') \in Nat
                      /\ Cardinality(Users(j)') <= Cardinality(Online(j))
    BY <2>4, FewOnline, FS_Subset, FS_CardinalityType
  <2>6. \A j \in Ip : j = ip[c] => Cardinality(Users(j)') <= MaxClones
    BY <2>1, <2>5, FewOnline, IpConstants DEF Counted
  <2>7. /\ \A j \in Ip : Cardinality(Users(j)) <= MaxClones
        /\ CloneCap' <=> \A j \in Ip : Cardinality(Users(j)') <= MaxClones
    BY DEF CloneCap, Users
  <2>8. CloneCap'
    BY <2>3, <2>6, <2>7
  <2>9. Counted' /\ IpTypeOK'
    BY <1>3, <2>2 DEF Counted, Register, IpTypeOK, IpState
  <2> QED
    BY <2>8, <2>9
<1>4. ASSUME NEW c \in Client, RefuseClone(c) PROVE IpInv'
  BY <1>4, EntryThere, ConnectFailCounts, ExitInv DEF RefuseClone
<1>5. ASSUME NEW c \in Client, FailRegister(c) PROVE IpInv'
  BY <1>5, EntryThere, ConnectFailCounts, ExitInv DEF FailRegister
<1>6. ASSUME NEW c \in Client, Quit(c) PROVE IpInv'
  BY <1>0, <1>6, ExitInv DEF Quit
<1>7. ASSUME NEW c \in Client, ServerLink(c) PROVE IpInv'
  <2>1. reg' \in RegType /\ \A j \in Ip : Count(reg', j) = Count(reg, j)
    BY <1>7, EntryThere, ConnectFailCounts DEF ServerLink
  <2>2. \A j \in Ip : Online(j)' = Online(j) /\ Users(j)' = Users(j)
    BY <1>7 DEF ServerLink, Online, Users, IpTypeOK
  <2>3. IpTypeOK'
    BY <1>7, <2>1 DEF ServerLink, IpTypeOK, IpState, RegType
  <2> QED
    BY <2>1, <2>2, <2>3, NobodyMoves
<1>8. ASSUME NEW c \in Client, NEW i \in Ip, Webirc(c, i) PROVE IpInv'
  <2>1. reg' \in RegType /\ Counted' /\ CloneCap'
    BY <1>8, ClientMoves DEF Webirc
  <2>2. tries' \in [Ip -> 0..MaxIpTries] /\ ip' \in [Client -> Ip]
    BY <1>8, IpConstants DEF Webirc, IpTypeOK
  <2>3. IpTypeOK'
    BY <1>8, <2>1, <2>2 DEF Webirc, IpTypeOK, RegType
  <2> QED
    BY <2>1, <2>3
<1>9. ASSUME NEW c \in Client, NEW i \in Ip, NEW proto \in ProxyProto,
             Proxy(c, i, proto)
      PROVE  IpInv'
  <2>0. proto = "TCP4"
    BY DEF OnlyTCP4
  <2>1. reg' \in RegType /\ Counted' /\ CloneCap'
    BY <1>9, <2>0, ClientMoves DEF Proxy
  <2>2. tries' \in [Ip -> 0..MaxIpTries] /\ ip' \in [Client -> Ip]
    BY <1>9, <2>0, IpConstants DEF Proxy, IpTypeOK
  <2>3. IpTypeOK'
    BY <1>9, <2>0, <2>1, <2>2 DEF Proxy, IpTypeOK, RegType
  <2> QED
    BY <2>1, <2>3
<1>10. CASE Tick
  <2>1. \A j \in Ip : Online(j)' = Online(j) /\ Users(j)' = Users(j)
    BY <1>10 DEF Tick, Online, Users
  <2>2. IpTypeOK'
    BY <1>10, IpConstants DEF Tick, IpTypeOK
  <2> QED
    BY <1>10, <2>1, <2>2, NobodyMoves DEF Tick
<1>11. CASE UNCHANGED ipVars
  <2>1. \A j \in Ip : Online(j)' = Online(j) /\ Users(j)' = Users(j)
    BY <1>11 DEF ipVars, Online, Users
  <2>2. IpTypeOK'
    BY <1>11 DEF ipVars, IpTypeOK
  <2> QED
    BY <1>11, <2>1, <2>2, NobodyMoves DEF ipVars
<1> QED
  BY <1>1, <1>2, <1>3, <1>4, <1>5, <1>6, <1>7, <1>8, <1>9, <1>10, <1>11 DEF IpNext

\* The registry counts who is connected within its bit fields, and no address
\* has more registered local users than its clones, whatever the order of
\* accepts, refusals, moves behind a gateway, expiry and quits (IPcheck.c and
\* its callers), as long as `connected' has room for all clients and no
\* gateway uses the branch of m_proxy that charges an address off twice.
THEOREM ClonesAreCounted ==
    ASSUME RoomForAll, OnlyTCP4
    PROVE  IpSpec => []ClonesCounted
<1>1. IpInit => IpInv
  BY IpInitInv
<1>2. IpInv /\ [IpNext]_ipVars => IpInv'
  BY IpNextInv
<1>3. IpInv => ClonesCounted
  BY IpInvIff
<1> QED
  BY <1>1, <1>2, <1>3, PTL DEF IpSpec

-----------------------------------------------------------------------------
(* The UDP pings.                                                          *)

PingState == [acpt : Askers \cup {NoOne}, fd : Fds \cup {0}, hopcount : Int, sendB : Int,
              receiveB : Int, sending : BOOLEAN, started : BOOLEAN]

State == [asking : SUBSET Askers, loc : [Fds -> Pings \cup {Other, NoOne}],
          pg : [Pings -> PingState], watched : [Pings -> Fds \cup {0}],
          armed : SUBSET Pings, queries : SUBSET Pings]

\* loc_clients, the descriptors of the pings and their read events agree.
Placed(s, h) ==
    /\ \A p \in Pings : s.pg[p].fd # 0 => s.loc[s.pg[p].fd] = p /\ s.pg[p].fd <= h
    /\ \A p \in Pings : s.watched[p] = s.pg[p].fd
    /\ \A f \in Fds : s.loc[f] \in Pings => s.pg[s.loc[f]].fd = f

\* The operators with FLAGS_ASKEDPING and the pings are one to one.
Owned(s) ==
    /\ \A p \in Pings : s.pg[p].fd # 0 => s.pg[p].acpt \in s.asking
    /\ \A u \in s.asking : \E p \in Pings : s.pg[p].fd # 0 /\ s.pg[p].acpt = u
    /\ \A p, q \in Pings : /\ s.pg[p].fd # 0 /\ s.pg[q].fd # 0
                           /\ s.pg[p].acpt = s.pg[q].acpt
                           => p = q

\* A ping waits for the resolver, and then it has sent nothing, or its timer
\* is armed; a freed one neither.
Waiting(s) ==
    \A p \in Pings :
        /\ s.pg[p].fd # 0 => (p \in s.queries <=> p \notin s.armed)
        /\ s.pg[p].fd = 0 => p \notin s.queries /\ p \notin s.armed
        /\ p \in s.queries => s.pg[p].sendB >= s.pg[p].hopcount

Good(s, h) == s \in State /\ Placed(s, h) /\ Owned(s) /\ Waiting(s)

UpingInv == /\ Good(Now, highest)
            /\ asking \subseteq around /\ around \subseteq Askers
            /\ highest \in 0..MaxFd

(* The descriptors are 1..MaxFd.                                           *)
LEMMA FdFacts == MaxFd \in Nat \ {0} /\ Fds = 1..MaxFd
<1> DEFINE N == Cardinality(Fds)
<1>1. N \in Nat /\ Fds = 1..N /\ Fds # {}
  BY UpingConstants, FS_CardinalityType
<1>2. N \in Fds /\ \A g \in Fds : g <= N
  <2> HIDE DEF N
  <2> QED BY <1>1
<1>3. MaxFd \in Fds /\ \A g \in Fds : g <= MaxFd
  <2> HIDE DEF N
  <2> QED BY <1>2 DEF MaxFd
<1> HIDE DEF N
<1>4. MaxFd = N
  BY <1>1, <1>2, <1>3
<1> QED
  BY <1>1, <1>2, <1>4

(* A freed structure.                                                      *)
LEMMA FreedType == /\ Freed0 \in PingState /\ Freed0.fd = 0 /\ 0 \notin Fds
                   /\ NoOne \notin Pings /\ Other \notin Pings
                   /\ NoOne \notin Askers
BY FdFacts, UpingConstants DEF Freed0, PingState

-----------------------------------------------------------------------------
(* The end of a ping.                                                      *)

\* s after ping p has gone with its query, its place and its owner's mark.
Gone(s, p) ==
    [asking |-> s.asking \ {s.pg[p].acpt},
     loc |-> [s.loc EXCEPT ![s.pg[p].fd] = NoOne],
     pg |-> [s.pg EXCEPT ![p] = Freed0],
     watched |-> [s.watched EXCEPT ![p] = 0],
     armed |-> s.armed \ {p}, queries |-> s.queries \ {p}]

(* Two states with the same parts are the same.                            *)
LEMMA SameState ==
    ASSUME NEW s \in State, NEW t \in State,
           s.asking = t.asking, s.loc = t.loc, s.pg = t.pg, s.watched = t.watched,
           s.armed = t.armed, s.queries = t.queries
    PROVE  s = t
BY DEF State

(* A freed structure makes a state.                                        *)
LEMMA GoneType ==
    ASSUME NEW s \in State, NEW p \in Pings
    PROVE  Gone(s, p) \in State
BY FreedType DEF State, Gone

(* What end_ping makes of the state, with and without the queries.         *)
LEMMA EndParts ==
    ASSUME NEW s \in State, NEW p \in Pings
    PROVE  LET e == end_ping(s, p) IN
           /\ e \in State
           /\ e.asking = s.asking \ {s.pg[p].acpt}
           /\ e.loc = [s.loc EXCEPT ![s.pg[p].fd] = NoOne]
           /\ e.pg = [s.pg EXCEPT ![p] = Freed0]
           /\ e.watched = [s.watched EXCEPT ![p] = 0]
           /\ e.armed = s.armed \ {p}
           /\ e.queries = s.queries
<1>1. end_ping(s, p) \in State
  BY FreedType DEF State, end_ping
<1> QED
  BY <1>1 DEF State, end_ping

(* The same, when the query goes along or there is none.                   *)
LEMMA EndIsGone ==
    ASSUME NEW s \in State, NEW p \in Pings
    PROVE  /\ p \notin s.queries => end_ping(s, p) = Gone(s, p)
           /\ [end_ping(s, p) EXCEPT !.queries = @ \ {p}] = Gone(s, p)
           /\ Dropped(s, p) = Gone(s, p)
           /\ end_ping([s EXCEPT !.queries = @ \ {p}], p) = Gone(s, p)
<1> DEFINE g == Gone(s, p)
           e == end_ping(s, p)
           d == [e EXCEPT !.queries = @ \ {p}]
           r == [s EXCEPT !.queries = @ \ {p}]
           f == end_ping(r, p)
<1>1. /\ g \in State
      /\ g.asking = s.asking \ {s.pg[p].acpt}
      /\ g.loc = [s.loc EXCEPT ![s.pg[p].fd] = NoOne]
      /\ g.pg = [s.pg EXCEPT ![p] = Freed0]
      /\ g.watched = [s.watched EXCEPT ![p] = 0]
      /\ g.armed = s.armed \ {p}
      /\ g.queries = s.queries \ {p}
  BY GoneType DEF Gone
<1>2. /\ e \in State
      /\ e.asking = s.asking \ {s.pg[p].acpt}
      /\ e.loc = [s.loc EXCEPT ![s.pg[p].fd] = NoOne]
      /\ e.pg = [s.pg EXCEPT ![p] = Freed0]
      /\ e.watched = [s.watched EXCEPT ![p] = 0]
      /\ e.armed = s.armed \ {p}
      /\ e.queries = s.queries
  BY EndParts
<1>3. /\ r \in State /\ r.asking = s.asking /\ r.loc = s.loc /\ r.pg = s.pg
      /\ r.watched = s.watched /\ r.armed = s.armed /\ r.queries = s.queries \ {p}
  BY DEF State
<1> HIDE DEF g, e, r
<1>4. /\ f \in State
      /\ f.asking = r.asking \ {r.pg[p].acpt}
      /\ f.loc = [r.loc EXCEPT ![r.pg[p].fd] = NoOne]
      /\ f.pg = [r.pg EXCEPT ![p] = Freed0]
      /\ f.watched = [r.watched EXCEPT ![p] = 0]
      /\ f.armed = r.armed \ {p}
      /\ f.queries = r.queries
  BY <1>3, EndParts
<1> HIDE DEF f
<1>5. f = g
  <2>1. /\ f.asking = g.asking /\ f.loc = g.loc /\ f.pg = g.pg
        /\ f.watched = g.watched /\ f.armed = g.armed /\ f.queries = g.queries
    BY <1>1, <1>3, <1>4
  <2> QED BY <1>1, <1>4, <2>1, SameState
<1>6. /\ d \in State /\ d.asking = e.asking /\ d.loc = e.loc /\ d.pg = e.pg
      /\ d.watched = e.watched /\ d.armed = e.armed /\ d.queries = s.queries \ {p}
  BY <1>2 DEF State
<1> HIDE DEF d
<1>7. d = g
  <2>1. /\ d.asking = g.asking /\ d.loc = g.loc /\ d.pg = g.pg
        /\ d.watched = g.watched /\ d.armed = g.armed /\ d.queries = g.queries
    BY <1>1, <1>2, <1>6
  <2> QED BY <1>1, <1>6, <2>1, SameState
<1>8. ASSUME p \notin s.queries PROVE e = g
  <2>1. s.queries \ {p} = s.queries
    BY <1>8
  <2>2. /\ e.asking = g.asking /\ e.loc = g.loc /\ e.pg = g.pg
        /\ e.watched = g.watched /\ e.armed = g.armed /\ e.queries = g.queries
    BY <1>1, <1>2, <2>1
  <2> QED BY <1>1, <1>2, <2>2, SameState
<1> QED
  BY <1>5, <1>7, <1>8 DEF d, e, f, g, r, Dropped

(* The others keep theirs.                                                 *)
LEMMA GoneGood ==
    ASSUME NEW h \in Nat, NEW s, Good(s, h), NEW p \in Pings, s.pg[p].fd # 0
    PROVE  Good(Gone(s, p), h)
<1> DEFINE t == Gone(s, p)
           f == s.pg[p].fd
<1>1. s \in State /\ Placed(s, h) /\ Owned(s) /\ Waiting(s)
  BY DEF Good
<1>2. s.pg[p] \in PingState /\ f \in Fds /\ s.loc[f] = p
  BY <1>1 DEF State, PingState, Placed
<1>3. t \in State
  BY <1>1, <1>2, FreedType DEF State, Gone
<1>4. /\ t.asking = s.asking \ {s.pg[p].acpt}
      /\ t.loc[f] = NoOne /\ \A g \in Fds : g # f => t.loc[g] = s.loc[g]
      /\ t.pg[p] = Freed0 /\ \A q \in Pings : q # p => t.pg[q] = s.pg[q]
      /\ t.watched[p] = 0 /\ \A q \in Pings : q # p => t.watched[q] = s.watched[q]
      /\ t.armed = s.armed \ {p} /\ t.queries = s.queries \ {p}
  BY <1>1, <1>2 DEF Gone, State
<1> HIDE DEF t
<1>5. Placed(t, h)
  <2>1. \A q \in Pings : s.pg[q].fd # 0 => s.pg[q].fd \in Fds
    BY <1>1 DEF State, PingState
  <2>2. \A q \in Pings : q # p /\ s.pg[q].fd # 0 => s.pg[q].fd # f
    BY <1>1, <1>2 DEF Placed
  <2>3. \A q \in Pings : t.pg[q].fd # 0 => t.loc[t.pg[q].fd] = q /\ t.pg[q].fd <= h
    BY <1>1, <1>4, <2>1, <2>2, FreedType DEF Placed
  <2>4. \A q \in Pings : t.watched[q] = t.pg[q].fd
    BY <1>1, <1>4, FreedType DEF Placed
  <2>5. \A g \in Fds : t.loc[g] \in Pings => t.pg[t.loc[g]].fd = g
    BY <1>1, <1>2, <1>4, FreedType DEF Placed
  <2> QED BY <2>3, <2>4, <2>5 DEF Placed
<1>6. Owned(t)
  BY <1>1, <1>2, <1>4, FreedType DEF Owned
<1>7. Waiting(t)
  BY <1>1, <1>4, FreedType DEF Waiting
<1> QED
  BY <1>3, <1>5, <1>6, <1>7 DEF Good, t

(* cancel_ping finds the one ping of an operator who is asking.            *)
LEMMA CancelIsGone ==
    ASSUME Good(Now, highest), highest \in Nat, NEW u \in asking
    PROVE  \E p \in Pings : /\ pg[p].fd # 0 /\ pg[p].acpt = u
                            /\ cancel_ping(Now, u) = Gone(Now, p)
<1> DEFINE s == Now
<1>1. s \in State /\ Placed(s, highest) /\ Owned(s)
  BY DEF Good
<1>2. s.pg = pg /\ s.asking = asking /\ s.loc = loc /\ s.queries = queries
  BY DEF Now
<1> HIDE DEF s
<1>3. PICK p \in Pings : s.pg[p].fd # 0 /\ s.pg[p].acpt = u
  BY <1>1, <1>2 DEF Owned
<1>4. s.pg[p] \in PingState /\ s.pg[p].fd \in 1..highest /\ s.loc[s.pg[p].fd] = p
  BY <1>1, <1>3, FdFacts DEF Placed, State, PingState
<1>5. OfAsker(s, u) = {p}
  <2>1. p \in OfAsker(s, u)
    BY <1>3, <1>4 DEF OfAsker
  <2>2. ASSUME NEW q \in OfAsker(s, u) PROVE q = p
    <3>1. q \in Pings /\ s.pg[q].fd \in 1..highest /\ s.pg[q].acpt = u
      BY DEF OfAsker
    <3>2. s.pg[q].fd # 0
      BY <3>1
    <3> QED BY <1>1, <1>3, <3>1, <3>2 DEF Owned
  <2> QED BY <2>1, <2>2
<1>6. (CHOOSE q \in {p} : \A r \in {p} : s.pg[r].fd <= s.pg[q].fd) = p
  <2>1. s.pg[p].fd <= s.pg[p].fd
    BY <1>4
  <2> QED BY <2>1
<1>7. cancel_ping(s, u) = [Dropped([s EXCEPT !.pg[p].acpt = NoOne], p) EXCEPT !.asking = @ \ {u}]
  BY <1>5, <1>6 DEF cancel_ping
<1>8. [Dropped([s EXCEPT !.pg[p].acpt = NoOne], p) EXCEPT !.asking = @ \ {u}] = Gone(s, p)
  <2> DEFINE r == [s EXCEPT !.pg[p].acpt = NoOne]
  <2>1. /\ r.asking = s.asking /\ r.loc = s.loc /\ r.watched = s.watched
        /\ r.armed = s.armed /\ r.queries = s.queries
        /\ r.pg = [s.pg EXCEPT ![p] = [s.pg[p] EXCEPT !.acpt = NoOne]]
    BY <1>1, <1>4 DEF State
  <2>2. r.pg[p].acpt = NoOne /\ r.pg[p].fd = s.pg[p].fd
        /\ [r.pg EXCEPT ![p] = Freed0] = [s.pg EXCEPT ![p] = Freed0]
    BY <1>1, <1>4, <2>1 DEF State, PingState
  <2>3. r \in State
    BY <1>1, <1>4, <2>1 DEF State, PingState
  <2> HIDE DEF r
  <2>4. Dropped(r, p) = Gone(r, p)
    BY <2>3, EndIsGone
  <2>5. NoOne \notin s.asking
    BY <1>1, FreedType DEF State
  <2>6. [Gone(r, p) EXCEPT !.asking = @ \ {u}] = Gone(s, p)
    <3> DEFINE g == Gone(r, p)
               d == [g EXCEPT !.asking = @ \ {u}]
               e == Gone(s, p)
    <3>1. g \in State /\ e \in State
      BY <1>1, <2>3, GoneType
    <3>2. /\ g.asking = r.asking \ {r.pg[p].acpt} /\ e.asking = s.asking \ {s.pg[p].acpt}
          /\ g.loc = e.loc /\ g.pg = e.pg
          /\ g.watched = e.watched /\ g.armed = e.armed /\ g.queries = e.queries
      BY <2>1, <2>2 DEF Gone
    <3> HIDE DEF g, e
    <3>3. /\ d \in State /\ d.asking = g.asking \ {u} /\ d.loc = g.loc /\ d.pg = g.pg
          /\ d.watched = g.watched /\ d.armed = g.armed /\ d.queries = g.queries
      BY <3>1 DEF State
    <3>4. d.asking = e.asking
      BY <1>3, <2>1, <2>2, <2>5, <3>2, <3>3
    <3> HIDE DEF d
    <3>5. d = e
      BY <3>1, <3>2, <3>3, <3>4, SameState
    <3> QED BY <3>5 DEF d, e, g
  <2> QED BY <2>4, <2>6 DEF r
<1> QED
  BY <1>2, <1>3, <1>7, <1>8 DEF s

-----------------------------------------------------------------------------
(* A ping that goes on, and a new one.                                     *)

\* s with the structure of p replaced, and the sets of armed timers and of
\* queries too.
Changed(s, p, r, A, Q) ==
    [asking |-> s.asking, loc |-> s.loc, pg |-> [s.pg EXCEPT ![p] = r],
     watched |-> s.watched, armed |-> A, queries |-> Q]

(* A step of a ping: it keeps owner and place, and still waits for one of  *)
(* the two.                                                                *)
LEMMA ChangedGood ==
    ASSUME NEW h \in Nat, NEW s, Good(s, h), NEW p \in Pings, s.pg[p].fd # 0,
           NEW r \in PingState, r.fd = s.pg[p].fd, r.acpt = s.pg[p].acpt,
           NEW A \in SUBSET Pings, NEW Q \in SUBSET Pings,
           \A q \in Pings : q # p => (q \in A <=> q \in s.armed) /\ (q \in Q <=> q \in s.queries),
           p \in Q <=> p \notin A,
           p \in Q => r.sendB >= r.hopcount
    PROVE  Good(Changed(s, p, r, A, Q), h)
<1> DEFINE t == Changed(s, p, r, A, Q)
<1>1. s \in State /\ Placed(s, h) /\ Owned(s) /\ Waiting(s)
  BY DEF Good
<1>2. t \in State
  BY <1>1 DEF Changed, State
<1>3. /\ t.asking = s.asking /\ t.loc = s.loc /\ t.watched = s.watched
      /\ t.armed = A /\ t.queries = Q
      /\ t.pg[p] = r /\ \A q \in Pings : q # p => t.pg[q] = s.pg[q]
  BY <1>1 DEF Changed, State
<1> HIDE DEF t
<1>4. \A q \in Pings : t.pg[q].fd = s.pg[q].fd /\ t.pg[q].acpt = s.pg[q].acpt
  BY <1>3
<1>5. Placed(t, h) /\ Owned(t)
  BY <1>1, <1>3, <1>4 DEF Placed, Owned
<1>6. Waiting(t)
  BY <1>1, <1>3, <1>4 DEF Waiting
<1> QED
  BY <1>2, <1>5, <1>6 DEF Good, t

\* s with the new ping p of u in the free descriptor f.
Opened(s, u, p, f, n, known) ==
    [asking |-> s.asking \cup {u}, loc |-> [s.loc EXCEPT ![f] = p],
     pg |-> [s.pg EXCEPT ![p] = [acpt |-> u, fd |-> f, hopcount |-> n, sendB |-> n,
                                 receiveB |-> n, sending |-> known, started |-> known]],
     watched |-> [s.watched EXCEPT ![p] = f],
     armed |-> IF known THEN s.armed \cup {p} ELSE s.armed,
     queries |-> IF known THEN s.queries ELSE s.queries \cup {p}]

(* A new ping of an operator who has none, in a free place.                *)
LEMMA OpenedGood ==
    ASSUME NEW h \in Nat, NEW s, Good(s, h), NEW u \in Askers, u \notin s.asking,
           NEW p \in Pings, s.pg[p].fd = 0, NEW f \in Fds, s.loc[f] = NoOne,
           NEW n \in Int, NEW known \in BOOLEAN, NEW k \in Nat, h <= k, f <= k
    PROVE  Good(Opened(s, u, p, f, n, known), k)
<1> DEFINE t == Opened(s, u, p, f, n, known)
           r == [acpt |-> u, fd |-> f, hopcount |-> n, sendB |-> n,
                 receiveB |-> n, sending |-> known, started |-> known]
<1>1. s \in State /\ Placed(s, h) /\ Owned(s) /\ Waiting(s)
  BY DEF Good
<1>2. r \in PingState /\ r.fd = f /\ r.acpt = u /\ r.sendB = r.hopcount /\ r.hopcount = n
  BY DEF PingState
<1>3. t = [asking |-> s.asking \cup {u}, loc |-> [s.loc EXCEPT ![f] = p],
           pg |-> [s.pg EXCEPT ![p] = r], watched |-> [s.watched EXCEPT ![p] = f],
           armed |-> IF known THEN s.armed \cup {p} ELSE s.armed,
           queries |-> IF known THEN s.queries ELSE s.queries \cup {p}]
  BY DEF Opened
<1> HIDE DEF t, r
<1>4. t \in State
  BY <1>1, <1>2, <1>3 DEF State
<1>5. /\ t.asking = s.asking \cup {u}
      /\ t.loc[f] = p /\ \A g \in Fds : g # f => t.loc[g] = s.loc[g]
      /\ t.pg[p] = r /\ \A q \in Pings : q # p => t.pg[q] = s.pg[q]
      /\ t.watched[p] = f /\ \A q \in Pings : q # p => t.watched[q] = s.watched[q]
  BY <1>1, <1>3 DEF State
<1>6. /\ \A q \in Pings : q # p => (q \in t.armed <=> q \in s.armed) /\ (q \in t.queries <=> q \in s.queries)
      /\ p \in t.queries <=> p \notin t.armed
  <2>1. p \notin s.armed /\ p \notin s.queries
    BY <1>1 DEF Waiting
  <2>2. CASE known
    BY <1>3, <2>1, <2>2
  <2>3. CASE ~known
    BY <1>3, <2>1, <2>3
  <2> QED BY <2>2, <2>3
<1>7. \A q \in Pings : s.pg[q].fd # 0 => q # p /\ s.pg[q].fd \in Fds /\ s.pg[q].fd # f /\ s.pg[q].fd <= k
  <2> TAKE q \in Pings
  <2> HAVE s.pg[q].fd # 0
  <2>1. s.pg[q].fd \in Fds /\ s.loc[s.pg[q].fd] = q /\ s.pg[q].fd <= h
    BY <1>1 DEF State, PingState, Placed
  <2> QED BY <2>1, FreedType, FdFacts
<1>8. f # 0
  BY FreedType
<1>9. Placed(t, k)
  <2>1. \A q \in Pings : t.pg[q].fd # 0 => t.loc[t.pg[q].fd] = q /\ t.pg[q].fd <= k
    BY <1>1, <1>2, <1>5, <1>7 DEF Placed
  <2>2. \A q \in Pings : t.watched[q] = t.pg[q].fd
    BY <1>1, <1>2, <1>5 DEF Placed
  <2>3. \A g \in Fds : t.loc[g] \in Pings => t.pg[t.loc[g]].fd = g
    <3> TAKE g \in Fds
    <3> HAVE t.loc[g] \in Pings
    <3>1. CASE g = f
      BY <1>2, <1>5, <3>1
    <3>2. CASE g # f
      <4>1. s.pg[s.loc[g]].fd = g /\ g # 0 /\ t.loc[g] = s.loc[g]
        BY <1>1, <1>5, <3>2, FreedType DEF Placed
      <4> QED BY <1>5, <4>1
    <3> QED BY <3>1, <3>2
  <2> QED BY <2>1, <2>2, <2>3 DEF Placed
<1>10. Owned(t)
  <2>1. \A q \in Pings : t.pg[q].fd # 0 => t.pg[q].acpt \in t.asking
    BY <1>1, <1>2, <1>5 DEF Owned
  <2>2. \A v \in t.asking : \E q \in Pings : t.pg[q].fd # 0 /\ t.pg[q].acpt = v
    BY <1>1, <1>2, <1>5, <1>7, <1>8 DEF Owned
  <2>3. \A q \in Pings : q # p /\ t.pg[q].fd # 0 => t.pg[q].acpt # u
    BY <1>1, <1>5 DEF Owned
  <2>4. \A q, q2 \in Pings : /\ t.pg[q].fd # 0 /\ t.pg[q2].fd # 0
                             /\ t.pg[q].acpt = t.pg[q2].acpt
                             => q = q2
    BY <1>1, <1>2, <1>5, <2>3 DEF Owned
  <2> QED BY <2>1, <2>2, <2>4 DEF Owned
<1>11. Waiting(t)
  <2>1. n >= n
    OBVIOUS
  <2> QED BY <1>1, <1>2, <1>5, <1>6, <1>8, <2>1 DEF Waiting
<1> QED
  BY <1>4, <1>9, <1>10, <1>11 DEF Good, t

-----------------------------------------------------------------------------
(* The handlers.                                                           *)

(* What has to be shown of the state that a handler has put together.      *)
LEMMA Step ==
    ASSUME NEW s, NEW k, Good(s, k), Becomes(s), highest' = k, k \in 0..MaxFd,
           s.asking \subseteq around', around' \subseteq Askers
    PROVE  UpingInv'
<1>1. /\ asking' = s.asking /\ loc' = s.loc /\ pg' = s.pg
      /\ watched' = s.watched /\ armed' = s.armed /\ queries' = s.queries
  BY DEF Becomes
<1>2. Now' = s
  <2>1. Now' = [asking |-> s.asking, loc |-> s.loc, pg |-> s.pg, watched |-> s.watched,
                armed |-> s.armed, queries |-> s.queries]
    BY <1>1 DEF Now
  <2>2. s \in State
    BY DEF Good
  <2> QED BY <2>1, <2>2 DEF State
<1> QED
  BY <1>1, <1>2 DEF UpingInv

(* Before a handler.                                                       *)
LEMMA Before ==
    ASSUME UpingInv
    PROVE  /\ Now \in State /\ Good(Now, highest) /\ highest \in Nat
           /\ Now.asking = asking /\ Now.loc = loc /\ Now.pg = pg
           /\ Now.watched = watched /\ Now.armed = armed /\ Now.queries = queries
           /\ asking \subseteq around /\ around \subseteq Askers
BY FdFacts DEF UpingInv, Now, Good

(* A ping that something waits for has not been freed.                     *)
LEMMA InUse ==
    ASSUME UpingInv, NEW p \in Pings
    PROVE  /\ pg[p] \in PingState
           /\ p \in armed => pg[p].fd # 0 /\ p \notin queries
           /\ p \in queries => pg[p].fd # 0 /\ p \notin armed
           /\ p \in queries => pg[p].sendB >= pg[p].hopcount
           /\ pg[p].fd # 0 => p \in armed \/ p \in queries
<1>1. Now \in State /\ Waiting(Now) /\ Now.pg = pg /\ Now.armed = armed /\ Now.queries = queries
  BY Before DEF Good
<1> QED
  BY <1>1 DEF Waiting, State

(* end_ping after the structure and the timer have been changed.           *)
LEMMA EndChanged ==
    ASSUME NEW s \in State, NEW t \in State, NEW p \in Pings, p \notin s.queries,
           t.asking = s.asking, t.loc = s.loc, t.watched = s.watched, t.queries = s.queries,
           t.armed \ {p} = s.armed \ {p},
           \A q \in Pings : q # p => t.pg[q] = s.pg[q],
           t.pg[p].fd = s.pg[p].fd, t.pg[p].acpt = s.pg[p].acpt
    PROVE  end_ping(t, p) = Gone(s, p)
<1> DEFINE g == Gone(s, p)
           e == Gone(t, p)
<1>1. end_ping(t, p) = e
  BY EndIsGone
<1>2. g \in State /\ e \in State
  BY GoneType
<1>3. [t.pg EXCEPT ![p] = Freed0] = [s.pg EXCEPT ![p] = Freed0]
  BY DEF State
<1>4. /\ g.asking = e.asking /\ g.loc = e.loc /\ g.pg = e.pg
      /\ g.watched = e.watched /\ g.armed = e.armed /\ g.queries = e.queries
  BY <1>3 DEF Gone
<1> HIDE DEF e, g
<1>5. e = g
  BY <1>2, <1>4, SameState
<1> QED
  BY <1>1, <1>5 DEF g

(* A handler that ends the ping p.                                         *)
LEMMA StepGone ==
    ASSUME UpingInv, NEW p \in Pings, pg[p].fd # 0, Becomes(Gone(Now, p)),
           highest' = highest, around' = around
    PROVE  UpingInv'
<1>1. Good(Gone(Now, p), highest)
  BY Before, GoneGood
<1>2. Gone(Now, p).asking \subseteq asking
  BY Before DEF Gone
<1>3. highest \in 0..MaxFd
  BY DEF UpingInv
<1> QED
  BY <1>1, <1>2, <1>3, Before, Step

(* A handler that changes the ping p.                                      *)
LEMMA StepChanged ==
    ASSUME UpingInv, NEW p \in Pings, pg[p].fd # 0, NEW s \in State, Becomes(s),
           s.asking = asking, s.loc = loc, s.watched = watched,
           \A q \in Pings : q # p => s.pg[q] = pg[q],
           s.pg[p].fd = pg[p].fd, s.pg[p].acpt = pg[p].acpt,
           \A q \in Pings : q # p => (q \in s.armed <=> q \in armed) /\ (q \in s.queries <=> q \in queries),
           p \in s.queries <=> p \notin s.armed,
           p \in s.queries => s.pg[p].sendB >= s.pg[p].hopcount,
           highest' = highest, around' = around
    PROVE  UpingInv'
<1> DEFINE r == s.pg[p]
           t == Changed(Now, p, r, s.armed, s.queries)
<1>1. r \in PingState /\ s.armed \in SUBSET Pings /\ s.queries \in SUBSET Pings
  BY DEF State
<1>2. /\ Now \in State /\ Good(Now, highest) /\ highest \in Nat
      /\ Now.asking = asking /\ Now.loc = loc /\ Now.pg = pg
      /\ Now.watched = watched /\ Now.armed = armed /\ Now.queries = queries
  BY Before
<1>3. Good(t, highest)
  <2> HIDE DEF r
  <2> QED BY <1>1, <1>2, ChangedGood DEF r
<1>4. s.pg = [pg EXCEPT ![p] = r]
  BY <1>2 DEF State
<1>5. /\ t.asking = s.asking /\ t.loc = s.loc /\ t.pg = s.pg
      /\ t.watched = s.watched /\ t.armed = s.armed /\ t.queries = s.queries
  BY <1>2, <1>4 DEF Changed
<1>6. t = s
  <2>1. t \in State
    BY <1>3 DEF Good
  <2> HIDE DEF t
  <2> QED BY <1>5, <2>1, SameState
<1>7. highest \in 0..MaxFd /\ s.asking \subseteq around /\ around \subseteq Askers
  BY Before DEF UpingInv
<1> HIDE DEF t
<1> QED
  BY <1>3, <1>6, <1>7, Step

(* send_ping changes no field but these.                                   *)
LEMMA SentFields ==
    ASSUME NEW q \in PingState, NEW k \in Int, NEW b \in BOOLEAN
    PROVE  LET r == [q EXCEPT !.sendB = k, !.sending = b] IN
           r \in PingState /\ r.fd = q.fd /\ r.acpt = q.acpt
BY DEF PingState

(* send_ping: the last packet and the last answer, or an error, end it.    *)
LEMMA SendStep ==
    ASSUME UpingInv, NEW p \in Pings, NEW ok \in BOOLEAN, send_ping(p, ok)
    PROVE  UpingInv'
<1> DEFINE left == pg[p].sendB - 1
           s == [Now EXCEPT !.armed = @ \ {p}]
           sent == [s EXCEPT !.pg[p].sendB = left, !.pg[p].sending = @ /\ left > 0]
           more == [sent EXCEPT !.armed = @ \cup {p}]
<1>1. /\ p \in armed /\ pg[p].fd # 0 /\ p \notin queries /\ pg[p] \in PingState
      /\ highest' = highest /\ around' = around
  BY InUse DEF send_ping
<1>2. \/ ok /\ Becomes(end_ping(sent, p))
      \/ ~ok /\ Becomes(end_ping(s, p))
      \/ Becomes(more)
  BY DEF send_ping
<1>3. /\ Now \in State /\ Now.asking = asking /\ Now.loc = loc /\ Now.pg = pg
      /\ Now.watched = watched /\ Now.armed = armed /\ Now.queries = queries
  BY Before
<1>4. /\ s \in State /\ s.asking = asking /\ s.loc = loc /\ s.pg = pg
      /\ s.watched = watched /\ s.armed = armed \ {p} /\ s.queries = queries
  BY <1>3 DEF State
<1> HIDE DEF s
<1>5. /\ sent \in State /\ sent.asking = asking /\ sent.loc = loc
      /\ sent.watched = watched /\ sent.armed = armed \ {p} /\ sent.queries = queries
      /\ \A q \in Pings : q # p => sent.pg[q] = pg[q]
      /\ sent.pg[p].fd = pg[p].fd /\ sent.pg[p].acpt = pg[p].acpt
  <2> DEFINE r == [pg[p] EXCEPT !.sendB = left, !.sending = @ /\ left > 0]
  <2>1. r \in PingState /\ r.fd = pg[p].fd /\ r.acpt = pg[p].acpt
    <3> DEFINE b == pg[p].sending /\ left > 0
    <3>1. left \in Int /\ b \in BOOLEAN
      BY <1>1 DEF PingState
    <3>2. r = [pg[p] EXCEPT !.sendB = left, !.sending = b]
      OBVIOUS
    <3> HIDE DEF b, left, r
    <3> QED BY <1>1, <3>1, <3>2, SentFields
  <2>2. sent = [s EXCEPT !.pg = [pg EXCEPT ![p] = r]]
    BY <1>1, <1>4 DEF State, PingState
  <2> HIDE DEF r, sent
  <2> QED BY <1>4, <2>1, <2>2 DEF State
<1> HIDE DEF sent, left
<1>6. end_ping(sent, p) = Gone(Now, p) /\ end_ping(s, p) = Gone(Now, p)
  <2>1. (armed \ {p}) \ {p} = armed \ {p}
    OBVIOUS
  <2> QED BY <1>1, <1>3, <1>4, <1>5, <2>1, EndChanged
<1>7. /\ more \in State /\ more.asking = asking /\ more.loc = loc /\ more.pg = sent.pg
      /\ more.watched = watched /\ more.armed = armed /\ more.queries = queries
  <2>1. (armed \ {p}) \cup {p} = armed
    BY <1>1
  <2> QED BY <1>5, <2>1 DEF State
<1> HIDE DEF more
<1>8. CASE Becomes(more)
  BY <1>1, <1>5, <1>7, <1>8, StepChanged
<1>9. CASE Becomes(Gone(Now, p))
  BY <1>1, <1>9, StepGone
<1> QED
  BY <1>2, <1>6, <1>8, <1>9

(* read_ping: an answer comes only after a packet was sent, so no query    *)
(* names the ping that it ends.                                            *)
LEMMA ReadStep ==
    ASSUME UpingInv, NEW p \in Pings, NEW what \in {"error", "broken", "answer"},
           read_ping(p, what)
    PROVE  UpingInv'
<1> DEFINE left == pg[p].receiveB - 1
           s == [Now EXCEPT !.pg[p].receiveB = left]
<1>1. /\ pg[p].fd # 0 /\ pg[p].sendB < pg[p].hopcount /\ highest' = highest /\ around' = around
      /\ pg[p] \in PingState
  BY InUse DEF read_ping, Live
<1>2. p \in armed /\ p \notin queries
  BY <1>1, InUse DEF PingState
<1>3. \/ Becomes(end_ping(Now, p))
      \/ Becomes(Now)
      \/ Becomes(end_ping(s, p))
      \/ Becomes(s)
  BY DEF read_ping
<1>4. /\ Now \in State /\ Now.asking = asking /\ Now.loc = loc /\ Now.pg = pg
      /\ Now.watched = watched /\ Now.armed = armed /\ Now.queries = queries
  BY Before
<1>5. /\ s \in State /\ s.asking = asking /\ s.loc = loc
      /\ s.watched = watched /\ s.armed = armed /\ s.queries = queries
      /\ \A q \in Pings : q # p => s.pg[q] = pg[q]
      /\ s.pg[p].fd = pg[p].fd /\ s.pg[p].acpt = pg[p].acpt
  <2> DEFINE r == [pg[p] EXCEPT !.receiveB = left]
  <2>1. r \in PingState /\ r.fd = pg[p].fd /\ r.acpt = pg[p].acpt
    BY <1>1 DEF PingState
  <2>2. s = [Now EXCEPT !.pg = [pg EXCEPT ![p] = r]]
    BY <1>1, <1>4 DEF State
  <2> HIDE DEF r, s
  <2> QED BY <1>4, <2>1, <2>2 DEF State
<1> HIDE DEF s, left
<1>6. end_ping(Now, p) = Gone(Now, p) /\ end_ping(s, p) = Gone(Now, p)
  BY <1>2, <1>4, <1>5, EndChanged
<1>7. CASE Becomes(s)
  BY <1>1, <1>2, <1>5, <1>7, StepChanged
<1>8. CASE Becomes(Now)
  BY <1>1, <1>2, <1>4, <1>8, StepChanged
<1>9. CASE Becomes(Gone(Now, p))
  BY <1>1, <1>9, StepGone
<1> QED
  BY <1>3, <1>6, <1>7, <1>8, <1>9

(* start_ping changes no field but these.                                  *)
LEMMA StartedType ==
    ASSUME NEW q \in PingState, NEW b \in BOOLEAN
    PROVE  LET r == [q EXCEPT !.started = b, !.sending = b] IN
           r \in PingState /\ r.fd = q.fd /\ r.acpt = q.acpt
BY DEF PingState

(* The resolver: an answer starts the ping, asks once more or ends it.     *)
LEMMA DnsStep ==
    ASSUME UpingInv, NEW p \in Pings,
           \/ DnsTimeout(p)
           \/ \E found, cached \in BOOLEAN : DnsAnswer(p, found, cached)
    PROVE  UpingInv'
<1> DEFINE s == [Now EXCEPT !.queries = @ \ {p}]
           go == start_ping(s, p)
           ask == [s EXCEPT !.queries = @ \cup {p}]
<1>1. /\ p \in queries /\ pg[p].fd # 0 /\ p \notin armed /\ pg[p] \in PingState
      /\ pg[p].sendB >= pg[p].hopcount
      /\ highest' = highest /\ around' = around
  BY InUse DEF DnsTimeout, DnsAnswer
<1>2. \/ Becomes([end_ping(Now, p) EXCEPT !.queries = @ \ {p}])
      \/ Becomes(end_ping(s, p))
      \/ Becomes(go)
      \/ Becomes(ask)
  BY DEF DnsTimeout, DnsAnswer, ping_server
<1>3. /\ Now \in State /\ Now.asking = asking /\ Now.loc = loc /\ Now.pg = pg
      /\ Now.watched = watched /\ Now.armed = armed /\ Now.queries = queries
  BY Before
<1>4. /\ [end_ping(Now, p) EXCEPT !.queries = @ \ {p}] = Gone(Now, p)
      /\ end_ping(s, p) = Gone(Now, p)
  BY <1>3, EndIsGone
<1>5. /\ s \in State /\ s.asking = asking /\ s.loc = loc /\ s.pg = pg
      /\ s.watched = watched /\ s.armed = armed /\ s.queries = queries \ {p}
  BY <1>3 DEF State
<1> HIDE DEF s
<1>6. CASE Becomes(ask)
  <2>1. /\ ask \in State /\ ask.asking = asking /\ ask.loc = loc /\ ask.pg = pg
        /\ ask.watched = watched /\ ask.armed = armed /\ ask.queries = queries
    <3>1. (queries \ {p}) \cup {p} = queries
      BY <1>1
    <3> QED BY <1>5, <3>1 DEF State
  <2> HIDE DEF ask
  <2> QED BY <1>1, <1>6, <2>1, StepChanged
<1>7. CASE Becomes(go)
  <2> DEFINE r == [pg[p] EXCEPT !.started = TRUE, !.sending = TRUE]
  <2>1. r \in PingState /\ r.fd = pg[p].fd /\ r.acpt = pg[p].acpt
    BY <1>1, StartedType
  <2>2. go = [s EXCEPT !.pg = [pg EXCEPT ![p] = r], !.armed = armed \cup {p}]
    BY <1>1, <1>5 DEF State, PingState, start_ping
  <2> HIDE DEF r, go
  <2>3. /\ go \in State /\ go.asking = asking /\ go.loc = loc
        /\ go.watched = watched /\ go.armed = armed \cup {p} /\ go.queries = queries \ {p}
        /\ go.pg = [pg EXCEPT ![p] = r]
    BY <1>3, <1>5, <2>1, <2>2 DEF State
  <2>4. /\ \A q \in Pings : q # p => go.pg[q] = pg[q]
        /\ go.pg[p].fd = pg[p].fd /\ go.pg[p].acpt = pg[p].acpt
    BY <1>3, <2>1, <2>3 DEF State
  <2> QED BY <1>1, <1>7, <2>3, <2>4, StepChanged
<1>8. CASE Becomes(Gone(Now, p))
  BY <1>1, <1>8, StepGone
<1> QED
  BY <1>2, <1>4, <1>6, <1>7, <1>8

(* cancel_ping of an operator, or nothing when he has not asked: what is   *)
(* left is in order and he is asking no more.                              *)
LEMMA Cancelled ==
    ASSUME UpingInv, NEW u
    PROVE  LET s == IF u \in asking THEN cancel_ping(Now, u) ELSE Now IN
           /\ Good(s, highest) /\ u \notin s.asking /\ s.asking \subseteq asking
<1>1. CASE u \notin asking
  BY <1>1, Before
<1>2. CASE u \in asking
  <2>1. PICK p \in Pings : pg[p].fd # 0 /\ pg[p].acpt = u /\ cancel_ping(Now, u) = Gone(Now, p)
    BY <1>2, Before, CancelIsGone
  <2>2. Good(Gone(Now, p), highest)
    BY <2>1, Before, GoneGood
  <2>3. Gone(Now, p).asking = asking \ {u}
    BY <2>1, Before DEF Gone
  <2> QED BY <1>2, <2>1, <2>2, <2>3
<1> QED
  BY <1>1, <1>2

(* A set of descriptors that is not empty has a lowest one.                *)
LEMMA Lowest ==
    ASSUME NEW S \in SUBSET Nat, S # {}
    PROVE  \E f \in S : \A g \in S : f <= g
<1> DEFINE D == OpToRel(<, Nat)
<1>1. PICK x \in S : \A y \in S : ~(<<y, x>> \in D)
  <2>1. IsWellFoundedOn(D, Nat)
    BY NatLessThanWellFounded
  <2> HIDE DEF D
  <2> QED BY <2>1, WFMin
<1>2. \A y \in S : ~(y < x)
  BY <1>1 DEF OpToRel
<1> QED
  BY <1>2

(* And a highest one.                                                      *)
LEMMA Highest ==
    ASSUME NEW h \in Nat, NEW S \in SUBSET (0..h), S # {}
    PROVE  \E f \in S : \A g \in S : g <= f
<1> DEFINE T == {h - f : f \in S}
<1>1. T \in SUBSET Nat /\ T # {}
  <2>1. \A f \in S : h - f \in Nat
    OBVIOUS
  <2>2. T \subseteq Nat
    BY <2>1
  <2>3. T # {}
    OBVIOUS
  <2> QED BY <2>2, <2>3
<1>2. PICK x \in T : \A y \in T : x <= y
  <2> HIDE DEF T
  <2> QED BY <1>1, Lowest
<1>3. PICK f \in S : x = h - f
  OBVIOUS
<1>4. \A g \in S : h - f <= h - g
  BY <1>2, <1>3
<1> QED
  BY <1>4

(* m_uping: the ping under way is cancelled, a new one takes its place.    *)
LEMMA AskStep ==
    ASSUME UpingInv, NEW u \in Askers, NEW n \in Counts, NEW known \in BOOLEAN,
           NEW socket \in BOOLEAN, m_uping(u, n, known, socket)
    PROVE  UpingInv'
<1> DEFINE s == IF u \in asking THEN cancel_ping(Now, u) ELSE Now
           free == {f \in Fds : s.loc[f] = NoOne}
           fd == CHOOSE f \in free : \A g \in free : f <= g
           r0 == [acpt |-> u, fd |-> fd, hopcount |-> n, sendB |-> n,
                  receiveB |-> n, sending |-> FALSE, started |-> FALSE]
           new(p) == [s EXCEPT !.loc[fd] = p, !.watched[p] = fd, !.asking = @ \cup {u},
                               !.pg[p] = r0]
<1>1. Good(s, highest) /\ u \notin s.asking /\ s.asking \subseteq asking /\ s \in State
  BY Cancelled DEF Good
<1>2. /\ u \in around /\ around' = around /\ asking \subseteq around /\ around \subseteq Askers
      /\ highest \in Nat /\ highest \in 0..MaxFd
  BY Before DEF m_uping, UpingInv
<1>3. \/ Becomes(s) /\ highest' = highest
      \/ /\ free # {}
         /\ \E p \in Pings : /\ s.pg[p].fd = 0 /\ Becomes(ping_server(new(p), p, known))
                             /\ highest' = IF fd > highest THEN fd ELSE highest
  BY DEF m_uping
<1> HIDE DEF s
<1>4. CASE Becomes(s) /\ highest' = highest
  BY <1>1, <1>2, <1>4, Step
<1>5. ASSUME free # {}, NEW p \in Pings, s.pg[p].fd = 0,
             Becomes(ping_server(new(p), p, known)),
             highest' = IF fd > highest THEN fd ELSE highest
      PROVE  UpingInv'
  <2>1. fd \in Fds /\ s.loc[fd] = NoOne
    <3>1. free \in SUBSET Nat
      BY FdFacts
    <3>2. fd \in free
      <4> HIDE DEF free
      <4> QED BY <1>5, <3>1, Lowest
    <3> HIDE DEF fd
    <3> QED BY <3>2
  <2> DEFINE k == IF fd > highest THEN fd ELSE highest
             t == Opened(s, u, p, fd, n, known)
  <2>2. k \in 0..MaxFd /\ k \in Nat /\ highest <= k /\ fd <= k
    <3> HIDE DEF fd
    <3> QED BY <1>2, <2>1, FdFacts
  <2>3. n \in Int
    BY UpingConstants
  <2> HIDE DEF fd, k
  <2>4. Good(t, k)
    BY <1>1, <1>2, <1>5, <2>1, <2>2, <2>3, OpenedGood
  <2>5. ping_server(new(p), p, known) = t
    <3> DEFINE w == new(p)
    <3>1. /\ w.asking = s.asking \cup {u} /\ w.loc = [s.loc EXCEPT ![fd] = p]
          /\ w.watched = [s.watched EXCEPT ![p] = fd] /\ w.pg = [s.pg EXCEPT ![p] = r0]
          /\ w.armed = s.armed /\ w.queries = s.queries
      BY <1>1 DEF State
    <3>2. w \in [asking : SUBSET Askers, loc : [Fds -> Pings \cup {Other, NoOne}],
                 pg : [Pings -> PingState], watched : [Pings -> Fds \cup {0}],
                 armed : SUBSET Pings, queries : SUBSET Pings]
      <4>1. r0 \in PingState
        BY <2>1, <2>3 DEF PingState
      <4> HIDE DEF r0
      <4> QED BY <1>1, <2>1, <4>1 DEF State
    <3> DEFINE e == IF known THEN start_ping(w, p) ELSE [w EXCEPT !.queries = @ \cup {p}]
    <3>3. ping_server(new(p), p, known) = e
      BY DEF ping_server
    <3>4. CASE known
      <4> DEFINE r1 == [r0 EXCEPT !.started = known, !.sending = known]
      <4>1. start_ping(w, p) = [w EXCEPT !.pg = [w.pg EXCEPT ![p] = r1], !.armed = s.armed \cup {p}]
        <5> HIDE DEF w
        <5> QED BY <1>1, <3>1, <3>2, <3>4 DEF start_ping, State
      <4>2. t.pg = [w.pg EXCEPT ![p] = r1]
        <5> HIDE DEF w
        <5> QED BY <1>1, <3>1 DEF Opened, State
      <4> HIDE DEF w
      <4>3. t \in State
        BY <2>4 DEF Good
      <4>4. /\ e = [w EXCEPT !.pg = t.pg, !.armed = s.armed \cup {p}]
            /\ t.asking = w.asking /\ t.loc = w.loc /\ t.watched = w.watched
            /\ t.armed = s.armed \cup {p} /\ t.queries = w.queries
        BY <3>1, <3>4, <4>1, <4>2 DEF Opened
      <4> HIDE DEF t, e
      <4>5. e = t
        BY <3>2, <4>3, <4>4 DEF State
      <4> QED BY <3>3, <4>5
    <3>5. CASE ~known
      <4>1. t.pg = w.pg
        <5> HIDE DEF w
        <5> QED BY <1>1, <3>1, <3>5 DEF Opened, State
      <4> HIDE DEF w
      <4>3. t \in State
        BY <2>4 DEF Good
      <4>4. /\ e = [w EXCEPT !.queries = s.queries \cup {p}]
            /\ t.asking = w.asking /\ t.loc = w.loc /\ t.watched = w.watched
            /\ t.armed = w.armed /\ t.queries = s.queries \cup {p}
        BY <3>1, <3>5 DEF Opened
      <4> HIDE DEF t, e
      <4>5. e = t
        BY <3>2, <4>1, <4>3, <4>4 DEF State
      <4> QED BY <3>3, <4>5
    <3> QED BY <3>4, <3>5
  <2>6. t.asking \subseteq around
    BY <1>1, <1>2 DEF Opened
  <2>7. highest' = k
    BY <1>5 DEF k
  <2> HIDE DEF t, new
  <2> QED BY <1>2, <1>5, <2>2, <2>4, <2>5, <2>6, <2>7, Step
<1> QED
  BY <1>3, <1>4, <1>5

(* Operators come and go; one who goes takes his ping along.               *)
LEMMA AskerStep ==
    ASSUME UpingInv, NEW u \in Askers, AskerQuits(u) \/ AskerComes(u)
    PROVE  UpingInv'
<1>1. CASE AskerQuits(u)
  <2> DEFINE s == IF u \in asking THEN cancel_ping(Now, u) ELSE Now
  <2>1. Good(s, highest) /\ u \notin s.asking /\ s.asking \subseteq asking
    BY Cancelled
  <2>2. Becomes(s) /\ around' = around \ {u} /\ highest' = highest
    BY <1>1 DEF AskerQuits
  <2> HIDE DEF s
  <2>3. s.asking \subseteq around' /\ around' \subseteq Askers /\ highest \in 0..MaxFd
    BY <2>1, <2>2, Before DEF UpingInv
  <2> QED BY <2>1, <2>2, <2>3, Step
<1>2. CASE AskerComes(u)
  <2>1. Now' = Now /\ around' = around \cup {u} /\ highest' = highest /\ asking' = asking
    BY <1>2 DEF AskerComes, Now
  <2> QED BY <2>1 DEF UpingInv
<1> QED
  BY <1>1, <1>2

-----------------------------------------------------------------------------
(* The other connections.                                                  *)

(* A step that changes the places only.                                    *)
LEMMA StepPlaces ==
    ASSUME UpingInv, asking' = asking, armed' = armed, queries' = queries, around' = around,
           Now' \in State, highest' \in 0..MaxFd,
           \A p \in Pings : /\ pg'[p].fd # 0 <=> pg[p].fd # 0
                            /\ pg'[p].acpt = pg[p].acpt
                            /\ pg'[p].sendB = pg[p].sendB /\ pg'[p].hopcount = pg[p].hopcount,
           Placed(Now', highest')
    PROVE  UpingInv'
<1>1. Owned(Now) /\ Waiting(Now) /\ asking \subseteq around /\ around \subseteq Askers
  BY DEF UpingInv, Good
<1>2. /\ Now.asking = asking /\ Now.pg = pg /\ Now.armed = armed /\ Now.queries = queries
      /\ Now'.asking = asking' /\ Now'.pg = pg' /\ Now'.armed = armed' /\ Now'.queries = queries'
  BY DEF Now
<1> DEFINE s == Now
           t == Now'
<1> HIDE DEF s, t
<1>3. /\ t.asking = s.asking /\ t.armed = s.armed /\ t.queries = s.queries
      /\ \A p \in Pings : /\ t.pg[p].fd # 0 <=> s.pg[p].fd # 0
                          /\ t.pg[p].acpt = s.pg[p].acpt
                          /\ t.pg[p].sendB = s.pg[p].sendB /\ t.pg[p].hopcount = s.pg[p].hopcount
  BY <1>2 DEF s, t
<1>4. Owned(s) => Owned(t)
  BY <1>3 DEF Owned
<1>5. Waiting(s) => Waiting(t)
  BY <1>3 DEF Waiting
<1> QED
  BY <1>1, <1>4, <1>5 DEF UpingInv, Good, s, t

(* The places, written with the variables.                                 *)
LEMMA PlacesNow ==
    ASSUME UpingInv
    PROVE  /\ loc \in [Fds -> Pings \cup {Other, NoOne}] /\ pg \in [Pings -> PingState]
           /\ watched \in [Pings -> Fds \cup {0}] /\ highest \in Nat /\ highest \in 0..MaxFd
           /\ \A p \in Pings : pg[p].fd # 0 => pg[p].fd \in Fds /\ loc[pg[p].fd] = p /\ pg[p].fd <= highest
           /\ \A p \in Pings : watched[p] = pg[p].fd
           /\ \A f \in Fds : loc[f] \in Pings => pg[loc[f]].fd = f
<1>1. /\ Now \in State /\ Placed(Now, highest) /\ highest \in Nat /\ highest \in 0..MaxFd
      /\ Now.loc = loc /\ Now.pg = pg /\ Now.watched = watched
  BY Before DEF Good, UpingInv
<1>2. /\ loc \in [Fds -> Pings \cup {Other, NoOne}] /\ pg \in [Pings -> PingState]
      /\ watched \in [Pings -> Fds \cup {0}]
  BY <1>1 DEF State
<1>3. \A p \in Pings : pg[p].fd # 0 => pg[p].fd \in Fds
  BY <1>2 DEF PingState
<1> QED
  BY <1>1, <1>2, <1>3 DEF Placed

(* Another connection opens in a free place.                               *)
LEMMA OpensStep ==
    ASSUME UpingInv, OtherOpens
    PROVE  UpingInv'
<1> DEFINE free == {f \in Fds : loc[f] = NoOne}
           fd == CHOOSE f \in free : \A g \in free : f <= g
<1>1. /\ free # {} /\ loc' = [loc EXCEPT ![fd] = Other]
      /\ highest' = IF fd > highest THEN fd ELSE highest
      /\ UNCHANGED <<around, asking, pg, watched, armed, queries>>
  BY DEF OtherOpens
<1>2. fd \in Fds /\ loc[fd] = NoOne
  <2>1. free \in SUBSET Nat
    BY FdFacts
  <2>2. fd \in free
    <3> HIDE DEF free
    <3> QED BY <1>1, <2>1, Lowest
  <2> HIDE DEF fd
  <2> QED BY <2>2
<1> HIDE DEF fd, free
<1>3. highest' \in 0..MaxFd /\ highest <= highest' /\ highest' \in Nat
  BY <1>1, <1>2, PlacesNow, FdFacts
<1>4. /\ loc' \in [Fds -> Pings \cup {Other, NoOne}] /\ loc'[fd] = Other
      /\ \A f \in Fds : f # fd => loc'[f] = loc[f]
  BY <1>1, <1>2, PlacesNow
<1>5. Now' \in State
  BY <1>1, <1>4, Before DEF State, Now
<1>6. \A p \in Pings : pg[p].fd # 0 => pg[p].fd # fd /\ pg[p].fd <= highest'
  <2> TAKE p \in Pings
  <2> HAVE pg[p].fd # 0
  <2>1. pg[p].fd \in Nat /\ pg[p].fd <= highest /\ loc[pg[p].fd] = p
    BY PlacesNow, FdFacts
  <2> QED BY <1>2, <1>3, <2>1, PlacesNow, FreedType
<1>7. Placed(Now', highest')
  <2>1. Now'.loc = loc' /\ Now'.pg = pg /\ Now'.watched = watched
    BY <1>1 DEF Now
  <2> DEFINE t == Now'
  <2> HIDE DEF t
  <2>2. Placed(t, highest')
    <3>1. t.loc = loc' /\ t.pg = pg /\ t.watched = watched
      BY <2>1 DEF t
    <3> QED BY <1>4, <1>6, <3>1, PlacesNow, FreedType DEF Placed
  <2> QED BY <2>2 DEF t
<1> QED
  BY <1>1, <1>3, <1>5, <1>7, StepPlaces

(* The search of close_connection for the highest entry in use.            *)
LEMMA TopFacts ==
    ASSUME NEW l, NEW h \in Nat
    PROVE  LET j == TopOf(l, h) IN
           /\ j \in 0..h
           /\ j # 0 => l[j] # NoOne
           /\ \A f \in 1..h : l[f] # NoOne => f <= j
<1> DEFINE used == {f \in 1..h : l[f] # NoOne}
           j == TopOf(l, h)
<1>1. j = IF used = {} THEN 0 ELSE CHOOSE f \in used : \A g \in used : g <= f
  BY DEF TopOf
<1>2. CASE used = {}
  BY <1>1, <1>2
<1>3. CASE used # {}
  <2>1. used \in SUBSET (0..h)
    OBVIOUS
  <2>2. \E f \in used : \A g \in used : g <= f
    <3> HIDE DEF used
    <3> QED BY <1>3, <2>1, Highest
  <2>3. j \in used /\ \A g \in used : g <= j
    <3> HIDE DEF used, j
    <3> QED BY <1>1, <1>3, <2>2
  <2> QED BY <2>3
<1> QED
  BY <1>2, <1>3

(* Another connection closes: the last entry moves into the hole, and if   *)
(* it is a ping its descriptor and its read event move with it.            *)
LEMMA ClosesStep ==
    ASSUME UpingInv, NEW i \in Fds, OtherCloses(i)
    PROVE  UpingInv'
<1> DEFINE out == [loc EXCEPT ![i] = NoOne]
           j == TopOf(out, highest)
           who == out[j]
           moved == [out EXCEPT ![i] = who, ![j] = NoOne]
<1>1. /\ loc[i] = Other
      /\ UNCHANGED <<around, asking, armed, queries>>
      /\ \/ /\ j > i /\ loc' = moved /\ highest' = TopOf(moved, j)
            /\ \/ who = Other /\ pg' = pg /\ watched' = watched
               \/ /\ who # Other /\ pg' = [pg EXCEPT ![who].fd = i]
                  /\ watched' = [watched EXCEPT ![who] = i]
         \/ /\ ~(j > i) /\ loc' = out /\ highest' = j /\ pg' = pg /\ watched' = watched
  BY DEF OtherCloses
<1>2. /\ loc \in [Fds -> Pings \cup {Other, NoOne}] /\ pg \in [Pings -> PingState]
      /\ watched \in [Pings -> Fds \cup {0}] /\ highest \in Nat /\ highest \in 0..MaxFd
      /\ \A p \in Pings : pg[p].fd # 0 => pg[p].fd \in Fds /\ loc[pg[p].fd] = p /\ pg[p].fd <= highest
      /\ \A p \in Pings : watched[p] = pg[p].fd
      /\ \A f \in Fds : loc[f] \in Pings => pg[loc[f]].fd = f
      /\ Fds = 1..MaxFd /\ MaxFd \in Nat
  BY PlacesNow, FdFacts
<1>3. /\ out \in [Fds -> Pings \cup {Other, NoOne}] /\ out[i] = NoOne
      /\ \A f \in Fds : f # i => out[f] = loc[f]
  BY <1>2
<1> HIDE DEF out
<1>4. /\ j \in 0..highest /\ (j # 0 => out[j] # NoOne) /\ j # i
      /\ \A f \in 1..highest : out[f] # NoOne => f <= j
  BY <1>2, <1>3, TopFacts
<1> HIDE DEF j
<1>5. \A p \in Pings : pg[p].fd # 0 => pg[p].fd # i /\ out[pg[p].fd] = p /\ pg[p].fd <= j
  <2> TAKE p \in Pings
  <2> HAVE pg[p].fd # 0
  <2>1. pg[p].fd \in Fds /\ loc[pg[p].fd] = p /\ pg[p].fd <= highest
    BY <1>2
  <2>2. pg[p].fd # i /\ p # NoOne
    BY <1>1, <2>1, FreedType
  <2> QED BY <1>2, <1>3, <1>4, <2>1, <2>2
<1> DEFINE t == Now'
<1>6. /\ t.loc = loc' /\ t.pg = pg' /\ t.watched = watched'
      /\ t.asking = asking /\ t.armed = armed /\ t.queries = queries
      /\ t = [asking |-> asking, loc |-> loc', pg |-> pg', watched |-> watched',
              armed |-> armed, queries |-> queries]
      /\ asking \in SUBSET Askers /\ armed \in SUBSET Pings /\ queries \in SUBSET Pings
  BY <1>1, Before DEF Now, State
<1> HIDE DEF t
<1>7. CASE ~(j > i) /\ loc' = out /\ highest' = j /\ pg' = pg /\ watched' = watched
  <2>1. t \in State
    BY <1>2, <1>3, <1>6, <1>7 DEF State
  <2>2. highest' \in 0..MaxFd
    BY <1>2, <1>4, <1>7
  <2>3. Placed(t, highest')
    <3>1. \A f \in Fds : out[f] \in Pings => pg[out[f]].fd = f
      BY <1>2, <1>3, FreedType
    <3> QED BY <1>2, <1>5, <1>6, <1>7, <3>1 DEF Placed
  <2> QED BY <1>1, <1>7, <2>1, <2>2, <2>3, StepPlaces DEF t
<1>8. CASE j > i
  <2>1. /\ j \in Fds /\ i # j /\ out[j] = loc[j] /\ who # NoOne /\ who = loc[j]
        /\ who \in Pings \cup {Other}
    BY <1>2, <1>3, <1>4, <1>8
  <2>2. /\ moved \in [Fds -> Pings \cup {Other, NoOne}] /\ moved[i] = who /\ moved[j] = NoOne
        /\ \A f \in Fds : f # i /\ f # j => moved[f] = loc[f]
    BY <1>3, <2>1
  <2> HIDE DEF moved, who
  <2>3. loc' = moved /\ highest' = TopOf(moved, j)
    BY <1>1, <1>8
  <2>4. highest' \in 0..j /\ \A f \in 1..j : moved[f] # NoOne => f <= highest'
    BY <1>2, <1>4, <2>3, TopFacts
  <2>5. highest' \in 0..MaxFd /\ i <= highest'
    BY <1>2, <1>4, <1>8, <2>1, <2>2, <2>4
  <2>6. CASE who = Other
    <3>1. pg' = pg /\ watched' = watched
      BY <1>1, <1>8, <2>6
    <3>2. t \in State
      BY <1>2, <1>6, <2>2, <2>3, <3>1 DEF State
    <3>3. \A p \in Pings : pg[p].fd # 0 => moved[pg[p].fd] = p /\ pg[p].fd <= highest'
      <4> TAKE p \in Pings
      <4> HAVE pg[p].fd # 0
      <4>1. pg[p].fd # i /\ pg[p].fd # j /\ pg[p].fd \in Fds /\ loc[pg[p].fd] = p /\ pg[p].fd <= j
        BY <1>2, <1>5, <2>1, <2>6, FreedType
      <4>2. moved[pg[p].fd] = p /\ p # NoOne
        BY <2>2, <4>1, FreedType
      <4> QED BY <1>2, <2>4, <4>1, <4>2
    <3>4. \A f \in Fds : moved[f] \in Pings => pg[moved[f]].fd = f
      BY <1>2, <2>2, <2>6, FreedType
    <3>5. Placed(t, highest')
      BY <1>2, <1>6, <2>3, <3>1, <3>3, <3>4 DEF Placed
    <3> QED BY <1>1, <2>5, <3>1, <3>2, <3>5, StepPlaces DEF t
  <2>7. CASE who # Other
    <3>1. who \in Pings /\ pg[who].fd = j /\ pg[who] \in PingState
      BY <1>2, <2>1, <2>7
    <3> DEFINE r == [pg[who] EXCEPT !.fd = i]
    <3>2. /\ pg' = [pg EXCEPT ![who] = r] /\ watched' = [watched EXCEPT ![who] = i]
      BY <1>1, <1>8, <2>7
    <3>3. /\ r \in PingState /\ r.fd = i /\ r.acpt = pg[who].acpt
          /\ r.sendB = pg[who].sendB /\ r.hopcount = pg[who].hopcount
      BY <3>1 DEF PingState
    <3> HIDE DEF r
    <3>4. /\ pg' \in [Pings -> PingState] /\ pg'[who] = r
          /\ \A p \in Pings : p # who => pg'[p] = pg[p]
          /\ watched' \in [Pings -> Fds \cup {0}] /\ watched'[who] = i
          /\ \A p \in Pings : p # who => watched'[p] = watched[p]
      BY <1>2, <3>1, <3>2, <3>3
    <3>5. t \in State
      BY <1>6, <2>2, <2>3, <3>4 DEF State
    <3>6. \A p \in Pings : pg'[p].fd # 0 => moved[pg'[p].fd] = p /\ pg'[p].fd <= highest'
      <4> TAKE p \in Pings
      <4> HAVE pg'[p].fd # 0
      <4>1. CASE p = who
        BY <2>2, <2>5, <3>3, <3>4, <4>1
      <4>2. CASE p # who
        <5>1. pg'[p].fd = pg[p].fd /\ pg[p].fd # 0
          BY <3>4, <4>2
        <5>2. pg[p].fd # i /\ pg[p].fd # j /\ pg[p].fd \in Fds /\ loc[pg[p].fd] = p /\ pg[p].fd <= j
          BY <1>2, <1>5, <2>1, <4>2, <5>1
        <5>3. moved[pg[p].fd] = p /\ p # NoOne
          BY <2>2, <5>2, FreedType
        <5> QED BY <1>2, <2>4, <5>1, <5>2, <5>3
      <4> QED BY <4>1, <4>2
    <3>7. \A f \in Fds : moved[f] \in Pings => pg'[moved[f]].fd = f
      <4> TAKE f \in Fds
      <4> HAVE moved[f] \in Pings
      <4>1. CASE f = i
        BY <2>2, <3>3, <3>4, <4>1
      <4>2. CASE f # i
        <5>1. f # j /\ moved[f] = loc[f] /\ pg[loc[f]].fd = f
          BY <1>2, <2>2, <4>2, FreedType
        <5>2. moved[f] # who
          BY <3>1, <5>1
        <5> QED BY <3>4, <5>1, <5>2
      <4> QED BY <4>1, <4>2
    <3>8. Placed(t, highest')
      <4>1. \A p \in Pings : watched'[p] = pg'[p].fd
        BY <1>2, <3>3, <3>4
      <4> QED BY <1>6, <2>3, <3>6, <3>7, <4>1 DEF Placed
    <3>9. \A p \in Pings : /\ pg'[p].fd # 0 <=> pg[p].fd # 0
                           /\ pg'[p].acpt = pg[p].acpt
                           /\ pg'[p].sendB = pg[p].sendB /\ pg'[p].hopcount = pg[p].hopcount
      BY <2>1, <3>1, <3>3, <3>4, FreedType
    <3> QED BY <1>1, <2>5, <3>5, <3>8, <3>9, StepPlaces DEF t
  <2> QED BY <2>6, <2>7
<1> QED
  BY <1>1, <1>7, <1>8

-----------------------------------------------------------------------------
(* The invariant and its three facts.                                      *)

(* At the start there is no ping.                                          *)
LEMMA UpingStart == UpingInit => UpingInv
<1> SUFFICES ASSUME UpingInit PROVE UpingInv
  OBVIOUS
<1>1. /\ around = Askers /\ asking = {} /\ loc = [f \in Fds |-> NoOne] /\ highest = 0
      /\ pg = [p \in Pings |-> Freed0] /\ watched = [p \in Pings |-> 0]
      /\ armed = {} /\ queries = {}
  BY DEF UpingInit
<1>2. Now = [asking |-> {}, loc |-> [f \in Fds |-> NoOne], pg |-> [p \in Pings |-> Freed0],
             watched |-> [p \in Pings |-> 0], armed |-> {}, queries |-> {}]
  BY <1>1 DEF Now
<1>3. Now \in State
  BY <1>2, FreedType DEF State
<1>4. Placed(Now, 0) /\ Owned(Now) /\ Waiting(Now)
  BY <1>2, FreedType DEF Placed, Owned, Waiting
<1> QED
  BY <1>1, <1>3, <1>4, FdFacts DEF UpingInv, Good

(* Every step keeps the invariant.                                         *)
LEMMA UpingStep == UpingInv /\ [UpingNext]_upingVars => UpingInv'
<1> SUFFICES ASSUME UpingInv, [UpingNext]_upingVars PROVE UpingInv'
  OBVIOUS
<1>1. CASE UNCHANGED upingVars
  BY <1>1 DEF upingVars, UpingInv, Now
<1>2. CASE UpingNext
  BY <1>2, AskStep, SendStep, ReadStep, DnsStep, AskerStep, OpensStep, ClosesStep DEF UpingNext
<1> QED
  BY <1>1, <1>2

(* One ping for an operator who is asking and none for the others.         *)
LEMMA UpingImplies == UpingInv => PingsOwned
<1> SUFFICES ASSUME UpingInv PROVE PingsOwned
  OBVIOUS
<1>1. /\ Owned(Now) /\ Waiting(Now) /\ Now.asking = asking /\ Now.pg = pg
      /\ Now.armed = armed /\ Now.queries = queries /\ Now \in State
      /\ asking \subseteq around /\ around \subseteq Askers
  BY Before DEF Good
<1>2. UpingTypeOK
  BY <1>1, PlacesNow DEF UpingTypeOK, State
<1>3. ASSUME NEW u \in Askers
      PROVE  Cardinality({p \in Pings : Live(p) /\ pg[p].acpt = u}) = IF u \in asking THEN 1 ELSE 0
  <2> DEFINE mine == {p \in Pings : Live(p) /\ pg[p].acpt = u}
  <2>1. CASE u \in asking
    <3>1. PICK p \in Pings : pg[p].fd # 0 /\ pg[p].acpt = u
      BY <1>1, <2>1 DEF Owned
    <3>2. mine = {p}
      BY <1>1, <3>1 DEF Owned, Live
    <3>3. Cardinality(mine) = 1
      BY <3>2, FS_Singleton
    <3> QED BY <2>1, <3>3
  <2>2. CASE u \notin asking
    <3>1. mine = {}
      BY <1>1, <2>2 DEF Owned, Live
    <3>2. Cardinality(mine) = 0
      BY <3>1, FS_EmptySet
    <3> QED BY <2>2, <3>2
  <2> QED BY <2>1, <2>2
<1>4. ASSUME NEW p \in Pings, Live(p)
      PROVE  /\ loc[pg[p].fd] = p /\ pg[p].fd <= highest
             /\ watched[p] = pg[p].fd
             /\ pg[p].acpt \in around
             /\ (p \in queries) # (p \in armed)
  <2>1. pg[p].fd # 0
    BY <1>4 DEF Live
  <2>2. pg[p].acpt \in around /\ (p \in queries <=> p \notin armed)
    BY <1>1, <2>1 DEF Owned, Waiting
  <2> QED BY <2>1, <2>2, PlacesNow
<1>5. ASSUME NEW p \in Pings, ~Live(p)
      PROVE  p \notin queries \cup armed /\ watched[p] = 0
  <2>1. pg[p].fd = 0
    BY <1>5 DEF Live
  <2> QED BY <1>1, <2>1, PlacesNow DEF Waiting
<1> QED
  BY <1>1, <1>2, <1>3, <1>4, <1>5 DEF PingsOwned

(* An operator is marked as asking exactly while one ping is his; that     *)
(* ping stands where its descriptor says, whatever other connections       *)
(* close_connection moves about, and waits for the resolver or its timer;  *)
(* nothing names a freed ping: for all numbers of operators, pings,        *)
(* packets and descriptors (cancel_ping, end_ping, exit_one_client).       *)
THEOREM PingsAreOwned == UpingSpec => []PingsOwned
BY UpingStart, UpingStep, UpingImplies, PTL DEF UpingSpec
=============================================================================
