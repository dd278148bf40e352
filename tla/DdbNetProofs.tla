---------------------------- MODULE DdbNetProofs ----------------------------
(***************************************************************************)
(* Proofs about DdbNet, for every tree of servers, every table and every   *)
(* bound: the types, the link between tabla_serie and the file, and the    *)
(* agreement of the file with the memory.                                  *)
(*                                                                         *)
(* TypeOK is not inductive alone: the record taken from a burst must       *)
(* exist, a burst is not empty only because the file ends at tabla_serie,  *)
(* and that is FileEndsAtSerie.  Their conjunction is inductive.           *)
(***************************************************************************)
EXTENDS DdbNet, TLAPS, WellFoundedInduction, FiniteSetTheorems

ChanType == [Node \X Node -> Seq(Msg)]

(* A set of records that is not empty has one with the lowest serial, so   *)
(* the next record of a burst is one of the burst.                         *)
LEMMA NextRecExists ==
    ASSUME NEW R \in SUBSET Record, R # {}
    PROVE  /\ NextRec(R) \in R
           /\ \A q \in R : NextRec(R).serie <= q.serie
<1> DEFINE T == {r.serie : r \in R}
           D == OpToRel(<, Nat)
<1>1. T \subseteq Nat /\ T # {}
  BY DdbConstants DEF Record
<1>2. IsWellFoundedOn(D, Nat)
  BY NatLessThanWellFounded
<1>3. PICK x \in T : \A y \in T : ~(<<y, x>> \in D)
  <2> HIDE DEF T, D
  <2> QED BY <1>1, <1>2, WFMin
<1>4. \A y \in T : ~(y < x)
  BY <1>1, <1>3 DEF OpToRel
<1>5. PICK r \in R : r.serie = x
  OBVIOUS
<1>6. \A q \in R : r.serie <= q.serie
  BY <1>1, <1>4, <1>5 DEF Record
<1> QED
  BY <1>6 DEF NextRec

(* The messages the handlers build are well formed.                        *)
LEMMA MessageTypes ==
    /\ SERVERMsg \in Msg /\ BMsg \in Msg /\ EOFMsg \in Msg
    /\ \A s \in 0..MaxSerie : JMsg(s) \in Msg
    /\ \A m \in SUBSET Server : DMsg(m) \in Msg
    /\ \A R \in SUBSET Record : R # {} => RecMsg(R) \in Msg
BY DdbConstants DEF SERVERMsg, BMsg, EOFMsg, JMsg, DMsg, RecMsg, Message,
       Msg, MsgFields, MsgType

(* Sending and closing keep the queues well formed.                        *)
LEMMA SentType ==
    ASSUME NEW c \in ChanType, NEW n, NEW T, NEW x \in Msg
    PROVE  Sent(c, n, T, x) \in ChanType
BY DEF Sent, ChanType

(* Closing links keeps the queues well formed.                             *)
LEMMA ClosedType ==
    ASSUME NEW c \in ChanType, NEW n, NEW T, NEW b
    PROVE  Closed(c, n, T, b) \in ChanType
<1> DEFINE F(p) == CASE p[1] = n /\ p[2] \in T ->
                            IF n \in est[p[2]]
                            THEN Append(IF b THEN <<>> ELSE c[p], EOFMsg)
                            ELSE <<>>
                     [] p[2] = n /\ p[1] \in T -> <<>>
                     [] OTHER -> c[p]
<1>1. EOFMsg \in Msg
  BY MessageTypes
<1>2. ASSUME NEW p \in Node \X Node PROVE F(p) \in Seq(Msg)
  BY <1>1 DEF ChanType
<1>3. Closed(c, n, T, b) = [p \in Node \X Node |-> F(p)]
  BY DEF Closed
<1> HIDE DEF F
<1> QED
  BY <1>2, <1>3 DEF ChanType

(* The head of a queue is a message and the rest is a queue.               *)
LEMMA HeadType ==
    ASSUME TypeOK, NEW n \in Node, NEW m \in Node, NEW t, Arrives(n, m, t)
    PROVE  /\ Head(chan[<<m, n>>]) \in Msg
           /\ Head(chan[<<m, n>>]).type = t
           /\ Parsed(m, n) \in ChanType
BY DEF TypeOK, Arrives, Parsed, ChanType

-----------------------------------------------------------------------------
(* The three variables of a table.                                         *)
TableType ==
    /\ log \in [Node -> SUBSET Record]
    /\ mem \in [Node -> [Key -> Val]]
    /\ serie \in [Node -> 0..MaxSerie]

(* db_alta and db_pack keep the types and the end of the file.             *)
LEMMA ApplyTable ==
    ASSUME TableType, FileEndsAtSerie, NEW n \in Node, NEW r \in Record,
           r.serie > serie[n], Apply(n, r)
    PROVE  TableType' /\ FileEndsAtSerie'
<1> DEFINE L == LogAfter(n, log[n], mem[n], r)
<1>1. r \in L /\ L \subseteq log[n] \cup {r}
  BY DEF LogAfter, Packed
<1>2. log' = [log EXCEPT ![n] = L]
  BY DEF Apply
<1> HIDE DEF L
<1>3. log' \in [Node -> SUBSET Record]
  BY <1>1, <1>2 DEF TableType
<1>4. serie' \in [Node -> 0..MaxSerie] /\ serie'[n] = r.serie
  BY DdbConstants DEF TableType, Apply, Record
<1>5. mem' \in [Node -> [Key -> Val]]
  BY DEF TableType, Apply, MemAfter, Record
<1>6. ASSUME NEW k \in Node
      PROVE  /\ \A q \in log'[k] : q.serie <= serie'[k]
             /\ serie'[k] # 0 => \E q \in log'[k] : q.serie = serie'[k]
             /\ \A p, q \in log'[k] : p.serie = q.serie => p = q
  <2>1. CASE k # n
    BY <2>1, <1>2 DEF TableType, FileEndsAtSerie, Apply
  <2>2. CASE k = n
    <3>1. log'[n] = L /\ serie'[n] = r.serie
      BY <1>2, <1>4 DEF TableType
    <3>2. \A q \in log[n] : q.serie < r.serie /\ q.serie \in Nat
      BY DdbConstants DEF TableType, FileEndsAtSerie, Record
    <3>3. \A p, q \in log[n] : p.serie = q.serie => p = q
      BY DEF FileEndsAtSerie
    <3>4. r.serie \in Nat
      BY DdbConstants DEF Record
    <3> QED
      BY <1>1, <2>2, <3>1, <3>2, <3>3, <3>4
  <2> QED
    BY <2>1, <2>2
<1> QED
  BY <1>3, <1>4, <1>5, <1>6 DEF TableType, FileEndsAtSerie

(* borrar_db leaves an empty file, an empty memory and serial 0.           *)
LEMMA WipeTable ==
    ASSUME TableType, FileEndsAtSerie, NEW n \in Node, Wipe(n)
    PROVE  TableType' /\ FileEndsAtSerie'
<1>1. EmptyTable \in [Key -> Val]
  BY DEF EmptyTable, Val
<1>2. TableType'
  BY <1>1, DdbConstants DEF TableType, Wipe
<1>3. ASSUME NEW k \in Node
      PROVE  /\ \A q \in log'[k] : q.serie <= serie'[k]
             /\ serie'[k] # 0 => \E q \in log'[k] : q.serie = serie'[k]
             /\ \A p, q \in log'[k] : p.serie = q.serie => p = q
  BY DEF TableType, FileEndsAtSerie, Wipe
<1> QED
  BY <1>2, <1>3 DEF FileEndsAtSerie

(* A handler that leaves the table alone.                                  *)
LEMMA SameTable ==
    ASSUME TableType, FileEndsAtSerie, UNCHANGED <<log, mem, serie>>
    PROVE  TableType' /\ FileEndsAtSerie'
BY DEF TableType, FileEndsAtSerie

(* What initdb2 reads is a table.                                          *)
LEMMA ReplayType ==
    ASSUME NEW n, NEW L \in SUBSET Record
    PROVE  Replay(n, L) \in [Key -> Val]
<1> DEFINE V(k) == IF Resident /\ \E r \in L : IsLatest(r, k, n, L)
                    THEN (CHOOSE r \in L : IsLatest(r, k, n, L)).val
                    ELSE NoValue
<1>1. ASSUME NEW k \in Key PROVE V(k) \in Val
  <2>1. CASE \E r \in L : IsLatest(r, k, n, L)
    <3>1. (CHOOSE r \in L : IsLatest(r, k, n, L)) \in L
      BY <2>1
    <3> QED
      BY <3>1 DEF Record, Val
  <2>2. CASE ~\E r \in L : IsLatest(r, k, n, L)
    BY <2>2 DEF Val
  <2> QED
    BY <2>1, <2>2
<1>2. Replay(n, L) = [k \in Key |-> V(k)]
  BY DEF Replay
<1> HIDE DEF V
<1> QED
  BY <1>1, <1>2

(* A burst that follows a serial below tabla_serie is not empty, whole or  *)
(* cut after BurstMax records.                                             *)
LEMMA BurstNotEmpty ==
    ASSUME TableType, FileEndsAtSerie, NEW n \in Node, NEW s \in 0..MaxSerie,
           s < serie[n]
    PROVE  /\ Burst(n, s) \in SUBSET Record /\ Burst(n, s) # {}
           /\ FirstOf(Burst(n, s), BurstMax) \in SUBSET Record
           /\ FirstOf(Burst(n, s), BurstMax) # {}
<1> DEFINE R == Burst(n, s)
<1>1. R \in SUBSET Record
  BY DEF Burst, TableType
<1>2. R # {}
  <2>1. serie[n] \in 0..MaxSerie /\ serie[n] # 0
    BY DdbConstants DEF TableType
  <2>2. PICK q \in log[n] : q.serie = serie[n]
    BY <2>1 DEF FileEndsAtSerie
  <2> QED
    BY <2>2 DEF Burst
<1>3. PICK r \in R : \A q \in R : r.serie <= q.serie
  <2> HIDE DEF R
  <2> QED BY <1>1, <1>2, NextRecExists
<1>4. {q \in R : q.serie < r.serie} = {}
  <2>1. \A q \in R : q.serie \in Nat
    BY <1>1, DdbConstants DEF Record
  <2> HIDE DEF R
  <2> QED BY <1>3, <2>1
<1>5. Cardinality({q \in R : q.serie < r.serie}) < BurstMax
  <2>1. Cardinality({q \in R : q.serie < r.serie}) = 0
    <3> HIDE DEF R
    <3> QED BY <1>4, FS_EmptySet
  <2>2. BurstMax > 0
    BY DdbConstants
  <2> QED
    BY <2>1, <2>2
<1>6. r \in FirstOf(R, BurstMax) /\ FirstOf(R, BurstMax) \subseteq R
  BY <1>5 DEF FirstOf
<1> QED
  BY <1>1, <1>2, <1>6

-----------------------------------------------------------------------------
(* The inductive invariant and its three facts.                            *)
IInv == TypeOK /\ FileEndsAtSerie

LinkType ==
    /\ tap \in [Node -> SUBSET Node]
    /\ est \in [Node -> SUBSET Node]
    /\ chan \in ChanType
    /\ drops \in 0..MaxDrop
    /\ losses \in 0..MaxLoss

(* The types of the tables and the types of the links.                     *)
LEMMA TypeOKSplit == TypeOK <=> TableType /\ LinkType
BY DEF TypeOK, TableType, LinkType, ChanType

(* At the start all is empty.                                              *)
LEMMA InitIInv == Init => IInv
<1> SUFFICES ASSUME Init PROVE IInv
  OBVIOUS
<1>1. EmptyTable \in [Key -> Val]
  BY DEF EmptyTable, Val
<1>2. TypeOK
  BY <1>1, DdbConstants DEF Init, TypeOK
<1>3. FileEndsAtSerie
  BY DEF Init, FileEndsAtSerie
<1> QED
  BY <1>2, <1>3 DEF IInv

(* The record at the head of a burst and the queue after it is taken.      *)
LEMMA RecTakenType ==
    ASSUME TypeOK, NEW n \in Node, NEW m \in Node, Arrives(n, m, "REC")
    PROVE  /\ NextRec(Head(chan[<<m, n>>]).recs) \in Record
           /\ RecTaken(m, n) \in ChanType
<1> DEFINE R == Head(chan[<<m, n>>]).recs
           rest == R \ {NextRec(R)}
<1>1. R \in SUBSET Record /\ R # {}
  BY HeadType DEF Msg, MsgFields
<1>2. NextRec(R) \in Record
  <2> HIDE DEF R
  <2> QED BY <1>1, NextRecExists
<1>3. ASSUME rest = {} PROVE RecTaken(m, n) \in ChanType
  BY <1>3, HeadType DEF RecTaken
<1>4. ASSUME rest # {} PROVE RecTaken(m, n) \in ChanType
  <2>1. RecMsg(rest) \in Msg
    <3>1. rest \in SUBSET Record
      BY <1>1
    <3> HIDE DEF rest
    <3> QED BY <1>4, <3>1, MessageTypes
  <2>2. Tail(chan[<<m, n>>]) \in Seq(Msg)
    BY DEF Arrives, TypeOK
  <2>3. <<RecMsg(rest)>> \o Tail(chan[<<m, n>>]) \in Seq(Msg)
    <3> HIDE DEF rest
    <3> QED BY <2>1, <2>2
  <2>4. RecTaken(m, n) = [chan EXCEPT ![<<m, n>>] =
                              <<RecMsg(rest)>> \o Tail(@)]
    BY <1>4 DEF RecTaken
  <2> HIDE DEF rest
  <2> QED BY <2>3, <2>4 DEF TypeOK, ChanType
<1> QED
  BY <1>2, <1>3, <1>4

(* The handlers of m_db.                                                   *)
LEMMA DeliverIInv ==
    ASSUME IInv, NEW n \in Node, NEW m \in Node, Deliver(n, m)
    PROVE  IInv'
<1> USE DEF IInv
<1>0. TableType /\ LinkType
  BY TypeOKSplit
<1> SUFFICES TableType' /\ FileEndsAtSerie' /\ LinkType'
  BY TypeOKSplit DEF TypeOK, TableType, LinkType, ChanType
<1>1. CASE RecvSERVER(n, m)
  <2>1. TableType' /\ FileEndsAtSerie'
    BY <1>0, <1>1, SameTable DEF RecvSERVER
  <2>2. <<SERVERMsg, JMsg(serie[n])>> \in Seq(Msg)
    BY <1>0, MessageTypes DEF TableType
  <2>3. chan' \in ChanType
    BY <1>1, <2>2, HeadType DEF RecvSERVER, ChanType
  <2> QED
    BY <1>0, <1>1, <2>1, <2>3 DEF RecvSERVER, LinkType, TapOpened
<1>2. CASE RecvEOF(n, m)
  <2>1. TableType' /\ FileEndsAtSerie'
    BY <1>0, <1>2, SameTable DEF RecvEOF
  <2>2. <<>> \in Seq(Msg)
    OBVIOUS
  <2>3. chan' \in ChanType
    BY <1>0, <1>2, <2>2 DEF RecvEOF, LinkType, ChanType
  <2>4. tap' \in [Node -> SUBSET Node] /\ est' \in [Node -> SUBSET Node]
    BY <1>0, <1>2 DEF RecvEOF, LinkType
  <2> QED
    BY <1>0, <1>2, <2>1, <2>3, <2>4 DEF RecvEOF, LinkType
<1>3. CASE RecvJ(n, m)
  <2> DEFINE s == Head(chan[<<m, n>>]).serie
             R == Burst(n, s)
  <2>1. TableType' /\ FileEndsAtSerie'
    BY <1>0, <1>3, SameTable DEF RecvJ
  <2>2. s \in 0..MaxSerie /\ Parsed(m, n) \in ChanType
    BY <1>3, HeadType DEF RecvJ, Msg, MsgFields
  <2>3. DMsg({m} \cap Server) \in Msg /\ BMsg \in Msg
    BY MessageTypes
  <2>4. s < serie[n] =>
           RecMsg(R) \in Msg /\ RecMsg(FirstOf(R, BurstMax)) \in Msg
    <3> HIDE DEF s
    <3> QED BY <1>0, <2>2, BurstNotEmpty, MessageTypes
  <2>5. chan' \in ChanType
    <3>1. \/ chan' = Parsed(m, n)
          \/ chan' = Sent(Parsed(m, n), n, {m}, DMsg({m} \cap Server))
          \/ s < serie[n] /\ chan' = Sent(Parsed(m, n), n, {m}, RecMsg(R))
          \/ s < serie[n] /\ chan' = Sent(Sent(Parsed(m, n), n, {m},
                                      RecMsg(FirstOf(R, BurstMax))),
                                 n, {m}, BMsg)
      BY <1>3 DEF RecvJ
    <3> HIDE DEF s, R
    <3> QED BY <2>2, <2>3, <2>4, <3>1, SentType
  <2>6. tap' \in [Node -> SUBSET Node]
    BY <1>0, <1>3 DEF RecvJ, LinkType, TapOpened
  <2> QED
    BY <1>0, <1>3, <2>1, <2>5, <2>6 DEF RecvJ, LinkType
<1>4. CASE RecvB(n, m)
  <2>1. TableType' /\ FileEndsAtSerie'
    BY <1>0, <1>4, SameTable DEF RecvB
  <2>2. JMsg(serie[n]) \in Msg
    BY <1>0, MessageTypes DEF TableType
  <2>3. chan' \in ChanType
    BY <1>4, <2>2, HeadType, SentType DEF RecvB
  <2> QED
    BY <1>0, <1>4, <2>1, <2>3 DEF RecvB, LinkType
<1>5. CASE IgnoreD(n, m)
  <2>1. TableType' /\ FileEndsAtSerie'
    BY <1>0, <1>5, SameTable DEF IgnoreD
  <2>2. chan' \in ChanType
    BY <1>5, HeadType DEF IgnoreD
  <2> QED
    BY <1>0, <1>5, <2>1, <2>2 DEF IgnoreD, LinkType
<1>6. CASE RecvD(n, m)
  <2> DEFINE mask == Head(chan[<<m, n>>]).mask
             others == est[n] \ {m}
             relayed == Sent(Parsed(m, n), n, others, DMsg(mask))
             hubs == others \cap Hub[n]
  <2>1. DMsg(mask) \in Msg /\ Parsed(m, n) \in ChanType
    BY <1>6, HeadType, MessageTypes DEF RecvD, Msg, MsgFields
  <2>2. relayed \in ChanType
    <3> HIDE DEF mask
    <3> QED BY <2>1, SentType
  <2>3. JMsg(serie[n]) \in Msg /\ JMsg(0) \in Msg
    BY <1>0, MessageTypes, DdbConstants DEF TableType
  <2>4. CASE n \notin mask
    <3>1. /\ chan' = AskAgain(relayed, n, m, serie[n])
          /\ tap' = [tap EXCEPT ![n] = @ \ others]
          /\ UNCHANGED <<log, mem, serie, est, drops, losses>>
      BY <1>6, <2>4 DEF RecvD
    <3>2. TableType' /\ FileEndsAtSerie'
      BY <1>0, <3>1, SameTable
    <3>3. chan' \in ChanType
      <4> HIDE DEF relayed
      <4> QED BY <2>2, <2>3, <3>1, SentType DEF AskAgain
    <3> QED
      BY <1>0, <3>1, <3>2, <3>3 DEF LinkType
  <2>5. CASE n \in mask
    <3>1. PICK b \in BOOLEAN :
            chan' = AskAgain(Closed(relayed, n, hubs, b), n, m, 0)
      BY <1>6, <2>5 DEF RecvD
    <3>2. /\ Wipe(n)
          /\ est' = [est EXCEPT ![n] = @ \ hubs]
          /\ tap' = [tap EXCEPT ![n] = @ \ others]
          /\ UNCHANGED <<drops, losses>>
      BY <1>6, <2>5 DEF RecvD
    <3>3. TableType' /\ FileEndsAtSerie'
      BY <1>0, <3>2, WipeTable
    <3>4. chan' \in ChanType
      <4> HIDE DEF relayed, hubs
      <4>1. Closed(relayed, n, hubs, b) \in ChanType
        BY <2>2, ClosedType
      <4> QED BY <2>3, <3>1, <4>1, SentType DEF AskAgain
    <3> QED
      BY <1>0, <3>2, <3>3, <3>4 DEF LinkType
  <2> QED
    BY <2>4, <2>5
<1>7. CASE IgnoreRec(n, m)
  <2>1. TableType' /\ FileEndsAtSerie'
    BY <1>0, <1>7, SameTable DEF IgnoreRec
  <2>2. chan' \in ChanType
    BY <1>7, RecTakenType DEF IgnoreRec
  <2> QED
    BY <1>0, <1>7, <2>1, <2>2 DEF IgnoreRec, LinkType
<1>8. CASE RecvRec(n, m)
  <2> DEFINE r == NextRec(Head(chan[<<m, n>>]).recs)
  <2>1. r \in Record /\ RecTaken(m, n) \in ChanType
    BY <1>8, RecTakenType DEF RecvRec
  <2>2. /\ ~Refused(n, m, r)
        /\ chan' = Sent(RecTaken(m, n), n, Listeners(n, m), RecMsg({r}))
        /\ Apply(n, r)
        /\ UNCHANGED <<tap, est, drops, losses>>
    BY <1>8 DEF RecvRec
  <2> HIDE DEF r
  <2>3. r.serie > serie[n]
    BY <1>0, <2>1, <2>2, DdbConstants DEF Refused, TableType, Record
  <2>4. TableType' /\ FileEndsAtSerie'
    BY <1>0, <2>1, <2>2, <2>3, ApplyTable
  <2>5. chan' \in ChanType
    <3>1. RecMsg({r}) \in Msg
      BY <2>1, MessageTypes
    <3> QED BY <2>1, <2>2, <3>1, SentType
  <2> QED
    BY <1>0, <2>2, <2>4, <2>5 DEF LinkType
<1> QED
  BY <1>1, <1>2, <1>3, <1>4, <1>5, <1>6, <1>7, <1>8 DEF Deliver

(* Handshakes, faults and the service.                                     *)
LEMMA EnvironmentIInv ==
    ASSUME IInv, \/ \E p \in Peer : Connect(p[1], p[2])
                 \/ Environment
    PROVE  IInv'
<1> USE DEF IInv
<1>0. TableType /\ LinkType
  BY TypeOKSplit
<1> SUFFICES TableType' /\ FileEndsAtSerie' /\ LinkType'
  BY TypeOKSplit DEF TypeOK, TableType, LinkType, ChanType
<1>1. ASSUME NEW p \in Peer, Connect(p[1], p[2])
      PROVE  TableType' /\ FileEndsAtSerie' /\ LinkType'
  <2>0. p[1] \in Node /\ p[2] \in Node
    BY DdbConstants
  <2>1. TableType' /\ FileEndsAtSerie'
    BY <1>0, <1>1, SameTable DEF Connect
  <2>2. <<SERVERMsg, JMsg(serie[p[1]])>> \in Seq(Msg)
    BY <1>0, <2>0, MessageTypes DEF TableType
  <2>3. chan' \in ChanType
    BY <1>0, <1>1, <2>0, <2>2 DEF Connect, LinkType, ChanType
  <2> QED
    BY <1>0, <1>1, <2>1, <2>3 DEF Connect, LinkType
<1>2. ASSUME NEW r \in Record, ServiceIssue(r)
      PROVE  TableType' /\ FileEndsAtSerie' /\ LinkType'
  <2>1. Service \in Node /\ r.serie > serie[Service]
    BY <1>0, <1>2, DdbConstants DEF ServiceIssue, TableType, Node
  <2>2. TableType' /\ FileEndsAtSerie'
    BY <1>0, <1>2, <2>1, ApplyTable DEF ServiceIssue
  <2>3. RecMsg({r}) \in Msg
    BY MessageTypes
  <2>4. chan' \in ChanType
    BY <1>0, <1>2, <2>3, SentType DEF ServiceIssue, LinkType
  <2> QED
    BY <1>0, <1>2, <2>2, <2>4 DEF ServiceIssue, LinkType
<1>3. ASSUME NEW mask \in DropMask, ServiceDrop(mask)
      PROVE  TableType' /\ FileEndsAtSerie' /\ LinkType'
  <2>1. TableType' /\ FileEndsAtSerie'
    BY <1>0, <1>3, SameTable DEF ServiceDrop
  <2>2. DMsg(mask) \in Msg
    BY MessageTypes, DdbConstants
  <2>3. chan' \in ChanType
    BY <1>0, <1>3, <2>2, SentType DEF ServiceDrop, LinkType
  <2>4. drops' \in 0..MaxDrop
    BY <1>0, <1>3, DdbConstants DEF ServiceDrop, LinkType
  <2>5. tap' \in [Node -> SUBSET Node]
    BY <1>0, <1>3 DEF ServiceDrop, LinkType
  <2> QED
    BY <1>0, <1>3, <2>1, <2>3, <2>4, <2>5 DEF ServiceDrop, LinkType
<1>4. ASSUME NEW n \in Node, NEW m \in Node, LinkLoss(n, m)
      PROVE  TableType' /\ FileEndsAtSerie' /\ LinkType'
  <2>1. TableType' /\ FileEndsAtSerie'
    BY <1>0, <1>4, SameTable DEF LinkLoss
  <2>2. chan' \in ChanType
    BY <1>0, <1>4, ClosedType DEF LinkLoss, LinkType
  <2>3. losses' \in 0..MaxLoss
    BY <1>0, <1>4, DdbConstants DEF LinkLoss, LinkType
  <2>4. tap' \in [Node -> SUBSET Node] /\ est' \in [Node -> SUBSET Node]
    BY <1>0, <1>4 DEF LinkLoss, LinkType
  <2> QED
    BY <1>0, <1>4, <2>1, <2>2, <2>3, <2>4 DEF LinkLoss, LinkType
<1>5. ASSUME NEW n \in Server, Restart(n)
      PROVE  TableType' /\ FileEndsAtSerie' /\ LinkType'
  <2>0. n \in Node
    BY DEF Node
  <2>1. TableType' /\ FileEndsAtSerie'
    <3>1. CASE Wipe(n)
      BY <1>0, <2>0, <3>1, WipeTable
    <3>2. CASE /\ mem' = [mem EXCEPT ![n] = Replay(n, log[n])]
               /\ UNCHANGED <<log, serie>>
      <4>1. Replay(n, log[n]) \in [Key -> Val]
        BY <1>0, <2>0, ReplayType DEF TableType
      <4> QED
        BY <1>0, <3>2, <4>1 DEF TableType, FileEndsAtSerie
    <3> QED
      BY <1>5, <3>1, <3>2 DEF Restart
  <2>2. chan' \in ChanType
    BY <1>0, <1>5, ClosedType DEF Restart, LinkType
  <2>3. losses' \in 0..MaxLoss
    BY <1>0, <1>5, DdbConstants DEF Restart, LinkType
  <2>4. tap' \in [Node -> SUBSET Node] /\ est' \in [Node -> SUBSET Node]
    BY <1>0, <1>5 DEF Restart, LinkType
  <2> QED
    BY <1>0, <1>5, <2>1, <2>2, <2>3, <2>4 DEF Restart, LinkType
<1>6. NewRecord \subseteq Record /\ CheckpointRecord \subseteq Record
  BY DdbConstants DEF NewRecord, CheckpointRecord, Record, Val
<1> QED
  BY <1>1, <1>2, <1>3, <1>4, <1>5, <1>6 DEF Environment

(* Every step keeps the invariant.                                         *)
LEMMA NextIInv == IInv /\ [Next]_vars => IInv'
<1> SUFFICES ASSUME IInv, [Next]_vars PROVE IInv'
  OBVIOUS
<1>1. CASE UNCHANGED vars
  BY <1>1 DEF IInv, TypeOK, FileEndsAtSerie, vars
<1>2. CASE Next
  BY <1>2, DeliverIInv, EnvironmentIInv DEF Next
<1> QED
  BY <1>1, <1>2

(* Type correctness: in particular no handler ever takes a record from an  *)
(* empty burst (J handler, db_die "Problemas intentando enviar BURST").    *)
THEOREM TypeCorrect == Spec => []TypeOK
<1>1. IInv => TypeOK
  BY DEF IInv
<1> QED
  BY InitIInv, NextIInv, <1>1, PTL DEF Spec

(* tabla_serie is the serial of the last line of the file and serials are  *)
(* unique, for every network, table and history.                           *)
THEOREM SerieIsEndOfFile == Spec => []FileEndsAtSerie
<1>1. IInv => FileEndsAtSerie
  BY DEF IInv
<1> QED
  BY InitIInv, NextIInv, <1>1, PTL DEF Spec

-----------------------------------------------------------------------------
(* The memory is what initdb2 would read back from the file.               *)

Distinct(L) == \A p, q \in L : p.serie = q.serie => p = q

(* With distinct serials the last record of a key decides its value.       *)
LEMMA ReplayLatest ==
    ASSUME NEW n, NEW L \in SUBSET Record, Distinct(L), Resident,
           NEW k \in Key, NEW r \in L, IsLatest(r, k, n, L)
    PROVE  Replay(n, L)[k] = r.val
<1>1. ASSUME NEW q \in L, IsLatest(q, k, n, L) PROVE q = r
  <2>1. q.serie <= r.serie /\ r.serie <= q.serie
    BY <1>1 DEF IsLatest
  <2>2. q.serie \in Nat /\ r.serie \in Nat
    BY DdbConstants DEF Record
  <2> QED
    BY <2>1, <2>2 DEF Distinct
<1>2. (CHOOSE q \in L : IsLatest(q, k, n, L)) = r
  BY <1>1
<1> QED
  BY <1>2 DEF Replay

(* Without a record of the key that is for this server it has no value.    *)
LEMMA ReplayNone ==
    ASSUME NEW n, NEW L, NEW k \in Key,
           ~Resident \/ ~\E r \in L : IsLatest(r, k, n, L)
    PROVE  Replay(n, L)[k] = NoValue
BY DEF Replay

(* db_alta: appending a record changes the value of its key only.          *)
LEMMA ReplayAppend ==
    ASSUME NEW n, NEW L \in SUBSET Record, NEW r \in Record,
           Distinct(L), \A q \in L : q.serie < r.serie
    PROVE  Replay(n, L \cup {r}) = MemAfter(n, Replay(n, L), r)
<1> DEFINE M == L \cup {r}
<1>0. \A q \in M : q.serie \in Nat
  BY DdbConstants DEF Record
<1>1. Distinct(M) /\ M \in SUBSET Record
  BY <1>0 DEF Distinct
<1>2. ASSUME NEW k \in Key
      PROVE  Replay(n, M)[k] = MemAfter(n, Replay(n, L), r)[k]
  <2>1. CASE ~Resident
    BY <2>1, ReplayNone DEF MemAfter
  <2>2. CASE Resident /\ ForMe(n, r) /\ r.key = k
    <3>1. \A q \in M : q.serie <= r.serie
      BY <1>0
    <3>2. IsLatest(r, k, n, M)
      BY <2>2, <3>1 DEF IsLatest
    <3>3. Replay(n, M)[k] = r.val
      <4> HIDE DEF M
      <4>1. r \in M
        BY <3>2 DEF IsLatest
      <4> QED BY <1>1, <2>2, <3>2, <4>1, ReplayLatest
    <3>4. MemAfter(n, Replay(n, L), r)[k] = r.val
      BY <2>2 DEF MemAfter, Replay
    <3> QED
      BY <3>3, <3>4
  <2>3. CASE Resident /\ ~(ForMe(n, r) /\ r.key = k)
    <3>1. \A q \in M : IsLatest(q, k, n, M) <=> IsLatest(q, k, n, L)
      BY <2>3 DEF IsLatest
    <3>2. MemAfter(n, Replay(n, L), r)[k] = Replay(n, L)[k]
      BY <2>3 DEF MemAfter, Replay
    <3>3. CASE \E q \in L : IsLatest(q, k, n, L)
      <4>1. PICK q \in L : IsLatest(q, k, n, L)
        BY <3>3
      <4>2. Replay(n, L)[k] = q.val
        BY <2>3, <4>1, ReplayLatest
      <4>3. q \in M /\ IsLatest(q, k, n, M)
        BY <3>1, <4>1
      <4>4. Replay(n, M)[k] = q.val
        <5> HIDE DEF M
        <5> QED BY <1>1, <2>3, <4>3, ReplayLatest
      <4> QED
        BY <3>2, <4>2, <4>4
    <3>4. CASE ~\E q \in L : IsLatest(q, k, n, L)
      <4>1. ~\E q \in M : IsLatest(q, k, n, M)
        BY <3>1, <3>4 DEF IsLatest
      <4>2. Replay(n, M)[k] = NoValue
        <5> HIDE DEF M
        <5> QED BY <4>1, ReplayNone
      <4>3. Replay(n, L)[k] = NoValue
        BY <3>4, ReplayNone
      <4> QED
        BY <3>2, <4>2, <4>3
    <3> QED
      BY <3>3, <3>4
  <2> QED
    BY <2>1, <2>2, <2>3, DdbConstants
<1>3. Replay(n, M) = [k \in Key |-> Replay(n, M)[k]]
  BY DEF Replay
<1>4. MemAfter(n, Replay(n, L), r)
        = [k \in Key |-> MemAfter(n, Replay(n, L), r)[k]]
  BY DEF Replay, MemAfter
<1> HIDE DEF M
<1>5. Replay(n, M) = MemAfter(n, Replay(n, L), r)
  BY <1>2, <1>3, <1>4
<1> QED
  BY <1>5 DEF M

(* db_pack: the lines it keeps give the same table.                        *)
LEMMA ReplayPacked ==
    ASSUME NEW n, NEW L \in SUBSET Record, Distinct(L)
    PROVE  Replay(n, Packed(L, Replay(n, L))) = Replay(n, L)
<1> DEFINE T == Replay(n, L)
           P == Packed(L, T)
<1>0. P \subseteq L
  BY DEF Packed
<1>1. Distinct(P) /\ P \in SUBSET Record
  BY <1>0 DEF Distinct
<1>2. ASSUME NEW k \in Key PROVE Replay(n, P)[k] = T[k]
  <2>1. CASE ~Resident
    BY <2>1 DEF Packed
  <2>2. CASE Resident /\ \E r \in L : IsLatest(r, k, n, L)
    <3>1. PICK r \in L : IsLatest(r, k, n, L)
      BY <2>2
    <3>2. T[k] = r.val
      BY <2>2, <3>1, ReplayLatest
    <3>3. CASE r.val = NoValue
      <4>1. ~\E q \in P : q.key = k
        BY <2>2, <3>2, <3>3 DEF Packed
      <4>2. ~\E q \in P : IsLatest(q, k, n, P)
        BY <4>1 DEF IsLatest
      <4>3. Replay(n, P)[k] = NoValue
        <5> HIDE DEF P
        <5> QED BY <4>2, ReplayNone
      <4> QED
        BY <3>2, <3>3, <4>3
    <3>4. CASE r.val # NoValue
      <4>1. r \in P
        BY <2>2, <3>1, <3>2, <3>4 DEF Packed, IsLatest
      <4>2. IsLatest(r, k, n, P)
        BY <1>0, <3>1, <4>1 DEF IsLatest
      <4>3. Replay(n, P)[k] = r.val
        <5> HIDE DEF P
        <5> QED BY <1>1, <2>2, <4>1, <4>2, ReplayLatest
      <4> QED
        BY <3>2, <4>3
    <3> QED
      BY <3>3, <3>4
  <2>3. CASE Resident /\ ~\E r \in L : IsLatest(r, k, n, L)
    <3>1. T[k] = NoValue
      BY <2>3, ReplayNone
    <3>2. ~\E q \in P : q.key = k
      BY <2>3, <3>1 DEF Packed
    <3>3. ~\E q \in P : IsLatest(q, k, n, P)
      BY <3>2 DEF IsLatest
    <3>4. Replay(n, P)[k] = NoValue
      <4> HIDE DEF P
      <4> QED BY <3>3, ReplayNone
    <3> QED
      BY <3>1, <3>4
  <2> QED
    BY <2>1, <2>2, <2>3, DdbConstants
<1>3. Replay(n, P) = [k \in Key |-> Replay(n, P)[k]]
  BY DEF Replay
<1>4. T = [k \in Key |-> T[k]]
  BY DEF Replay
<1> HIDE DEF P, T
<1>5. Replay(n, P) = T
  BY <1>2, <1>3, <1>4
<1> QED
  BY <1>5 DEF P, T

(* An accepted record keeps file and memory together.                      *)
LEMMA ApplyMem ==
    ASSUME IInv, MemoryIsFile, NEW n \in Node, NEW r \in Record,
           r.serie > serie[n], Apply(n, r)
    PROVE  MemoryIsFile'
<1> DEFINE B == IF r.key = Star /\ n # Service
                THEN Packed(log[n], mem[n]) ELSE log[n]
<1>0. log[n] \in SUBSET Record /\ Distinct(log[n])
  BY DEF IInv, TypeOK, FileEndsAtSerie, Distinct
<1>1. \A q \in log[n] : q.serie < r.serie
  BY <1>0, DdbConstants DEF IInv, TypeOK, FileEndsAtSerie, Record
<1>2. B \subseteq log[n]
  BY DEF Packed
<1>3. B \in SUBSET Record /\ Distinct(B) /\ \A q \in B : q.serie < r.serie
  BY <1>0, <1>1, <1>2 DEF Distinct
<1>4. mem[n] = Replay(n, log[n])
  BY DEF MemoryIsFile
<1>5. Replay(n, B) = mem[n]
  BY <1>0, <1>4, ReplayPacked
<1>6. log'[n] = B \cup {r} /\ mem'[n] = MemAfter(n, mem[n], r)
  BY DEF IInv, TypeOK, Apply, LogAfter
<1>7. mem'[n] = Replay(n, log'[n])
  <2> HIDE DEF B
  <2> QED BY <1>3, <1>5, <1>6, ReplayAppend
<1>8. \A k \in Node : k # n => log'[k] = log[k] /\ mem'[k] = mem[k]
  BY DEF IInv, TypeOK, Apply
<1> QED
  BY <1>7, <1>8 DEF MemoryIsFile

(* A deleted table is empty on disk and in memory.                         *)
LEMMA WipeMem ==
    ASSUME IInv, MemoryIsFile, NEW n \in Node, Wipe(n)
    PROVE  MemoryIsFile'
<1>1. Replay(n, {}) = EmptyTable
  BY DEF Replay, EmptyTable
<1>2. log'[n] = {} /\ mem'[n] = EmptyTable
  BY DEF IInv, TypeOK, Wipe
<1>3. \A k \in Node : k # n => log'[k] = log[k] /\ mem'[k] = mem[k]
  BY DEF IInv, TypeOK, Wipe
<1> QED
  BY <1>1, <1>2, <1>3 DEF MemoryIsFile

(* Every step keeps the memory in agreement with the file.                 *)
LEMMA NextMem ==
    ASSUME IInv, MemoryIsFile, [Next]_vars
    PROVE  MemoryIsFile'
<1>1. ASSUME UNCHANGED <<log, mem>> PROVE MemoryIsFile'
  BY <1>1 DEF MemoryIsFile
<1>2. ASSUME NEW p \in Peer, Connect(p[1], p[2]) PROVE MemoryIsFile'
  BY <1>1, <1>2 DEF Connect
<1>3. ASSUME NEW n \in Node, NEW m \in Node, Deliver(n, m)
      PROVE  MemoryIsFile'
  <2>1. CASE \/ RecvSERVER(n, m) \/ RecvEOF(n, m) \/ RecvJ(n, m)
             \/ RecvB(n, m) \/ IgnoreD(n, m) \/ IgnoreRec(n, m)
    BY <1>1, <2>1 DEF RecvSERVER, RecvEOF, RecvJ, RecvB, IgnoreD, IgnoreRec
  <2>2. CASE RecvD(n, m)
    BY <1>1, <2>2, WipeMem DEF RecvD
  <2>3. CASE RecvRec(n, m)
    <3> DEFINE r == NextRec(Head(chan[<<m, n>>]).recs)
    <3>1. r \in Record
      BY <2>3, RecTakenType DEF RecvRec, IInv
    <3>2. ~Refused(n, m, r) /\ Apply(n, r)
      BY <2>3 DEF RecvRec
    <3> HIDE DEF r
    <3>3. r.serie > serie[n]
      BY <3>1, <3>2, DdbConstants DEF Refused, IInv, TypeOK, Record
    <3> QED
      BY <3>1, <3>2, <3>3, ApplyMem
  <2> QED
    BY <1>3, <2>1, <2>2, <2>3 DEF Deliver
<1>4. ASSUME NEW r \in NewRecord \cup CheckpointRecord, ServiceIssue(r)
      PROVE  MemoryIsFile'
  <2>1. r \in Record
    BY DdbConstants DEF NewRecord, CheckpointRecord, Record, Val
  <2>2. Service \in Node /\ r.serie > serie[Service]
    BY <1>4, DdbConstants DEF ServiceIssue, IInv, TypeOK, Node
  <2> QED
    BY <1>4, <2>1, <2>2, ApplyMem DEF ServiceIssue
<1>5. ASSUME NEW mask \in DropMask, ServiceDrop(mask) PROVE MemoryIsFile'
  BY <1>1, <1>5 DEF ServiceDrop
<1>6. ASSUME NEW n \in Node, NEW m \in Node, LinkLoss(n, m)
      PROVE  MemoryIsFile'
  BY <1>1, <1>6 DEF LinkLoss
<1>7. ASSUME NEW n \in Server, Restart(n) PROVE MemoryIsFile'
  <2>1. n \in Node
    BY DEF Node
  <2>2. CASE Wipe(n)
    BY <2>1, <2>2, WipeMem
  <2>3. CASE /\ mem' = [mem EXCEPT ![n] = Replay(n, log[n])]
             /\ UNCHANGED <<log, serie>>
    BY <2>1, <2>3 DEF MemoryIsFile, IInv, TypeOK
  <2> QED
    BY <1>7, <2>2, <2>3 DEF Restart
<1>8. CASE UNCHANGED vars
  BY <1>1, <1>8 DEF vars
<1> QED
  BY <1>2, <1>3, <1>4, <1>5, <1>6, <1>7, <1>8 DEF Next, Environment

(* A restart changes no answer of the table: the memory is at every moment *)
(* what initdb2 would read back, also after db_pack has rewritten the file.*)
THEOREM RestartIsTransparent == Spec => []MemoryIsFile
<1>1. Init => MemoryIsFile
  BY DEF Init, MemoryIsFile, Replay, EmptyTable
<1>2. IInv /\ MemoryIsFile /\ [Next]_vars => (IInv /\ MemoryIsFile)'
  BY NextIInv, NextMem
<1> QED
  BY <1>1, <1>2, InitIInv, PTL DEF Spec

(***************************************************************************)
(* No table ever has a hole: whatever is cut, lost, packed or asked again, *)
(* a server whose serial is s holds every live record up to s.  For every  *)
(* tree of servers, table, burst size and number of losses, when the       *)
(* service deletes no table and writes for all servers (a record for some  *)
(* is dropped by the pack of a hub it is not meant for, before the others  *)
(* have it).                                                               *)
(*                                                                         *)
(* The argument.  LinkInv: a link carries its SERVER first, and at any     *)
(* moment its question is in one place only: J on its way, B on its way    *)
(* back, or the tap open.  FlowInv: on a link from a hub nothing overtakes *)
(* a live record, and behind an open tap all that the sender has counted   *)
(* has been sent.  So when a record moves a serial forward every live      *)
(* record below it is in the file (Full).  Live records are those that a   *)
(* pack keeps, and a pack looks at the memory: MemoryIsFile is needed.     *)
(***************************************************************************)

(* Queues.                                                                 *)

\* The records of the i-th message of a queue.
RecsAt(c, i) == IF c[i].type = "REC" THEN c[i].recs ELSE {}

Holds(c, t) == \E i \in 1..Len(c) : c[i].type = t
AtMostOne(c, t) == \A i, j \in 1..Len(c) : c[i].type = t /\ c[j].type = t => i = j

\* q has been counted by a receiver at serial s, or is among the first j
\* messages on the way to it.
Comes(c, s, j, q) == q.serie <= s \/ \E i \in 1..j : q \in RecsAt(c, i)

\* Nothing on the way overtakes a record of L.
Ordered(c, s, L) ==
    \A j \in 1..Len(c) : \A r \in RecsAt(c, j) : \A q \in L :
        q.serie < r.serie => Comes(c, s, j, q)

\* All records of L up to serial t have been counted or are on the way.
CaughtUp(c, s, t, L) == \A q \in L : q.serie <= t => Comes(c, s, Len(c), q)

\* What a sender at serial s has said of itself and passed on.
Honest(c, s) ==
    \A i \in 1..Len(c) : /\ c[i].type = "J" => c[i].serie <= s
                         /\ \A r \in RecsAt(c, i) : r.serie <= s

\* All records on the way are in S.
Within(c, S) == \A i \in 1..Len(c) : RecsAt(c, i) \subseteq S

Queue == Seq(Msg)

(* A queue without messages.                                               *)
LEMMA EmptyQueue ==
    /\ <<>> \in Queue
    /\ \A t : ~Holds(<<>>, t) /\ AtMostOne(<<>>, t)
    /\ \A s : Honest(<<>>, s)
    /\ \A S : Within(<<>>, S)
    /\ \A s, L : Ordered(<<>>, s, L)
BY DEF Queue, Holds, AtMostOne, Honest, Within, Ordered

(* The messages after the first.                                           *)
LEMMA TailQueue ==
    ASSUME NEW c \in Queue, c # <<>>
    PROVE  /\ Tail(c) \in Queue /\ Len(Tail(c)) = Len(c) - 1
           /\ Len(c) \in Nat /\ Len(c) >= 1 /\ Head(c) = c[1] /\ c[1] \in Msg
           /\ \A i \in 1..Len(Tail(c)) : i + 1 \in 1..Len(c) /\ Tail(c)[i] = c[i + 1]
           /\ \A i \in 1..Len(c) : i # 1 => i - 1 \in 1..Len(Tail(c)) /\ Tail(c)[i - 1] = c[i]
<1>1. /\ Tail(c) \in Queue /\ Len(Tail(c)) = Len(c) - 1
      /\ Len(c) \in Nat /\ Len(c) >= 1 /\ Head(c) = c[1] /\ c[1] \in Msg
  BY DEF Queue
<1>2. \A i \in 1..Len(Tail(c)) : i + 1 \in 1..Len(c) /\ Tail(c)[i] = c[i + 1]
  BY <1>1 DEF Queue
<1>3. \A i \in 1..Len(c) : i # 1 => i - 1 \in 1..Len(Tail(c)) /\ Tail(c)[i - 1] = c[i]
  BY <1>1, <1>2
<1> QED
  BY <1>1, <1>2, <1>3

(* What kinds of message are left when the head is taken.                  *)
LEMMA TailKinds ==
    ASSUME NEW c \in Queue, c # <<>>, NEW t
    PROVE  /\ Holds(Tail(c), t) => Holds(c, t)
           /\ Head(c).type # t => (Holds(c, t) <=> Holds(Tail(c), t))
           /\ AtMostOne(c, t) => AtMostOne(Tail(c), t)
           /\ AtMostOne(c, t) /\ Head(c).type = t => ~Holds(Tail(c), t)
<1> DEFINE d == Tail(c)
<1>1. /\ d \in Queue /\ Len(d) = Len(c) - 1
      /\ Len(c) \in Nat /\ Len(c) >= 1 /\ Head(c) = c[1]
      /\ \A i \in 1..Len(d) : i + 1 \in 1..Len(c) /\ d[i] = c[i + 1]
      /\ \A i \in 1..Len(c) : i # 1 => i - 1 \in 1..Len(d) /\ d[i - 1] = c[i]
  BY TailQueue
<1> HIDE DEF d
<1>2. Holds(d, t) => Holds(c, t)
  BY <1>1 DEF Holds
<1>3. Head(c).type # t /\ Holds(c, t) => Holds(d, t)
  BY <1>1 DEF Holds
<1>4. AtMostOne(c, t) => AtMostOne(d, t)
  <2> SUFFICES ASSUME AtMostOne(c, t), NEW i \in 1..Len(d), NEW j \in 1..Len(d),
                      d[i].type = t, d[j].type = t
               PROVE  i = j
    BY DEF AtMostOne
  <2>1. i + 1 = j + 1
    BY <1>1 DEF AtMostOne
  <2> QED BY <1>1, <2>1
<1>5. ASSUME AtMostOne(c, t), Head(c).type = t, NEW i \in 1..Len(d), d[i].type = t PROVE FALSE
  <2>1. i + 1 = 1
    BY <1>1, <1>5 DEF AtMostOne
  <2> QED BY <1>1, <2>1
<1> QED
  BY <1>2, <1>3, <1>4, <1>5 DEF d, Holds

(* Taking a head that is no record disturbs no order.                      *)
LEMMA TailFlow ==
    ASSUME NEW c \in Queue, c # <<>>
    PROVE  /\ \A s : Honest(c, s) => Honest(Tail(c), s)
           /\ \A S : Within(c, S) => Within(Tail(c), S)
           /\ Head(c).type # "REC" =>
                \A s, L : Ordered(c, s, L) => Ordered(Tail(c), s, L)
           /\ Head(c).type # "REC" =>
                \A s, L, u : CaughtUp(c, s, u, L) => CaughtUp(Tail(c), s, u, L)
<1> DEFINE d == Tail(c)
<1>1. /\ d \in Queue /\ Len(d) = Len(c) - 1
      /\ Len(c) \in Nat /\ Len(c) >= 1 /\ Head(c) = c[1]
      /\ \A i \in 1..Len(d) : i + 1 \in 1..Len(c) /\ d[i] = c[i + 1]
      /\ \A i \in 1..Len(c) : i # 1 => i - 1 \in 1..Len(d) /\ d[i - 1] = c[i]
  BY TailQueue
<1> HIDE DEF d
<1>2. \A i \in 1..Len(d) : RecsAt(d, i) = RecsAt(c, i + 1)
  BY <1>1 DEF RecsAt
<1>3. \A s : Honest(c, s) => Honest(d, s)
  BY <1>1, <1>2 DEF Honest
<1>4. \A S : Within(c, S) => Within(d, S)
  BY <1>1, <1>2 DEF Within
<1>5. ASSUME Head(c).type # "REC", NEW s, NEW j \in 0..Len(d), NEW q, Comes(c, s, j + 1, q)
      PROVE  Comes(d, s, j, q)
  <2>1. CASE q.serie <= s
    BY <2>1 DEF Comes
  <2>2. CASE \E i \in 1..(j + 1) : q \in RecsAt(c, i)
    <3>1. PICK i \in 1..(j + 1) : q \in RecsAt(c, i)
      BY <2>2
    <3>2. i # 1
      BY <1>1, <1>5, <3>1 DEF RecsAt
    <3>3. i - 1 \in 1..j /\ i - 1 \in 1..Len(d) /\ (i - 1) + 1 = i
      BY <1>1, <3>1, <3>2
    <3>4. q \in RecsAt(d, i - 1)
      BY <1>2, <3>1, <3>3
    <3> QED BY <3>3, <3>4 DEF Comes
  <2> QED BY <1>5, <2>1, <2>2 DEF Comes
<1>6. ASSUME Head(c).type # "REC", NEW s, NEW L, Ordered(c, s, L) PROVE Ordered(d, s, L)
  <2> SUFFICES ASSUME NEW j \in 1..Len(d), NEW r \in RecsAt(d, j), NEW q \in L,
                      q.serie < r.serie
               PROVE  Comes(d, s, j, q)
    BY DEF Ordered
  <2>1. j + 1 \in 1..Len(c) /\ r \in RecsAt(c, j + 1) /\ j \in 0..Len(d)
    BY <1>1, <1>2
  <2>2. Comes(c, s, j + 1, q)
    BY <1>6, <2>1 DEF Ordered
  <2> QED BY <1>5, <1>6, <2>1, <2>2
<1>7. ASSUME Head(c).type # "REC", NEW s, NEW L, NEW u, CaughtUp(c, s, u, L)
      PROVE  CaughtUp(d, s, u, L)
  <2> SUFFICES ASSUME NEW q \in L, q.serie <= u PROVE Comes(d, s, Len(d), q)
    BY DEF CaughtUp
  <2>1. Len(d) + 1 = Len(c) /\ Len(d) \in 0..Len(d)
    BY <1>1
  <2>2. Comes(c, s, Len(d) + 1, q)
    BY <1>7, <2>1 DEF CaughtUp
  <2> QED BY <1>5, <1>7, <2>1, <2>2
<1> QED
  BY <1>3, <1>4, <1>6, <1>7 DEF d

(* A message at the end of a queue.                                        *)
LEMMA AppendKinds ==
    ASSUME NEW c \in Queue, NEW x \in Msg, NEW t
    PROVE  /\ Append(c, x) \in Queue /\ Append(c, x) # <<>>
           /\ Holds(Append(c, x), t) <=> Holds(c, t) \/ x.type = t
           /\ AtMostOne(c, t) /\ (x.type = t => ~Holds(c, t)) => AtMostOne(Append(c, x), t)
<1> DEFINE d == Append(c, x)
<1>1. /\ d \in Queue /\ d # <<>> /\ Len(d) = Len(c) + 1 /\ Len(c) \in Nat
      /\ \A i \in 1..Len(c) : d[i] = c[i]
      /\ d[Len(c) + 1] = x
  BY DEF Queue
<1> HIDE DEF d
<1>2. Holds(d, t) <=> Holds(c, t) \/ x.type = t
  BY <1>1 DEF Holds
<1>3. ASSUME AtMostOne(c, t), x.type = t => ~Holds(c, t) PROVE AtMostOne(d, t)
  BY <1>1, <1>3 DEF AtMostOne, Holds
<1> QED
  BY <1>1, <1>2, <1>3 DEF d

(* What an appended message has to satisfy for the order to hold.          *)
LEMMA AppendFlow ==
    ASSUME NEW c \in Queue, NEW x \in Msg
    PROVE  /\ \A s : /\ Honest(c, s)
                     /\ x.type = "J" => x.serie <= s
                     /\ x.type = "REC" => \A r \in x.recs : r.serie <= s
                     => Honest(Append(c, x), s)
           /\ \A S : Within(c, S) /\ (x.type = "REC" => x.recs \subseteq S)
                     => Within(Append(c, x), S)
           /\ \A s, L :
                /\ Ordered(c, s, L)
                /\ x.type = "REC" => \A r \in x.recs, q \in L : q.serie < r.serie
                                       => q \in x.recs \/ Comes(c, s, Len(c), q)
                => Ordered(Append(c, x), s, L)
           /\ \A s, L, u :
                (\A q \in L : q.serie <= u =>
                     (x.type = "REC" /\ q \in x.recs) \/ Comes(c, s, Len(c), q))
                => CaughtUp(Append(c, x), s, u, L)
<1> DEFINE d == Append(c, x)
<1>1. /\ d \in Queue /\ Len(d) = Len(c) + 1 /\ Len(c) \in Nat
      /\ \A i \in 1..Len(c) : d[i] = c[i]
      /\ d[Len(c) + 1] = x
  BY DEF Queue
<1> HIDE DEF d
<1>2. /\ \A i \in 1..Len(c) : RecsAt(d, i) = RecsAt(c, i)
      /\ RecsAt(d, Len(d)) = IF x.type = "REC" THEN x.recs ELSE {}
  BY <1>1 DEF RecsAt
<1>3. ASSUME NEW s, Honest(c, s), x.type = "J" => x.serie <= s,
             x.type = "REC" => \A r \in x.recs : r.serie <= s
      PROVE  Honest(d, s)
  BY <1>1, <1>2, <1>3 DEF Honest
<1>4. ASSUME NEW S, Within(c, S), x.type = "REC" => x.recs \subseteq S PROVE Within(d, S)
  BY <1>1, <1>2, <1>4 DEF Within
<1>5. \A s, q : \A j \in 0..Len(c) : Comes(c, s, j, q) <=> Comes(d, s, j, q)
  BY <1>1, <1>2 DEF Comes
<1>6. \A s, q : /\ Comes(c, s, Len(c), q) => Comes(d, s, Len(d), q)
                /\ x.type = "REC" /\ q \in x.recs => Comes(d, s, Len(d), q)
  BY <1>1, <1>2 DEF Comes
<1>7. ASSUME NEW s, NEW L, Ordered(c, s, L),
             x.type = "REC" => \A r \in x.recs, q \in L : q.serie < r.serie
                                  => q \in x.recs \/ Comes(c, s, Len(c), q)
      PROVE  Ordered(d, s, L)
  <2> SUFFICES ASSUME NEW j \in 1..Len(d), NEW r \in RecsAt(d, j), NEW q \in L,
                      q.serie < r.serie
               PROVE  Comes(d, s, j, q)
    BY DEF Ordered
  <2>1. CASE j \in 1..Len(c)
    <3>1. Comes(c, s, j, q)
      BY <1>2, <1>7, <2>1 DEF Ordered
    <3> QED BY <1>1, <1>5, <2>1, <3>1
  <2>2. CASE j = Len(d)
    BY <1>2, <1>6, <1>7, <2>2
  <2> QED BY <1>1, <2>1, <2>2
<1>8. ASSUME NEW s, NEW L, NEW u,
             \A q \in L : q.serie <= u =>
                (x.type = "REC" /\ q \in x.recs) \/ Comes(c, s, Len(c), q)
      PROVE  CaughtUp(d, s, u, L)
  BY <1>6, <1>8 DEF CaughtUp
<1> QED
  BY <1>3, <1>4, <1>7, <1>8 DEF d

(* The next record of the burst at the head is taken.                      *)
Taken(c) ==
    LET R == Head(c).recs
        rest == R \ {NextRec(R)}
    IN  IF rest = {} THEN Tail(c) ELSE <<RecMsg(rest)>> \o Tail(c)

(* Taking a record changes the queue it is taken from only.                *)
LEMMA RecTakenIs ==
    ASSUME TypeOK, NEW m \in Node, NEW n \in Node
    PROVE  RecTaken(m, n) = [chan EXCEPT ![<<m, n>>] = Taken(chan[<<m, n>>])]
BY DEF TypeOK, RecTaken, Taken, Parsed

(* The queue that is left: the head without its first record, or the tail. *)
LEMMA TakenQueue ==
    ASSUME NEW c \in Queue, c # <<>>, Head(c).type = "REC"
    PROVE  LET R == Head(c).recs
               d == Taken(c)
           IN  /\ R \in SUBSET Record /\ NextRec(R) \in R
               /\ \A q \in R : NextRec(R).serie <= q.serie
               /\ \/ d = Tail(c) /\ R = {NextRec(R)}
                  \/ /\ d \in Queue /\ d # <<>> /\ Len(d) = Len(c)
                     /\ d[1].type = "REC" /\ d[1].recs = R \ {NextRec(R)}
                     /\ \A i \in 2..Len(c) : d[i] = c[i]
<1> DEFINE R == Head(c).recs
           rest == R \ {NextRec(R)}
<1>1. R \in SUBSET Record /\ R # {}
  BY TailQueue DEF Msg, MsgFields
<1>2. NextRec(R) \in R /\ \A q \in R : NextRec(R).serie <= q.serie
  BY <1>1, NextRecExists
<1>3. CASE rest = {}
  <2>1. Taken(c) = Tail(c)
    BY <1>3 DEF Taken
  <2> QED BY <1>1, <1>2, <1>3, <2>1
<1>4. CASE rest # {}
  <2>1. RecMsg(rest) \in Msg
    BY <1>1, <1>4, MessageTypes
  <2>2. RecMsg(rest).type = "REC" /\ RecMsg(rest).recs = rest
    BY DEF RecMsg, Message
  <2>3. Taken(c) = <<RecMsg(rest)>> \o Tail(c)
    BY <1>4 DEF Taken
  <2> HIDE DEF rest
  <2> DEFINE x == RecMsg(rest)
             d == <<x>> \o Tail(c)
  <2>4. /\ Tail(c) \in Queue /\ Len(Tail(c)) = Len(c) - 1
        /\ Len(c) \in Nat /\ Len(c) >= 1
        /\ \A i \in 1..Len(c) : i # 1 => i - 1 \in 1..Len(Tail(c)) /\ Tail(c)[i - 1] = c[i]
    BY TailQueue
  <2>5. x \in Msg
    BY <2>1
  <2> HIDE DEF x
  <2>6. /\ d \in Queue /\ Len(d) = 1 + Len(Tail(c)) /\ d[1] = x
        /\ \A i \in 2..Len(d) : d[i] = Tail(c)[i - 1]
    BY <2>4, <2>5 DEF Queue
  <2>7. /\ d \in Queue /\ d # <<>> /\ Len(d) = Len(c) /\ d[1] = x
        /\ \A i \in 2..Len(c) : d[i] = c[i]
    BY <2>4, <2>6
  <2> QED BY <1>1, <1>2, <2>2, <2>3, <2>7 DEF x, rest
<1> QED
  BY <1>3, <1>4

(* Taking a record leaves the control messages alone.                      *)
LEMMA TakenKinds ==
    ASSUME NEW c \in Queue, c # <<>>, Head(c).type = "REC", NEW t, t # "REC"
    PROVE  /\ Taken(c) \in Queue
           /\ Holds(Taken(c), t) <=> Holds(c, t)
           /\ AtMostOne(c, t) => AtMostOne(Taken(c), t)
<1>1. CASE Taken(c) = Tail(c)
  BY <1>1, TailQueue, TailKinds
<1> DEFINE d == Taken(c)
<1>2. CASE /\ d \in Queue /\ Len(d) = Len(c) /\ d[1].type = "REC"
           /\ \A i \in 2..Len(c) : d[i] = c[i]
  <2>1. c[1].type = "REC" /\ Len(c) \in Nat
    BY TailQueue
  <2> HIDE DEF d
  <2>2. \A i \in 1..Len(c) : d[i].type = c[i].type
    BY <1>2, <2>1
  <2>3. Holds(d, t) <=> Holds(c, t)
    BY <1>2, <2>2 DEF Holds
  <2>4. AtMostOne(c, t) => AtMostOne(d, t)
    BY <1>2, <2>2 DEF AtMostOne
  <2> QED BY <1>2, <2>3, <2>4 DEF d
<1> QED
  BY <1>1, <1>2, TakenQueue

(* Taking a record whose serial the receiver now counts keeps the order.   *)
LEMMA TakenFlow ==
    ASSUME NEW c \in Queue, c # <<>>, Head(c).type = "REC"
    PROVE  /\ \A s : Honest(c, s) => Honest(Taken(c), s)
           /\ \A S : Within(c, S) => Within(Taken(c), S)
           /\ \A s \in Nat : \A L : NextRec(Head(c).recs).serie <= s /\ Ordered(c, s, L)
                 => Ordered(Taken(c), s, L)
           /\ \A s \in Nat : \A L, u : NextRec(Head(c).recs).serie <= s /\ CaughtUp(c, s, u, L)
                 => CaughtUp(Taken(c), s, u, L)
<1> DEFINE d == Taken(c)
           R == Head(c).recs
           r0 == NextRec(R)
<1>1. /\ R \in SUBSET Record /\ r0 \in R
      /\ \/ d = Tail(c) /\ R = {r0}
         \/ /\ d \in Queue /\ d # <<>> /\ Len(d) = Len(c)
            /\ d[1].type = "REC" /\ d[1].recs = R \ {r0}
            /\ \A i \in 2..Len(c) : d[i] = c[i]
  BY TakenQueue
<1>2. /\ Len(c) \in Nat /\ Len(c) >= 1 /\ c[1].type = "REC" /\ c[1].recs = R
      /\ RecsAt(c, 1) = R
  BY TailQueue DEF RecsAt
<1>3. CASE d = Tail(c) /\ R = {r0}
  <2>1. /\ Tail(c) \in Queue /\ Len(d) = Len(c) - 1
        /\ \A i \in 1..Len(d) : i + 1 \in 1..Len(c) /\ d[i] = c[i + 1]
        /\ \A i \in 1..Len(c) : i # 1 => i - 1 \in 1..Len(d) /\ d[i - 1] = c[i]
    BY <1>3, TailQueue
  <2> HIDE DEF d, r0, R
  <2>2. \A i \in 1..Len(d) : RecsAt(d, i) = RecsAt(c, i + 1)
    BY <2>1 DEF RecsAt
  <2>3. ASSUME NEW s \in Nat, r0.serie <= s, NEW j \in 0..Len(d), NEW q,
               Comes(c, s, j + 1, q)
        PROVE  Comes(d, s, j, q)
    <3>1. CASE q.serie <= s
      BY <3>1 DEF Comes
    <3>2. CASE \E i \in 1..(j + 1) : q \in RecsAt(c, i)
      <4>1. PICK i \in 1..(j + 1) : q \in RecsAt(c, i)
        BY <3>2
      <4>2. CASE i = 1
        BY <1>2, <1>3, <2>3, <4>1, <4>2 DEF Comes
      <4>3. CASE i # 1
        <5>1. i - 1 \in 1..j /\ i - 1 \in 1..Len(d) /\ (i - 1) + 1 = i
          BY <2>1, <4>1, <4>3
        <5>2. q \in RecsAt(d, i - 1)
          BY <2>2, <4>1, <5>1
        <5> QED BY <5>1, <5>2 DEF Comes
      <4> QED BY <4>2, <4>3
    <3> QED BY <2>3, <3>1, <3>2 DEF Comes
  <2>4. ASSUME NEW s \in Nat, r0.serie <= s, NEW L, Ordered(c, s, L) PROVE Ordered(d, s, L)
    <3> SUFFICES ASSUME NEW j \in 1..Len(d), NEW r \in RecsAt(d, j), NEW q \in L,
                        q.serie < r.serie
                 PROVE  Comes(d, s, j, q)
      BY DEF Ordered
    <3>1. j + 1 \in 1..Len(c) /\ r \in RecsAt(c, j + 1) /\ j \in 0..Len(d)
      BY <2>1, <2>2
    <3>2. Comes(c, s, j + 1, q)
      BY <2>4, <3>1 DEF Ordered
    <3> QED BY <2>3, <2>4, <3>1, <3>2
  <2>5. ASSUME NEW s \in Nat, r0.serie <= s, NEW L, NEW u, CaughtUp(c, s, u, L)
        PROVE  CaughtUp(d, s, u, L)
    <3> SUFFICES ASSUME NEW q \in L, q.serie <= u PROVE Comes(d, s, Len(d), q)
      BY DEF CaughtUp
    <3>1. Len(d) + 1 = Len(c) /\ Len(d) \in 0..Len(d)
      BY <1>2, <2>1
    <3>2. Comes(c, s, Len(d) + 1, q)
      BY <2>5, <3>1 DEF CaughtUp
    <3> QED BY <2>3, <2>5, <3>1, <3>2
  <2>6. /\ \A s : Honest(c, s) => Honest(d, s)
        /\ \A S : Within(c, S) => Within(d, S)
    BY <1>3, TailFlow
  <2> QED BY <2>4, <2>5, <2>6 DEF d, r0, R
<1>4. CASE /\ d \in Queue /\ d # <<>> /\ Len(d) = Len(c)
           /\ d[1].type = "REC" /\ d[1].recs = R \ {r0}
           /\ \A i \in 2..Len(c) : d[i] = c[i]
  <2> HIDE DEF d, r0, R
  <2>1. /\ RecsAt(d, 1) = R \ {r0}
        /\ \A i \in 2..Len(c) : RecsAt(d, i) = RecsAt(c, i)
        /\ \A i \in 1..Len(c) : RecsAt(d, i) \subseteq RecsAt(c, i)
    BY <1>2, <1>4 DEF RecsAt
  <2>2. \A s : Honest(c, s) => Honest(d, s)
    BY <1>2, <1>4, <2>1 DEF Honest
  <2>3. \A S : Within(c, S) => Within(d, S)
    BY <1>4, <2>1 DEF Within
  <2>4. ASSUME NEW s \in Nat, r0.serie <= s, NEW j \in 1..Len(c), NEW q, Comes(c, s, j, q)
        PROVE  Comes(d, s, j, q)
    <3>1. CASE q.serie <= s
      BY <3>1 DEF Comes
    <3>2. CASE \E i \in 1..j : q \in RecsAt(c, i)
      <4>1. PICK i \in 1..j : q \in RecsAt(c, i)
        BY <3>2
      <4>2. CASE q = r0
        BY <2>4, <4>2 DEF Comes
      <4>3. CASE q # r0
        <5>1. i \in 1..Len(c)
          BY <1>2, <4>1
        <5>2. q \in RecsAt(d, i)
          BY <1>2, <2>1, <4>1, <4>3, <5>1
        <5> QED BY <4>1, <5>2 DEF Comes
      <4> QED BY <4>2, <4>3
    <3> QED BY <2>4, <3>1, <3>2 DEF Comes
  <2>5. ASSUME NEW s \in Nat, r0.serie <= s, NEW L, Ordered(c, s, L) PROVE Ordered(d, s, L)
    <3> SUFFICES ASSUME NEW j \in 1..Len(d), NEW r \in RecsAt(d, j), NEW q \in L,
                        q.serie < r.serie
                 PROVE  Comes(d, s, j, q)
      BY DEF Ordered
    <3>1. j \in 1..Len(c) /\ r \in RecsAt(c, j)
      BY <1>4, <2>1
    <3>2. Comes(c, s, j, q)
      BY <2>5, <3>1 DEF Ordered
    <3> QED BY <2>4, <2>5, <3>1, <3>2
  <2>6. ASSUME NEW s \in Nat, r0.serie <= s, NEW L, NEW u, CaughtUp(c, s, u, L)
        PROVE  CaughtUp(d, s, u, L)
    <3>1. Len(c) \in 1..Len(c)
      BY <1>2
    <3> QED BY <1>4, <2>4, <2>6, <3>1 DEF CaughtUp
  <2> QED BY <2>2, <2>3, <2>5, <2>6 DEF d, r0, R
<1> QED
  BY <1>1, <1>3, <1>4

(* A receiver that advances, and live records that are replaced, leave     *)
(* nothing more to wait for.                                               *)
LEMMA LaterFlow ==
    ASSUME NEW c, NEW s \in Nat, NEW s2 \in Nat, s <= s2, NEW u \in Nat, NEW u2 \in Nat, u2 <= u,
           NEW L, NEW M \in SUBSET L, \A q \in L : q.serie \in Nat
    PROVE  /\ Ordered(c, s, L) => Ordered(c, s2, M)
           /\ CaughtUp(c, s, u, L) => CaughtUp(c, s2, u2, M)
<1>1. \A j : \A q \in L : Comes(c, s, j, q) => Comes(c, s2, j, q)
  BY DEF Comes
<1>2. Ordered(c, s, L) => Ordered(c, s2, M)
  BY <1>1 DEF Ordered
<1>3. CaughtUp(c, s, u, L) => CaughtUp(c, s2, u2, M)
  BY <1>1 DEF CaughtUp
<1> QED
  BY <1>2, <1>3

(* SERVER is the first message or is not there.                            *)
ServerFirst(c) == \A i \in 1..Len(c) : c[i].type = "SERVER" => i = 1

(* SERVER is the first message of a link or is not there.                  *)
LEMMA ServerFirstQueue ==
    ASSUME NEW c \in Queue
    PROVE  /\ ~Holds(c, "SERVER") => ServerFirst(c)
           /\ c # <<>> /\ ServerFirst(c) =>
                /\ ~Holds(Tail(c), "SERVER")
                /\ Head(c).type # "SERVER" => ~Holds(c, "SERVER")
                /\ Holds(c, "SERVER") => Head(c).type = "SERVER"
           /\ \A x \in Msg : ServerFirst(c) /\ x.type # "SERVER" => ServerFirst(Append(c, x))
<1>1. ~Holds(c, "SERVER") => ServerFirst(c)
  BY DEF Holds, ServerFirst
<1>2. ASSUME c # <<>>, ServerFirst(c)
      PROVE  /\ ~Holds(Tail(c), "SERVER")
             /\ Head(c).type # "SERVER" => ~Holds(c, "SERVER")
             /\ Holds(c, "SERVER") => Head(c).type = "SERVER"
  <2> DEFINE d == Tail(c)
  <2>1. /\ Len(d) = Len(c) - 1
        /\ Len(c) \in Nat /\ Len(c) >= 1 /\ Head(c) = c[1]
        /\ \A i \in 1..Len(d) : i + 1 \in 1..Len(c) /\ d[i] = c[i + 1]
    BY <1>2, TailQueue
  <2> HIDE DEF d
  <2>2. ~Holds(d, "SERVER")
    BY <1>2, <2>1 DEF Holds, ServerFirst
  <2>3. Head(c).type # "SERVER" => ~Holds(c, "SERVER")
    BY <1>2, <2>1 DEF Holds, ServerFirst
  <2> QED BY <2>2, <2>3 DEF d
<1>3. ASSUME NEW x \in Msg, ServerFirst(c), x.type # "SERVER" PROVE ServerFirst(Append(c, x))
  <2> DEFINE d == Append(c, x)
  <2>1. /\ Len(d) = Len(c) + 1 /\ Len(c) \in Nat
        /\ \A i \in 1..Len(c) : d[i] = c[i]
        /\ d[Len(c) + 1] = x
    BY DEF Queue
  <2> HIDE DEF d
  <2>2. ServerFirst(d)
    BY <1>3, <2>1 DEF ServerFirst
  <2> QED BY <2>2 DEF d
<1> QED
  BY <1>1, <1>2, <1>3


-----------------------------------------------------------------------------
(* Links.  c is the queue from m to n and d the one back; self: m = n;     *)
(* init: m opens the link; em: n is established at m; en: m is at n;       *)
(* open: n has the tap to m open.                                          *)

\* A link is opened with SERVER and J; nothing follows the end of file; no D
\* is on the way (the service issues none).
ShapeOf(c, d, self, init, em, en) ==
    /\ ServerFirst(c)
    /\ ~Holds(c, "D")
    /\ self => c = <<>>
    /\ Holds(c, "EOF") => ~em /\ ~Holds(d, "SERVER")
    /\ init /\ Holds(c, "SERVER") =>
         d = <<>> /\ Len(c) = 2 /\ c[2].type = "J" /\ ~em /\ ~en

\* Either m asks with J, or n has told it to ask with B, or n has the tap to
\* m open: one of the three, and once.  So a J never finds the tap open.
TokenOf(c, d, open) ==
    /\ AtMostOne(c, "J") /\ AtMostOne(d, "B")
    /\ ~(Holds(c, "J") /\ Holds(d, "B"))
    /\ open => ~Holds(c, "J") /\ ~Holds(d, "B")

Shape(m, n) == ShapeOf(chan[<<m, n>>], chan[<<n, m>>], m = n, <<m, n>> \in Peer,
                       n \in est[m], m \in est[n])
Token(m, n) == TokenOf(chan[<<m, n>>], chan[<<n, m>>], m \in tap[n])

LinkInv == /\ \A m, n \in Node : Shape(m, n) /\ Token(m, n)
           /\ \A n \in Node : tap[n] \subseteq est[n] /\ n \notin est[n]

(* A message to an established peer.                                       *)
LEMMA SendShape ==
    ASSUME NEW c \in Queue, NEW d \in Queue, NEW x \in Msg, NEW init, NEW init2, NEW en,
           x.type \notin {"SERVER", "D", "EOF"},
           ShapeOf(c, d, FALSE, init, TRUE, en),
           ShapeOf(d, c, FALSE, init2, en, TRUE)
    PROVE  /\ ShapeOf(Append(c, x), d, FALSE, init, TRUE, en)
           /\ ShapeOf(d, Append(c, x), FALSE, init2, en, TRUE)
<1>1. \A t : Holds(Append(c, x), t) <=> Holds(c, t) \/ x.type = t
  BY AppendKinds
<1>2. ServerFirst(Append(c, x))
  BY ServerFirstQueue DEF ShapeOf
<1> QED
  BY <1>1, <1>2 DEF ShapeOf

(* The head is taken, whole or in part.                                    *)
LEMMA PopShape ==
    ASSUME NEW c \in Queue, NEW d \in Queue, NEW e \in Queue, NEW em, NEW en, NEW init, NEW init2,
           c # <<>>, Head(c).type # "SERVER",
           \A t : t # "REC" => (Holds(e, t) => Holds(c, t)),
           ShapeOf(c, d, FALSE, init, em, en),
           ShapeOf(d, c, FALSE, init2, en, em)
    PROVE  /\ ShapeOf(e, d, FALSE, init, em, en)
           /\ ShapeOf(d, e, FALSE, init2, en, em)
<1>1. ~Holds(c, "SERVER") /\ ~Holds(e, "SERVER")
  BY ServerFirstQueue DEF ShapeOf
<1>2. ServerFirst(e)
  BY <1>1, ServerFirstQueue
<1> QED
  BY <1>1, <1>2 DEF ShapeOf

(* What a record on the way and its reception leave alone.                 *)
LEMMA SendToken ==
    ASSUME NEW c \in Queue, NEW d \in Queue, NEW x \in Msg, x.type = "REC", NEW o, NEW o2
    PROVE  /\ TokenOf(c, d, o) => TokenOf(Append(c, x), d, o)
           /\ TokenOf(d, c, o2) => TokenOf(d, Append(c, x), o2)
<1>1. \A t : t # "REC" => /\ Holds(Append(c, x), t) <=> Holds(c, t)
                          /\ AtMostOne(c, t) => AtMostOne(Append(c, x), t)
  BY AppendKinds
<1> QED
  BY <1>1 DEF TokenOf

(* Taking the head adds no J and no B.                                     *)
LEMMA PopToken ==
    ASSUME NEW c, NEW d, NEW e, NEW o, NEW o2,
           \A t : t # "REC" => /\ Holds(e, t) => Holds(c, t)
                               /\ AtMostOne(c, t) => AtMostOne(e, t)
    PROVE  /\ TokenOf(c, d, o) => TokenOf(e, d, o)
           /\ TokenOf(d, c, o2) => TokenOf(d, e, o2)
BY DEF TokenOf

(* The queue that is read is the one of an established peer, unless SERVER *)
(* is read; and then it is not empty and neither end has hung up.          *)
LEMMA ReadFrom ==
    ASSUME TypeOK, LinkInv, NEW n \in Node, NEW m \in Node, NEW t, Arrives(n, m, t), t # "SERVER"
    PROVE  /\ m \in est[n] /\ m # n
           /\ chan[<<m, n>>] \in Queue /\ chan[<<n, m>>] \in Queue
           /\ chan[<<m, n>>] # <<>> /\ Head(chan[<<m, n>>]).type = t
           /\ ~Holds(chan[<<n, m>>], "EOF")
<1>1. m \in est[n] /\ m # n
  BY DEF Arrives, LinkInv
<1>2. chan[<<m, n>>] \in Queue /\ chan[<<n, m>>] \in Queue
  BY DEF TypeOK, Queue
<1>3. Shape(n, m)
  BY DEF LinkInv
<1> QED
  BY <1>1, <1>2, <1>3 DEF Arrives, Shape, ShapeOf

(* Queues between other servers.                                           *)
LEMMA SamePair ==
    ASSUME NEW a \in Node, NEW b \in Node, Shape(a, b), Token(a, b),
           chan'[<<a, b>>] = chan[<<a, b>>], chan'[<<b, a>>] = chan[<<b, a>>],
           b \in est'[a] <=> b \in est[a], a \in est'[b] <=> a \in est[b],
           a \in tap'[b] => a \in tap[b]
    PROVE  Shape(a, b)' /\ Token(a, b)'
BY DEF Shape, Token, ShapeOf, TokenOf

(* Records are received, and passed on to established peers.               *)
LEMMA RecordLinks ==
    ASSUME TypeOK, TypeOK', LinkInv, NEW n \in Node, NEW m \in Node,
           IgnoreRec(n, m) \/ RecvRec(n, m)
    PROVE  LinkInv'
<1> DEFINE c == chan[<<m, n>>]
           r == NextRec(Head(c).recs)
<1>1. /\ m \in est[n] /\ m # n /\ c \in Queue /\ chan[<<n, m>>] \in Queue
      /\ c # <<>> /\ Head(c).type = "REC"
  BY ReadFrom DEF IgnoreRec, RecvRec
<1>2. /\ Taken(c) \in Queue
      /\ \A t : t # "REC" => /\ Holds(Taken(c), t) <=> Holds(c, t)
                             /\ AtMostOne(c, t) => AtMostOne(Taken(c), t)
  <2> HIDE DEF c
  <2>1. Tail(c) \in Queue
    BY <1>1, TailQueue
  <2>2. Taken(c) \in Queue
    BY <1>1, <2>1, TakenQueue
  <2> QED BY <1>1, <2>2, TakenKinds
<1>3. RecTaken(m, n) = [chan EXCEPT ![<<m, n>>] = Taken(c)]
  BY RecTakenIs
<1>4. RecMsg({r}) \in Msg /\ RecMsg({r}).type = "REC"
  <2>1. r \in Record
    BY <1>1, TakenQueue
  <2> QED BY <2>1, MessageTypes DEF RecMsg, Message
<1>5. est' = est /\ tap' = tap
  BY DEF IgnoreRec, RecvRec
<1> DEFINE x == RecMsg({r})
<1>6. PICK T \in SUBSET Node : /\ m \notin T /\ T \subseteq est[n]
                               /\ chan' = Sent(RecTaken(m, n), n, T, x)
  <2>1. CASE IgnoreRec(n, m)
    <3>1. chan' = Sent(RecTaken(m, n), n, {}, x)
      <4>1. RecTaken(m, n) \in [Node \X Node -> Seq(Msg)]
        BY <1>2, <1>3 DEF TypeOK, Queue
      <4> QED BY <2>1, <4>1 DEF IgnoreRec, Sent
    <3> QED BY <3>1
  <2>2. CASE RecvRec(n, m)
    BY <2>2 DEF RecvRec, Listeners, TypeOK
  <2> QED BY <2>1, <2>2
<1> HIDE DEF r, x
<1>7. /\ chan'[<<m, n>>] = Taken(c) /\ chan'[<<n, m>>] = chan[<<n, m>>]
      /\ \A b \in T : chan'[<<n, b>>] = Append(chan[<<n, b>>], x) /\ chan'[<<b, n>>] = chan[<<b, n>>]
      /\ \A a, b \in Node : <<a, b>> # <<m, n>> /\ ~(a = n /\ b \in T)
                              => chan'[<<a, b>>] = chan[<<a, b>>]
  <2>1. \A a, b \in Node : chan'[<<a, b>>] = IF a = n /\ b \in T THEN Append(RecTaken(m, n)[<<a, b>>], x)
                                             ELSE RecTaken(m, n)[<<a, b>>]
    BY <1>6 DEF Sent
  <2>2. \A a, b \in Node : RecTaken(m, n)[<<a, b>>] = IF a = m /\ b = n THEN Taken(c) ELSE chan[<<a, b>>]
    BY <1>3 DEF TypeOK
  <2>3. n \notin T
    BY <1>6 DEF LinkInv
  <2>4. chan'[<<m, n>>] = Taken(c) /\ chan'[<<n, m>>] = chan[<<n, m>>]
    BY <1>1, <1>6, <2>1, <2>2
  <2>5. ASSUME NEW b \in T
        PROVE  chan'[<<n, b>>] = Append(chan[<<n, b>>], x) /\ chan'[<<b, n>>] = chan[<<b, n>>]
    <3>1. b \in Node /\ b # n /\ b # m
      BY <1>6, <2>3
    <3> QED BY <1>1, <2>1, <2>2, <3>1
  <2>6. ASSUME NEW a \in Node, NEW b \in Node, <<a, b>> # <<m, n>>, ~(a = n /\ b \in T)
        PROVE  chan'[<<a, b>>] = chan[<<a, b>>]
    BY <2>1, <2>2, <2>6
  <2> QED BY <2>4, <2>5, <2>6
<1>8. ASSUME NEW a \in Node, NEW b \in Node PROVE Shape(a, b)' /\ Token(a, b)'
  <2>1. Shape(a, b) /\ Token(a, b) /\ Shape(b, a) /\ Token(b, a) /\ n \notin est[n]
        /\ chan[<<a, b>>] \in Queue /\ chan[<<b, a>>] \in Queue
    BY DEF LinkInv, TypeOK, Queue
  <2>2. CASE (a = m /\ b = n) \/ (a = n /\ b = m)
    <3>1. Shape(m, n) /\ Shape(n, m) /\ Token(m, n) /\ Token(n, m)
      BY DEF LinkInv
    <3>2. Shape(m, n)' /\ Shape(n, m)'
      <4> DEFINE d == chan[<<n, m>>]
                 e == Taken(c)
      <4>1. \A t : t # "REC" => (Holds(e, t) => Holds(c, t))
        BY <1>2
      <4>2. /\ ShapeOf(c, d, FALSE, <<m, n>> \in Peer, n \in est[m], m \in est[n])
            /\ ShapeOf(d, c, FALSE, <<n, m>> \in Peer, m \in est[n], n \in est[m])
        BY <1>1, <3>1 DEF Shape
      <4>3. /\ c \in Queue /\ d \in Queue /\ e \in Queue
            /\ c # <<>> /\ Head(c).type # "SERVER"
        BY <1>1, <1>2
      <4>4. chan'[<<m, n>>] = e /\ chan'[<<n, m>>] = d
        BY <1>7
      <4> HIDE DEF c, d, e
      <4>5. /\ ShapeOf(e, d, FALSE, <<m, n>> \in Peer, n \in est[m], m \in est[n])
            /\ ShapeOf(d, e, FALSE, <<n, m>> \in Peer, m \in est[n], n \in est[m])
        BY <4>1, <4>2, <4>3, PopShape
      <4> QED BY <1>1, <1>5, <4>4, <4>5 DEF Shape
    <3>3. Token(m, n)' /\ Token(n, m)'
      BY <1>2, <1>5, <1>7, <3>1, PopToken DEF Token
    <3> QED BY <2>2, <3>2, <3>3
  <2>3. CASE (a = n /\ b \in T) \/ (b = n /\ a \in T)
    <3>1. PICK k \in T : (a = n /\ b = k) \/ (b = n /\ a = k)
      BY <2>3
    <3>2. k \in est[n] /\ k # n /\ k # m
      BY <1>6, <2>1, <3>1
    <3>3. Shape(k, n) /\ Shape(n, k) /\ Token(k, n) /\ Token(n, k)
          /\ chan[<<k, n>>] \in Queue /\ chan[<<n, k>>] \in Queue
      BY DEF LinkInv, TypeOK, Queue
    <3>4. Shape(n, k)' /\ Shape(k, n)'
      BY <1>4, <1>5, <1>7, <3>2, <3>3, SendShape DEF Shape, x
    <3>5. Token(n, k)' /\ Token(k, n)'
      BY <1>4, <1>5, <1>7, <3>3, SendToken DEF Token, x
    <3> QED BY <3>1, <3>4, <3>5
  <2>4. CASE /\ ~((a = m /\ b = n) \/ (a = n /\ b = m))
             /\ ~((a = n /\ b \in T) \/ (b = n /\ a \in T))
    <3>1. chan'[<<a, b>>] = chan[<<a, b>>] /\ chan'[<<b, a>>] = chan[<<b, a>>]
      BY <1>7, <2>4
    <3> QED BY <1>5, <2>1, <3>1, SamePair
  <2> QED BY <2>2, <2>3, <2>4
<1> QED
  BY <1>5, <1>8 DEF LinkInv


(* The service's own records.                                              *)
LEMMA IssueLinks ==
    ASSUME TypeOK, LinkInv, NEW r \in Record, ServiceIssue(r)
    PROVE  LinkInv'
<1> DEFINE n == Service
           T == est[n] \cap tap[n]
           x == RecMsg({r})
<1>1. x \in Msg /\ x.type = "REC"
  BY MessageTypes DEF RecMsg, Message
<1>2. n \in Node /\ n \notin T /\ T \subseteq Node /\ T \subseteq est[n]
  BY DEF Node, LinkInv, TypeOK
<1>3. est' = est /\ tap' = tap /\ chan' = Sent(chan, n, T, x)
  BY DEF ServiceIssue
<1> HIDE DEF n, T, x
<1>4. \A a, b \in Node : chan'[<<a, b>>] = IF a = n /\ b \in T THEN Append(chan[<<a, b>>], x)
                                           ELSE chan[<<a, b>>]
  BY <1>3 DEF Sent
<1>5. ASSUME NEW a \in Node, NEW b \in Node PROVE Shape(a, b)' /\ Token(a, b)'
  <2>1. CASE (a = n /\ b \in T) \/ (b = n /\ a \in T)
    <3>1. PICK k \in T : (a = n /\ b = k) \/ (b = n /\ a = k)
      BY <2>1
    <3>2. k \in est[n] /\ k # n /\ k \in Node
      BY <1>2, <3>1
    <3>3. /\ Shape(k, n) /\ Shape(n, k) /\ Token(k, n) /\ Token(n, k)
          /\ chan[<<k, n>>] \in Queue /\ chan[<<n, k>>] \in Queue
      BY <1>2, <3>2 DEF LinkInv, TypeOK, Queue
    <3>4. chan'[<<n, k>>] = Append(chan[<<n, k>>], x) /\ chan'[<<k, n>>] = chan[<<k, n>>]
      BY <1>2, <1>4, <3>1, <3>2
    <3>5. Shape(n, k)' /\ Shape(k, n)'
      BY <1>1, <1>3, <3>2, <3>3, <3>4, SendShape DEF Shape
    <3>6. Token(n, k)' /\ Token(k, n)'
      BY <1>1, <1>3, <3>3, <3>4, SendToken DEF Token
    <3> QED BY <3>1, <3>5, <3>6
  <2>2. CASE ~((a = n /\ b \in T) \/ (b = n /\ a \in T))
    <3>1. Shape(a, b) /\ Token(a, b)
      BY DEF LinkInv
    <3>2. chan'[<<a, b>>] = chan[<<a, b>>] /\ chan'[<<b, a>>] = chan[<<b, a>>]
      BY <1>4, <2>2
    <3> QED BY <1>3, <3>1, <3>2, SamePair
  <2> QED BY <2>1, <2>2
<1> QED
  BY <1>3, <1>5 DEF LinkInv

(* What RecvJ does to its link: the question is taken and, back to m, goes *)
(* nothing, a burst, or a burst and B; D cannot happen.                    *)
Answered(n, m) ==
    LET c == chan[<<m, n>>]
        d == chan[<<n, m>>]
        s == Head(c).serie
        R == Burst(n, s)
        F == FirstOf(R, BurstMax)
    IN  /\ chan' = [chan EXCEPT ![<<m, n>>] = Tail(c), ![<<n, m>>] = chan'[<<n, m>>]]
        /\ \/ /\ s >= serie[n] /\ tap' = TapOpened(n, m) /\ chan'[<<n, m>>] = d
           \/ /\ s < serie[n] /\ tap' = TapOpened(n, m)
              /\ chan'[<<n, m>>] = Append(d, RecMsg(R))
           \/ /\ s < serie[n] /\ m \notin tap[n] /\ tap' = tap
              /\ chan'[<<n, m>>] = Append(Append(d, RecMsg(F)), BMsg)

(* The handler of J, seen from the link: the four answers.                 *)
LEMMA RecvJAnswered ==
    ASSUME TypeOK, LinkInv, NEW n \in Node, NEW m \in Node, RecvJ(n, m)
    PROVE  Answered(n, m)
<1> DEFINE c == chan[<<m, n>>]
           d == chan[<<n, m>>]
           s == Head(c).serie
           R == Burst(n, s)
           F == FirstOf(R, BurstMax)
<1>1. /\ m # n /\ c \in Queue /\ c # <<>> /\ Head(c).type = "J"
  BY ReadFrom DEF RecvJ
<1>2. m \notin tap[n]
  <2>1. Token(m, n)
    BY DEF LinkInv
  <2>2. Holds(c, "J")
    BY <1>1, TailQueue DEF Holds
  <2> QED BY <2>1, <2>2 DEF Token, TokenOf
<1>3. \A a, b \in Node : Parsed(m, n)[<<a, b>>] = IF a = m /\ b = n THEN Tail(c) ELSE chan[<<a, b>>]
  BY DEF Parsed, TypeOK
<1>4. chan \in [Node \X Node -> Queue] /\ Parsed(m, n) = [chan EXCEPT ![<<m, n>>] = Tail(c)]
  BY DEF TypeOK, Queue, Parsed
<1>5. Parsed(m, n)[<<n, m>>] = d
  BY <1>1, <1>3
<1>6. ASSUME NEW x
      PROVE  Sent(Parsed(m, n), n, {m}, x)
             = [chan EXCEPT ![<<m, n>>] = Tail(c), ![<<n, m>>] = Append(d, x)]
  <2> DEFINE g == [chan EXCEPT ![<<m, n>>] = Tail(c), ![<<n, m>>] = Append(d, x)]
             f == Sent(Parsed(m, n), n, {m}, x)
  <2>1. ASSUME NEW p \in Node \X Node PROVE f[p] = g[p]
    <3>1. PICK a \in Node, b \in Node : p = <<a, b>>
      OBVIOUS
    <3>2. f[p] = IF a = n /\ b = m THEN Append(Parsed(m, n)[p], x) ELSE Parsed(m, n)[p]
      BY <3>1 DEF Sent
    <3>3. g[p] = IF a = n /\ b = m THEN Append(d, x)
                 ELSE IF a = m /\ b = n THEN Tail(c) ELSE chan[p]
      BY <1>4, <3>1
    <3> QED BY <1>3, <1>5, <3>1, <3>2, <3>3
  <2>2. f = [p \in Node \X Node |-> f[p]] /\ g = [p \in Node \X Node |-> g[p]]
    BY <1>4 DEF Sent
  <2> HIDE DEF f, g
  <2>3. f = g
    BY <2>1, <2>2
  <2> QED BY <2>3 DEF f, g
<1>7. ASSUME NEW x, NEW y
      PROVE  Sent(Sent(Parsed(m, n), n, {m}, x), n, {m}, y)
             = [chan EXCEPT ![<<m, n>>] = Tail(c), ![<<n, m>>] = Append(Append(d, x), y)]
  <2> DEFINE g == [chan EXCEPT ![<<m, n>>] = Tail(c), ![<<n, m>>] = Append(Append(d, x), y)]
             h == [chan EXCEPT ![<<m, n>>] = Tail(c), ![<<n, m>>] = Append(d, x)]
             f == Sent(h, n, {m}, y)
  <2>1. ASSUME NEW p \in Node \X Node PROVE f[p] = g[p]
    <3>1. PICK a \in Node, b \in Node : p = <<a, b>>
      OBVIOUS
    <3>2. f[p] = IF a = n /\ b = m THEN Append(h[p], y) ELSE h[p]
      BY <3>1 DEF Sent
    <3>3. g[p] = IF a = n /\ b = m THEN Append(Append(d, x), y)
                 ELSE IF a = m /\ b = n THEN Tail(c) ELSE chan[p]
      BY <1>4, <3>1
    <3>4. h[p] = IF a = n /\ b = m THEN Append(d, x)
                 ELSE IF a = m /\ b = n THEN Tail(c) ELSE chan[p]
      BY <1>4, <3>1
    <3> QED BY <3>2, <3>3, <3>4
  <2>2. f = [p \in Node \X Node |-> f[p]] /\ g = [p \in Node \X Node |-> g[p]]
    BY <1>4 DEF Sent
  <2>3. Sent(Parsed(m, n), n, {m}, x) = h
    BY <1>6
  <2>4. Sent(Sent(Parsed(m, n), n, {m}, x), n, {m}, y) = f
    BY <2>3
  <2> HIDE DEF f, g, h
  <2>5. f = g
    BY <2>1, <2>2
  <2> QED BY <2>4, <2>5 DEF g
<1>8. Parsed(m, n) = [chan EXCEPT ![<<m, n>>] = Tail(c), ![<<n, m>>] = d]
  BY <1>1, <1>4
<1>9. <<n, m>> \in Node \X Node
  OBVIOUS
<1> DEFINE E(q) == [chan EXCEPT ![<<m, n>>] = Tail(c), ![<<n, m>>] = q]
<1>10. \A q : E(q)[<<n, m>>] = q
  BY <1>4, <1>9
<1>11. CASE s >= serie[n] /\ tap' = TapOpened(n, m) /\ chan' = Parsed(m, n)
  <2>1. chan' = E(d)
    BY <1>8, <1>11
  <2> HIDE DEF E
  <2>2. chan'[<<n, m>>] = d
    BY <1>10, <2>1
  <2> QED BY <1>11, <2>1, <2>2 DEF Answered, E
<1>12. CASE s < serie[n] /\ tap' = TapOpened(n, m) /\ chan' = Sent(Parsed(m, n), n, {m}, RecMsg(R))
  <2>1. chan' = E(Append(d, RecMsg(R)))
    BY <1>6, <1>12
  <2> HIDE DEF E
  <2>2. chan'[<<n, m>>] = Append(d, RecMsg(R))
    BY <1>10, <2>1
  <2> QED BY <1>12, <2>1, <2>2 DEF Answered, E
<1>13. CASE /\ s < serie[n] /\ m \notin tap[n] /\ tap' = tap
            /\ chan' = Sent(Sent(Parsed(m, n), n, {m}, RecMsg(F)), n, {m}, BMsg)
  <2>1. chan' = E(Append(Append(d, RecMsg(F)), BMsg))
    BY <1>7, <1>13
  <2> HIDE DEF E
  <2>2. chan'[<<n, m>>] = Append(Append(d, RecMsg(F)), BMsg)
    BY <1>10, <2>1
  <2> QED BY <1>13, <2>1, <2>2 DEF Answered, E
<1> QED
  BY <1>2, <1>11, <1>12, <1>13 DEF RecvJ


(* After J is answered the tap is open, or B is on its way, never both.    *)
LEMMA AnswerLinks ==
    ASSUME TypeOK, LinkInv, NEW n \in Node, NEW m \in Node, RecvJ(n, m), TypeOK', FileEndsAtSerie
    PROVE  LinkInv'
<1> DEFINE c == chan[<<m, n>>]
           d == chan[<<n, m>>]
           s == Head(c).serie
           R == Burst(n, s)
           F == FirstOf(R, BurstMax)
           e == chan'[<<n, m>>]
           f == Tail(c)
<1>1. /\ m \in est[n] /\ m # n /\ c \in Queue /\ d \in Queue
      /\ c # <<>> /\ Head(c).type = "J"
  BY ReadFrom DEF RecvJ
<1>2. /\ est' = est
      /\ chan' = [chan EXCEPT ![<<m, n>>] = f, ![<<n, m>>] = e]
  BY RecvJAnswered DEF Answered, RecvJ
<1>3. /\ chan'[<<m, n>>] = f
      /\ \A a, b \in Node : <<a, b>> # <<m, n>> /\ <<a, b>> # <<n, m>>
                             => chan'[<<a, b>>] = chan[<<a, b>>]
  <2> HIDE DEF e, f
  <2> QED BY <1>1, <1>2 DEF TypeOK
<1>4. Shape(m, n) /\ Shape(n, m) /\ Token(m, n) /\ Token(n, m)
  BY DEF LinkInv
<1>5. /\ f \in Queue /\ ~Holds(f, "J")
      /\ \A t : Holds(f, t) => Holds(c, t)
      /\ \A t : AtMostOne(c, t) => AtMostOne(f, t)
  <2>1. AtMostOne(c, "J")
    BY <1>4 DEF Token, TokenOf
  <2> HIDE DEF c
  <2> QED BY <1>1, <2>1, TailQueue, TailKinds
<1>6. ~Holds(d, "B") /\ Holds(c, "J")
  <2>1. Holds(c, "J")
    BY <1>1, TailQueue DEF Holds
  <2> QED BY <1>4, <2>1 DEF Token, TokenOf
<1>7. /\ Head(c).serie \in 0..MaxSerie
      /\ s < serie[n] => /\ RecMsg(R) \in Msg /\ RecMsg(F) \in Msg
                         /\ RecMsg(R).type = "REC" /\ RecMsg(F).type = "REC"
  <2>1. s \in 0..MaxSerie
    BY <1>1, TailQueue DEF Msg, MsgFields
  <2>2. TableType
    BY TypeOKSplit
  <2>3. s < serie[n] => /\ R \in SUBSET Record /\ R # {}
                        /\ F \in SUBSET Record /\ F # {}
    BY <2>1, <2>2, BurstNotEmpty
  <2> HIDE DEF R, F, s
  <2> QED BY <2>1, <2>3, MessageTypes DEF RecMsg, Message, s
<1>8. BMsg \in Msg /\ BMsg.type = "B"
  BY MessageTypes DEF BMsg, Message
<1>9. /\ ShapeOf(f, d, FALSE, <<m, n>> \in Peer, n \in est[m], TRUE)
      /\ ShapeOf(d, f, FALSE, <<n, m>> \in Peer, TRUE, n \in est[m])
  <2>1. /\ ShapeOf(c, d, FALSE, <<m, n>> \in Peer, n \in est[m], TRUE)
        /\ ShapeOf(d, c, FALSE, <<n, m>> \in Peer, TRUE, n \in est[m])
    BY <1>1, <1>4 DEF Shape
  <2>2. Head(c).type # "SERVER"
    BY <1>1
  <2> HIDE DEF c, d, f
  <2> QED BY <1>1, <1>5, <2>1, <2>2, PopShape
<1>10. TokenOf(f, d, m \in tap'[n]) /\ TokenOf(d, f, n \in tap[m])
  BY <1>4, <1>5, <1>6 DEF Token, TokenOf
<1>11. /\ \A k \in Node : k # n => tap'[k] = tap[k]
       /\ tap[n] \subseteq tap'[n] /\ tap'[n] \subseteq tap[n] \cup {m}
  <2>1. tap' = tap \/ tap' = TapOpened(n, m)
    BY RecvJAnswered DEF Answered
  <2> QED BY <2>1 DEF TapOpened, TypeOK
<1>12. /\ Shape(m, n)' /\ Shape(n, m)' /\ Token(m, n)' /\ Token(n, m)'
  <2>1. CASE e = d
    <3> HIDE DEF e, f, d
    <3> QED BY <1>1, <1>2, <1>3, <1>9, <1>10, <1>11, <2>1 DEF Shape, Token, e
  <2>2. ASSUME NEW x \in Msg, x.type = "REC", e = Append(d, x)
        PROVE  /\ Shape(m, n)' /\ Shape(n, m)' /\ Token(m, n)' /\ Token(n, m)'
    <3> HIDE DEF e, f, d
    <3>1. /\ ShapeOf(f, e, FALSE, <<m, n>> \in Peer, n \in est[m], TRUE)
          /\ ShapeOf(e, f, FALSE, <<n, m>> \in Peer, TRUE, n \in est[m])
      BY <1>1, <1>5, <1>9, <2>2, SendShape
    <3>2. TokenOf(f, e, m \in tap'[n]) /\ TokenOf(e, f, n \in tap[m])
      BY <1>1, <1>5, <1>10, <2>2, SendToken
    <3> QED BY <1>1, <1>2, <1>3, <1>11, <3>1, <3>2 DEF Shape, Token, e
  <2>3. ASSUME NEW x \in Msg, x.type = "REC", e = Append(Append(d, x), BMsg), tap' = tap, m \notin tap[n]
        PROVE  /\ Shape(m, n)' /\ Shape(n, m)' /\ Token(m, n)' /\ Token(n, m)'
    <3> DEFINE g == Append(d, x)
    <3> HIDE DEF e, f, d
    <3>0. g \in Queue /\ ~Holds(g, "B")
      BY <1>1, <1>6, <2>3, AppendKinds
    <3>1. /\ ShapeOf(f, g, FALSE, <<m, n>> \in Peer, n \in est[m], TRUE)
          /\ ShapeOf(g, f, FALSE, <<n, m>> \in Peer, TRUE, n \in est[m])
      BY <1>1, <1>5, <1>9, <2>3, SendShape
    <3>2. TokenOf(f, g, m \in tap'[n]) /\ TokenOf(g, f, n \in tap[m])
      BY <1>1, <1>5, <1>10, <2>3, SendToken
    <3> HIDE DEF g
    <3>3. /\ ShapeOf(f, e, FALSE, <<m, n>> \in Peer, n \in est[m], TRUE)
          /\ ShapeOf(e, f, FALSE, <<n, m>> \in Peer, TRUE, n \in est[m])
      BY <1>5, <1>8, <2>3, <3>0, <3>1, SendShape DEF g
    <3>4. /\ \A t : t # "B" => (Holds(e, t) <=> Holds(g, t)) /\ (AtMostOne(g, t) => AtMostOne(e, t))
          /\ AtMostOne(g, "B") => AtMostOne(e, "B")
      BY <1>8, <2>3, <3>0, AppendKinds DEF g
    <3>5. TokenOf(f, e, m \in tap'[n]) /\ TokenOf(e, f, n \in tap[m])
      BY <1>5, <2>3, <3>2, <3>4 DEF TokenOf
    <3> QED BY <1>1, <1>2, <1>3, <1>11, <3>3, <3>5 DEF Shape, Token, e
  <2> HIDE DEF R, F, s
  <2> QED BY <1>7, <2>1, <2>2, <2>3, RecvJAnswered DEF Answered, R, F, s
<1>13. ASSUME NEW a \in Node, NEW b \in Node PROVE Shape(a, b)' /\ Token(a, b)'
  <2>1. CASE (a = m /\ b = n) \/ (a = n /\ b = m)
    BY <1>12, <2>1
  <2>2. CASE ~((a = m /\ b = n) \/ (a = n /\ b = m))
    <3>1. chan'[<<a, b>>] = chan[<<a, b>>] /\ chan'[<<b, a>>] = chan[<<b, a>>]
      BY <1>3, <2>2
    <3>2. Shape(a, b) /\ Token(a, b)
      BY DEF LinkInv
    <3>3. a \in tap'[b] => a \in tap[b]
      BY <1>11, <2>2
    <3> QED BY <1>2, <3>1, <3>2, <3>3, SamePair
  <2> QED BY <2>1, <2>2
<1>14. \A k \in Node : tap'[k] \subseteq est'[k] /\ k \notin est'[k]
  BY <1>1, <1>2, <1>11 DEF LinkInv
<1> QED
  BY <1>13, <1>14 DEF LinkInv


(* B is answered with a new J.                                             *)
LEMMA AskLinks ==
    ASSUME TypeOK, LinkInv, NEW n \in Node, NEW m \in Node, RecvB(n, m)
    PROVE  LinkInv'
<1> DEFINE c == chan[<<m, n>>]
           d == chan[<<n, m>>]
           f == Tail(c)
           x == JMsg(serie[n])
           e == chan'[<<n, m>>]
<1>1. /\ m \in est[n] /\ m # n /\ c \in Queue /\ d \in Queue
      /\ c # <<>> /\ Head(c).type = "B"
  BY ReadFrom DEF RecvB
<1>2. est' = est /\ tap' = tap
  BY DEF RecvB
<1>3. \A a, b \in Node : Parsed(m, n)[<<a, b>>] = IF a = m /\ b = n THEN Tail(c) ELSE chan[<<a, b>>]
  BY DEF Parsed, TypeOK
<1>4. \A a, b \in Node : Sent(Parsed(m, n), n, {m}, x)[<<a, b>>]
         = IF a = n /\ b = m THEN Append(Parsed(m, n)[<<a, b>>], x) ELSE Parsed(m, n)[<<a, b>>]
  BY DEF Sent
<1>5. /\ chan'[<<m, n>>] = f
      /\ \A a, b \in Node : <<a, b>> # <<m, n>> /\ <<a, b>> # <<n, m>>
                             => chan'[<<a, b>>] = chan[<<a, b>>]
      /\ e = d \/ e = Append(d, x)
  <2>1. chan' = Parsed(m, n) \/ chan' = Sent(Parsed(m, n), n, {m}, x)
    BY DEF RecvB
  <2> HIDE DEF c, d, x
  <2>2. CASE chan' = Parsed(m, n)
    BY <1>1, <1>3, <2>2 DEF d
  <2>3. CASE chan' = Sent(Parsed(m, n), n, {m}, x)
    BY <1>1, <1>3, <1>4, <2>3 DEF d
  <2> QED BY <2>1, <2>2, <2>3
<1>6. Shape(m, n) /\ Shape(n, m) /\ Token(m, n) /\ Token(n, m)
  BY DEF LinkInv
<1>7. /\ f \in Queue /\ ~Holds(f, "B")
      /\ \A t : Holds(f, t) => Holds(c, t)
      /\ \A t : AtMostOne(c, t) => AtMostOne(f, t)
  <2>1. AtMostOne(c, "B")
    BY <1>6 DEF Token, TokenOf
  <2> HIDE DEF c
  <2> QED BY <1>1, <2>1, TailQueue, TailKinds
<1>8. ~Holds(d, "J") /\ n \notin tap[m]
  <2>1. Holds(c, "B")
    BY <1>1, TailQueue DEF Holds
  <2> QED BY <1>6, <2>1 DEF Token, TokenOf
<1>9. x \in Msg /\ x.type = "J"
  BY MessageTypes DEF TypeOK, JMsg, Message
<1>10. /\ ShapeOf(f, d, FALSE, <<m, n>> \in Peer, n \in est[m], TRUE)
       /\ ShapeOf(d, f, FALSE, <<n, m>> \in Peer, TRUE, n \in est[m])
  <2>1. /\ ShapeOf(c, d, FALSE, <<m, n>> \in Peer, n \in est[m], TRUE)
        /\ ShapeOf(d, c, FALSE, <<n, m>> \in Peer, TRUE, n \in est[m])
    BY <1>1, <1>6 DEF Shape
  <2>2. Head(c).type # "SERVER"
    BY <1>1
  <2> HIDE DEF c, d, f
  <2> QED BY <1>1, <1>7, <2>1, <2>2, PopShape
<1>11. TokenOf(f, d, m \in tap[n]) /\ TokenOf(d, f, n \in tap[m])
  BY <1>6, <1>7, <1>8 DEF Token, TokenOf
<1>12. /\ Shape(m, n)' /\ Shape(n, m)' /\ Token(m, n)' /\ Token(n, m)'
  <2>1. CASE e = d
    <3> HIDE DEF e, f, d
    <3> QED BY <1>1, <1>2, <1>5, <1>10, <1>11, <2>1 DEF Shape, Token, e
  <2>2. CASE e = Append(d, x)
    <3> HIDE DEF e, f, d, x
    <3>1. /\ ShapeOf(f, e, FALSE, <<m, n>> \in Peer, n \in est[m], TRUE)
          /\ ShapeOf(e, f, FALSE, <<n, m>> \in Peer, TRUE, n \in est[m])
      BY <1>1, <1>7, <1>9, <1>10, <2>2, SendShape
    <3>2. /\ \A t : t # "J" => (Holds(e, t) <=> Holds(d, t)) /\ (AtMostOne(d, t) => AtMostOne(e, t))
          /\ AtMostOne(d, "J") => AtMostOne(e, "J")
      BY <1>1, <1>8, <1>9, <2>2, AppendKinds
    <3>3. TokenOf(f, e, m \in tap[n]) /\ TokenOf(e, f, n \in tap[m])
      BY <1>7, <1>8, <1>11, <3>2 DEF TokenOf
    <3> QED BY <1>1, <1>2, <1>5, <3>1, <3>3 DEF Shape, Token, e
  <2> QED BY <1>5, <2>1, <2>2
<1>13. ASSUME NEW a \in Node, NEW b \in Node PROVE Shape(a, b)' /\ Token(a, b)'
  <2>1. CASE (a = m /\ b = n) \/ (a = n /\ b = m)
    BY <1>12, <2>1
  <2>2. CASE ~((a = m /\ b = n) \/ (a = n /\ b = m))
    <3>1. chan'[<<a, b>>] = chan[<<a, b>>] /\ chan'[<<b, a>>] = chan[<<b, a>>]
      BY <1>5, <2>2
    <3>2. Shape(a, b) /\ Token(a, b)
      BY DEF LinkInv
    <3> QED BY <1>2, <3>1, <3>2, SamePair
  <2> QED BY <2>1, <2>2
<1> QED
  BY <1>2, <1>13 DEF LinkInv

(* A link is opened: SERVER and J on the way, nothing back.                *)
Opening(s) == <<SERVERMsg, JMsg(s)>>

(* What completed_connection and m_server_estab send.                      *)
LEMMA OpeningQueue ==
    ASSUME NEW s \in 0..MaxSerie
    PROVE  LET c == Opening(s) IN
           /\ c \in Queue /\ c # <<>> /\ Len(c) = 2
           /\ c[1].type = "SERVER" /\ c[2].type = "J" /\ c[2].serie = s
           /\ ServerFirst(c) /\ AtMostOne(c, "J")
           /\ ~Holds(c, "D") /\ ~Holds(c, "EOF") /\ ~Holds(c, "B")
           /\ Holds(c, "SERVER")
           /\ \A i \in 1..2 : RecsAt(c, i) = {}
<1> DEFINE c == Opening(s)
<1>1. SERVERMsg \in Msg /\ JMsg(s) \in Msg
  BY MessageTypes
<1>2. SERVERMsg.type = "SERVER" /\ JMsg(s).type = "J" /\ JMsg(s).serie = s
  BY DEF SERVERMsg, JMsg, Message
<1>3. c \in Queue /\ c # <<>> /\ Len(c) = 2 /\ c[1] = SERVERMsg /\ c[2] = JMsg(s)
  BY <1>1 DEF Opening, Queue
<1> HIDE DEF c
<1>4. 1..Len(c) = {1, 2}
  BY <1>3
<1> QED
  BY <1>2, <1>3, <1>4 DEF ServerFirst, AtMostOne, Holds, RecsAt, c

(* A link is opened on two empty queues.                                   *)
LEMMA ConnectLinks ==
    ASSUME TypeOK, LinkInv, NEW i \in Node, NEW a \in Node, Connect(i, a)
    PROVE  LinkInv'
<1> DEFINE c == Opening(serie[i])
<1>1. /\ <<i, a>> \in Peer /\ <<a, i>> \notin Peer /\ i # a
      /\ a \notin est[i] /\ i \notin est[a]
      /\ chan[<<a, i>>] = <<>> /\ chan' = [chan EXCEPT ![<<i, a>>] = c]
      /\ est' = est /\ tap' = tap
  BY DdbConstants DEF Connect, Opening
<1>2. a \notin tap[i] /\ i \notin tap[a]
  BY <1>1 DEF LinkInv
<1>3. /\ c \in Queue /\ c # <<>> /\ Len(c) = 2
      /\ c[2].type = "J" /\ ServerFirst(c) /\ AtMostOne(c, "J")
      /\ ~Holds(c, "D") /\ ~Holds(c, "EOF") /\ ~Holds(c, "B")
  BY OpeningQueue DEF TypeOK
<1> HIDE DEF c
<1>4. /\ chan'[<<i, a>>] = c /\ chan'[<<a, i>>] = <<>>
      /\ \A p, q \in Node : <<p, q>> # <<i, a>> => chan'[<<p, q>>] = chan[<<p, q>>]
  BY <1>1 DEF TypeOK
<1>5. AtMostOne(c, "B")
  BY <1>3 DEF AtMostOne, Holds
<1>6. Shape(i, a)' /\ Token(i, a)' /\ Shape(a, i)' /\ Token(a, i)'
  BY <1>1, <1>2, <1>3, <1>4, <1>5, EmptyQueue, ServerFirstQueue
  DEF Shape, Token, ShapeOf, TokenOf
<1>7. ASSUME NEW p \in Node, NEW q \in Node PROVE Shape(p, q)' /\ Token(p, q)'
  <2>1. CASE (p = i /\ q = a) \/ (p = a /\ q = i)
    BY <1>6, <2>1
  <2>2. CASE ~((p = i /\ q = a) \/ (p = a /\ q = i))
    <3>1. chan'[<<p, q>>] = chan[<<p, q>>] /\ chan'[<<q, p>>] = chan[<<q, p>>]
      BY <1>4, <2>2
    <3>2. Shape(p, q) /\ Token(p, q)
      BY DEF LinkInv
    <3> QED BY <1>1, <3>1, <3>2, SamePair
  <2> QED BY <2>1, <2>2
<1> QED
  BY <1>1, <1>7 DEF LinkInv

(* SERVER arrives: what RecvSERVER does to its link.                       *)
Welcomed(n, m) ==
    LET c == chan[<<m, n>>]
        d == chan[<<n, m>>]
    IN  /\ m # n /\ m \notin est[n]
        /\ c \in Queue /\ c # <<>> /\ Head(c).type = "SERVER" /\ ~Holds(Tail(c), "SERVER")
        /\ chan'[<<m, n>>] = Tail(c)
        /\ \A a, b \in Node : <<a, b>> # <<m, n>> /\ <<a, b>> # <<n, m>>
                               => chan'[<<a, b>>] = chan[<<a, b>>]
        /\ est' = [est EXCEPT ![n] = @ \cup {m}]
        /\ tap' = [tap EXCEPT ![n] = @ \ {m}]
        /\ ~Holds(d, "EOF")
        /\ \/ /\ <<m, n>> \in Peer /\ <<n, m>> \notin Peer /\ d = <<>>
              /\ Len(c) = 2 /\ c[2].type = "J" /\ n \notin est[m] /\ n \notin tap[m]
              /\ chan'[<<n, m>>] = Opening(serie[n])
           \/ /\ <<m, n>> \notin Peer /\ chan'[<<n, m>>] = d
              /\ <<n, m>> \in Peer => ~Holds(d, "SERVER")

(* The handler of SERVER, seen from the link.                              *)
LEMMA RecvSERVERWelcomed ==
    ASSUME TypeOK, LinkInv, NEW n \in Node, NEW m \in Node, RecvSERVER(n, m)
    PROVE  Welcomed(n, m)
<1> DEFINE c == chan[<<m, n>>]
           d == chan[<<n, m>>]
<1>1. c \in Queue /\ d \in Queue /\ c # <<>> /\ Head(c).type = "SERVER" /\ m \notin est[n]
  BY DEF RecvSERVER, Arrives, TypeOK, Queue
<1>2. Shape(m, n) /\ Shape(n, m)
  BY DEF LinkInv
<1>3. m # n
  BY <1>1, <1>2 DEF Shape, ShapeOf
<1>4. Holds(c, "SERVER") /\ ~Holds(Tail(c), "SERVER")
  <2>1. Holds(c, "SERVER")
    BY <1>1, TailQueue DEF Holds
  <2>2. ServerFirst(c)
    BY <1>2 DEF Shape, ShapeOf
  <2> HIDE DEF c
  <2> QED BY <1>1, <2>1, <2>2, ServerFirstQueue
<1>5. ~Holds(d, "EOF")
  BY <1>2, <1>4 DEF Shape, ShapeOf
<1>6. \A a, b \in Node : Parsed(m, n)[<<a, b>>] = IF a = m /\ b = n THEN Tail(c) ELSE chan[<<a, b>>]
  BY DEF Parsed, TypeOK
<1>7. /\ est' = [est EXCEPT ![n] = @ \cup {m}]
      /\ tap' = [tap EXCEPT ![n] = @ \ {m}]
  BY DEF RecvSERVER
<1>8. CASE <<m, n>> \in Peer
  <2>1. <<n, m>> \notin Peer
    BY <1>8, DdbConstants
  <2>2. d = <<>> /\ Len(c) = 2 /\ c[2].type = "J" /\ n \notin est[m]
    BY <1>2, <1>4, <1>8 DEF Shape, ShapeOf
  <2>3. chan' = [Parsed(m, n) EXCEPT ![<<n, m>>] = Opening(serie[n])]
    BY <1>8 DEF RecvSERVER, Opening
  <2>4. Parsed(m, n) \in [Node \X Node -> Seq(Msg)]
    BY <1>1 DEF Parsed, TypeOK, Queue
  <2>5. \A a, b \in Node : chan'[<<a, b>>] = IF a = n /\ b = m THEN Opening(serie[n])
                                             ELSE Parsed(m, n)[<<a, b>>]
    BY <2>3, <2>4
  <2>6. n \notin tap[m]
    BY <2>2 DEF LinkInv
  <2> QED BY <1>1, <1>3, <1>4, <1>5, <1>6, <1>7, <1>8, <2>1, <2>2, <2>5, <2>6 DEF Welcomed
<1>9. CASE <<m, n>> \notin Peer
  <2>1. chan' = Parsed(m, n)
    BY <1>9 DEF RecvSERVER
  <2>2. <<n, m>> \in Peer => ~Holds(d, "SERVER")
    BY <1>1, <1>2 DEF Shape, ShapeOf
  <2> QED BY <1>1, <1>3, <1>4, <1>5, <1>6, <1>7, <1>9, <2>1, <2>2 DEF Welcomed
<1> QED
  BY <1>8, <1>9

(* A link that is established starts with its tap closed.                  *)
LEMMA WelcomeLinks ==
    ASSUME TypeOK, LinkInv, NEW n \in Node, NEW m \in Node, Welcomed(n, m)
    PROVE  LinkInv'
<1> DEFINE c == chan[<<m, n>>]
           d == chan[<<n, m>>]
           f == Tail(c)
           e == Opening(serie[n])
<1>1. /\ m # n /\ m \notin est[n]
      /\ c \in Queue /\ c # <<>> /\ Head(c).type = "SERVER" /\ ~Holds(f, "SERVER")
      /\ chan'[<<m, n>>] = f /\ ~Holds(d, "EOF") /\ d \in Queue
  BY DEF Welcomed, TypeOK, Queue
<1>2. /\ m \in est'[n] /\ m \notin tap'[n]
      /\ \A a, b \in Node : ~(a = n /\ b = m) => (b \in est'[a] <=> b \in est[a])
                                                 /\ (b \in tap'[a] <=> b \in tap[a])
  BY DEF Welcomed, TypeOK
<1>3. Shape(m, n) /\ Shape(n, m) /\ Token(m, n) /\ Token(n, m)
  BY DEF LinkInv
<1>4. /\ f \in Queue /\ ServerFirst(f)
      /\ \A t : Holds(f, t) => Holds(c, t)
      /\ \A t : AtMostOne(c, t) => AtMostOne(f, t)
  <2> HIDE DEF c
  <2>1. f \in Queue
    BY <1>1, TailQueue
  <2> QED BY <1>1, <2>1, TailKinds, ServerFirstQueue
<1>5. Shape(m, n)' /\ Shape(n, m)' /\ Token(m, n)' /\ Token(n, m)'
  <2>1. CASE /\ <<m, n>> \in Peer /\ <<n, m>> \notin Peer /\ d = <<>>
             /\ Len(c) = 2 /\ c[2].type = "J" /\ n \notin est[m] /\ n \notin tap[m]
             /\ chan'[<<n, m>>] = e
    <3>1. /\ ServerFirst(e) /\ AtMostOne(e, "J") /\ Holds(e, "SERVER")
          /\ ~Holds(e, "D") /\ ~Holds(e, "EOF") /\ ~Holds(e, "B")
      BY OpeningQueue DEF TypeOK
    <3>2. ~Holds(c, "EOF") /\ ~Holds(c, "B")
      <4>1. 1..Len(c) = {1, 2} /\ c[1].type = "SERVER"
        BY <1>1, <2>1, TailQueue
      <4> QED BY <2>1, <4>1 DEF Holds
    <3>3. AtMostOne(e, "B") /\ AtMostOne(f, "B")
      BY <1>4, <3>1, <3>2 DEF AtMostOne, Holds
    <3> HIDE DEF c, d, e, f
    <3>4. Shape(m, n)' /\ Shape(n, m)'
      BY <1>1, <1>2, <1>3, <1>4, <2>1, <3>1, <3>2 DEF Shape, ShapeOf, c, d
    <3>5. Token(m, n)' /\ Token(n, m)'
      BY <1>1, <1>2, <1>3, <1>4, <2>1, <3>1, <3>2, <3>3 DEF Token, TokenOf, c, d
    <3> QED BY <3>4, <3>5
  <2>2. CASE /\ <<m, n>> \notin Peer /\ chan'[<<n, m>>] = d
             /\ <<n, m>> \in Peer => ~Holds(d, "SERVER")
    <3> HIDE DEF c, d, f
    <3>1. Shape(m, n)' /\ Shape(n, m)'
      BY <1>1, <1>2, <1>3, <1>4, <2>2 DEF Shape, ShapeOf, c, d
    <3>2. Token(m, n)' /\ Token(n, m)'
      BY <1>1, <1>2, <1>3, <1>4, <2>2 DEF Token, TokenOf, c, d
    <3> QED BY <3>1, <3>2
  <2> QED BY <2>1, <2>2 DEF Welcomed
<1>6. ASSUME NEW a \in Node, NEW b \in Node PROVE Shape(a, b)' /\ Token(a, b)'
  <2>1. CASE (a = m /\ b = n) \/ (a = n /\ b = m)
    BY <1>5, <2>1
  <2>2. CASE ~((a = m /\ b = n) \/ (a = n /\ b = m))
    <3>1. chan'[<<a, b>>] = chan[<<a, b>>] /\ chan'[<<b, a>>] = chan[<<b, a>>]
      BY <2>2 DEF Welcomed
    <3>2. Shape(a, b) /\ Token(a, b)
      BY DEF LinkInv
    <3> QED BY <1>2, <2>2, <3>1, <3>2, SamePair
  <2> QED BY <2>1, <2>2
<1>7. \A k \in Node : tap'[k] \subseteq est'[k] /\ k \notin est'[k]
  BY <1>1 DEF Welcomed, LinkInv, TypeOK
<1> QED
  BY <1>6, <1>7 DEF LinkInv

(* The end of file arrives: the link is gone at both ends.                 *)
LEMMA EndLinks ==
    ASSUME TypeOK, LinkInv, NEW n \in Node, NEW m \in Node, RecvEOF(n, m)
    PROVE  LinkInv'
<1>1. /\ m # n /\ chan[<<m, n>>] \in Queue /\ chan[<<m, n>>] # <<>>
      /\ Head(chan[<<m, n>>]).type = "EOF"
  BY ReadFrom DEF RecvEOF
<1>2. Holds(chan[<<m, n>>], "EOF")
  BY <1>1, TailQueue DEF Holds
<1>3. n \notin est[m] /\ n \notin tap[m]
  BY <1>2 DEF LinkInv, Shape, ShapeOf
<1>4. /\ chan'[<<m, n>>] = <<>> /\ chan'[<<n, m>>] = <<>>
      /\ \A a, b \in Node : <<a, b>> # <<m, n>> /\ <<a, b>> # <<n, m>>
                             => chan'[<<a, b>>] = chan[<<a, b>>]
  BY <1>1 DEF RecvEOF, TypeOK
<1>5. /\ m \notin est'[n] /\ m \notin tap'[n]
      /\ \A a, b \in Node : ~(a = n /\ b = m) => (b \in est'[a] <=> b \in est[a])
                                                 /\ (b \in tap'[a] <=> b \in tap[a])
  BY DEF RecvEOF, TypeOK
<1>6. ServerFirst(<<>>)
  BY EmptyQueue, ServerFirstQueue
<1>7. Shape(m, n)' /\ Shape(n, m)' /\ Token(m, n)' /\ Token(n, m)'
  BY <1>1, <1>3, <1>4, <1>5, <1>6, EmptyQueue DEF Shape, ShapeOf, Token, TokenOf
<1>8. ASSUME NEW a \in Node, NEW b \in Node PROVE Shape(a, b)' /\ Token(a, b)'
  <2>1. CASE (a = m /\ b = n) \/ (a = n /\ b = m)
    BY <1>7, <2>1
  <2>2. CASE ~((a = m /\ b = n) \/ (a = n /\ b = m))
    <3>1. chan'[<<a, b>>] = chan[<<a, b>>] /\ chan'[<<b, a>>] = chan[<<b, a>>]
      BY <1>4, <2>2
    <3>2. Shape(a, b) /\ Token(a, b)
      BY DEF LinkInv
    <3> QED BY <1>5, <2>2, <3>1, <3>2, SamePair
  <2> QED BY <2>1, <2>2
<1>9. \A k \in Node : tap'[k] \subseteq est'[k] /\ k \notin est'[k]
  BY DEF RecvEOF, LinkInv, TypeOK
<1> QED
  BY <1>8, <1>9 DEF LinkInv

(* n hangs up on the peers of T: what they had sent is gone, and those     *)
(* that count n as linked will read an end of file.                        *)
HungUp(n, T) ==
    /\ T \subseteq Node \ {n}
    /\ \A x \in T :
         /\ chan'[<<x, n>>] = <<>>
         /\ n \notin est[x] => chan'[<<n, x>>] = <<>>
         /\ n \in est[x] => \/ chan'[<<n, x>>] = Append(<<>>, EOFMsg)
                            \/ chan'[<<n, x>>] = Append(chan[<<n, x>>], EOFMsg)
    /\ \A a, b \in Node : ~(a = n /\ b \in T) /\ ~(b = n /\ a \in T)
                            => chan'[<<a, b>>] = chan[<<a, b>>]
    /\ \A a, b \in Node : ~(a = n /\ b \in T) => /\ b \in est'[a] <=> b \in est[a]
                                                 /\ b \in tap'[a] <=> b \in tap[a]
    /\ \A x \in T : x \notin est'[n] /\ x \notin tap'[n]

(* exit_client on one link or, when the process ends, on all of them.      *)
LEMMA ClosedHungUp ==
    ASSUME TypeOK, NEW n \in Node, NEW T \in SUBSET (Node \ {n}), NEW l \in BOOLEAN,
           chan' = Closed(chan, n, T, l),
           est' = [est EXCEPT ![n] = @ \ T], tap' = [tap EXCEPT ![n] = @ \ T]
    PROVE  HungUp(n, T)
<1>1. ASSUME NEW a \in Node, NEW b \in Node
      PROVE  chan'[<<a, b>>] = CASE a = n /\ b \in T ->
                                      IF n \in est[b]
                                      THEN Append(IF l THEN <<>> ELSE chan[<<a, b>>], EOFMsg)
                                      ELSE <<>>
                                 [] b = n /\ a \in T -> <<>>
                                 [] OTHER -> chan[<<a, b>>]
  BY DEF Closed
<1>2. ASSUME NEW x \in T
      PROVE  /\ chan'[<<x, n>>] = <<>>
             /\ n \notin est[x] => chan'[<<n, x>>] = <<>>
             /\ n \in est[x] => \/ chan'[<<n, x>>] = Append(<<>>, EOFMsg)
                                \/ chan'[<<n, x>>] = Append(chan[<<n, x>>], EOFMsg)
  <2>1. x \in Node /\ x # n
    OBVIOUS
  <2>2. chan'[<<x, n>>] = <<>>
    BY <1>1, <2>1
  <2>3. chan'[<<n, x>>] = IF n \in est[x]
                          THEN Append(IF l THEN <<>> ELSE chan[<<n, x>>], EOFMsg)
                          ELSE <<>>
    BY <1>1, <2>1
  <2> QED BY <2>2, <2>3
<1>3. \A a, b \in Node : ~(a = n /\ b \in T) /\ ~(b = n /\ a \in T)
                            => chan'[<<a, b>>] = chan[<<a, b>>]
  BY <1>1
<1>4. \A a, b \in Node : ~(a = n /\ b \in T) => /\ b \in est'[a] <=> b \in est[a]
                                                /\ b \in tap'[a] <=> b \in tap[a]
  BY DEF TypeOK
<1>5. \A x \in T : x \notin est'[n] /\ x \notin tap'[n]
  BY DEF TypeOK
<1> QED
  BY <1>2, <1>3, <1>4, <1>5 DEF HungUp

(* Closing links leaves at most the end of file behind.                    *)
LEMMA HangUpLinks ==
    ASSUME TypeOK, TypeOK', LinkInv, NEW n \in Node, NEW T, HungUp(n, T)
    PROVE  LinkInv'
<1>1. ASSUME NEW x \in T
      PROVE  Shape(n, x)' /\ Shape(x, n)' /\ Token(n, x)' /\ Token(x, n)'
  <2> DEFINE c == chan[<<n, x>>]
             e == chan'[<<n, x>>]
  <2>1. /\ x \in Node /\ x # n /\ chan'[<<x, n>>] = <<>>
        /\ x \notin est'[n] /\ x \notin tap'[n]
        /\ n \in est'[x] <=> n \in est[x]
        /\ n \in tap'[x] <=> n \in tap[x]
        /\ c \in Queue
    BY DEF HungUp, TypeOK, Queue
  <2>2. Shape(n, x) /\ Token(n, x) /\ Token(x, n) /\ (n \in tap[x] => n \in est[x])
    BY <2>1 DEF LinkInv
  <2>3. EOFMsg \in Msg /\ EOFMsg.type = "EOF"
    BY MessageTypes DEF EOFMsg, Message
  <2>4. ASSUME n \in est[x], NEW f \in Queue, f = <<>> \/ f = c, e = Append(f, EOFMsg)
        PROVE  Shape(n, x)' /\ Shape(x, n)' /\ Token(n, x)' /\ Token(x, n)'
    <3>1. /\ \A t : Holds(f, t) => Holds(c, t)
          /\ \A t : AtMostOne(c, t) => AtMostOne(f, t)
          /\ ServerFirst(c) => ServerFirst(f)
      BY <2>4, EmptyQueue, ServerFirstQueue
    <3> HIDE DEF e, c
    <3>2. /\ \A t : Holds(e, t) => Holds(f, t) \/ t = "EOF"
          /\ \A t : t # "EOF" => (AtMostOne(f, t) => AtMostOne(e, t))
      BY <2>3, <2>4, AppendKinds
    <3>3. ServerFirst(f) => ServerFirst(e)
      BY <2>3, <2>4, ServerFirstQueue
    <3>4. ServerFirst(<<>>)
      BY EmptyQueue, ServerFirstQueue
    <3>5. Shape(n, x)' /\ Shape(x, n)'
      BY <2>1, <2>2, <2>4, <3>1, <3>2, <3>3, <3>4, EmptyQueue DEF Shape, ShapeOf, e, c
    <3>6. Token(n, x)' /\ Token(x, n)'
      BY <2>1, <2>2, <2>4, <3>1, <3>2, EmptyQueue DEF Token, TokenOf, e, c
    <3> QED BY <3>5, <3>6
  <2>5. ASSUME n \notin est[x], e = <<>>
        PROVE  Shape(n, x)' /\ Shape(x, n)' /\ Token(n, x)' /\ Token(x, n)'
    <3>1. ServerFirst(<<>>)
      BY EmptyQueue, ServerFirstQueue
    <3> QED BY <2>1, <2>2, <2>5, <3>1, EmptyQueue DEF Shape, ShapeOf, Token, TokenOf
  <2> QED BY <2>1, <2>4, <2>5, EmptyQueue DEF HungUp
<1>2. ASSUME NEW a \in Node, NEW b \in Node PROVE Shape(a, b)' /\ Token(a, b)'
  <2>1. CASE (a = n /\ b \in T) \/ (b = n /\ a \in T)
    BY <1>1, <2>1
  <2>2. CASE ~(a = n /\ b \in T) /\ ~(b = n /\ a \in T)
    <3>1. chan'[<<a, b>>] = chan[<<a, b>>] /\ chan'[<<b, a>>] = chan[<<b, a>>]
      BY <2>2 DEF HungUp
    <3>2. Shape(a, b) /\ Token(a, b)
      BY DEF LinkInv
    <3>3. /\ b \in est'[a] <=> b \in est[a]
          /\ a \in est'[b] <=> a \in est[b]
          /\ a \in tap'[b] => a \in tap[b]
      BY <2>2 DEF HungUp
    <3> QED BY <3>1, <3>2, <3>3, SamePair
  <2> QED BY <2>1, <2>2
<1>3. ASSUME NEW k \in Node PROVE tap'[k] \subseteq est'[k] /\ k \notin est'[k]
  <2>1. k \notin est'[k]
    BY DEF HungUp, LinkInv
  <2>2. ASSUME NEW y \in tap'[k] PROVE y \in est'[k]
    BY <2>2 DEF HungUp, LinkInv, TypeOK
  <2> QED BY <2>1, <2>2
<1> QED
  BY <1>2, <1>3 DEF LinkInv

(* A lost link is closed by one of its ends.                               *)
LEMMA LossHungUp ==
    ASSUME TypeOK, LinkInv, NEW n \in Node, NEW m \in Node, LinkLoss(n, m)
    PROVE  HungUp(n, {m})
<1>1. {m} \in SUBSET (Node \ {n})
  BY DEF LinkLoss, LinkInv
<1>2. PICK l \in BOOLEAN : chan' = Closed(chan, n, {m}, l)
  BY DEF LinkLoss
<1>3. est' = [est EXCEPT ![n] = @ \ {m}] /\ tap' = [tap EXCEPT ![n] = @ \ {m}]
  BY DEF LinkLoss
<1> QED
  BY <1>1, <1>2, <1>3, ClosedHungUp

(* A restart closes all links of the server.                               *)
LEMMA RestartHungUp ==
    ASSUME TypeOK, LinkInv, NEW n \in Node, Restart(n)
    PROVE  HungUp(n, Node \ {n})
<1> DEFINE T == Node \ {n}
<1>1. PICK l \in BOOLEAN : chan' = Closed(chan, n, T, l)
  BY DEF Restart
<1>2. est[n] \ T = {} /\ tap[n] \ T = {}
  BY DEF LinkInv, TypeOK
<1>3. est' = [est EXCEPT ![n] = @ \ T] /\ tap' = [tap EXCEPT ![n] = @ \ T]
  BY <1>2 DEF Restart, TypeOK
<1>4. T \in SUBSET (Node \ {n})
  OBVIOUS
<1> HIDE DEF T
<1>5. HungUp(n, T)
  BY <1>1, <1>3, <1>4, ClosedHungUp
<1> QED
  BY <1>5 DEF T

(* The links stay in shape as long as the service deletes no table.        *)
LEMMA InitLinks == Init => LinkInv
<1> SUFFICES ASSUME Init PROVE LinkInv
  OBVIOUS
<1>1. ServerFirst(<<>>)
  BY EmptyQueue, ServerFirstQueue
<1>2. ASSUME NEW m \in Node, NEW n \in Node PROVE Shape(m, n) /\ Token(m, n)
  BY <1>1, EmptyQueue DEF Init, Shape, ShapeOf, Token, TokenOf
<1>3. \A n \in Node : tap[n] \subseteq est[n] /\ n \notin est[n]
  BY DEF Init
<1> QED
  BY <1>2, <1>3 DEF LinkInv

(* With no D orders from the service nobody deletes a table.               *)
LEMMA NoOrders ==
    ASSUME TypeOK, LinkInv, MaxDrop = 0
    PROVE  /\ \A n, m \in Node : ~RecvD(n, m) /\ ~IgnoreD(n, m)
           /\ \A mask : ~ServiceDrop(mask)
<1>1. ASSUME NEW n \in Node, NEW m \in Node, Arrives(n, m, "D") PROVE FALSE
  <2>1. chan[<<m, n>>] \in Queue /\ chan[<<m, n>>] # <<>> /\ Head(chan[<<m, n>>]).type = "D"
    BY <1>1 DEF Arrives, TypeOK, Queue
  <2>2. Holds(chan[<<m, n>>], "D")
    BY <2>1, TailQueue DEF Holds
  <2> QED BY <2>2 DEF LinkInv, Shape, ShapeOf
<1>2. \A n, m \in Node : ~RecvD(n, m) /\ ~IgnoreD(n, m)
  BY <1>1 DEF RecvD, IgnoreD
<1>3. \A mask : ~ServiceDrop(mask)
  BY DEF ServiceDrop, TypeOK
<1> QED
  BY <1>2, <1>3

(* What the service writes are records.                                    *)
LEMMA RecordTypes == NewRecord \subseteq Record /\ CheckpointRecord \subseteq Record
BY DdbConstants DEF NewRecord, CheckpointRecord, Record, Val

(* Every step keeps the shape of the links.                                *)
LEMMA NextLinks ==
    ASSUME MaxDrop = 0, IInv, IInv', LinkInv, [Next]_vars
    PROVE  LinkInv'
<1> USE DEF IInv
<1>1. ASSUME NEW p \in Peer, Connect(p[1], p[2]) PROVE LinkInv'
  BY <1>1, ConnectLinks, DdbConstants
<1>2. ASSUME NEW n \in Node, NEW m \in Node, Deliver(n, m) PROVE LinkInv'
  BY <1>2, RecvSERVERWelcomed, WelcomeLinks, EndLinks, AnswerLinks, AskLinks, RecordLinks, NoOrders
  DEF Deliver
<1>3. ASSUME NEW r \in NewRecord \cup CheckpointRecord, ServiceIssue(r) PROVE LinkInv'
  BY <1>3, IssueLinks, RecordTypes
<1>4. ASSUME NEW n \in Node, NEW m \in Node, LinkLoss(n, m) PROVE LinkInv'
  BY <1>4, LossHungUp, HangUpLinks
<1>5. ASSUME NEW n \in Server, Restart(n) PROVE LinkInv'
  <2>1. n \in Node
    BY DEF Node
  <2> QED BY <1>5, <2>1, RestartHungUp, HangUpLinks
<1>6. CASE UNCHANGED vars
  BY <1>6 DEF vars, LinkInv, Shape, Token
<1> QED
  BY <1>1, <1>2, <1>3, <1>4, <1>5, <1>6, NoOrders DEF Next, Environment

-----------------------------------------------------------------------------
(* What travels on the links.                                              *)

\* The records of the service that no file may lack: those that are the last
\* of their key and hold a value, which db_pack keeps, and the last of all,
\* which a pack follows.  Without checkpoints nothing is packed: all of them.
LastOfKey(q) == /\ q.key \in Key /\ q.val # NoValue
                /\ \A p \in log[Service] : p.key = q.key => p.serie <= q.serie
LastOfAll(q) == \A p \in log[Service] : p.serie <= q.serie
Live == {q \in log[Service] : Checkpoints => LastOfKey(q) \/ LastOfAll(q)}

\* The files hold records of the service, and these are meant for all.
FromService == /\ \A r \in log[Service] : /\ r.dest = Server
                                          /\ r.key = Star => Checkpoints
               /\ \A n \in Node : log[n] \subseteq log[Service]

\* No file has a hole.
Full == \A n \in Node : \A q \in Live : q.serie <= serie[n] => q \in log[n]

\* c is the queue from m to n and d the one back; hub: n believes m; open: m
\* has the tap to n open; n is at serial s and m at t; L: the live records.
\* It holds as long as n has not hung up on m.
FlowOf(c, d, hub, open, s, t, L) ==
    ~Holds(d, "EOF") =>
        /\ Honest(d, s)
        /\ hub => Ordered(c, s, L)
        /\ hub /\ open => CaughtUp(c, s, t, L)

Flow(m, n) ==
    /\ Within(chan[<<m, n>>], log[Service])
    /\ FlowOf(chan[<<m, n>>], chan[<<n, m>>], m \in Hub[n], n \in tap[m],
              serie[n], serie[m], Live)

FlowInv == \A m, n \in Node : Flow(m, n)

(* No server is ahead of the service, and its serials are unique.          *)
LEMMA LiveFacts ==
    ASSUME IInv, FromService
    PROVE  /\ Service \in Node
           /\ Live \subseteq log[Service]
           /\ \A r \in log[Service] : r \in Record /\ r.serie \in Nat /\ r.serie <= serie[Service]
           /\ \A n \in Node : serie[n] \in Nat /\ serie[n] <= serie[Service]
           /\ Distinct(log[Service])
<1>1. Service \in Node
  BY DEF Node
<1>2. Live \subseteq log[Service]
  BY DEF Live, LastOfKey, LastOfAll
<1>3. \A r \in log[Service] : r \in Record /\ r.serie \in Nat /\ r.serie <= serie[Service]
  BY <1>1, DdbConstants DEF IInv, TypeOK, FileEndsAtSerie, Record
<1>4. \A n \in Node : serie[n] \in Nat
  BY DdbConstants DEF IInv, TypeOK
<1>5. ASSUME NEW n \in Node PROVE serie[n] <= serie[Service]
  <2>1. CASE serie[n] = 0
    BY <1>1, <1>4, <2>1
  <2>2. CASE serie[n] # 0
    <3>1. PICK r \in log[n] : r.serie = serie[n]
      BY <2>2 DEF IInv, FileEndsAtSerie
    <3> QED BY <1>3, <3>1 DEF FromService
  <2> QED BY <2>1, <2>2
<1>6. Distinct(log[Service])
  BY <1>1 DEF IInv, FileEndsAtSerie, Distinct
<1> QED
  BY <1>1, <1>2, <1>3, <1>4, <1>5, <1>6

(* A file is finite and the first BurstMax records of a burst are those    *)
(* with the lowest serials.                                                *)
LEMMA BurstFirst ==
    ASSUME IInv, NEW n \in Node, NEW s, NEW r \in FirstOf(Burst(n, s), BurstMax),
           NEW q \in Burst(n, s), q.serie < r.serie
    PROVE  q \in FirstOf(Burst(n, s), BurstMax)
<1> DEFINE R == Burst(n, s)
           f == [p \in R |-> p.serie]
           A == {p \in R : p.serie < q.serie}
           B == {p \in R : p.serie < r.serie}
<1>1. R \subseteq log[n] /\ R \subseteq Record
  BY DEF Burst, IInv, TypeOK
<1>2. \A p \in R : p.serie \in 1..MaxSerie
  BY <1>1 DEF Record
<1>3. f \in Injection(R, 1..MaxSerie)
  <2>1. \A x, y \in R : x.serie = y.serie => x = y
    BY <1>1 DEF IInv, FileEndsAtSerie
  <2> HIDE DEF R
  <2> QED BY <1>2, <2>1 DEF Injection, IsInjective
<1>4. IsFiniteSet(R)
  <2>1. IsFiniteSet(1..MaxSerie)
    BY DdbConstants, FS_Interval
  <2> HIDE DEF R, f
  <2> QED BY <1>3, <2>1, FS_Injection
<1>5. r \in R /\ q \in R /\ Cardinality(B) < BurstMax
  BY DEF FirstOf
<1>6. A \subseteq B /\ B \subseteq R
  <2>1. \A p \in R : p.serie \in Int
    BY <1>2, DdbConstants
  <2> HIDE DEF R
  <2> QED BY <1>5, <2>1
<1>7. /\ Cardinality(A) <= Cardinality(B)
      /\ Cardinality(A) \in Nat /\ Cardinality(B) \in Nat
  <2> HIDE DEF R, A, B
  <2>1. IsFiniteSet(B)
    BY <1>4, <1>6, FS_Subset
  <2> QED BY <1>6, <2>1, FS_Subset, FS_CardinalityType
<1>8. Cardinality(A) < BurstMax
  BY <1>5, <1>7, DdbConstants
<1> QED
  BY <1>8 DEF FirstOf

(* A link that the step leaves alone, except that the receiver may advance *)
(* and the sender may close its tap.                                       *)
LEMMA KeepFlow ==
    ASSUME IInv, IInv', FromService, NEW a \in Node, NEW b \in Node, Flow(a, b),
           chan'[<<a, b>>] = chan[<<a, b>>], chan'[<<b, a>>] = chan[<<b, a>>],
           serie[b] <= serie'[b],
           b \in tap'[a] => b \in tap[a] /\ serie'[a] = serie[a],
           log'[Service] = log[Service]
    PROVE  Flow(a, b)'
<1> DEFINE c == chan[<<a, b>>]
           d == chan[<<b, a>>]
<1>1. Live' = Live
  BY DEF Live, LastOfKey, LastOfAll
<1>2. /\ serie[a] \in Nat /\ serie[b] \in Nat /\ serie'[a] \in Nat /\ serie'[b] \in Nat
      /\ \A q \in Live : q.serie \in Nat
      /\ Within(c, log[Service])
  BY LiveFacts, DdbConstants DEF IInv, TypeOK, Flow
<1>3. ASSUME Honest(d, serie[b]) PROVE Honest(d, serie'[b])
  <2>1. d \in Seq(Msg)
    BY DEF IInv, TypeOK
  <2> HIDE DEF d
  <2>2. ASSUME NEW i \in 1..Len(d)
        PROVE  d[i].serie \in Int /\ \A r \in RecsAt(d, i) : r.serie \in Int
    <3>1. d[i] \in Msg
      BY <2>1
    <3>2. d[i].serie \in Int /\ RecsAt(d, i) \subseteq Record
      BY <3>1, DdbConstants DEF Msg, MsgFields, RecsAt
    <3> QED BY <3>2, DdbConstants DEF Record
  <2> QED BY <1>2, <1>3, <2>2 DEF Honest
<1>4. FlowOf(c, d, a \in Hub[b], b \in tap[a], serie[b], serie[a], Live)
  BY DEF Flow
<1> HIDE DEF c, d
<1>5. /\ Ordered(c, serie[b], Live) => Ordered(c, serie'[b], Live)
      /\ CaughtUp(c, serie[b], serie[a], Live) => CaughtUp(c, serie'[b], serie[a], Live)
  <2> DEFINE s == serie[b]
             s2 == serie'[b]
             u == serie[a]
             L == Live
  <2>1. s \in Nat /\ s2 \in Nat /\ s <= s2 /\ u \in Nat /\ u <= u /\ \A q \in L : q.serie \in Nat
    BY <1>2
  <2>2. L \in SUBSET L
    OBVIOUS
  <2> HIDE DEF s, s2, u, L
  <2>3. /\ Ordered(c, s, L) => Ordered(c, s2, L)
        /\ CaughtUp(c, s, u, L) => CaughtUp(c, s2, u, L)
    BY <2>1, <2>2, LaterFlow
  <2> QED BY <2>3 DEF s, s2, u, L
<1>6. FlowOf(c, d, a \in Hub[b], b \in tap'[a], serie'[b], serie'[a], Live)
  BY <1>3, <1>4, <1>5 DEF FlowOf
<1> QED
  BY <1>1, <1>2, <1>6 DEF Flow, c, d

(* A step on the link of m and n that leaves the tables alone.             *)
LEMMA PairFlow ==
    ASSUME IInv, IInv', FromService, FlowInv, NEW m \in Node, NEW n \in Node,
           log' = log, serie' = serie,
           \A a, b \in Node : <<a, b>> # <<m, n>> /\ <<a, b>> # <<n, m>> =>
               chan'[<<a, b>>] = chan[<<a, b>>] /\ (b \in tap'[a] => b \in tap[a]),
           Flow(m, n)', Flow(n, m)'
    PROVE  FlowInv'
<1> SUFFICES ASSUME NEW a \in Node, NEW b \in Node PROVE Flow(a, b)'
  BY DEF FlowInv
<1>1. CASE (a = m /\ b = n) \/ (a = n /\ b = m)
  BY <1>1
<1>2. CASE ~((a = m /\ b = n) \/ (a = n /\ b = m))
  <2>1. /\ chan'[<<a, b>>] = chan[<<a, b>>] /\ chan'[<<b, a>>] = chan[<<b, a>>]
        /\ b \in tap'[a] => b \in tap[a]
    BY <1>2
  <2>2. serie[b] <= serie'[b]
    BY LiveFacts
  <2>3. Flow(a, b)
    BY DEF FlowInv
  <2> QED BY <2>1, <2>2, <2>3, KeepFlow
<1> QED
  BY <1>1, <1>2

(* What both directions of a link say before such a step.                  *)
LEMMA FlowFacts ==
    ASSUME FlowInv, NEW m \in Node, NEW n \in Node
    PROVE  /\ Within(chan[<<m, n>>], log[Service]) /\ Within(chan[<<n, m>>], log[Service])
           /\ FlowOf(chan[<<m, n>>], chan[<<n, m>>], m \in Hub[n], n \in tap[m],
                     serie[n], serie[m], Live)
           /\ FlowOf(chan[<<n, m>>], chan[<<m, n>>], n \in Hub[m], m \in tap[n],
                     serie[m], serie[n], Live)
BY DEF FlowInv, Flow

(* The serials announced when a link opens are the sender's.               *)
LEMMA OpeningFlow ==
    ASSUME NEW s \in 0..MaxSerie
    PROVE  /\ Honest(Opening(s), s)
           /\ \A S : Within(Opening(s), S)
           /\ \A u, L : Ordered(Opening(s), u, L)
<1> DEFINE c == Opening(s)
<1>1. Len(c) = 2 /\ c[1].type = "SERVER" /\ c[2].type = "J" /\ c[2].serie = s
  BY OpeningQueue
<1>2. \A i \in 1..2 : RecsAt(c, i) = {}
  BY OpeningQueue
<1>3. 1..Len(c) = {1, 2} /\ s <= s
  BY <1>1, DdbConstants
<1> HIDE DEF c
<1>4. Honest(c, s) /\ (\A S : Within(c, S)) /\ (\A u, L : Ordered(c, u, L))
  BY <1>1, <1>2, <1>3 DEF Honest, Within, Ordered
<1> QED
  BY <1>4 DEF c

(* A link is opened on two empty queues: nothing is on the way.            *)
LEMMA ConnectFlow ==
    ASSUME IInv, IInv', FromService, LinkInv, FlowInv,
           NEW i \in Node, NEW a \in Node, Connect(i, a)
    PROVE  FlowInv'
<1> DEFINE c == Opening(serie[i])
<1>1. /\ a \notin est[i] /\ i \notin est[a] /\ chan[<<a, i>>] = <<>> /\ i # a
      /\ chan' = [chan EXCEPT ![<<i, a>>] = c]
      /\ tap' = tap /\ log' = log /\ serie' = serie
  BY DdbConstants DEF Connect, Opening
<1>2. a \notin tap[i] /\ i \notin tap[a]
  BY <1>1 DEF LinkInv
<1>3. /\ Honest(c, serie[i]) /\ Within(c, log[Service])
      /\ Ordered(c, serie[a], Live)
  BY OpeningFlow DEF IInv, TypeOK
<1> HIDE DEF c
<1>4. /\ chan'[<<i, a>>] = c /\ chan'[<<a, i>>] = <<>>
      /\ \A p, q \in Node : <<p, q>> # <<i, a>> => chan'[<<p, q>>] = chan[<<p, q>>]
  BY <1>1 DEF IInv, TypeOK
<1>5. Live' = Live
  BY <1>1 DEF Live, LastOfKey, LastOfAll
<1>6. Flow(i, a)' /\ Flow(a, i)'
  BY <1>1, <1>2, <1>3, <1>4, <1>5, EmptyQueue DEF Flow, FlowOf
<1> QED
  BY <1>1, <1>4, <1>6, PairFlow

(* The answer to SERVER carries the serial of the sender and no record.    *)
LEMMA WelcomeFlow ==
    ASSUME IInv, IInv', FromService, LinkInv, FlowInv,
           NEW n \in Node, NEW m \in Node, RecvSERVER(n, m)
    PROVE  FlowInv'
<1> DEFINE c == chan[<<m, n>>]
           d == chan[<<n, m>>]
           e == chan'[<<n, m>>]
           f == Tail(c)
<1>0. Welcomed(n, m)
  BY RecvSERVERWelcomed DEF IInv
<1>1. log' = log /\ serie' = serie
  BY DEF RecvSERVER
<1>2. /\ m # n /\ c \in Queue /\ c # <<>> /\ Head(c).type = "SERVER" /\ ~Holds(d, "EOF")
      /\ chan'[<<m, n>>] = f
      /\ d = e \/ e = Opening(serie[n])
      /\ \A a, b \in Node : <<a, b>> # <<m, n>> /\ <<a, b>> # <<n, m>>
                               => chan'[<<a, b>>] = chan[<<a, b>>]
  BY <1>0 DEF Welcomed
<1>3. /\ m \notin tap'[n]
      /\ \A a, b \in Node : ~(a = n /\ b = m) => (b \in tap'[a] <=> b \in tap[a])
  BY <1>0 DEF Welcomed, IInv, TypeOK
<1>4. Live' = Live
  BY <1>1 DEF Live, LastOfKey, LastOfAll
<1>5. /\ Within(e, log[Service])
      /\ Honest(d, serie[n]) => Honest(e, serie[n])
      /\ Ordered(d, serie[m], Live) => Ordered(e, serie[m], Live)
  BY <1>2, OpeningFlow, FlowFacts DEF IInv, TypeOK
<1>6. /\ Holds(c, "EOF") => Holds(f, "EOF")
      /\ \A s : Honest(c, s) => Honest(f, s)
      /\ \A S : Within(c, S) => Within(f, S)
      /\ \A s, L : Ordered(c, s, L) => Ordered(f, s, L)
      /\ \A s, L, u : CaughtUp(c, s, u, L) => CaughtUp(f, s, u, L)
  <2> HIDE DEF c
  <2> QED BY <1>2, TailKinds, TailFlow
<1>7. /\ Within(c, log[Service])
      /\ FlowOf(c, d, m \in Hub[n], n \in tap[m], serie[n], serie[m], Live)
      /\ FlowOf(d, c, n \in Hub[m], m \in tap[n], serie[m], serie[n], Live)
  BY FlowFacts
<1>8. Flow(m, n)' /\ Flow(n, m)'
  <2> HIDE DEF c, d, e, f
  <2>1. FlowOf(f, e, m \in Hub[n], n \in tap[m], serie[n], serie[m], Live)
    BY <1>2, <1>5, <1>6, <1>7 DEF FlowOf
  <2>2. FlowOf(e, f, n \in Hub[m], m \in tap'[n], serie[m], serie[n], Live)
    BY <1>3, <1>5, <1>6, <1>7 DEF FlowOf
  <2>3. Within(e, log[Service]) /\ Within(f, log[Service])
    BY <1>5, <1>6, <1>7
  <2>4. n \in tap'[m] <=> n \in tap[m]
    BY <1>2, <1>3
  <2>5. Flow(m, n)'
    BY <1>1, <1>2, <1>4, <2>1, <2>3, <2>4 DEF Flow, e
  <2>6. Flow(n, m)'
    BY <1>1, <1>2, <1>4, <2>2, <2>3 DEF Flow, e
  <2> QED BY <2>5, <2>6
<1> QED
  BY <1>1, <1>2, <1>3, <1>8, PairFlow

(* The end of file empties both queues.                                    *)
LEMMA EndFlow ==
    ASSUME IInv, IInv', FromService, LinkInv, FlowInv,
           NEW n \in Node, NEW m \in Node, RecvEOF(n, m)
    PROVE  FlowInv'
<1>1. /\ m # n /\ chan[<<m, n>>] \in Queue /\ chan[<<m, n>>] # <<>>
      /\ Head(chan[<<m, n>>]).type = "EOF"
  BY ReadFrom DEF RecvEOF, IInv
<1>2. Holds(chan[<<m, n>>], "EOF")
  BY <1>1, TailQueue DEF Holds
<1>3. n \notin tap[m]
  BY <1>2 DEF LinkInv, Shape, ShapeOf
<1>4. /\ chan'[<<m, n>>] = <<>> /\ chan'[<<n, m>>] = <<>>
      /\ \A a, b \in Node : <<a, b>> # <<m, n>> /\ <<a, b>> # <<n, m>>
                             => chan'[<<a, b>>] = chan[<<a, b>>]
  BY <1>1 DEF RecvEOF, IInv, TypeOK
<1>5. /\ m \notin tap'[n] /\ n \notin tap'[m]
      /\ \A a, b \in Node : b \in tap'[a] => b \in tap[a]
  BY <1>1, <1>3 DEF RecvEOF, IInv, TypeOK
<1>6. log' = log /\ serie' = serie
  BY DEF RecvEOF
<1>7. Flow(m, n)' /\ Flow(n, m)'
  BY <1>4, <1>5, EmptyQueue DEF Flow, FlowOf
<1> QED
  BY <1>4, <1>5, <1>6, <1>7, PairFlow

(* The answer to a J: nothing live is left out of a burst, cut or not.     *)
LEMMA AnswerFlow ==
    ASSUME IInv, IInv', FromService, Full, LinkInv, FlowInv,
           NEW n \in Node, NEW m \in Node, RecvJ(n, m)
    PROVE  FlowInv'
<1> DEFINE c == chan[<<m, n>>]
           d == chan[<<n, m>>]
           e == chan'[<<n, m>>]
           f == Tail(c)
           s == Head(c).serie
           R == Burst(n, s)
           F == FirstOf(R, BurstMax)
<1>0. Answered(n, m)
  BY RecvJAnswered DEF IInv
<1>1. log' = log /\ serie' = serie /\ Live' = Live
  BY DEF RecvJ, Live, LastOfKey, LastOfAll
<1>2. /\ m # n /\ c \in Queue /\ d \in Queue /\ c # <<>> /\ Head(c).type = "J"
      /\ ~Holds(d, "EOF")
  BY ReadFrom DEF RecvJ, IInv
<1>3. /\ chan'[<<m, n>>] = f
      /\ \A a, b \in Node : <<a, b>> # <<m, n>> /\ <<a, b>> # <<n, m>>
                               => chan'[<<a, b>>] = chan[<<a, b>>]
  <2>1. chan' = [chan EXCEPT ![<<m, n>>] = f, ![<<n, m>>] = e]
    BY <1>0 DEF Answered
  <2> HIDE DEF e, f
  <2> QED BY <1>2, <2>1 DEF IInv, TypeOK
<1>4. /\ \A a, b \in Node : ~(a = n /\ b = m) => (b \in tap'[a] <=> b \in tap[a])
  <2>1. tap' = tap \/ tap' = TapOpened(n, m)
    BY <1>0 DEF Answered
  <2> QED BY <2>1 DEF TapOpened, IInv, TypeOK
<1>5. /\ Holds(c, "EOF") => Holds(f, "EOF")
      /\ \A t : Honest(c, t) => Honest(f, t)
      /\ \A S : Within(c, S) => Within(f, S)
      /\ \A t, L : Ordered(c, t, L) => Ordered(f, t, L)
      /\ \A t, L, u : CaughtUp(c, t, u, L) => CaughtUp(f, t, u, L)
  <2> HIDE DEF c
  <2> QED BY <1>2, TailKinds, TailFlow
<1>6. /\ Within(c, log[Service]) /\ Within(d, log[Service])
      /\ FlowOf(c, d, m \in Hub[n], n \in tap[m], serie[n], serie[m], Live)
      /\ FlowOf(d, c, n \in Hub[m], m \in tap[n], serie[m], serie[n], Live)
  BY FlowFacts
<1>7. s \in 0..MaxSerie /\ s \in Nat
  <2>1. Head(c) \in Msg
    BY <1>2, TailQueue
  <2> QED BY <2>1, DdbConstants DEF Msg, MsgFields
<1>8. ~Holds(c, "EOF") => s <= serie[m]
  <2>1. ~Holds(c, "EOF") => Honest(c, serie[m])
    BY <1>6 DEF FlowOf
  <2>2. Head(c) = c[1] /\ 1 \in 1..Len(c)
    BY <1>2, TailQueue
  <2> QED BY <1>2, <2>1, <2>2 DEF Honest
<1>9. /\ R \subseteq log[n] /\ F \subseteq R
      /\ \A r \in R : r \in log[Service] /\ r.serie <= serie[n] /\ r.serie \in Nat
      /\ \A q \in Live : q.serie <= serie[n] => q \in R \/ q.serie <= s
      /\ \A r \in F : \A q \in R : q.serie < r.serie => q \in F
  <2>1. R \subseteq log[n] /\ F \subseteq R
    BY DEF Burst, FirstOf
  <2>2. \A r \in R : r \in log[Service] /\ r.serie <= serie[n] /\ r.serie \in Nat
    BY <2>1, LiveFacts DEF IInv, FileEndsAtSerie, FromService
  <2>3. \A q \in Live : q.serie <= serie[n] => q \in R \/ q.serie <= s
    BY <1>7, LiveFacts DEF Full, Burst
  <2>4. ASSUME NEW r \in F, NEW q \in R, q.serie < r.serie PROVE q \in F
    <3> HIDE DEF s
    <3> QED BY <2>4, BurstFirst
  <2> QED BY <2>1, <2>2, <2>3, <2>4
<1>10. \A q \in Live : q.serie \in Nat /\ q \in log[Service]
  BY LiveFacts
<1>11. serie[n] \in Nat /\ serie[m] \in Nat
  BY LiveFacts
<1> DEFINE Good(h, o) ==
             /\ h \in Queue /\ ~Holds(h, "EOF")
             /\ Within(h, log[Service])
             /\ Honest(h, serie[n])
             /\ ~Holds(c, "EOF") /\ n \in Hub[m] =>
                   /\ Ordered(h, serie[m], Live)
                   /\ o => CaughtUp(h, serie[m], serie[n], Live)
<1>12. /\ d \in Queue /\ ~Holds(d, "EOF") /\ Within(d, log[Service])
       /\ Honest(d, serie[n])
       /\ ~Holds(c, "EOF") /\ n \in Hub[m] => Ordered(d, serie[m], Live)
  BY <1>2, <1>6 DEF FlowOf
<1>13. ASSUME NEW Q \in SUBSET R, Q # {}, RecMsg(Q) \in Msg,
              \A r \in Q : \A q \in R : q.serie < r.serie => q \in Q
       PROVE  Good(Append(d, RecMsg(Q)), Q = R)
  <2> DEFINE x == RecMsg(Q)
  <2>1. x \in Msg /\ x.type = "REC" /\ x.recs = Q
    BY <1>13 DEF RecMsg, Message
  <2> HIDE DEF x, c, d, R, F, s
  <2>2. Append(d, x) \in Queue /\ ~Holds(Append(d, x), "EOF")
    BY <1>12, <2>1, AppendKinds
  <2>3. Within(Append(d, x), log[Service]) /\ Honest(Append(d, x), serie[n])
    BY <1>9, <1>12, <2>1, AppendFlow
  <2>4. ASSUME ~Holds(c, "EOF"), n \in Hub[m] PROVE Ordered(Append(d, x), serie[m], Live)
    <3>1. ASSUME NEW r \in Q, NEW q \in Live, q.serie < r.serie
          PROVE  q \in Q \/ Comes(d, serie[m], Len(d), q)
      <4>1. q.serie <= serie[n]
        BY <1>9, <1>10, <1>11, <3>1
      <4>2. q \in Q \/ q.serie <= serie[m]
        BY <1>7, <1>8, <1>9, <1>10, <1>11, <1>13, <2>4, <3>1, <4>1
      <4> QED BY <4>2 DEF Comes
    <3> QED BY <1>12, <2>1, <2>4, <3>1, AppendFlow
  <2>5. ASSUME ~Holds(c, "EOF"), n \in Hub[m], Q = R
        PROVE  CaughtUp(Append(d, x), serie[m], serie[n], Live)
    <3>1. ASSUME NEW q \in Live, q.serie <= serie[n]
          PROVE  q \in Q \/ Comes(d, serie[m], Len(d), q)
      <4>1. q \in Q \/ q.serie <= serie[m]
        BY <1>7, <1>8, <1>9, <1>10, <1>11, <2>5, <3>1
      <4> QED BY <4>1 DEF Comes
    <3> QED BY <1>12, <2>1, <3>1, AppendFlow
  <2> QED BY <2>2, <2>3, <2>4, <2>5 DEF x
<1>14. Good(e, m \in tap'[n])
  <2>1. CASE s >= serie[n] /\ e = d
    <3>1. ASSUME ~Holds(c, "EOF") PROVE CaughtUp(d, serie[m], serie[n], Live)
      BY <1>7, <1>8, <1>10, <1>11, <2>1, <3>1 DEF CaughtUp, Comes
    <3> QED BY <1>12, <2>1, <3>1
  <2>2. CASE s < serie[n] /\ e = Append(d, RecMsg(R))
    <3>1. R # {} /\ RecMsg(R) \in Msg
      <4> HIDE DEF s
      <4> QED BY <1>7, <2>2, BurstNotEmpty, MessageTypes, TypeOKSplit DEF IInv
    <3> HIDE DEF R, c, d, e, s
    <3>2. Good(Append(d, RecMsg(R)), R = R)
      BY <1>13, <3>1
    <3> QED BY <2>2, <3>2
  <2>3. CASE s < serie[n] /\ m \notin tap'[n] /\ e = Append(Append(d, RecMsg(F)), BMsg)
    <3>1. F # {} /\ RecMsg(F) \in Msg
      <4> HIDE DEF s
      <4> QED BY <1>7, <2>3, BurstNotEmpty, MessageTypes, TypeOKSplit DEF IInv
    <3> HIDE DEF R, F, c, d, e, s
    <3>2. Good(Append(d, RecMsg(F)), F = R)
      BY <1>9, <1>13, <3>1
    <3> DEFINE g == Append(d, RecMsg(F))
    <3>3. /\ g \in Queue /\ ~Holds(g, "EOF") /\ Within(g, log[Service]) /\ Honest(g, serie[n])
          /\ ~Holds(c, "EOF") /\ n \in Hub[m] => Ordered(g, serie[m], Live)
      BY <3>2
    <3>4. BMsg \in Msg /\ BMsg.type = "B"
      BY MessageTypes DEF BMsg, Message
    <3>5. e = Append(g, BMsg)
      BY <2>3
    <3> HIDE DEF g
    <3>6. e \in Queue /\ ~Holds(e, "EOF")
      BY <3>3, <3>4, <3>5, AppendKinds
    <3>7. /\ Within(e, log[Service]) /\ Honest(e, serie[n])
          /\ ~Holds(c, "EOF") /\ n \in Hub[m] => Ordered(e, serie[m], Live)
      BY <3>3, <3>4, <3>5, AppendFlow
    <3> QED BY <2>3, <3>6, <3>7
  <2> QED BY <1>0, <2>1, <2>2, <2>3 DEF Answered
<1>15. Flow(m, n)' /\ Flow(n, m)'
  <2>0. Good(e, m \in tap'[n])
    BY <1>14
  <2> HIDE DEF c, d, e, f
  <2>1. FlowOf(f, e, m \in Hub[n], n \in tap[m], serie[n], serie[m], Live)
    BY <1>2, <1>5, <1>6, <2>0 DEF FlowOf
  <2>2. FlowOf(e, f, n \in Hub[m], m \in tap'[n], serie[m], serie[n], Live)
    BY <1>5, <1>6, <2>0 DEF FlowOf
  <2>3. Within(e, log[Service]) /\ Within(f, log[Service])
    BY <1>5, <1>6, <2>0
  <2>4. n \in tap'[m] <=> n \in tap[m]
    BY <1>2, <1>4
  <2>5. Flow(m, n)'
    BY <1>1, <1>3, <2>1, <2>3, <2>4 DEF Flow, e
  <2>6. Flow(n, m)'
    BY <1>1, <1>3, <2>2, <2>3 DEF Flow, e
  <2> QED BY <2>5, <2>6
<1> QED
  BY <1>1, <1>3, <1>4, <1>15, PairFlow

(* B asks for more: the J that answers it tells the receiver's serial.     *)
LEMMA AskFlow ==
    ASSUME IInv, IInv', FromService, LinkInv, FlowInv,
           NEW n \in Node, NEW m \in Node, RecvB(n, m)
    PROVE  FlowInv'
<1> DEFINE c == chan[<<m, n>>]
           d == chan[<<n, m>>]
           f == Tail(c)
           x == JMsg(serie[n])
           e == chan'[<<n, m>>]
<1>1. log' = log /\ serie' = serie /\ tap' = tap /\ Live' = Live
  BY DEF RecvB, Live, LastOfKey, LastOfAll
<1>2. /\ m # n /\ c \in Queue /\ d \in Queue /\ c # <<>> /\ Head(c).type = "B"
      /\ ~Holds(d, "EOF")
  BY ReadFrom DEF RecvB, IInv
<1>3. \A a, b \in Node : Parsed(m, n)[<<a, b>>] = IF a = m /\ b = n THEN Tail(c) ELSE chan[<<a, b>>]
  BY DEF Parsed, IInv, TypeOK
<1>4. \A a, b \in Node : Sent(Parsed(m, n), n, {m}, x)[<<a, b>>]
         = IF a = n /\ b = m THEN Append(Parsed(m, n)[<<a, b>>], x) ELSE Parsed(m, n)[<<a, b>>]
  BY DEF Sent
<1>5. /\ chan'[<<m, n>>] = f
      /\ \A a, b \in Node : <<a, b>> # <<m, n>> /\ <<a, b>> # <<n, m>>
                             => chan'[<<a, b>>] = chan[<<a, b>>]
      /\ e = d \/ e = Append(d, x)
  <2>1. chan' = Parsed(m, n) \/ chan' = Sent(Parsed(m, n), n, {m}, x)
    BY DEF RecvB
  <2> HIDE DEF c, d, x
  <2>2. CASE chan' = Parsed(m, n)
    BY <1>2, <1>3, <2>2 DEF d
  <2>3. CASE chan' = Sent(Parsed(m, n), n, {m}, x)
    BY <1>2, <1>3, <1>4, <2>3 DEF d
  <2> QED BY <2>1, <2>2, <2>3
<1>6. /\ Holds(c, "EOF") => Holds(f, "EOF")
      /\ \A t : Honest(c, t) => Honest(f, t)
      /\ \A S : Within(c, S) => Within(f, S)
      /\ \A t, L : Ordered(c, t, L) => Ordered(f, t, L)
      /\ \A t, L, u : CaughtUp(c, t, u, L) => CaughtUp(f, t, u, L)
  <2> HIDE DEF c
  <2> QED BY <1>2, TailKinds, TailFlow
<1>7. x \in Msg /\ x.type = "J" /\ x.serie <= serie[n]
  <2>1. serie[n] \in 0..MaxSerie /\ serie[n] <= serie[n]
    BY DdbConstants DEF IInv, TypeOK
  <2> QED BY <2>1, MessageTypes DEF JMsg, Message
<1>8. /\ Within(c, log[Service]) /\ Within(d, log[Service])
      /\ FlowOf(c, d, m \in Hub[n], n \in tap[m], serie[n], serie[m], Live)
      /\ FlowOf(d, c, n \in Hub[m], m \in tap[n], serie[m], serie[n], Live)
  BY FlowFacts
<1>9. /\ Within(e, log[Service])
      /\ Honest(d, serie[n]) => Honest(e, serie[n])
      /\ Ordered(d, serie[m], Live) => Ordered(e, serie[m], Live)
      /\ CaughtUp(d, serie[m], serie[n], Live) => CaughtUp(e, serie[m], serie[n], Live)
  <2>1. CASE e = d
    BY <1>8, <2>1
  <2>2. CASE e = Append(d, x)
    <3> HIDE DEF d, e, x
    <3>1. CaughtUp(d, serie[m], serie[n], Live) => CaughtUp(e, serie[m], serie[n], Live)
      BY <1>2, <1>7, <2>2, AppendFlow DEF CaughtUp
    <3> QED BY <1>2, <1>7, <1>8, <2>2, <3>1, AppendFlow
  <2> QED BY <1>5, <2>1, <2>2
<1>10. Flow(m, n)' /\ Flow(n, m)'
  <2> HIDE DEF c, d, e, f
  <2>1. FlowOf(f, e, m \in Hub[n], n \in tap[m], serie[n], serie[m], Live)
    BY <1>2, <1>6, <1>8, <1>9 DEF FlowOf
  <2>2. FlowOf(e, f, n \in Hub[m], m \in tap[n], serie[m], serie[n], Live)
    BY <1>6, <1>8, <1>9 DEF FlowOf
  <2>3. Within(e, log[Service]) /\ Within(f, log[Service])
    BY <1>6, <1>8, <1>9
  <2>4. Flow(m, n)'
    BY <1>1, <1>5, <2>1, <2>3 DEF Flow, e
  <2>5. Flow(n, m)'
    BY <1>1, <1>5, <2>2, <2>3 DEF Flow, e
  <2> QED BY <2>4, <2>5
<1> QED
  BY <1>1, <1>5, <1>10, PairFlow

(* A record that is refused was counted already, or comes from no hub.     *)
LEMMA IgnoreFlow ==
    ASSUME IInv, IInv', FromService, LinkInv, FlowInv,
           NEW n \in Node, NEW m \in Node, IgnoreRec(n, m)
    PROVE  FlowInv'
<1> DEFINE c == chan[<<m, n>>]
           d == chan[<<n, m>>]
           f == Taken(c)
           r == NextRec(Head(c).recs)
<1>1. log' = log /\ serie' = serie /\ tap' = tap /\ Live' = Live
  BY DEF IgnoreRec, Live, LastOfKey, LastOfAll
<1>2. /\ m # n /\ c \in Queue /\ d \in Queue /\ c # <<>> /\ Head(c).type = "REC"
  BY ReadFrom DEF IgnoreRec, IInv
<1>3. chan' = [chan EXCEPT ![<<m, n>>] = f]
  BY RecTakenIs DEF IgnoreRec, IInv
<1>4. /\ chan'[<<m, n>>] = f /\ chan'[<<n, m>>] = d
      /\ \A a, b \in Node : <<a, b>> # <<m, n>> => chan'[<<a, b>>] = chan[<<a, b>>]
  <2> HIDE DEF f
  <2> QED BY <1>2, <1>3 DEF IInv, TypeOK
<1>5. m \in Hub[n] => r.serie <= serie[n]
  BY DEF IgnoreRec, Refused
<1>6. serie[n] \in Nat
  BY LiveFacts
<1>7. /\ Holds(c, "EOF") => Holds(f, "EOF")
      /\ \A t : Honest(c, t) => Honest(f, t)
      /\ \A S : Within(c, S) => Within(f, S)
      /\ m \in Hub[n] => \A L : Ordered(c, serie[n], L) => Ordered(f, serie[n], L)
      /\ m \in Hub[n] => \A L, u : CaughtUp(c, serie[n], u, L) => CaughtUp(f, serie[n], u, L)
  <2> HIDE DEF c
  <2> QED BY <1>2, <1>5, <1>6, TakenKinds, TakenFlow
<1>8. /\ Within(c, log[Service]) /\ Within(d, log[Service])
      /\ FlowOf(c, d, m \in Hub[n], n \in tap[m], serie[n], serie[m], Live)
      /\ FlowOf(d, c, n \in Hub[m], m \in tap[n], serie[m], serie[n], Live)
  BY FlowFacts
<1>9. Flow(m, n)' /\ Flow(n, m)'
  <2> HIDE DEF c, d, f
  <2>1. FlowOf(f, d, m \in Hub[n], n \in tap[m], serie[n], serie[m], Live)
    BY <1>7, <1>8 DEF FlowOf
  <2>2. FlowOf(d, f, n \in Hub[m], m \in tap[n], serie[m], serie[n], Live)
    BY <1>7, <1>8 DEF FlowOf
  <2>3. Within(d, log[Service]) /\ Within(f, log[Service])
    BY <1>7, <1>8
  <2>4. Flow(m, n)'
    BY <1>1, <1>4, <2>1, <2>3 DEF Flow
  <2>5. Flow(n, m)'
    BY <1>1, <1>4, <2>2, <2>3 DEF Flow
  <2> QED BY <2>4, <2>5
<1> QED
  BY <1>1, <1>4, <1>9, PairFlow

(* n hangs up, and may lose its table with it.                             *)
LEMMA HangUpFlow ==
    ASSUME IInv, IInv', FromService, LinkInv, FlowInv, NEW n \in Node, NEW T, HungUp(n, T),
           serie' = serie \/ (T = Node \ {n} /\ \A k \in T : serie'[k] = serie[k]),
           log'[Service] = log[Service]
    PROVE  FlowInv'
<1>1. Live' = Live
  BY DEF Live, LastOfKey, LastOfAll
<1>2. ASSUME NEW x \in T PROVE Flow(n, x)' /\ Flow(x, n)'
  <2> DEFINE c == chan[<<n, x>>]
             e == chan'[<<n, x>>]
  <2>1. /\ x \in Node /\ x # n /\ chan'[<<x, n>>] = <<>> /\ serie'[x] = serie[x]
        /\ x \notin tap'[n] /\ (n \in tap'[x] <=> n \in tap[x]) /\ c \in Queue
    <3>1. x \in Node /\ x # n
      BY DEF HungUp
    <3>2. chan'[<<x, n>>] = <<>> /\ x \notin tap'[n] /\ (n \in tap'[x] <=> n \in tap[x])
      BY <3>1 DEF HungUp
    <3>3. serie'[x] = serie[x]
      OBVIOUS
    <3>4. c \in Queue
      BY <3>1 DEF IInv, TypeOK, Queue
    <3> QED BY <3>1, <3>2, <3>3, <3>4
  <2>2. n \in tap[x] => n \in est[x]
    BY <2>1 DEF LinkInv
  <2>3. CASE n \notin est[x]
    <3>1. e = <<>> /\ n \notin tap'[x]
      BY <2>1, <2>2, <2>3 DEF HungUp
    <3> QED BY <2>1, <3>1, EmptyQueue DEF Flow, FlowOf
  <2>4. CASE n \in est[x]
    <3>1. PICK f \in Queue : e = Append(f, EOFMsg) /\ (f = <<>> \/ f = c)
      BY <2>1, <2>4, EmptyQueue DEF HungUp
    <3>2. EOFMsg \in Msg /\ EOFMsg.type = "EOF"
      BY MessageTypes DEF EOFMsg, Message
    <3>3. ~Holds(chan[<<x, n>>], "EOF")
      BY <2>1, <2>4 DEF LinkInv, Shape, ShapeOf
    <3>4. /\ Within(c, log[Service])
          /\ n \in Hub[x] => Ordered(c, serie[x], Live)
      BY <2>1, <3>3, FlowFacts DEF FlowOf
    <3>5. /\ Within(f, log[Service])
          /\ n \in Hub[x] => Ordered(f, serie[x], Live)
      BY <3>1, <3>4, EmptyQueue
    <3> HIDE DEF c, e
    <3>6. /\ Within(e, log[Service]) /\ Holds(e, "EOF")
          /\ n \in Hub[x] => Ordered(e, serie[x], Live)
      BY <3>1, <3>2, <3>5, AppendFlow, AppendKinds
    <3>7. Flow(x, n)'
      BY <2>1, <3>6, EmptyQueue DEF Flow, FlowOf, e
    <3>8. Flow(n, x)'
      BY <1>1, <2>1, <3>6, EmptyQueue DEF Flow, FlowOf, e
    <3> QED BY <3>7, <3>8
  <2> QED BY <2>3, <2>4
<1>3. ASSUME NEW a \in Node, NEW b \in Node PROVE Flow(a, b)'
  <2>1. CASE (a = n /\ b \in T) \/ (b = n /\ a \in T)
    BY <1>2, <2>1
  <2>2. CASE ~(a = n /\ b \in T) /\ ~(b = n /\ a \in T)
    <3>1. chan'[<<a, b>>] = chan[<<a, b>>] /\ chan'[<<b, a>>] = chan[<<b, a>>]
      BY <2>2 DEF HungUp
    <3>2. b \in tap'[a] <=> b \in tap[a]
      BY <2>2 DEF HungUp
    <3>3. CASE serie' = serie \/ (a # n /\ b # n)
      <4>1. serie'[a] = serie[a] /\ serie'[b] = serie[b] /\ serie[b] <= serie[b]
        BY <3>3, LiveFacts DEF HungUp
      <4>2. Flow(a, b)
        BY DEF FlowInv
      <4> QED BY <3>1, <3>2, <4>1, <4>2, KeepFlow
    <3>4. CASE T = Node \ {n} /\ a = n /\ b = n
      <4>1. chan[<<a, b>>] = <<>> /\ b \notin tap[a]
        BY <3>4 DEF LinkInv, Shape, ShapeOf
      <4> QED BY <3>1, <3>2, <3>4, <4>1, EmptyQueue DEF Flow, FlowOf
    <3> QED BY <2>2, <3>3, <3>4
  <2> QED BY <2>1, <2>2
<1> QED
  BY <1>3 DEF FlowInv

(* A record that is accepted is the next live one, so the listeners get it *)
(* after all that precede it, and the file goes on without a hole.         *)
LEMMA AcceptFacts ==
    ASSUME IInv, FromService, LinkInv, FlowInv, NEW n \in Node, NEW m \in Node, RecvRec(n, m)
    PROVE  LET c == chan[<<m, n>>]
               r == NextRec(Head(c).recs)
           IN  /\ m # n /\ m \in Hub[n] /\ n # Service /\ n \in Server
               /\ c \in Queue /\ c # <<>> /\ Head(c).type = "REC"
               /\ r \in Head(c).recs /\ r \in log[Service] /\ r \in Record
               /\ r.serie \in Nat /\ serie[n] \in Nat /\ serie[n] < r.serie
               /\ ~Holds(c, "EOF") => r.serie <= serie[m]
               /\ \A q \in Live : q.serie <= r.serie => q = r \/ q.serie <= serie[n]
               /\ Apply(n, r) /\ log'[Service] = log[Service]
               /\ serie'[n] = r.serie /\ \A k \in Node : k # n => serie'[k] = serie[k]
<1> DEFINE c == chan[<<m, n>>]
           r == NextRec(Head(c).recs)
<1>1. /\ m # n /\ c \in Queue /\ chan[<<n, m>>] \in Queue /\ c # <<>> /\ Head(c).type = "REC"
      /\ ~Holds(chan[<<n, m>>], "EOF")
  BY ReadFrom DEF RecvRec, IInv
<1>2. ~Refused(n, m, r) /\ Apply(n, r)
  BY DEF RecvRec
<1>3. m \in Hub[n] /\ n # Service /\ n \in Server
  BY <1>2, DdbConstants DEF Refused, Node
<1>4. r \in Head(c).recs /\ \A q \in Head(c).recs : r.serie <= q.serie
  <2> HIDE DEF c
  <2> QED BY <1>1, TakenQueue
<1>5. 1 \in 1..Len(c) /\ RecsAt(c, 1) = Head(c).recs
  BY <1>1, TailQueue DEF RecsAt
<1>6. /\ Within(c, log[Service]) /\ Ordered(c, serie[n], Live)
      /\ ~Holds(c, "EOF") => Honest(c, serie[m])
  BY <1>1, <1>3, FlowFacts DEF FlowOf
<1>7. r \in log[Service] /\ (~Holds(c, "EOF") => r.serie <= serie[m])
  BY <1>4, <1>5, <1>6 DEF Within, Honest
<1>8. r \in Record /\ r.serie \in Nat /\ serie[n] \in Nat
  BY <1>7, LiveFacts
<1>9. serie[n] < r.serie
  BY <1>2, <1>3, <1>8 DEF Refused
<1>10. ASSUME NEW q \in Live, q.serie <= r.serie PROVE q = r \/ q.serie <= serie[n]
  <2>1. q \in log[Service] /\ q.serie \in Nat
    BY LiveFacts
  <2>2. CASE q.serie = r.serie
    BY <1>7, <2>1, <2>2, LiveFacts DEF Distinct
  <2>3. CASE q.serie < r.serie
    <3>1. Comes(c, serie[n], 1, q)
      BY <1>4, <1>5, <1>6, <2>3 DEF Ordered
    <3>2. q \notin RecsAt(c, 1)
      BY <1>4, <1>5, <1>8, <2>1, <2>3
    <3> QED BY <3>1, <3>2 DEF Comes
  <2> QED BY <1>8, <1>10, <2>1, <2>2, <2>3
<1>11. /\ log'[Service] = log[Service]
       /\ serie'[n] = r.serie /\ \A k \in Node : k # n => serie'[k] = serie[k]
  <2> HIDE DEF r
  <2> QED BY <1>2, <1>3 DEF Apply, IInv, TypeOK, Node
<1> QED
  BY <1>1, <1>2, <1>3, <1>4, <1>7, <1>8, <1>9, <1>10, <1>11

(* db_pack keeps what is live.                                             *)
LEMMA AcceptTable ==
    ASSUME IInv, MemoryIsFile, FromService, Full, LinkInv, FlowInv,
           NEW n \in Node, NEW m \in Node, RecvRec(n, m)
    PROVE  FromService' /\ Full'
<1> DEFINE r == NextRec(Head(chan[<<m, n>>]).recs)
<1>1. /\ n # Service /\ n \in Server /\ r \in log[Service] /\ r.serie \in Nat
      /\ serie[n] \in Nat /\ serie[n] < r.serie
      /\ \A q \in Live : q.serie <= r.serie => q = r \/ q.serie <= serie[n]
      /\ Apply(n, r) /\ log'[Service] = log[Service]
      /\ serie'[n] = r.serie /\ \A k \in Node : k # n => serie'[k] = serie[k]
  BY AcceptFacts
<1> HIDE DEF r
<1>2. Live' = Live
  BY <1>1 DEF Live, LastOfKey, LastOfAll
<1>3. /\ log'[n] = LogAfter(n, log[n], mem[n], r)
      /\ \A k \in Node : k # n => log'[k] = log[k]
  BY <1>1 DEF Apply, IInv, TypeOK
<1>4. r \in log'[n] /\ log'[n] \subseteq log[n] \cup {r}
  BY <1>3 DEF LogAfter, Packed
<1>5. FromService'
  BY <1>1, <1>3, <1>4 DEF FromService
<1>6. ASSUME NEW q \in Live, q \in log[n] PROVE q \in log'[n]
  <2>0. CASE ~Checkpoints
    BY <1>1, <1>3, <1>6, <2>0 DEF LogAfter, FromService
  <2> SUFFICES ASSUME LastOfKey(q) PROVE q \in log'[n]
    <3>1. q.serie \in Nat /\ q.serie <= serie[n]
      BY <1>6, LiveFacts DEF IInv, FileEndsAtSerie
    <3>2. ~LastOfAll(q)
      BY <1>1, <3>1 DEF LastOfAll
    <3> QED BY <2>0, <3>2 DEF Live
  <2>1. /\ q.key \in Key /\ q.val # NoValue /\ q \in log[Service]
        /\ \A p \in log[Service] : p.key = q.key => p.serie <= q.serie
    BY DEF Live, LastOfKey, LastOfAll
  <2>2. ForMe(n, q)
    BY <1>1, <2>1 DEF FromService, ForMe
  <2>3. IsLatest(q, q.key, n, log[n])
    BY <1>6, <2>1, <2>2 DEF IsLatest, FromService
  <2>4. Resident => mem[n][q.key] = q.val
    <3>1. log[n] \in SUBSET Record /\ Distinct(log[n]) /\ mem[n] = Replay(n, log[n])
      BY DEF IInv, TypeOK, FileEndsAtSerie, Distinct, MemoryIsFile
    <3> QED BY <1>6, <2>1, <2>3, <3>1, ReplayLatest
  <2>5. q \in Packed(log[n], mem[n])
    BY <1>6, <2>1, <2>4 DEF Packed
  <2> QED BY <1>3, <1>6, <2>5 DEF LogAfter
<1>7. ASSUME NEW k \in Node, NEW q \in Live, q.serie <= serie'[k] PROVE q \in log'[k]
  <2>1. CASE k # n
    BY <1>1, <1>3, <1>7, <2>1 DEF Full
  <2>2. CASE k = n
    BY <1>1, <1>4, <1>6, <1>7, <2>2 DEF Full
  <2> QED BY <2>1, <2>2
<1> QED
  BY <1>2, <1>5, <1>7 DEF Full

(* A record passed on keeps its place on a link whose tap is open.         *)
LEMMA PassOn ==
    ASSUME NEW c \in Queue, NEW r \in Record, NEW s, NEW u, NEW L, NEW M,
           \A q \in M : q.serie <= r.serie => q = r \/ (q \in L /\ q.serie <= u),
           \A q \in M : q.serie \in Int,
           Ordered(c, s, M), CaughtUp(c, s, u, L)
    PROVE  /\ Ordered(Append(c, RecMsg({r})), s, M)
           /\ CaughtUp(Append(c, RecMsg({r})), s, r.serie, M)
<1> DEFINE x == RecMsg({r})
<1>1. x \in Msg /\ x.type = "REC" /\ x.recs = {r}
  BY MessageTypes DEF RecMsg, Message
<1>2. \A q \in M : q.serie <= r.serie => q \in x.recs \/ Comes(c, s, Len(c), q)
  BY <1>1 DEF CaughtUp
<1>3. r.serie \in Int
  BY DdbConstants DEF Record
<1> HIDE DEF x
<1>4. Ordered(Append(c, x), s, M)
  BY <1>1, <1>2, <1>3, AppendFlow
<1>5. CaughtUp(Append(c, x), s, r.serie, M)
  BY <1>1, <1>2, AppendFlow
<1> QED
  BY <1>4, <1>5 DEF x

(* What a sender has said stays true when it advances.                     *)
LEMMA LaterHonest ==
    ASSUME NEW d \in Queue, NEW s \in Int, NEW s2 \in Int, s <= s2, Honest(d, s)
    PROVE  Honest(d, s2)
<1>1. ASSUME NEW i \in 1..Len(d)
      PROVE  d[i].serie \in Int /\ \A r \in RecsAt(d, i) : r.serie \in Int
  <2>1. d[i] \in Msg
    BY DEF Queue
  <2>2. d[i].serie \in Int /\ RecsAt(d, i) \subseteq Record
    BY <2>1, DdbConstants DEF Msg, MsgFields, RecsAt
  <2> QED BY <2>2, DdbConstants DEF Record
<1> QED
  BY <1>1 DEF Honest

(* A record that is stored and passed on keeps every link in order.        *)
LEMMA AcceptFlow ==
    ASSUME IInv, IInv', FromService, LinkInv, FlowInv,
           NEW n \in Node, NEW m \in Node, RecvRec(n, m)
    PROVE  FlowInv'
<1> DEFINE c == chan[<<m, n>>]
           d == chan[<<n, m>>]
           f == Taken(c)
           r == NextRec(Head(c).recs)
           x == RecMsg({r})
           T == Listeners(n, m)
<1>1. /\ m # n /\ m \in Hub[n] /\ n # Service
      /\ c \in Queue /\ c # <<>> /\ Head(c).type = "REC"
      /\ r \in log[Service] /\ r \in Record
      /\ r.serie \in Nat /\ serie[n] \in Nat /\ serie[n] < r.serie
      /\ ~Holds(c, "EOF") => r.serie <= serie[m]
      /\ \A q \in Live : q.serie <= r.serie => q = r \/ q.serie <= serie[n]
      /\ log'[Service] = log[Service]
      /\ serie'[n] = r.serie /\ \A k \in Node : k # n => serie'[k] = serie[k]
  BY AcceptFacts
<1>2. Live' = Live /\ tap' = tap
  BY <1>1 DEF Live, LastOfKey, LastOfAll, RecvRec
<1>3. x \in Msg /\ x.type = "REC" /\ x.recs = {r}
  <2> HIDE DEF r
  <2> QED BY <1>1, MessageTypes DEF RecMsg, Message
<1>4. T \subseteq Node /\ m \notin T /\ n \notin T /\ \A b \in tap[n] : b \in T \/ b = m
  BY DEF Listeners, LinkInv, IInv, TypeOK
<1>5. chan' = Sent(RecTaken(m, n), n, T, x) /\ RecTaken(m, n) = [chan EXCEPT ![<<m, n>>] = f]
  BY RecTakenIs DEF RecvRec, IInv
<1> HIDE DEF r, x, T
<1>6. \A a, b \in Node : chan'[<<a, b>>] = IF a = n /\ b \in T THEN Append(chan[<<a, b>>], x)
                                           ELSE IF a = m /\ b = n THEN f ELSE chan[<<a, b>>]
  <2>1. \A a, b \in Node : chan'[<<a, b>>] = IF a = n /\ b \in T THEN Append(RecTaken(m, n)[<<a, b>>], x)
                                             ELSE RecTaken(m, n)[<<a, b>>]
    BY <1>5 DEF Sent
  <2> HIDE DEF f
  <2>2. \A a, b \in Node : RecTaken(m, n)[<<a, b>>] = IF a = m /\ b = n THEN f ELSE chan[<<a, b>>]
    BY <1>5 DEF IInv, TypeOK
  <2> HIDE DEF c, x
  <2> TAKE a, b \in Node
  <2>3. CASE a = n /\ b \in T
    <3>1. chan'[<<a, b>>] = Append(RecTaken(m, n)[<<a, b>>], x)
      BY <2>1, <2>3
    <3>2. RecTaken(m, n)[<<a, b>>] = chan[<<a, b>>]
      BY <1>1, <2>2, <2>3
    <3> QED BY <2>3, <3>1, <3>2
  <2>4. CASE ~(a = n /\ b \in T)
    BY <2>1, <2>2, <2>4
  <2> QED BY <2>3, <2>4
<1>7. /\ \A k \in Node : serie[k] \in Nat /\ serie[k] <= serie'[k]
      /\ \A q \in Live : q.serie \in Nat
  BY <1>1, LiveFacts
<1>8. Flow(m, n)'
  <2>1. FlowOf(c, d, m \in Hub[n], n \in tap[m], serie[n], serie[m], Live) /\ Within(c, log[Service])
    BY FlowFacts
  <2>2. chan'[<<m, n>>] = f /\ chan'[<<n, m>>] = d /\ d \in Queue
    BY <1>1, <1>4, <1>6 DEF IInv, TypeOK, Queue
  <2>3. serie'[n] = r.serie /\ serie'[m] = serie[m] /\ serie[m] \in Nat
    BY <1>1, <1>7
  <2>4. Within(f, log[Service])
    <3> HIDE DEF c
    <3> QED BY <1>1, <2>1, TakenFlow
  <2>5. Honest(d, serie[n]) => Honest(d, r.serie)
    BY <1>1, <2>2, LaterHonest
  <2> HIDE DEF c, d
  <2> DEFINE s2 == r.serie
             s == serie[n]
             u == serie[m]
             L == Live
  <2>6. s \in Nat /\ s2 \in Nat /\ s <= s2 /\ u \in Nat /\ u <= u /\ \A q \in L : q.serie \in Nat
    BY <1>1, <1>7, <2>3
  <2>7. L \in SUBSET L /\ NextRec(Head(c).recs).serie <= s2
    BY <2>6 DEF r
  <2> HIDE DEF s2, s, u, L
  <2>8. /\ Ordered(c, s, L) => Ordered(c, s2, L)
        /\ CaughtUp(c, s, u, L) => CaughtUp(c, s2, u, L)
    BY <2>6, <2>7, LaterFlow
  <2>9. /\ Ordered(c, s, L) => Ordered(f, s2, L)
        /\ CaughtUp(c, s, u, L) => CaughtUp(f, s2, u, L)
    BY <1>1, <2>6, <2>7, <2>8, TakenFlow
  <2>10. FlowOf(f, d, m \in Hub[n], n \in tap[m], r.serie, serie[m], Live)
    BY <2>1, <2>5, <2>9 DEF FlowOf, s2, s, u, L
  <2> QED BY <1>1, <1>2, <2>2, <2>3, <2>4, <2>10 DEF Flow
<1>9. Flow(n, m)'
  <2>1. FlowOf(d, c, n \in Hub[m], m \in tap[n], serie[m], serie[n], Live) /\ Within(d, log[Service])
    BY FlowFacts
  <2>2. chan'[<<m, n>>] = f /\ chan'[<<n, m>>] = d
    BY <1>1, <1>4, <1>6
  <2>3. serie'[n] = r.serie /\ serie'[m] = serie[m] /\ serie[m] \in Nat
    BY <1>1, <1>7
  <2> HIDE DEF d
  <2>4. ~Holds(c, "EOF") => CaughtUp(d, serie[m], r.serie, Live)
    BY <1>1, <1>7, <2>3 DEF CaughtUp, Comes
  <2>5. /\ Holds(c, "EOF") => Holds(f, "EOF")
        /\ Honest(c, serie[m]) => Honest(f, serie[m])
    <3> HIDE DEF c
    <3> QED BY <1>1, TakenKinds, TakenFlow
  <2> HIDE DEF c, f
  <2>6. FlowOf(d, f, n \in Hub[m], m \in tap[n], serie[m], r.serie, Live)
    BY <2>1, <2>4, <2>5 DEF FlowOf
  <2> QED BY <1>1, <1>2, <2>1, <2>2, <2>3, <2>6 DEF Flow
<1>10. ASSUME NEW k \in T PROVE Flow(n, k)' /\ Flow(k, n)'
  <2> DEFINE g == chan[<<n, k>>]
             h == chan[<<k, n>>]
             e == Append(g, x)
  <2>1. k \in Node /\ k # n /\ k # m /\ k \in tap[n]
    BY <1>4 DEF T, Listeners
  <2>2. chan'[<<n, k>>] = e /\ chan'[<<k, n>>] = h /\ g \in Queue /\ h \in Queue
    BY <1>1, <1>6, <2>1 DEF IInv, TypeOK, Queue
  <2>3. /\ FlowOf(g, h, n \in Hub[k], k \in tap[n], serie[k], serie[n], Live)
        /\ FlowOf(h, g, k \in Hub[n], n \in tap[k], serie[n], serie[k], Live)
        /\ Within(g, log[Service]) /\ Within(h, log[Service])
    BY <2>1, FlowFacts
  <2>4. serie'[n] = r.serie /\ serie'[k] = serie[k] /\ serie[k] \in Nat
    BY <1>1, <1>7, <2>1
  <2> HIDE DEF g, h
  <2>5. Within(e, log[Service]) /\ (Holds(g, "EOF") => Holds(e, "EOF"))
    BY <1>1, <1>3, <2>2, <2>3, AppendFlow, AppendKinds
  <2>6. Honest(g, serie[n]) => Honest(e, r.serie)
    <3>1. Honest(g, serie[n]) => Honest(g, r.serie)
      BY <1>1, <2>2, LaterHonest
    <3> QED BY <1>1, <1>3, <2>2, <3>1, AppendFlow
  <2>7. ASSUME Ordered(g, serie[k], Live), CaughtUp(g, serie[k], serie[n], Live)
        PROVE  Ordered(e, serie[k], Live) /\ CaughtUp(e, serie[k], r.serie, Live)
    <3> DEFINE s == serie[k]
               u == serie[n]
               L == Live
    <3>1. /\ \A q \in L : q.serie <= r.serie => q = r \/ (q \in L /\ q.serie <= u)
          /\ \A q \in L : q.serie \in Int
          /\ Ordered(g, s, L) /\ CaughtUp(g, s, u, L)
      BY <1>1, <1>7, <2>7
    <3> HIDE DEF s, u, L
    <3>2. Ordered(e, s, L) /\ CaughtUp(e, s, r.serie, L)
      BY <1>1, <2>2, <3>1, PassOn DEF x
    <3> QED BY <3>2 DEF s, u, L
  <2> HIDE DEF e
  <2>8. FlowOf(e, h, n \in Hub[k], k \in tap[n], serie[k], r.serie, Live)
    BY <2>1, <2>3, <2>7 DEF FlowOf
  <2>9. /\ Ordered(h, serie[n], Live) => Ordered(h, r.serie, Live)
        /\ CaughtUp(h, serie[n], serie[k], Live) => CaughtUp(h, r.serie, serie[k], Live)
    BY <1>1, <1>7, <2>4 DEF Ordered, CaughtUp, Comes
  <2>10. FlowOf(h, e, k \in Hub[n], n \in tap[k], r.serie, serie[k], Live)
    BY <2>3, <2>5, <2>6, <2>9 DEF FlowOf
  <2>11. Flow(n, k)'
    BY <1>1, <1>2, <2>2, <2>4, <2>5, <2>8 DEF Flow
  <2>12. Flow(k, n)'
    BY <1>1, <1>2, <2>2, <2>3, <2>4, <2>10 DEF Flow
  <2> QED BY <2>11, <2>12
<1>11. ASSUME NEW a \in Node, NEW b \in Node PROVE Flow(a, b)'
  <2>1. CASE (a = m /\ b = n) \/ (a = n /\ b = m)
    BY <1>8, <1>9, <2>1
  <2>2. CASE (a = n /\ b \in T) \/ (b = n /\ a \in T)
    BY <1>10, <2>2
  <2>3. CASE /\ ~((a = m /\ b = n) \/ (a = n /\ b = m))
             /\ ~((a = n /\ b \in T) \/ (b = n /\ a \in T))
    <3>1. chan'[<<a, b>>] = chan[<<a, b>>] /\ chan'[<<b, a>>] = chan[<<b, a>>]
      BY <1>6, <2>3
    <3>2. b \in tap'[a] => b \in tap[a] /\ serie'[a] = serie[a]
      BY <1>1, <1>2, <1>4, <2>3
    <3>3. serie[b] <= serie'[b] /\ Flow(a, b)
      BY <1>7 DEF FlowInv
    <3> QED BY <1>1, <3>1, <3>2, <3>3, KeepFlow
  <2> QED BY <2>1, <2>2, <2>3
<1> QED
  BY <1>11 DEF FlowInv

(* The service issues a record: it is beyond all that is known and on the  *)
(* way, and goes to every peer that has caught up.                         *)
LEMMA IssueHolds ==
    ASSUME IInv, IInv', FromService, Full, LinkInv, FlowInv,
           NEW r \in Record, r.dest = Server, r.key = Star => Checkpoints, ServiceIssue(r)
    PROVE  FromService' /\ Full' /\ FlowInv'
<1> DEFINE n == Service
           T == est[n] \cap tap[n]
           x == RecMsg({r})
           L == Live
           M == Live'
<1>1. /\ x \in Msg /\ x.type = "REC" /\ x.recs = {r} /\ r.serie \in Nat
      /\ n \in Node
  BY MessageTypes, DdbConstants DEF RecMsg, Message, Record, Node
<1>2. T = tap[n] /\ n \notin T /\ T \subseteq Node
  BY <1>1 DEF LinkInv, IInv, TypeOK
<1>3. /\ \A p \in log[n] : p \in Record /\ p.serie \in Nat /\ p.serie <= serie[n]
      /\ \A k \in Node : serie[k] \in Nat /\ serie[k] <= serie[n]
      /\ L \subseteq log[n]
  BY LiveFacts
<1>4. r.serie = serie[n] + 1 /\ serie'[n] = r.serie /\ \A k \in Node : k # n => serie'[k] = serie[k]
  BY <1>1 DEF ServiceIssue, Apply, IInv, TypeOK
<1>5. log'[n] = log[n] \cup {r} /\ \A k \in Node : k # n => log'[k] = log[k]
  BY <1>1 DEF ServiceIssue, Apply, LogAfter, IInv, TypeOK
<1>6. tap' = tap /\ chan' = Sent(chan, n, T, x)
  BY DEF ServiceIssue
<1>7. \A q \in M : q = r \/ q \in L
  BY <1>5 DEF Live, LastOfKey, LastOfAll
<1>8. \A q \in M : q.serie \in Nat /\ (q.serie <= serie[n] => q \in L) /\ (q # r => q.serie <= serie[n])
  BY <1>1, <1>3, <1>4, <1>7
<1>9. FromService'
  BY <1>1, <1>5 DEF FromService
<1>10. Full'
  <2> SUFFICES ASSUME NEW k \in Node, NEW q \in M, q.serie <= serie'[k] PROVE q \in log'[k]
    BY DEF Full
  <2>1. CASE k = n
    BY <2>1 DEF Live, LastOfKey, LastOfAll
  <2>2. CASE k # n
    BY <1>1, <1>3, <1>4, <1>5, <1>8, <2>2 DEF Full
  <2> QED BY <2>1, <2>2
<1>11. \A a, b \in Node : chan'[<<a, b>>] = IF a = n /\ b \in T THEN Append(chan[<<a, b>>], x)
                                           ELSE chan[<<a, b>>]
  BY <1>6 DEF Sent
<1>12. Hub[n] = {}
  BY DdbConstants
<1> HIDE DEF n, T, x, L, M
<1>13. ASSUME NEW c \in Queue, Within(c, log[n])
       PROVE  /\ Within(c, log'[n])
              /\ \A s : Ordered(c, s, L) => Ordered(c, s, M)
              /\ \A s : \A u \in Nat : u <= serie[n] /\ CaughtUp(c, s, u, L) => CaughtUp(c, s, u, M)
  <2>1. Within(c, log'[n])
    BY <1>5, <1>13 DEF Within
  <2>2. ASSUME NEW s, Ordered(c, s, L), NEW j \in 1..Len(c), NEW p \in RecsAt(c, j),
               NEW q \in M, q.serie < p.serie
        PROVE  Comes(c, s, j, q)
    <3>1. p \in log[n]
      BY <1>13 DEF Within
    <3>2. q \in L
      BY <1>1, <1>3, <1>4, <1>8, <2>2, <3>1
    <3> QED BY <2>2, <3>2 DEF Ordered
  <2>3. ASSUME NEW s, NEW u \in Nat, u <= serie[n], CaughtUp(c, s, u, L) PROVE CaughtUp(c, s, u, M)
    BY <1>1, <1>3, <1>8, <2>3 DEF CaughtUp
  <2> QED BY <2>1, <2>2, <2>3 DEF Ordered
<1>14. ASSUME NEW a \in Node, NEW b \in Node PROVE Flow(a, b)'
  <2> DEFINE c == chan[<<a, b>>]
             d == chan[<<b, a>>]
             e == chan'[<<a, b>>]
             f == chan'[<<b, a>>]
             s == serie[b]
             u == serie[a]
  <2>1. /\ c \in Queue /\ d \in Queue
        /\ Within(c, log[n])
        /\ FlowOf(c, d, a \in Hub[b], b \in tap[a], s, u, L)
    BY FlowFacts DEF IInv, TypeOK, Queue, n, L
  <2>2. e = IF a = n /\ b \in T THEN Append(c, x) ELSE c
    BY <1>11
  <2>3. f = IF b = n /\ a \in T THEN Append(d, x) ELSE d
    BY <1>11
  <2>4. s \in Nat /\ u \in Nat /\ u <= serie[n]
    BY <1>3
  <2>5. /\ b # n => serie'[b] = s
        /\ a # n => serie'[a] = u
    BY <1>4
  <2> HIDE DEF c, d, s, u, e, f
  <2>6. Within(e, log'[n])
    <3>1. Within(c, log'[n])
      BY <1>13, <2>1
    <3>2. x.recs \subseteq log'[n]
      BY <1>1, <1>5
    <3> QED BY <1>1, <2>1, <2>2, <3>1, <3>2, AppendFlow
  <2>7. ASSUME ~Holds(f, "EOF")
        PROVE  /\ Honest(f, serie'[b])
               /\ a \in Hub[b] => Ordered(e, serie'[b], M)
               /\ a \in Hub[b] /\ b \in tap[a] => CaughtUp(e, serie'[b], serie'[a], M)
    <3>1. ~Holds(d, "EOF")
      BY <1>1, <2>1, <2>3, <2>7, AppendKinds
    <3>2. /\ Honest(d, s)
          /\ a \in Hub[b] => Ordered(c, s, L)
          /\ a \in Hub[b] /\ b \in tap[a] => CaughtUp(c, s, u, L)
      BY <2>1, <3>1 DEF FlowOf
    <3>3. Honest(f, serie'[b])
      <4>1. CASE b # n
        BY <2>3, <2>5, <3>2, <4>1
      <4>2. CASE b = n
        <5>1. Honest(d, r.serie)
          BY <1>1, <1>4, <2>1, <2>4, <3>2, <4>2, LaterHonest DEF s
        <5>2. r.serie <= r.serie
          BY <1>1
        <5> QED BY <1>1, <1>4, <2>1, <2>3, <4>2, <5>1, <5>2, AppendFlow
      <4> QED BY <4>1, <4>2
    <3>4. ASSUME a \in Hub[b]
          PROVE  /\ Ordered(e, serie'[b], M)
                 /\ b \in tap[a] => CaughtUp(e, serie'[b], serie'[a], M)
      <4>1. b # n /\ serie'[b] = s
        BY <1>12, <2>5, <3>4
      <4>2. Ordered(c, s, M)
        BY <1>13, <2>1, <3>2, <3>4
      <4>3. CASE ~(a = n /\ b \in T)
        <5>1. e = c
          BY <2>2, <4>3
        <5>2. b \in tap[a] => a # n
          BY <1>2, <4>3
        <5>3. b \in tap[a] => CaughtUp(c, s, u, M)
          BY <1>13, <2>1, <2>4, <3>2, <3>4
        <5> QED BY <2>5, <4>1, <4>2, <5>1, <5>2, <5>3
      <4>4. CASE a = n /\ b \in T
        <5>1. CaughtUp(c, s, u, L) /\ u = serie[n] /\ serie'[a] = r.serie
          BY <1>2, <1>4, <3>2, <3>4, <4>4 DEF u
        <5>2. /\ \A q \in M : q.serie <= r.serie => q = r \/ (q \in L /\ q.serie <= u)
              /\ \A q \in M : q.serie \in Int
          BY <1>8, <5>1
        <5>3. e = Append(c, RecMsg({r}))
          BY <2>2, <4>4 DEF x
        <5>4. Ordered(e, s, M) /\ CaughtUp(e, s, r.serie, M)
          BY <2>1, <4>2, <5>1, <5>2, <5>3, PassOn
        <5> QED BY <4>1, <5>1, <5>4
      <4> QED BY <4>3, <4>4
    <3> QED BY <3>3, <3>4
  <2> QED BY <1>6, <2>6, <2>7 DEF Flow, FlowOf, e, f, n, M
<1> QED
  BY <1>9, <1>10, <1>14 DEF FlowInv

-----------------------------------------------------------------------------
(* The invariant and its three facts.                                      *)
HoleInv == IInv /\ MemoryIsFile /\ LinkInv /\ FromService /\ Full /\ FlowInv

(* At the start all files are empty.                                       *)
LEMMA HoleInit == Init => HoleInv
<1> SUFFICES ASSUME Init PROVE HoleInv
  OBVIOUS
<1>1. IInv /\ LinkInv
  BY InitIInv, InitLinks
<1>2. MemoryIsFile
  BY DEF Init, MemoryIsFile, Replay, EmptyTable
<1>3. FromService /\ Full
  BY DEF Init, FromService, Full, Live, LastOfKey, LastOfAll, Node
<1>4. FlowInv
  BY EmptyQueue DEF Init, FlowInv, Flow, FlowOf
<1> QED
  BY <1>1, <1>2, <1>3, <1>4 DEF HoleInv

(* A step that leaves the tables alone leaves no hole.                     *)
LEMMA SameFiles ==
    ASSUME FromService, Full, log' = log, serie' = serie
    PROVE  FromService' /\ Full'
BY DEF FromService, Full, Live, LastOfKey, LastOfAll

(* Every step keeps the invariant.                                         *)
LEMMA HoleNext ==
    ASSUME MaxDrop = 0, DestMask \subseteq {Server}, HoleInv, [Next]_vars
    PROVE  HoleInv'
<1> USE DEF HoleInv
<1>1. IInv' /\ MemoryIsFile'
  BY NextIInv, NextMem
<1>2. LinkInv'
  BY <1>1, NextLinks
<1> SUFFICES FromService' /\ Full' /\ FlowInv'
  BY <1>1, <1>2
<1>3. ASSUME NEW p \in Peer, Connect(p[1], p[2]) PROVE FromService' /\ Full' /\ FlowInv'
  BY <1>1, <1>3, ConnectFlow, SameFiles, DdbConstants DEF Connect
<1>4. ASSUME NEW n \in Node, NEW m \in Node, Deliver(n, m) PROVE FromService' /\ Full' /\ FlowInv'
  <2>1. CASE RecvSERVER(n, m)
    BY <1>1, <2>1, WelcomeFlow, SameFiles DEF RecvSERVER
  <2>2. CASE RecvEOF(n, m)
    BY <1>1, <2>2, EndFlow, SameFiles DEF RecvEOF
  <2>3. CASE RecvJ(n, m)
    BY <1>1, <2>3, AnswerFlow, SameFiles DEF RecvJ
  <2>4. CASE RecvB(n, m)
    BY <1>1, <2>4, AskFlow, SameFiles DEF RecvB
  <2>5. CASE IgnoreRec(n, m)
    BY <1>1, <2>5, IgnoreFlow, SameFiles DEF IgnoreRec
  <2>6. CASE RecvRec(n, m)
    BY <1>1, <2>6, AcceptFlow, AcceptTable
  <2> QED BY <1>4, <2>1, <2>2, <2>3, <2>4, <2>5, <2>6, NoOrders DEF Deliver, IInv
<1>5. ASSUME NEW r \in NewRecord \cup CheckpointRecord, ServiceIssue(r)
      PROVE  FromService' /\ Full' /\ FlowInv'
  <2>1. r \in Record /\ r.dest = Server /\ (r.key = Star => Checkpoints)
    BY RecordTypes, DdbConstants DEF NewRecord, CheckpointRecord
  <2> QED BY <1>1, <1>5, <2>1, IssueHolds
<1>6. ASSUME NEW n \in Node, NEW m \in Node, LinkLoss(n, m) PROVE FromService' /\ Full' /\ FlowInv'
  <2>1. HungUp(n, {m})
    BY <1>6, LossHungUp DEF IInv
  <2>2. log' = log /\ serie' = serie
    BY <1>6 DEF LinkLoss
  <2> QED BY <1>1, <2>1, <2>2, HangUpFlow, SameFiles
<1>7. ASSUME NEW n \in Server, Restart(n) PROVE FromService' /\ Full' /\ FlowInv'
  <2>1. n \in Node /\ n # Service /\ Service \in Node
    BY DdbConstants DEF Node
  <2>2. HungUp(n, Node \ {n})
    BY <1>7, <2>1, RestartHungUp DEF IInv
  <2>3. CASE log' = log /\ serie' = serie
    BY <1>1, <2>1, <2>2, <2>3, HangUpFlow, SameFiles
  <2>4. CASE Wipe(n)
    <3>1. /\ log'[n] = {} /\ serie'[n] = 0
          /\ \A k \in Node : k # n => log'[k] = log[k] /\ serie'[k] = serie[k]
      BY <2>1, <2>4 DEF Wipe, IInv, TypeOK
    <3>2. log'[Service] = log[Service] /\ Live' = Live
      BY <2>1, <3>1 DEF Live, LastOfKey, LastOfAll
    <3>3. FlowInv'
      BY <1>1, <2>1, <2>2, <3>1, <3>2, HangUpFlow
    <3>4. FromService'
      BY <3>1, <3>2 DEF FromService
    <3>5. \A q \in Live : ~(q.serie <= 0)
      BY LiveFacts, DdbConstants DEF Record
    <3>6. Full'
      BY <3>1, <3>2, <3>5 DEF Full
    <3> QED BY <3>3, <3>4, <3>6
  <2> QED BY <1>7, <2>3, <2>4 DEF Restart
<1>8. CASE UNCHANGED vars
  <2>1. log' = log /\ serie' = serie /\ chan' = chan /\ tap' = tap
    BY <1>8 DEF vars
  <2>2. FlowInv'
    BY <2>1 DEF FlowInv, Flow, Live, LastOfKey, LastOfAll
  <2> QED BY <2>1, <2>2, SameFiles
<1> QED
  BY <1>3, <1>4, <1>5, <1>6, <1>7, <1>8, NoOrders DEF Next, Environment, IInv

(* The invariant excludes holes: the last record of a live key is live.    *)
LEMMA HoleImplies == HoleInv => NoHole
<1> SUFFICES ASSUME HoleInv, NEW n \in Server, NEW k \in Key, NEW r \in log[Service],
                    IsLatest(r, k, Service, log[Service]),
                    r.val # NoValue, r.serie <= serie[n]
             PROVE  r \in log[n]
  BY DEF NoHole
<1>1. r \in Live
  BY DEF IsLatest, ForMe, Live, LastOfKey, LastOfAll
<1> QED
  BY <1>1 DEF HoleInv, Full, Node

(* No burst cut in pieces, no tap opened late, no stale J, no pack, no     *)
(* second hub and no lost link leaves a hole in a table, for every tree,   *)
(* every table and every bound: when the service deletes no table and its  *)
(* records are meant for all servers.                                      *)
THEOREM FilesHaveNoHole ==
    ASSUME MaxDrop = 0, DestMask \subseteq {Server}
    PROVE  Spec => []NoHole
<1>1. HoleInv /\ [Next]_vars => HoleInv'
  BY HoleNext
<1> QED
  BY <1>1, HoleInit, HoleImplies, PTL DEF Spec

-----------------------------------------------------------------------------
(* When nothing is on the way and every link is up, the servers agree: the *)
(* promise of doc/ddb.txt, as long as the service also does not both       *)
(* delete keys and compact (then it is false: ddb_lost_delete).            *)
(*                                                                         *)
(* A server with an open tap at its hub has been sent all that is live     *)
(* there.  What is added here is that the tap is open: on every link the   *)
(* question J, the order to ask again B or the open tap is there at every  *)
(* moment, so once the lines are parsed it is the tap.  The rest follows   *)
(* the hubs from the service outwards.                                     *)

LinkedTo(m, n) == <<m, n>> \in Peer \/ <<n, m>> \in Peer

\* The servers that the records of the service can come to: the least set
\* with the service and, with a server, all that have it as a hub.
FromHubs(S) == /\ Service \in S
               /\ \A m \in S, n \in Node : m \in Hub[n] /\ LinkedTo(m, n) => n \in S
Reached == {n \in Node : \A S \in SUBSET Node : FromHubs(S) => n \in S}

\* c is the queue from m to n and d the one back; en: m is established at n;
\* open: n has the tap to m open; hub: m believes n.  A link that n knows or
\* is about to know carries the question of m in one of its three forms.
AskOf(c, d, en, open, hub, linked, reached) ==
    /\ en \/ Holds(c, "SERVER") => linked
    /\ Holds(c, "REC") => reached
    /\ /\ hub
       /\ en \/ Holds(c, "SERVER")
       /\ ~Holds(c, "EOF") /\ ~Holds(d, "EOF")
       => Holds(c, "J") \/ Holds(d, "B") \/ open

Ask(m, n) == AskOf(chan[<<m, n>>], chan[<<n, m>>], m \in est[n], m \in tap[n],
                   n \in Hub[m], LinkedTo(m, n), m \in Reached)

AskInv == /\ \A m, n \in Node : Ask(m, n)
          /\ \A n \in Node : serie[n] # 0 => n \in Reached

(* Records travel from a server that is reached to one that is reached.    *)
LEMMA ReachedGrows ==
    /\ Service \in Reached
    /\ \A m \in Reached, n \in Node : m \in Hub[n] /\ LinkedTo(m, n) => n \in Reached
BY DEF Reached, FromHubs, Node

(* A link that the step leaves alone.                                      *)
LEMMA KeepAsk ==
    ASSUME NEW a \in Node, NEW b \in Node, Ask(a, b),
           chan'[<<a, b>>] = chan[<<a, b>>], chan'[<<b, a>>] = chan[<<b, a>>],
           a \in est'[b] <=> a \in est[b], a \in tap'[b] <=> a \in tap[b]
    PROVE  Ask(a, b)'
BY DEF Ask, AskOf

(* A step on the link of m and n.                                          *)
LEMMA PairAsk ==
    ASSUME AskInv, NEW m \in Node, NEW n \in Node,
           \A a, b \in Node : <<a, b>> # <<m, n>> /\ <<a, b>> # <<n, m>> =>
               /\ chan'[<<a, b>>] = chan[<<a, b>>]
               /\ a \in est'[b] <=> a \in est[b]
               /\ a \in tap'[b] <=> a \in tap[b],
           Ask(m, n)', Ask(n, m)', serie' = serie
    PROVE  AskInv'
<1>1. ASSUME NEW a \in Node, NEW b \in Node PROVE Ask(a, b)'
  <2>1. CASE (a = m /\ b = n) \/ (a = n /\ b = m)
    BY <2>1
  <2>2. CASE ~((a = m /\ b = n) \/ (a = n /\ b = m))
    <3>1. /\ chan'[<<a, b>>] = chan[<<a, b>>] /\ chan'[<<b, a>>] = chan[<<b, a>>]
          /\ a \in est'[b] <=> a \in est[b]
          /\ a \in tap'[b] <=> a \in tap[b]
      BY <2>2
    <3>2. Ask(a, b)
      BY DEF AskInv
    <3> QED BY <3>1, <3>2, KeepAsk
  <2> QED BY <2>1, <2>2
<1> QED
  BY <1>1 DEF AskInv

(* A link is opened with the question.                                     *)
LEMMA ConnectAsk ==
    ASSUME TypeOK, LinkInv, AskInv, NEW i \in Node, NEW a \in Node, Connect(i, a)
    PROVE  AskInv'
<1> DEFINE c == Opening(serie[i])
<1>1. /\ <<i, a>> \in Peer /\ i # a /\ a \notin est[i] /\ i \notin est[a]
      /\ chan[<<a, i>>] = <<>> /\ chan' = [chan EXCEPT ![<<i, a>>] = c]
      /\ est' = est /\ tap' = tap /\ serie' = serie
  BY DdbConstants DEF Connect, Opening
<1>2. /\ c[2].type = "J" /\ Len(c) = 2 /\ c[1].type = "SERVER"
  BY OpeningQueue DEF TypeOK
<1> HIDE DEF c
<1>3. Holds(c, "J") /\ ~Holds(c, "REC")
  <2>1. 1..Len(c) = {1, 2}
    BY <1>2
  <2> QED BY <1>2, <2>1 DEF Holds
<1>4. /\ chan'[<<i, a>>] = c /\ chan'[<<a, i>>] = <<>>
      /\ \A p, q \in Node : <<p, q>> # <<i, a>> => chan'[<<p, q>>] = chan[<<p, q>>]
  BY <1>1 DEF TypeOK
<1>5. Ask(i, a)' /\ Ask(a, i)'
  BY <1>1, <1>3, <1>4, EmptyQueue DEF Ask, AskOf, LinkedTo
<1> QED
  BY <1>1, <1>4, <1>5, PairAsk

(* The acceptor answers with its own question, and keeps the other's.      *)
LEMMA WelcomeAsk ==
    ASSUME TypeOK, LinkInv, AskInv, NEW n \in Node, NEW m \in Node, RecvSERVER(n, m)
    PROVE  AskInv'
<1> DEFINE c == chan[<<m, n>>]
           d == chan[<<n, m>>]
           e == chan'[<<n, m>>]
           f == Tail(c)
           o == Opening(serie[n])
<1>0. Welcomed(n, m)
  BY RecvSERVERWelcomed
<1>1. /\ m # n /\ m \notin est[n] /\ c \in Queue /\ c # <<>> /\ Head(c).type = "SERVER"
      /\ ~Holds(f, "SERVER") /\ chan'[<<m, n>>] = f
      /\ \/ <<m, n>> \in Peer /\ d = <<>> /\ e = o /\ n \notin est[m]
         \/ e = d
      /\ \A a, b \in Node : <<a, b>> # <<m, n>> /\ <<a, b>> # <<n, m>>
                               => chan'[<<a, b>>] = chan[<<a, b>>]
  BY <1>0 DEF Welcomed
<1>2. /\ m \notin tap'[n] /\ m \in est'[n] /\ m \notin tap[n]
      /\ \A a, b \in Node : ~(a = n /\ b = m) => /\ b \in tap'[a] <=> b \in tap[a]
                                                 /\ b \in est'[a] <=> b \in est[a]
  BY <1>0, <1>1 DEF Welcomed, TypeOK, LinkInv
<1>3. \A t : t # "SERVER" => (Holds(f, t) <=> Holds(c, t))
  <2> HIDE DEF c
  <2> QED BY <1>1, TailKinds
<1>4. Holds(c, "SERVER")
  BY <1>1, TailQueue DEF Holds
<1>5. Holds(o, "J") /\ ~Holds(o, "REC") /\ ~Holds(o, "B") /\ ~Holds(o, "EOF")
  <2>1. /\ Len(o) = 2 /\ o[1].type = "SERVER" /\ o[2].type = "J"
    BY OpeningQueue DEF TypeOK
  <2> HIDE DEF o
  <2>2. 1..Len(o) = {1, 2}
    BY <2>1
  <2> QED BY <2>1, <2>2 DEF Holds
<1>6. Ask(m, n) /\ Ask(n, m)
  BY DEF AskInv
<1>7. Ask(m, n)' /\ Ask(n, m)'
  <2>0. /\ AskOf(c, d, m \in est[n], m \in tap[n], n \in Hub[m], LinkedTo(m, n), m \in Reached)
        /\ AskOf(d, c, n \in est[m], n \in tap[m], m \in Hub[n], LinkedTo(n, m), n \in Reached)
    BY <1>6 DEF Ask
  <2>1. LinkedTo(m, n) /\ LinkedTo(n, m)
    BY <1>4, <2>0 DEF AskOf, LinkedTo
  <2> HIDE DEF c, d, e, f, o
  <2>2. AskOf(f, e, m \in est'[n], m \in tap'[n], n \in Hub[m], LinkedTo(m, n), m \in Reached)
    <3>1. CASE e = d
      BY <1>2, <1>3, <1>4, <2>0, <2>1, <3>1 DEF AskOf
    <3>2. CASE d = <<>> /\ e = o
      BY <1>2, <1>3, <1>4, <1>5, <2>0, <2>1, <3>2, EmptyQueue DEF AskOf
    <3> QED BY <1>1, <3>1, <3>2
  <2>3. AskOf(e, f, n \in est[m], n \in tap[m], m \in Hub[n], LinkedTo(n, m), n \in Reached)
    <3>1. CASE e = d
      BY <1>3, <2>0, <2>1, <3>1 DEF AskOf
    <3>2. CASE d = <<>> /\ e = o
      BY <1>5, <2>1, <3>2 DEF AskOf
    <3> QED BY <1>1, <3>1, <3>2
  <2>4. (n \in est'[m] <=> n \in est[m]) /\ (n \in tap'[m] <=> n \in tap[m])
    BY <1>1, <1>2
  <2>5. Ask(m, n)'
    BY <1>1, <2>2 DEF Ask, e
  <2>6. Ask(n, m)'
    BY <1>1, <2>3, <2>4 DEF Ask, e
  <2> QED BY <2>5, <2>6
<1>8. serie' = serie
  BY DEF RecvSERVER
<1> QED
  BY <1>1, <1>2, <1>7, <1>8, PairAsk

(* The end of file, and n hanging up: nothing is promised on a dead link.  *)
LEMMA EndAsk ==
    ASSUME TypeOK, LinkInv, AskInv, NEW n \in Node, NEW m \in Node, RecvEOF(n, m)
    PROVE  AskInv'
<1>1. /\ m # n /\ chan[<<m, n>>] \in Queue /\ chan[<<m, n>>] # <<>>
      /\ Head(chan[<<m, n>>]).type = "EOF"
  BY ReadFrom DEF RecvEOF
<1>2. Holds(chan[<<m, n>>], "EOF")
  BY <1>1, TailQueue DEF Holds
<1>3. n \notin est[m]
  BY <1>2 DEF LinkInv, Shape, ShapeOf
<1>4. /\ chan'[<<m, n>>] = <<>> /\ chan'[<<n, m>>] = <<>> /\ serie' = serie
      /\ \A a, b \in Node : <<a, b>> # <<m, n>> /\ <<a, b>> # <<n, m>>
                             => chan'[<<a, b>>] = chan[<<a, b>>]
  BY <1>1 DEF RecvEOF, TypeOK
<1>5. /\ m \notin est'[n] /\ n \notin est'[m]
      /\ \A a, b \in Node : ~(a = n /\ b = m) => (b \in est'[a] <=> b \in est[a])
                                                 /\ (b \in tap'[a] <=> b \in tap[a])
  BY <1>1, <1>3 DEF RecvEOF, TypeOK
<1>6. Ask(m, n)' /\ Ask(n, m)'
  BY <1>4, <1>5, EmptyQueue DEF Ask, AskOf
<1> QED
  BY <1>4, <1>5, <1>6, PairAsk

(* A link that is closed carries no question; the others keep theirs.      *)
LEMMA HangUpAsk ==
    ASSUME TypeOK, LinkInv, AskInv, NEW n \in Node, NEW T, HungUp(n, T),
           \A k \in Node : serie'[k] = serie[k] \/ serie'[k] = 0
    PROVE  AskInv'
<1>1. ASSUME NEW x \in T PROVE Ask(n, x)' /\ Ask(x, n)'
  <2> DEFINE c == chan[<<n, x>>]
             e == chan'[<<n, x>>]
  <2>1. /\ x \in Node /\ x # n
    BY DEF HungUp
  <2>2. /\ chan'[<<x, n>>] = <<>> /\ x \notin est'[n] /\ (n \in est'[x] <=> n \in est[x])
        /\ c \in Queue
    BY <2>1 DEF HungUp, TypeOK, Queue
  <2>3. Ask(x, n)'
    BY <2>2, EmptyQueue DEF Ask, AskOf
  <2>4. CASE n \notin est[x]
    <3>1. e = <<>>
      BY <2>4 DEF HungUp
    <3> QED BY <2>2, <2>3, <2>4, <3>1, EmptyQueue DEF Ask, AskOf
  <2>5. CASE n \in est[x]
    <3>1. PICK f \in Queue : e = Append(f, EOFMsg) /\ (f = <<>> \/ f = c)
      BY <2>2, <2>5, EmptyQueue DEF HungUp
    <3>2. EOFMsg \in Msg /\ EOFMsg.type = "EOF"
      BY MessageTypes DEF EOFMsg, Message
    <3>3. Ask(n, x)
      BY <2>1 DEF AskInv
    <3>4. LinkedTo(n, x) /\ (Holds(c, "REC") => n \in Reached)
      BY <2>5, <3>3 DEF Ask, AskOf
    <3> HIDE DEF c, e
    <3>5. Holds(e, "EOF") /\ (Holds(e, "REC") => Holds(c, "REC"))
      BY <3>1, <3>2, AppendKinds, EmptyQueue
    <3>6. Ask(n, x)'
      BY <3>4, <3>5 DEF Ask, AskOf, e
    <3> QED BY <2>3, <3>6
  <2> QED BY <2>4, <2>5
<1>2. ASSUME NEW a \in Node, NEW b \in Node PROVE Ask(a, b)'
  <2>1. CASE (a = n /\ b \in T) \/ (b = n /\ a \in T)
    BY <1>1, <2>1
  <2>2. CASE ~(a = n /\ b \in T) /\ ~(b = n /\ a \in T)
    <3>1. chan'[<<a, b>>] = chan[<<a, b>>] /\ chan'[<<b, a>>] = chan[<<b, a>>]
      BY <2>2 DEF HungUp
    <3>2. (a \in est'[b] <=> a \in est[b]) /\ (a \in tap'[b] <=> a \in tap[b])
      BY <2>2 DEF HungUp
    <3>3. Ask(a, b)
      BY DEF AskInv
    <3> QED BY <3>1, <3>2, <3>3, KeepAsk
  <2> QED BY <2>1, <2>2
<1>3. \A k \in Node : serie'[k] # 0 => k \in Reached
  BY DEF AskInv
<1> QED
  BY <1>2, <1>3 DEF AskInv

(* J is answered with the open tap or with B.                              *)
LEMMA AnswerAsk ==
    ASSUME IInv, LinkInv, AskInv, NEW n \in Node, NEW m \in Node, RecvJ(n, m)
    PROVE  AskInv'
<1> DEFINE c == chan[<<m, n>>]
           d == chan[<<n, m>>]
           e == chan'[<<n, m>>]
           f == Tail(c)
           s == Head(c).serie
           R == Burst(n, s)
           F == FirstOf(R, BurstMax)
<1>0. Answered(n, m)
  BY RecvJAnswered DEF IInv
<1>1. /\ m \in est[n] /\ m # n /\ c \in Queue /\ d \in Queue /\ c # <<>> /\ Head(c).type = "J"
  BY ReadFrom DEF RecvJ, IInv
<1>2. est' = est /\ serie' = serie
  BY DEF RecvJ
<1>3. /\ chan'[<<m, n>>] = f
      /\ \A a, b \in Node : <<a, b>> # <<m, n>> /\ <<a, b>> # <<n, m>>
                               => chan'[<<a, b>>] = chan[<<a, b>>]
  <2>1. chan' = [chan EXCEPT ![<<m, n>>] = f, ![<<n, m>>] = e]
    BY <1>0 DEF Answered
  <2> HIDE DEF e, f
  <2> QED BY <1>1, <2>1 DEF IInv, TypeOK
<1>4. /\ \A a, b \in Node : ~(a = n /\ b = m) => (b \in tap'[a] <=> b \in tap[a])
  <2>1. tap' = tap \/ tap' = TapOpened(n, m)
    BY <1>0 DEF Answered
  <2> QED BY <2>1 DEF TapOpened, IInv, TypeOK
<1>5. \A t : t # "J" => (Holds(f, t) <=> Holds(c, t))
  <2> HIDE DEF c
  <2> QED BY <1>1, TailKinds
<1>6. s \in 0..MaxSerie
  <2>1. Head(c) \in Msg
    BY <1>1, TailQueue
  <2> QED BY <2>1 DEF Msg, MsgFields
<1>7. s < serie[n] => /\ RecMsg(R) \in Msg /\ RecMsg(F) \in Msg /\ serie[n] # 0
                      /\ RecMsg(R).type = "REC" /\ RecMsg(F).type = "REC"
  <2>1. s < serie[n] => R \in SUBSET Record /\ R # {} /\ F \in SUBSET Record /\ F # {}
    <3> HIDE DEF s
    <3> QED BY <1>6, BurstNotEmpty, TypeOKSplit DEF IInv
  <2>2. s < serie[n] => serie[n] # 0
    BY <1>6, DdbConstants DEF IInv, TypeOK
  <2> HIDE DEF R, F, s
  <2> QED BY <2>1, <2>2, MessageTypes DEF RecMsg, Message
<1>8. BMsg \in Msg /\ BMsg.type = "B"
  BY MessageTypes DEF BMsg, Message
<1>9. /\ \A t : t \notin {"REC", "B"} => (Holds(e, t) <=> Holds(d, t))
      /\ Holds(d, "B") => Holds(e, "B")
      /\ Holds(e, "REC") => Holds(d, "REC") \/ n \in Reached
      /\ Holds(e, "B") \/ m \in tap'[n]
  <2>1. CASE s >= serie[n] /\ tap' = TapOpened(n, m) /\ e = d
    <3>1. m \in tap'[n]
      BY <2>1 DEF TapOpened, IInv, TypeOK
    <3> QED BY <2>1, <3>1
  <2>2. CASE s < serie[n] /\ tap' = TapOpened(n, m) /\ e = Append(d, RecMsg(R))
    <3>1. m \in tap'[n]
      BY <2>2 DEF TapOpened, IInv, TypeOK
    <3>2. n \in Reached
      BY <1>7, <2>2 DEF AskInv
    <3> DEFINE x == RecMsg(R)
    <3>3. x \in Msg /\ x.type = "REC" /\ e = Append(d, x)
      BY <1>7, <2>2
    <3> HIDE DEF x, d, e
    <3> QED BY <1>1, <3>1, <3>2, <3>3, AppendKinds
  <2>3. CASE s < serie[n] /\ tap' = tap /\ e = Append(Append(d, RecMsg(F)), BMsg)
    <3>1. n \in Reached
      BY <1>7, <2>3 DEF AskInv
    <3> DEFINE x == RecMsg(F)
               g == Append(d, x)
    <3>2. x \in Msg /\ x.type = "REC" /\ e = Append(g, BMsg)
      BY <1>7, <2>3
    <3> HIDE DEF x, d, e
    <3>3. g \in Queue /\ \A t : Holds(g, t) <=> Holds(d, t) \/ t = "REC"
      BY <1>1, <3>2, AppendKinds
    <3> HIDE DEF g
    <3>4. \A t : Holds(e, t) <=> Holds(g, t) \/ t = "B"
      BY <1>8, <3>2, <3>3, AppendKinds
    <3> QED BY <3>1, <3>3, <3>4
  <2> QED BY <1>0, <2>1, <2>2, <2>3 DEF Answered
<1>10. Ask(m, n)' /\ Ask(n, m)'
  <2>0. /\ AskOf(c, d, m \in est[n], m \in tap[n], n \in Hub[m], LinkedTo(m, n), m \in Reached)
        /\ AskOf(d, c, n \in est[m], n \in tap[m], m \in Hub[n], LinkedTo(n, m), n \in Reached)
    BY DEF AskInv, Ask
  <2> HIDE DEF c, d, e, f
  <2>1. AskOf(f, e, m \in est[n], m \in tap'[n], n \in Hub[m], LinkedTo(m, n), m \in Reached)
    BY <1>5, <1>9, <2>0 DEF AskOf
  <2>2. AskOf(e, f, n \in est[m], n \in tap[m], m \in Hub[n], LinkedTo(n, m), n \in Reached)
    BY <1>5, <1>9, <2>0 DEF AskOf
  <2>3. n \in tap'[m] <=> n \in tap[m]
    BY <1>1, <1>4
  <2>4. Ask(m, n)'
    BY <1>2, <1>3, <2>1 DEF Ask, e
  <2>5. Ask(n, m)'
    BY <1>2, <1>3, <2>2, <2>3 DEF Ask, e
  <2> QED BY <2>4, <2>5
<1> QED
  BY <1>2, <1>3, <1>4, <1>10, PairAsk

(* B is answered with J, unless it comes from a server that is not asked.  *)
LEMMA AgainAsk ==
    ASSUME IInv, LinkInv, AskInv, NEW n \in Node, NEW m \in Node, RecvB(n, m)
    PROVE  AskInv'
<1> DEFINE c == chan[<<m, n>>]
           d == chan[<<n, m>>]
           f == Tail(c)
           x == JMsg(serie[n])
           e == chan'[<<n, m>>]
<1>1. /\ m # n /\ c \in Queue /\ d \in Queue /\ c # <<>> /\ Head(c).type = "B"
  BY ReadFrom DEF RecvB, IInv
<1>2. est' = est /\ tap' = tap /\ serie' = serie
  BY DEF RecvB
<1>3. \A a, b \in Node : Parsed(m, n)[<<a, b>>] = IF a = m /\ b = n THEN Tail(c) ELSE chan[<<a, b>>]
  BY DEF Parsed, IInv, TypeOK
<1>4. \A a, b \in Node : Sent(Parsed(m, n), n, {m}, x)[<<a, b>>]
         = IF a = n /\ b = m THEN Append(Parsed(m, n)[<<a, b>>], x) ELSE Parsed(m, n)[<<a, b>>]
  BY DEF Sent
<1>5. /\ chan'[<<m, n>>] = f
      /\ \A a, b \in Node : <<a, b>> # <<m, n>> /\ <<a, b>> # <<n, m>>
                             => chan'[<<a, b>>] = chan[<<a, b>>]
      /\ e = IF m \in Hub[n] THEN Append(d, x) ELSE d
  <2>1. chan' = IF m \in Hub[n] THEN Sent(Parsed(m, n), n, {m}, x) ELSE Parsed(m, n)
    BY DEF RecvB
  <2> HIDE DEF c, d, x
  <2>2. CASE m \notin Hub[n]
    BY <1>1, <1>3, <2>1, <2>2 DEF d
  <2>3. CASE m \in Hub[n]
    BY <1>1, <1>3, <1>4, <2>1, <2>3 DEF d
  <2> QED BY <2>2, <2>3
<1>6. \A t : t # "B" => (Holds(f, t) <=> Holds(c, t))
  <2> HIDE DEF c
  <2> QED BY <1>1, TailKinds
<1>7. x \in Msg /\ x.type = "J"
  BY MessageTypes DEF JMsg, Message, IInv, TypeOK
<1>8. /\ \A t : t # "J" => (Holds(e, t) <=> Holds(d, t))
      /\ Holds(d, "J") => Holds(e, "J")
      /\ m \in Hub[n] => Holds(e, "J")
  <2>1. CASE m \notin Hub[n]
    BY <1>5, <2>1
  <2>2. CASE m \in Hub[n]
    <3>1. e = Append(d, x)
      BY <1>5, <2>2
    <3> HIDE DEF d, e, x
    <3> QED BY <1>1, <1>7, <3>1, AppendKinds
  <2> QED BY <2>1, <2>2
<1>9. Ask(m, n)' /\ Ask(n, m)'
  <2>0. /\ AskOf(c, d, m \in est[n], m \in tap[n], n \in Hub[m], LinkedTo(m, n), m \in Reached)
        /\ AskOf(d, c, n \in est[m], n \in tap[m], m \in Hub[n], LinkedTo(n, m), n \in Reached)
    BY DEF AskInv, Ask
  <2> HIDE DEF c, d, e, f
  <2>1. AskOf(f, e, m \in est[n], m \in tap[n], n \in Hub[m], LinkedTo(m, n), m \in Reached)
    BY <1>6, <1>8, <2>0 DEF AskOf
  <2>2. AskOf(e, f, n \in est[m], n \in tap[m], m \in Hub[n], LinkedTo(n, m), n \in Reached)
    BY <1>6, <1>8, <2>0 DEF AskOf
  <2>3. Ask(m, n)'
    BY <1>2, <1>5, <2>1 DEF Ask, e
  <2>4. Ask(n, m)'
    BY <1>2, <1>5, <2>2 DEF Ask, e
  <2> QED BY <2>3, <2>4
<1> QED
  BY <1>2, <1>5, <1>9, PairAsk

(* Records do not touch the questions; they come from a server that is     *)
(* reached, and so the one that passes them on is reached.                 *)
LEMMA RecsAsk ==
    ASSUME NEW c, NEW d, NEW e, NEW f, NEW en, NEW open, NEW hub, NEW linked, NEW reached,
           AskOf(c, d, en, open, hub, linked, reached),
           \A t : t # "REC" => (Holds(e, t) <=> Holds(c, t)) /\ (Holds(f, t) <=> Holds(d, t)),
           Holds(e, "REC") => Holds(c, "REC") \/ reached
    PROVE  AskOf(e, f, en, open, hub, linked, reached)
BY DEF AskOf

(* A record that is refused.                                               *)
LEMMA IgnoreAsk ==
    ASSUME IInv, LinkInv, AskInv, NEW n \in Node, NEW m \in Node, IgnoreRec(n, m)
    PROVE  AskInv'
<1> DEFINE c == chan[<<m, n>>]
           d == chan[<<n, m>>]
           f == Taken(c)
<1>1. /\ m # n /\ c \in Queue /\ d \in Queue /\ c # <<>> /\ Head(c).type = "REC"
  BY ReadFrom DEF IgnoreRec, IInv
<1>2. est' = est /\ tap' = tap /\ serie' = serie
  BY DEF IgnoreRec
<1>3. chan' = [chan EXCEPT ![<<m, n>>] = f]
  BY RecTakenIs DEF IgnoreRec, IInv
<1>4. /\ chan'[<<m, n>>] = f /\ chan'[<<n, m>>] = d
      /\ \A a, b \in Node : <<a, b>> # <<m, n>> => chan'[<<a, b>>] = chan[<<a, b>>]
  <2> HIDE DEF f
  <2> QED BY <1>1, <1>3 DEF IInv, TypeOK
<1>5. Holds(c, "REC") /\ \A t : t # "REC" => (Holds(f, t) <=> Holds(c, t))
  <2>1. Holds(c, "REC")
    BY <1>1, TailQueue DEF Holds
  <2> HIDE DEF c
  <2> QED BY <1>1, <2>1, TakenKinds
<1>6. Ask(m, n)' /\ Ask(n, m)'
  <2>0. /\ AskOf(c, d, m \in est[n], m \in tap[n], n \in Hub[m], LinkedTo(m, n), m \in Reached)
        /\ AskOf(d, c, n \in est[m], n \in tap[m], m \in Hub[n], LinkedTo(n, m), n \in Reached)
    BY DEF AskInv, Ask
  <2> HIDE DEF c, d, f
  <2>1. AskOf(f, d, m \in est[n], m \in tap[n], n \in Hub[m], LinkedTo(m, n), m \in Reached)
    BY <1>5, <2>0 DEF AskOf
  <2>2. AskOf(d, f, n \in est[m], n \in tap[m], m \in Hub[n], LinkedTo(n, m), n \in Reached)
    BY <1>5, <2>0 DEF AskOf
  <2>3. Ask(m, n)'
    BY <1>2, <1>4, <2>1 DEF Ask
  <2>4. Ask(n, m)'
    BY <1>2, <1>4, <2>2 DEF Ask
  <2> QED BY <2>3, <2>4
<1> QED
  BY <1>2, <1>4, <1>6, PairAsk

(* A record that is stored comes from a server that is reached.            *)
LEMMA AcceptAsk ==
    ASSUME IInv, FromService, LinkInv, FlowInv, AskInv,
           NEW n \in Node, NEW m \in Node, RecvRec(n, m)
    PROVE  AskInv'
<1> DEFINE c == chan[<<m, n>>]
           f == Taken(c)
           r == NextRec(Head(c).recs)
           x == RecMsg({r})
           T == Listeners(n, m)
<1>1. /\ m # n /\ m \in Hub[n] /\ c \in Queue /\ c # <<>> /\ Head(c).type = "REC" /\ r \in Record
      /\ \A k \in Node : k # n => serie'[k] = serie[k]
  BY AcceptFacts
<1>2. est' = est /\ tap' = tap
  BY DEF RecvRec
<1>3. x \in Msg /\ x.type = "REC"
  <2> HIDE DEF r
  <2> QED BY <1>1, MessageTypes DEF RecMsg, Message
<1>4. chan' = Sent(RecTaken(m, n), n, T, x) /\ RecTaken(m, n) = [chan EXCEPT ![<<m, n>>] = f]
  BY RecTakenIs DEF RecvRec, IInv
<1>5. Holds(c, "REC") /\ \A t : t # "REC" => (Holds(f, t) <=> Holds(c, t))
  <2>1. Holds(c, "REC")
    BY <1>1, TailQueue DEF Holds
  <2> HIDE DEF c
  <2> QED BY <1>1, <2>1, TakenKinds
<1>6. m \in Reached /\ n \in Reached
  <2>1. m \in est[n]
    BY ReadFrom DEF RecvRec, IInv
  <2>2. m \in Reached /\ LinkedTo(m, n)
    BY <1>5, <2>1 DEF AskInv, Ask, AskOf
  <2> QED BY <1>1, <2>2, ReachedGrows
<1> HIDE DEF r, x, T
<1>7. ASSUME NEW a \in Node, NEW b \in Node
      PROVE  /\ \A t : t # "REC" => (Holds(chan'[<<a, b>>], t) <=> Holds(chan[<<a, b>>], t))
             /\ Holds(chan'[<<a, b>>], "REC") => Holds(chan[<<a, b>>], "REC") \/ a \in Reached
  <2> DEFINE g == RecTaken(m, n)[<<a, b>>]
             h == chan[<<a, b>>]
  <2>1. chan'[<<a, b>>] = IF a = n /\ b \in T THEN Append(g, x) ELSE g
    BY <1>4 DEF Sent
  <2>2. g = IF a = m /\ b = n THEN f ELSE h
    <3> HIDE DEF f
    <3> QED BY <1>4 DEF IInv, TypeOK
  <2>3. h \in Queue
    BY DEF IInv, TypeOK, Queue
  <2>4. /\ \A t : t # "REC" => (Holds(g, t) <=> Holds(h, t))
        /\ Holds(g, "REC") => Holds(h, "REC")
    <3>1. CASE a = m /\ b = n
      BY <1>5, <2>2, <3>1
    <3>2. CASE ~(a = m /\ b = n)
      BY <2>2, <3>2
    <3> QED BY <3>1, <3>2
  <2> HIDE DEF c, f
  <2>5. CASE a = n /\ b \in T
    <3>1. g = h /\ chan'[<<a, b>>] = Append(h, x)
      BY <1>1, <2>1, <2>2, <2>5
    <3> HIDE DEF g, h
    <3> QED BY <1>3, <1>6, <2>3, <2>5, <3>1, AppendKinds DEF h
  <2>6. CASE ~(a = n /\ b \in T)
    BY <2>1, <2>4, <2>6
  <2> QED BY <2>5, <2>6
<1>8. ASSUME NEW a \in Node, NEW b \in Node PROVE Ask(a, b)'
  <2> DEFINE C == chan[<<a, b>>]
             D == chan[<<b, a>>]
             E == chan'[<<a, b>>]
             F == chan'[<<b, a>>]
  <2>1. AskOf(C, D, a \in est[b], a \in tap[b], b \in Hub[a], LinkedTo(a, b), a \in Reached)
    BY DEF AskInv, Ask
  <2>2. /\ \A t : t # "REC" => (Holds(E, t) <=> Holds(C, t)) /\ (Holds(F, t) <=> Holds(D, t))
        /\ Holds(E, "REC") => Holds(C, "REC") \/ a \in Reached
    BY <1>7
  <2> HIDE DEF C, D, E, F
  <2>3. AskOf(E, F, a \in est[b], a \in tap[b], b \in Hub[a], LinkedTo(a, b), a \in Reached)
    BY <2>1, <2>2, RecsAsk
  <2> QED BY <1>2, <2>3 DEF Ask, E, F
<1>9. \A k \in Node : serie'[k] # 0 => k \in Reached
  BY <1>1, <1>6 DEF AskInv
<1> QED
  BY <1>8, <1>9 DEF AskInv

(* The service is reached, and its records go to open taps.                *)
LEMMA IssueAsk ==
    ASSUME IInv, AskInv, NEW r \in Record, ServiceIssue(r)
    PROVE  AskInv'
<1> DEFINE n == Service
           T == est[n] \cap tap[n]
           x == RecMsg({r})
<1>1. x \in Msg /\ x.type = "REC" /\ n \in Node /\ n \in Reached
  BY MessageTypes, ReachedGrows DEF RecMsg, Message, Node
<1>2. est' = est /\ tap' = tap /\ chan' = Sent(chan, n, T, x)
  BY DEF ServiceIssue
<1>3. \A k \in Node : k # n => serie'[k] = serie[k]
  BY <1>1 DEF ServiceIssue, Apply, IInv, TypeOK
<1> HIDE DEF n, T, x
<1>4. ASSUME NEW a \in Node, NEW b \in Node
      PROVE  /\ \A t : t # "REC" => (Holds(chan'[<<a, b>>], t) <=> Holds(chan[<<a, b>>], t))
             /\ Holds(chan'[<<a, b>>], "REC") => Holds(chan[<<a, b>>], "REC") \/ a \in Reached
  <2> DEFINE h == chan[<<a, b>>]
  <2>1. chan'[<<a, b>>] = IF a = n /\ b \in T THEN Append(h, x) ELSE h
    BY <1>2 DEF Sent
  <2>2. h \in Queue
    BY DEF IInv, TypeOK, Queue
  <2>3. CASE a = n /\ b \in T
    <3>1. chan'[<<a, b>>] = Append(h, x)
      BY <2>1, <2>3
    <3> HIDE DEF h
    <3> QED BY <1>1, <2>2, <2>3, <3>1, AppendKinds DEF h
  <2>4. CASE ~(a = n /\ b \in T)
    BY <2>1, <2>4
  <2> QED BY <2>3, <2>4
<1>5. ASSUME NEW a \in Node, NEW b \in Node PROVE Ask(a, b)'
  <2> DEFINE C == chan[<<a, b>>]
             D == chan[<<b, a>>]
             E == chan'[<<a, b>>]
             F == chan'[<<b, a>>]
  <2>1. AskOf(C, D, a \in est[b], a \in tap[b], b \in Hub[a], LinkedTo(a, b), a \in Reached)
    BY DEF AskInv, Ask
  <2>2. /\ \A t : t # "REC" => (Holds(E, t) <=> Holds(C, t)) /\ (Holds(F, t) <=> Holds(D, t))
        /\ Holds(E, "REC") => Holds(C, "REC") \/ a \in Reached
    BY <1>4
  <2> HIDE DEF C, D, E, F
  <2>3. AskOf(E, F, a \in est[b], a \in tap[b], b \in Hub[a], LinkedTo(a, b), a \in Reached)
    BY <2>1, <2>2, RecsAsk
  <2> QED BY <1>2, <2>3 DEF Ask, E, F
<1>6. \A k \in Node : serie'[k] # 0 => k \in Reached
  BY <1>1, <1>3 DEF AskInv
<1> QED
  BY <1>5, <1>6 DEF AskInv

-----------------------------------------------------------------------------
(* The invariant and its three facts.                                      *)

\* The service holds what it wrote.
Written == \A r \in log[Service] : r.key \in Key => r.val \in WriteVal

QuietInv == HoleInv /\ AskInv /\ Written

(* At the start no link is known.                                          *)
LEMMA QuietInit == Init => QuietInv
<1> SUFFICES ASSUME Init PROVE QuietInv
  OBVIOUS
<1>1. HoleInv
  BY HoleInit
<1>2. AskInv
  BY EmptyQueue DEF Init, AskInv, Ask, AskOf
<1>3. Written
  BY DEF Init, Written, Node
<1> QED
  BY <1>1, <1>2, <1>3 DEF QuietInv

(* Every step keeps the questions on the links.                            *)
LEMMA NextAsk ==
    ASSUME MaxDrop = 0, HoleInv, AskInv, [Next]_vars
    PROVE  AskInv'
<1> USE DEF HoleInv, IInv
<1>1. ASSUME NEW p \in Peer, Connect(p[1], p[2]) PROVE AskInv'
  BY <1>1, ConnectAsk, DdbConstants
<1>2. ASSUME NEW n \in Node, NEW m \in Node, Deliver(n, m) PROVE AskInv'
  BY <1>2, WelcomeAsk, EndAsk, AnswerAsk, AgainAsk, IgnoreAsk, AcceptAsk, NoOrders DEF Deliver
<1>3. ASSUME NEW r \in NewRecord \cup CheckpointRecord, ServiceIssue(r) PROVE AskInv'
  BY <1>3, IssueAsk, RecordTypes
<1>4. ASSUME NEW n \in Node, NEW m \in Node, LinkLoss(n, m) PROVE AskInv'
  BY <1>4, LossHungUp, HangUpAsk DEF LinkLoss
<1>5. ASSUME NEW n \in Server, Restart(n) PROVE AskInv'
  <2>1. n \in Node
    BY DEF Node
  <2>2. \A k \in Node : serie'[k] = serie[k] \/ serie'[k] = 0
    BY <1>5, <2>1 DEF Restart, Wipe, TypeOK
  <2> QED BY <1>5, <2>1, <2>2, RestartHungUp, HangUpAsk
<1>6. CASE UNCHANGED vars
  BY <1>6 DEF vars, AskInv, Ask
<1> QED
  BY <1>1, <1>2, <1>3, <1>4, <1>5, <1>6, NoOrders DEF Next, Environment

(* Only ServiceIssue adds to the records of the service.                   *)
LEMMA NextWritten ==
    ASSUME MaxDrop = 0, HoleInv, Written, [Next]_vars
    PROVE  Written'
<1> USE DEF HoleInv, IInv
<1>0. Service \in Node
  BY DEF Node
<1>1. ASSUME log'[Service] = log[Service] PROVE Written'
  BY <1>1 DEF Written
<1>2. ASSUME NEW p \in Peer, Connect(p[1], p[2]) PROVE Written'
  BY <1>1, <1>2 DEF Connect
<1>3. ASSUME NEW n \in Node, NEW m \in Node, Deliver(n, m) PROVE Written'
  <2>1. CASE \/ RecvSERVER(n, m) \/ RecvEOF(n, m) \/ RecvJ(n, m)
             \/ RecvB(n, m) \/ IgnoreRec(n, m)
    BY <1>1, <2>1 DEF RecvSERVER, RecvEOF, RecvJ, RecvB, IgnoreRec
  <2>2. CASE RecvRec(n, m)
    BY <1>1, <2>2, AcceptFacts
  <2> QED BY <1>3, <2>1, <2>2, NoOrders DEF Deliver
<1>4. ASSUME NEW r \in NewRecord \cup CheckpointRecord, ServiceIssue(r) PROVE Written'
  <2>1. log'[Service] = log[Service] \cup {r}
    BY <1>0, <1>4 DEF ServiceIssue, Apply, LogAfter, TypeOK
  <2>2. r.key \in Key => r.val \in WriteVal
    BY DdbConstants DEF NewRecord, CheckpointRecord
  <2> QED BY <2>1, <2>2 DEF Written
<1>5. ASSUME NEW n \in Node, NEW m \in Node, LinkLoss(n, m) PROVE Written'
  BY <1>1, <1>5 DEF LinkLoss
<1>6. ASSUME NEW n \in Server, Restart(n) PROVE Written'
  <2>1. n # Service
    BY DdbConstants
  <2> QED BY <1>0, <1>1, <1>6, <2>1 DEF Restart, Wipe, TypeOK
<1>7. CASE UNCHANGED vars
  BY <1>1, <1>7 DEF vars
<1> QED
  BY <1>2, <1>3, <1>4, <1>5, <1>6, <1>7, NoOrders DEF Next, Environment

(* Every step keeps the invariant.                                         *)
LEMMA QuietNext ==
    ASSUME MaxDrop = 0, DestMask \subseteq {Server}, QuietInv, [Next]_vars
    PROVE  QuietInv'
BY HoleNext, NextAsk, NextWritten DEF QuietInv

-----------------------------------------------------------------------------
(* What the invariant says when nothing is on the way.                     *)

(* A set of records that is not empty has one with the highest serial.     *)
LEMMA LatestExists ==
    ASSUME NEW R \in SUBSET Record, R # {}
    PROVE  \E r \in R : \A q \in R : q.serie <= r.serie
<1> DEFINE T == {MaxSerie - r.serie : r \in R}
           D == OpToRel(<, Nat)
<1>1. \A r \in R : r.serie \in Nat /\ MaxSerie - r.serie \in Nat
  BY DdbConstants DEF Record
<1>2. T \subseteq Nat /\ T # {}
  BY <1>1
<1>3. PICK x \in T : \A y \in T : ~(<<y, x>> \in D)
  <2>1. IsWellFoundedOn(D, Nat)
    BY NatLessThanWellFounded
  <2> HIDE DEF T, D
  <2> QED BY <1>2, <2>1, WFMin
<1>4. \A y \in T : ~(y < x)
  BY <1>2, <1>3 DEF OpToRel
<1>5. PICK r \in R : MaxSerie - r.serie = x
  OBVIOUS
<1>6. \A q \in R : q.serie <= r.serie
  <2> TAKE q \in R
  <2>1. MaxSerie - q.serie \in T
    OBVIOUS
  <2>2. ~(MaxSerie - q.serie < MaxSerie - r.serie)
    BY <1>4, <1>5, <2>1
  <2> QED BY <1>1, <2>2, DdbConstants
<1> QED
  BY <1>6

(* A server has caught up with a hub it is linked to.                      *)
LEMMA QuietCatchesUp ==
    ASSUME QuietInv, Quiet, NEW m \in Node, NEW n \in Node, m \in Hub[n], LinkedTo(m, n),
           NEW z \in Live, z.serie <= serie[m]
    PROVE  z.serie <= serie[n]
<1>1. n \in est[m]
  BY DEF Quiet, LinkedTo
<1>2. chan[<<m, n>>] = <<>> /\ chan[<<n, m>>] = <<>>
  BY DEF Quiet
<1>3. Ask(n, m) /\ Flow(m, n)
  BY DEF QuietInv, HoleInv, AskInv, FlowInv
<1>4. n \in tap[m]
  BY <1>1, <1>2, <1>3, EmptyQueue DEF Ask, AskOf
<1>5. CaughtUp(<<>>, serie[n], serie[m], Live)
  BY <1>2, <1>3, <1>4, EmptyQueue DEF Flow, FlowOf
<1> QED
  BY <1>5 DEF CaughtUp, Comes

(* So the servers that the records come to are at the service's serial.    *)
LEMMA QuietSerials ==
    ASSUME QuietInv, Quiet, NEW n \in Reached
    PROVE  serie[n] = serie[Service]
<1> DEFINE S == {k \in Node : serie[Service] <= serie[k]}
<1>1. IInv /\ FromService
  BY DEF QuietInv, HoleInv
<1>2. /\ Service \in Node /\ n \in Node
      /\ \A k \in Node : serie[k] \in Nat /\ serie[k] <= serie[Service]
  BY <1>1, LiveFacts DEF Reached
<1>3. ASSUME NEW a \in S, NEW b \in Node, a \in Hub[b], LinkedTo(a, b)
      PROVE  b \in S
  <2>1. CASE serie[Service] = 0
    BY <1>2, <2>1
  <2>2. CASE serie[Service] # 0
    <3>1. PICK z \in log[Service] : z.serie = serie[Service]
      BY <1>1, <1>2, <2>2 DEF IInv, FileEndsAtSerie
    <3>2. z \in Live
      BY <1>1, <3>1, LiveFacts DEF Live, LastOfAll
    <3> QED BY <1>2, <1>3, <3>1, <3>2, QuietCatchesUp
  <2> QED BY <2>1, <2>2
<1>4. FromHubs(S)
  BY <1>2, <1>3 DEF FromHubs
<1>5. n \in S
  BY <1>4 DEF Reached
<1> QED
  BY <1>2, <1>5

(* A server at the service's serial has the service's table.               *)
LEMMA SameSerieSameTable ==
    ASSUME QuietInv, ~Checkpoints \/ NoValue \notin WriteVal,
           NEW n \in Node, serie[n] = serie[Service]
    PROVE  mem[n] = mem[Service]
<1> DEFINE L == log[Service]
<1>1. IInv /\ MemoryIsFile /\ FromService /\ Full /\ Written
  BY DEF QuietInv, HoleInv
<1>2. /\ Service \in Node /\ L \in SUBSET Record /\ log[n] \in SUBSET Record
      /\ log[n] \subseteq L /\ Distinct(L) /\ Distinct(log[n])
      /\ \A r \in L : r.serie <= serie[n] /\ r.dest = Server
  BY <1>1, LiveFacts DEF FromService, Distinct, IInv, TypeOK
<1>3. \A q \in L : ForMe(n, q) /\ ForMe(Service, q)
  BY <1>2 DEF ForMe, Node
<1>4. ASSUME NEW k \in Key PROVE Replay(n, log[n])[k] = Replay(Service, L)[k]
  <2>1. CASE ~Resident \/ ~\E q \in L : q.key = k
    BY <1>2, <2>1, ReplayNone DEF IsLatest
  <2>2. CASE Resident /\ \E q \in L : q.key = k
    <3> DEFINE R == {q \in L : q.key = k}
    <3>1. R \in SUBSET Record /\ R # {}
      BY <1>2, <2>2
    <3>2. PICK r \in R : \A q \in R : q.serie <= r.serie
      <4> HIDE DEF R
      <4> QED BY <3>1, LatestExists
    <3>3. r \in Live
      BY <1>1, <3>2 DEF Live, LastOfKey, Written
    <3>4. r \in L /\ r \in log[n]
      BY <1>1, <1>2, <3>2, <3>3 DEF Full
    <3>5. IsLatest(r, k, n, log[n]) /\ IsLatest(r, k, Service, L)
      BY <1>2, <1>3, <3>2, <3>4 DEF IsLatest
    <3> HIDE DEF R, L
    <3>6. Replay(n, log[n])[k] = r.val /\ Replay(Service, L)[k] = r.val
      BY <1>2, <2>2, <3>4, <3>5, ReplayLatest
    <3> QED BY <3>6
  <2> QED BY <2>1, <2>2
<1>5. Replay(n, log[n]) = Replay(Service, L)
  BY <1>4 DEF Replay
<1> QED
  BY <1>1, <1>2, <1>5 DEF MemoryIsFile

(* A server that no record has come to has an empty table.                 *)
LEMMA EmptyAtZero ==
    ASSUME QuietInv, NEW n \in Node, serie[n] = 0
    PROVE  mem[n] = EmptyTable
<1>1. IInv /\ MemoryIsFile
  BY DEF QuietInv, HoleInv
<1>2. \A r \in log[n] : r.serie <= 0 /\ r \in Record
  BY <1>1 DEF IInv, FileEndsAtSerie, TypeOK
<1>3. log[n] = {}
  BY <1>2, DdbConstants DEF Record
<1>4. Replay(n, {}) = EmptyTable
  BY DEF Replay, EmptyTable
<1> QED
  BY <1>1, <1>3, <1>4 DEF MemoryIsFile

(* A hub is at the serial of the service, or no record has come to it.     *)
LEMMA QuietImplies ==
    ASSUME QuietInv, ~Checkpoints \/ NoValue \notin WriteVal
    PROVE  QuietAgreement
<1> SUFFICES ASSUME Quiet, NEW n \in Server, NEW m \in est[n] \cap Hub[n]
             PROVE  serie[n] >= serie[m] /\ (serie[n] = serie[m] => mem[n] = mem[m])
  BY DEF QuietAgreement
<1>1. IInv /\ FromService /\ AskInv
  BY DEF QuietInv, HoleInv
<1>2. n \in Node /\ m \in Node /\ serie[n] \in Nat /\ serie[m] \in Nat
  BY <1>1, LiveFacts DEF IInv, TypeOK, Node
<1>3. LinkedTo(m, n)
  BY <1>1, <1>2 DEF AskInv, Ask, AskOf
<1>4. CASE m \in Reached
  <2>1. n \in Reached
    BY <1>2, <1>3, <1>4, ReachedGrows
  <2>2. serie[n] = serie[Service] /\ serie[m] = serie[Service]
    BY <1>4, <2>1, QuietSerials
  <2> QED BY <1>2, <2>2, SameSerieSameTable
<1>5. CASE m \notin Reached
  <2>1. serie[m] = 0
    BY <1>1, <1>2, <1>5 DEF AskInv
  <2> QED BY <1>2, <2>1, EmptyAtZero
<1> QED
  BY <1>4, <1>5

(* doc/ddb.txt: without DB messages under way all servers have the same    *)
(* database.  With every link up and no line in flight, a server is level  *)
(* with each hub it listens to and holds the same table, for every tree,   *)
(* table, burst size and sequence of losses and restarts.  The hypothesis  *)
(* on deletions cannot be dropped: ddb_lost_delete is what happens then.   *)
THEOREM QuietServersAgree ==
    ASSUME MaxDrop = 0, DestMask \subseteq {Server},
           ~Checkpoints \/ NoValue \notin WriteVal
    PROVE  Spec => []QuietAgreement
<1>1. QuietInv /\ [Next]_vars => QuietInv'
  BY QuietNext
<1>2. QuietInv => QuietAgreement
  BY QuietImplies
<1> QED
  BY <1>1, <1>2, QuietInit, PTL DEF Spec

\* The servers that a chain of hubs leads to from the service.
ServiceTable ==
    Quiet => \A n \in Reached : serie[n] = serie[Service] /\ mem[n] = mem[Service]

(* Along the hubs this reaches the service: with nothing under way every   *)
(* server that a chain of H:lines joins to it holds its serial and table.  *)
THEOREM QuietServersHoldService ==
    ASSUME MaxDrop = 0, DestMask \subseteq {Server},
           ~Checkpoints \/ NoValue \notin WriteVal
    PROVE  Spec => []ServiceTable
<1>1. QuietInv /\ [Next]_vars => QuietInv'
  BY QuietNext
<1>2. QuietInv => ServiceTable
  BY QuietSerials, SameSerieSameTable DEF ServiceTable, Reached
<1> QED
  BY <1>1, <1>2, QuietInit, PTL DEF Spec

=============================================================================
