------------------------------- MODULE DdbNet -------------------------------
(***************************************************************************)
(* Replication of one table of the distributed database (DDB, "BDD") over  *)
(* the tree of servers: m_db, tx_num_serie_dbs, db_alta, db_pack,          *)
(* borrar_db, initdb2 and corta_si_multiples_hubs of ircd/s_bdd.c, and the *)
(* two points of the link handshake where a server announces its serial    *)
(* (ircd/s_serv.c, ircd/s_bsd.c).                                          *)
(*                                                                         *)
(* The 26 tables are independent (one file, one serial and one bit of      *)
(* esnet_db each), so one table is modelled.  A handler runs to completion *)
(* in the single-threaded event loop, hence one action per DB message.     *)
(* What interleaves is the delivery of lines on different links, link loss *)
(* and server restarts.                                                    *)
(*                                                                         *)
(* Data abstraction.  The file tabla.<c> is the SET of its records: a      *)
(* record is appended only if its serial is above tabla_serie, so its      *)
(* order in the file is the order of the serials.  A run of records sent   *)
(* by one handler is one REC message holding a set, which the receiver     *)
(* consumes one record at a time, lowest serial first.                     *)
(***************************************************************************)
EXTENDS Integers, Sequences, FiniteSets

CONSTANTS
    Server,         \* the ircds
    Service,        \* the control node that originates records (external)
    Hub,            \* Hub[n]: the peers n has an H:line (CONF_HUB) for
    Peer,           \* <<i, a>>: i has a connect block for a; a tree
    Key, Value, NoValue, Star,
    WriteVal,       \* the values the service writes; NoValue is a deletion
    DestMask,       \* the target masks it uses, as sets of servers
    DropMask,       \* the masks of the D (delete table) orders it issues
    Resident,       \* tabla_residente_y_len[c] # 0
    BurstMax,       \* the 1000 records of one burst
    MaxSerie,       \* bound: records the service issues
    Checkpoints,    \* bound: may the service issue checkpoints?
    MaxDrop,        \* bound: D orders the service issues
    MaxLoss         \* bound: link losses and restarts

Node == Server \cup {Service}
Val  == Value \cup {NoValue}

ASSUME DdbConstants ==
    /\ Service \notin Server
    /\ IsFiniteSet(Server)
    /\ Hub \in [Node -> SUBSET Node]
    /\ Hub[Service] = {}
    /\ Peer \subseteq Node \X Node
    /\ \A p \in Peer : p[1] # p[2] /\ <<p[2], p[1]>> \notin Peer
    /\ NoValue \notin Value
    /\ Star \notin Key
    /\ WriteVal \subseteq Val
    /\ DestMask \subseteq SUBSET Server
    /\ DropMask \subseteq SUBSET Server
    /\ Resident \in BOOLEAN
    /\ Checkpoints \in BOOLEAN
    /\ BurstMax \in Nat \ {0}
    /\ MaxSerie \in Nat
    /\ MaxDrop \in Nat
    /\ MaxLoss \in Nat

\* One line of tabla.<c>: "serie destino id clave contenido".
Record == [serie : 1..MaxSerie, dest : SUBSET Server, key : Key \cup {Star},
           val : Val]

MsgType == {"SERVER", "J", "B", "D", "REC", "EOF"}
MsgFields == [type : MsgType, serie : 0..MaxSerie, mask : SUBSET Server,
              recs : SUBSET Record]
Msg == {x \in MsgFields : x.type = "REC" => x.recs # {}}

Message(t, s, m, R) == [type |-> t, serie |-> s, mask |-> m, recs |-> R]
SERVERMsg  == Message("SERVER", 0, {}, {})
JMsg_Next(s) == Message("J", s + 1, {}, {})      \* mutant
JMsg(s)    == Message("J", s, {}, {})
BMsg       == Message("B", 0, {}, {})
DMsg(m)    == Message("D", 0, m, {})
RecMsg(R)  == Message("REC", 0, {}, R)
EOFMsg     == Message("EOF", 0, {}, {})

VARIABLES
    log,    \* log[n]: the records in n's file tabla.<c>
    mem,    \* mem[n]: tabla_datos, the value in memory of every key
    serie,  \* serie[n]: tabla_serie
    tap,    \* tap[n]: the peers whose esnet_db bit is set ("grifo abierto")
    est,    \* est[n]: me.serv->down, the peers established at n
    chan,   \* chan[<<m, n>>]: lines sent by m and not yet parsed by n
    drops,  \* D orders issued so far
    losses  \* link losses and restarts so far

vars == <<log, mem, serie, tap, est, chan, drops, losses>>

EmptyTable == [k \in Key |-> NoValue]

Init ==
    /\ log = [n \in Node |-> {}]
    /\ mem = [n \in Node |-> EmptyTable]
    /\ serie = [n \in Node |-> 0]
    /\ tap = [n \in Node |-> {}]
    /\ est = [n \in Node |-> {}]
    /\ chan = [c \in Node \X Node |-> <<>>]
    /\ drops = 0
    /\ losses = 0

-----------------------------------------------------------------------------
(* The table of one server.                                                *)

\* db_alta's last part: an empty content deletes, any other inserts; only
\* records whose target mask matches this server reach the memory.
ForMe(n, r) == n = Service \/ n \in r.dest

MemAfter(n, m, r) ==
    IF Resident /\ ForMe(n, r) /\ r.key \in Key
    THEN [m EXCEPT ![r.key] = r.val]
    ELSE m

\* Mutant: the comparison of the value is inverted.
Packed_Inverted(L, m) ==
    {q \in L : q.key \in Key /\ q.val # NoValue /\ m[q.key] # q.val}

\* db_pack: of the old lines keep those that still hold the value in memory;
\* deletions and old checkpoints go.  A table that is not resident keeps all.
Packed(L, m) ==
    IF Resident
    THEN {q \in L : q.key \in Key /\ q.val # NoValue /\ m[q.key] = q.val}
    ELSE L

LogAfter(n, L, m, r) ==
    (IF r.key = Star /\ n # Service THEN Packed(L, m) ELSE L) \cup {r}

\* The "Nuevo registro" tail of m_db once the record is accepted.
Apply(n, r) ==
    /\ log' = [log EXCEPT ![n] = LogAfter(n, @, mem[n], r)]
    /\ mem' = [mem EXCEPT ![n] = MemAfter(n, @, r)]
    /\ serie' = [serie EXCEPT ![n] = r.serie]

\* initdb2: the file is read in order, so the last record of a key wins.
IsLatest(r, k, n, L) ==
    /\ r \in L
    /\ r.key = k
    /\ ForMe(n, r)
    /\ \A q \in L : q.key = k /\ ForMe(n, q) => q.serie <= r.serie

Replay(n, L) ==
    [k \in Key |->
        IF Resident /\ \E r \in L : IsLatest(r, k, n, L)
        THEN (CHOOSE r \in L : IsLatest(r, k, n, L)).val
        ELSE NoValue]

\* Mutant: tabla_serie is not reset.
Wipe_KeepsSerie(n) ==
    /\ log' = [log EXCEPT ![n] = {}]
    /\ mem' = [mem EXCEPT ![n] = EmptyTable]
    /\ UNCHANGED serie

\* borrar_db and the truncation of the file that goes with it.
Wipe(n) ==
    /\ log' = [log EXCEPT ![n] = {}]
    /\ mem' = [mem EXCEPT ![n] = EmptyTable]
    /\ serie' = [serie EXCEPT ![n] = 0]

-----------------------------------------------------------------------------
(* Links.                                                                  *)

\* c with msg appended by n to every peer of T.
Sent(c, n, T, msg) ==
    [p \in Node \X Node |->
        IF p[1] = n /\ p[2] \in T THEN Append(c[p], msg) ELSE c[p]]

\* n closes its sockets to the peers of T (exit_client).  What it had queued
\* for a peer that still counts it as linked arrives before the end of file
\* or is lost with it; what the peers had sent to n is gone.
Closed(c, n, T, lossy) ==
    [p \in Node \X Node |->
        CASE p[1] = n /\ p[2] \in T ->
                IF n \in est[p[2]]
                THEN Append(IF lossy THEN <<>> ELSE c[p], EOFMsg)
                ELSE <<>>
          [] p[2] = n /\ p[1] \in T -> <<>>
          [] OTHER -> c[p]]

\* The head of the queue from m to n has been parsed.
Parsed(m, n) == [chan EXCEPT ![<<m, n>>] = Tail(@)]

Arrives(n, m, t) ==
    /\ chan[<<m, n>>] # <<>>
    /\ Head(chan[<<m, n>>]).type = t
    /\ (t = "SERVER" <=> m \notin est[n])

\* completed_connection: the initiator sends SERVER and, without waiting for
\* the answer, the serials of its tables (tx_num_serie_dbs).
Connect(i, a) ==
    /\ <<i, a>> \in Peer
    /\ a \notin est[i] /\ i \notin est[a]
    /\ chan[<<i, a>>] = <<>> /\ chan[<<a, i>>] = <<>>
    /\ chan' = [chan EXCEPT ![<<i, a>>] = <<SERVERMsg, JMsg(serie[i])>>]
    /\ UNCHANGED <<log, mem, serie, tap, est, drops, losses>>

\* m_server / m_server_estab: the link is established here with its tap
\* closed; the acceptor answers with its own SERVER and serials.
RecvSERVER(n, m) ==
    /\ Arrives(n, m, "SERVER")
    /\ est' = [est EXCEPT ![n] = @ \cup {m}]
    /\ tap' = [tap EXCEPT ![n] = @ \ {m}]
    /\ chan' = IF <<m, n>> \in Peer
               THEN [Parsed(m, n) EXCEPT ![<<n, m>>] =
                        <<SERVERMsg, JMsg(serie[n])>>]
               ELSE Parsed(m, n)
    /\ UNCHANGED <<log, mem, serie, drops, losses>>

RecvEOF(n, m) ==
    /\ Arrives(n, m, "EOF")
    /\ est' = [est EXCEPT ![n] = @ \ {m}]
    /\ tap' = [tap EXCEPT ![n] = @ \ {m}]
    /\ chan' = [chan EXCEPT ![<<m, n>>] = <<>>, ![<<n, m>>] = <<>>]
    /\ UNCHANGED <<log, mem, serie, drops, losses>>

\* n loses an established link (SQUIT, ping timeout, write error).
LinkLoss(n, m) ==
    /\ losses < MaxLoss
    /\ m \in est[n]
    /\ \E lossy \in BOOLEAN : chan' = Closed(chan, n, {m}, lossy)
    /\ est' = [est EXCEPT ![n] = @ \ {m}]
    /\ tap' = [tap EXCEPT ![n] = @ \ {m}]
    /\ losses' = losses + 1
    /\ UNCHANGED <<log, mem, serie, drops>>

\* The process ends and comes back: initdb reads the file again.  A file
\* whose hash does not match the stored one is truncated (module DdbStore
\* has the steps that lead there).
Restart(n) ==
    /\ losses < MaxLoss
    /\ n \in Server
    /\ \E lossy \in BOOLEAN : chan' = Closed(chan, n, Node \ {n}, lossy)
    /\ est' = [est EXCEPT ![n] = {}]
    /\ tap' = [tap EXCEPT ![n] = {}]
    /\ \/ mem' = [mem EXCEPT ![n] = Replay(n, log[n])]
          /\ UNCHANGED <<log, serie>>
       \/ Wipe(n)
    /\ losses' = losses + 1
    /\ UNCHANGED drops

-----------------------------------------------------------------------------
(* m_db with serial 0: the control messages.                               *)

\* J: m says its last serial is s.
\*  - it lacks nothing: open the tap;
\*  - the tap was open: m has lost its table, order it to start from zero;
\*  - else send what follows s, at most BurstMax records; if all fitted open
\*    the tap, else send B so that m asks again.
Burst(n, s) == {r \in log[n] : r.serie > s}
FirstOf(R, k) == {r \in R : Cardinality({q \in R : q.serie < r.serie}) < k}

TapOpened_Not(n, m) == tap                                   \* mutant
TapOpened(n, m) == [tap EXCEPT ![n] = @ \cup {m}]

RecvJ(n, m) ==
    /\ Arrives(n, m, "J")
    /\ LET s == Head(chan[<<m, n>>]).serie
           R == Burst(n, s)
           fits == Cardinality(R) < BurstMax
       IN  \/ /\ s >= serie[n]
              /\ tap' = TapOpened(n, m)
              /\ chan' = Parsed(m, n)
           \/ /\ s < serie[n] /\ m \in tap[n]
              /\ tap' = [tap EXCEPT ![n] = @ \ {m}]
              /\ chan' = Sent(Parsed(m, n), n, {m}, DMsg({m} \cap Server))
           \/ /\ s < serie[n] /\ m \notin tap[n] /\ fits
              /\ tap' = TapOpened(n, m)
              /\ chan' = Sent(Parsed(m, n), n, {m}, RecMsg(R))
           \/ /\ s < serie[n] /\ m \notin tap[n] /\ ~fits
              /\ UNCHANGED tap
              /\ chan' = Sent(Sent(Parsed(m, n), n, {m},
                                   RecMsg(FirstOf(R, BurstMax))),
                              n, {m}, BMsg)
    /\ UNCHANGED <<log, mem, serie, est, drops, losses>>

\* B: the peer has more; ask from where we are.  Only a hub is believed.
RecvB(n, m) ==
    /\ Arrives(n, m, "B")
    /\ chan' = IF m \in Hub[n]
               THEN Sent(Parsed(m, n), n, {m}, JMsg(serie[n]))
               ELSE Parsed(m, n)
    /\ UNCHANGED <<log, mem, serie, tap, est, drops, losses>>

\* D from a peer that is no hub is ignored.
IgnoreD(n, m) ==
    /\ Arrives(n, m, "D")
    /\ m \notin Hub[n]
    /\ chan' = Parsed(m, n)
    /\ UNCHANGED <<log, mem, serie, tap, est, drops, losses>>

AskAgain(c, n, m, s) == Sent(c, n, {m}, JMsg(s))

\* D from a hub: close every other tap and pass the order on; if it is for
\* this server delete the table and cut the other hubs
\* (corta_si_multiples_hubs); then ask the sender for the table.
RecvD(n, m) ==
    /\ Arrives(n, m, "D")
    /\ m \in Hub[n]
    /\ LET mask   == Head(chan[<<m, n>>]).mask
           others == est[n] \ {m}
           relayed == Sent(Parsed(m, n), n, others, DMsg(mask))
           hubs   == others \cap Hub[n]
       IN  \/ /\ n \notin mask
              /\ chan' = AskAgain(relayed, n, m, serie[n])
              /\ tap' = [tap EXCEPT ![n] = @ \ others]
              /\ UNCHANGED <<log, mem, serie, est>>
           \/ /\ n \in mask
              /\ Wipe(n)
              /\ \E lossy \in BOOLEAN :
                    chan' = AskAgain(Closed(relayed, n, hubs, lossy), n, m, 0)
              /\ est' = [est EXCEPT ![n] = @ \ hubs]
              /\ tap' = [tap EXCEPT ![n] = @ \ others]
    /\ UNCHANGED <<drops, losses>>

-----------------------------------------------------------------------------
(* m_db with a serial: records.                                            *)

\* The next record of the REC message at the head, and what is left.
NextRec(R) == CHOOSE r \in R : \A q \in R : r.serie <= q.serie

RecTaken(m, n) ==
    LET R == Head(chan[<<m, n>>]).recs
        rest == R \ {NextRec(R)}
    IN  IF rest = {}
        THEN Parsed(m, n)
        ELSE [chan EXCEPT ![<<m, n>>] = <<RecMsg(rest)>> \o Tail(@)]

\* A serial already seen, or a sender that is no hub: nothing happens.
Refused(n, m, r) == r.serie <= serie[n] \/ m \notin Hub[n]

IgnoreRec(n, m) ==
    /\ Arrives(n, m, "REC")
    /\ Refused(n, m, NextRec(Head(chan[<<m, n>>]).recs))
    /\ chan' = RecTaken(m, n)
    /\ UNCHANGED <<log, mem, serie, tap, est, drops, losses>>

Listeners_All(n, m) == est[n] \ {m}                          \* mutant
Listeners(n, m) == (est[n] \cap tap[n]) \ {m}

\* A new record is passed on through the open taps and then stored.
RecvRec(n, m) ==
    /\ Arrives(n, m, "REC")
    /\ LET r == NextRec(Head(chan[<<m, n>>]).recs)
       IN  /\ ~Refused(n, m, r)
           /\ chan' = Sent(RecTaken(m, n), n, Listeners(n, m), RecMsg({r}))
           /\ Apply(n, r)
    /\ UNCHANGED <<tap, est, drops, losses>>

-----------------------------------------------------------------------------
(* The service (external): it numbers the records, keeps all of them,      *)
(* answers J like a hub and orders a table deleted with D.                 *)

ServiceIssue(r) ==
    /\ r.serie = serie[Service] + 1
    /\ chan' = Sent(chan, Service, est[Service] \cap tap[Service], RecMsg({r}))
    /\ Apply(Service, r)
    /\ UNCHANGED <<tap, est, drops, losses>>

NewRecord == [serie : 1..MaxSerie, dest : DestMask, key : Key, val : WriteVal]
CheckpointRecord ==
    [serie : IF Checkpoints THEN 1..MaxSerie ELSE {}, dest : {Server},
     key : {Star}, val : {NoValue}]

ServiceDrop(mask) ==
    /\ drops < MaxDrop
    /\ est[Service] # {}
    /\ drops' = drops + 1
    /\ tap' = [tap EXCEPT ![Service] = {}]
    /\ chan' = Sent(chan, Service, est[Service], DMsg(mask))
    /\ UNCHANGED <<log, mem, serie, est, losses>>

-----------------------------------------------------------------------------
Deliver(n, m) ==
    \/ RecvSERVER(n, m)
    \/ RecvEOF(n, m)
    \/ RecvJ(n, m)
    \/ RecvB(n, m)
    \/ IgnoreD(n, m)
    \/ RecvD(n, m)
    \/ IgnoreRec(n, m)
    \/ RecvRec(n, m)

Environment ==
    \/ \E r \in NewRecord : ServiceIssue(r)
    \/ \E r \in CheckpointRecord : ServiceIssue(r)
    \/ \E mask \in DropMask : ServiceDrop(mask)
    \/ \E n, m \in Node : LinkLoss(n, m)
    \/ \E n \in Server : Restart(n)

Next ==
    \/ \E p \in Peer : Connect(p[1], p[2])
    \/ \E n, m \in Node : Deliver(n, m)
    \/ Environment

Spec == Init /\ [][Next]_vars

\* The event loop reads every readable socket and try_connections retries
\* the configured links; nothing else is assumed to happen.
FairSpec ==
    /\ Spec
    /\ \A p \in Peer : WF_vars(Connect(p[1], p[2]))
    /\ \A n, m \in Node : WF_vars(Deliver(n, m))
-----------------------------------------------------------------------------
(* Properties.                                                             *)

\* The state stays within its types.
TypeOK ==
    /\ log \in [Node -> SUBSET Record]
    /\ mem \in [Node -> [Key -> Val]]
    /\ serie \in [Node -> 0..MaxSerie]
    /\ tap \in [Node -> SUBSET Node]
    /\ est \in [Node -> SUBSET Node]
    /\ chan \in [Node \X Node -> Seq(Msg)]
    /\ drops \in 0..MaxDrop
    /\ losses \in 0..MaxLoss

\* tabla_serie is the serial of the last line of the file, 0 for an empty
\* file, and no two lines share a serial, through inserts, packs, deletions
\* of the table and restarts.  The J handler relies on it: it opens the file
\* at serial s + 1 and kills the server if there is no such line.
FileEndsAtSerie ==
    \A n \in Node :
        /\ \A r \in log[n] : r.serie <= serie[n]
        /\ serie[n] # 0 => \E r \in log[n] : r.serie = serie[n]
        /\ \A q, r \in log[n] : q.serie = r.serie => q = r

\* What initdb2 would read back from the file is what is in memory: a restart
\* changes no answer of the table, also after a pack has rewritten the file.
MemoryIsFile == \A n \in Node : mem[n] = Replay(n, log[n])

Quiet == /\ \A c \in Node \X Node : chan[c] = <<>>
         /\ \A p \in Peer : p[2] \in est[p[1]] /\ p[1] \in est[p[2]]

\* With every link up and no line in flight, a server has caught up with each
\* hub it listens to, and two of them at the same serial hold the same table
\* (doc/ddb.txt: without DB messages all servers have the same database).
QuietAgreement ==
    Quiet =>
        \A n \in Server : \A m \in est[n] \cap Hub[n] :
            /\ serie[n] >= serie[m]
            /\ serie[n] = serie[m] => mem[n] = mem[m]

\* A server whose serial is s holds the record of every live key of the
\* service up to s: no burst cut in pieces, no tap opened late, no stale J, no
\* pack, no second hub and no lost link ever leaves a hole.  (Without D.)
NoHole ==
    \A n \in Server, k \in Key, r \in log[Service] :
        (/\ IsLatest(r, k, Service, log[Service])
         /\ r.val # NoValue /\ ForMe(n, r)
         /\ r.serie <= serie[n]) => r \in log[n]

\* Once the service and the faults stop, every server that has a hub ends with
\* the table of the service: B, J and D do not chase each other for ever.
Converges ==
    <>[](\A n \in Server : Hub[n] # {} =>
            serie[n] = serie[Service] /\ mem[n] = mem[Service])
=============================================================================
