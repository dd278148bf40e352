------------------------------- MODULE SendQ -------------------------------
(***************************************************************************)
(* The output of one server: the queues of its connections (send.c), the   *)
(* pool of buffers they share (dbuf.c), the write events, the compressed   *)
(* links and the microbursts, and the one global buffer sendbuf in which   *)
(* every message is put together.                                          *)
(*                                                                         *)
(* Bytes are counted in units: a message is one unit, and the kernel takes *)
(* as many units as its buffer has room for.  A message is its number.     *)
(***************************************************************************)
EXTENDS Integers, Sequences, FiniteSets, SequencesExt, FiniteSetsExt

CONSTANTS
    Down,       \* the server links, in the order of me.serv->down
    Zipped,     \* those with ZLIB_ESNET_OUT
    OperSeq,    \* the local operators that hear notices, in the order of their list
    Plain,      \* the other local users
    BufUnits, PoolBufs,     \* the size of a buffer, and how many there may be
    SqUnits,                \* the 1024 bytes of lastsq
    SendLimit,              \* get_sendq
    FloodLimit,             \* CLIENT_FLOOD
    SockUnits,              \* what the kernel takes before the peer has read
    Slow,                   \* the ends whose kernel buffer is full at first
    ListBuckets, ListLow,   \* the channel table, and the length below which LIST goes on
    MaxMsgs, MaxLists       \* bounds: messages, LIST commands

Ends == ToSet(Down) \cup ToSet(OperSeq) \cup Plain
IsServerEnd(c) == c \in ToSet(Down)

ASSUME SendConstants ==
    /\ Zipped \subseteq ToSet(Down)
    /\ IsInjective(Down) /\ IsInjective(OperSeq)
    /\ {BufUnits, PoolBufs, SqUnits, SockUnits} \subseteq Nat \ {0}
    /\ {SendLimit, FloodLimit, ListBuckets, ListLow, MaxMsgs, MaxLists} \subseteq Nat

Notice == 0     \* what sendto_ops puts into sendbuf

VARIABLES
    io,         \* io[c]: the local end of connection c
    msgs, lists,    \* counts of what the bounds limit
    \* History: what sendbufto_one was asked to send over c and its peer has not received;
    \* whose peers received something else; the compressed links whose stream a full pool
    \* cut; the links that a message to all servers should have reached and did not.
    owed, garbled, scrapped, untold

sendVars == <<io, msgs, lists, owed, garbled, scrapped, untold>>

EmptyBuf == [data |-> <<>>, off |-> 0]

NewEnd == [open |-> TRUE, dead |-> FALSE, blocked |-> FALSE, armed |-> FALSE, lastsq |-> 0,
           sendQ |-> EmptyBuf, recvQ |-> EmptyBuf, held |-> <<>>, bucket |-> 0,
           sock |-> SockUnits, err |-> FALSE]

SendWorld == [io |-> io, owed |-> owed, garbled |-> garbled, scrapped |-> scrapped]

-----------------------------------------------------------------------------
(* dbuf.c.  off is how much of the first buffer is gone.                   *)

DBufLength(d) == Len(d.data)
Buffers(d) == IF d.data = <<>> THEN 0 ELSE (d.off + Len(d.data) + BufUnits - 1) \div BufUnits
UsedCount(w) == FoldSet(LAMBDA c, n : n + Buffers(w.io[c].sendQ) + Buffers(w.io[c].recvQ), 0, Ends)

dbuf_delete(d, n) ==
    IF n >= Len(d.data) THEN EmptyBuf
    ELSE [data |-> SubSeq(d.data, n + 1, Len(d.data)), off |-> (d.off + n) % BufUnits]

\* dbuf_put2 of ms to queue q of c: without a buffer left the queue is scrapped.
Fits(w, c, q, ms) ==
    LET d == w.io[c][q] IN
    Buffers([d EXCEPT !.data = @ \o ms]) - Buffers(d) <= PoolBufs - UsedCount(w)
dbuf_put2(w, c, q, ms) ==
    [w EXCEPT !.io[c][q] = IF Fits(w, c, q, ms) THEN [@ EXCEPT !.data = @ \o ms] ELSE EmptyBuf]

-----------------------------------------------------------------------------
(* send.c                                                                  *)

UpdateWrite_Unlisted(w, c) ==
    [w EXCEPT !.io[c].armed = DBufLength(w.io[c].sendQ) > 0]
UpdateWrite(w, c) ==
    [w EXCEPT !.io[c].armed = DBufLength(w.io[c].sendQ) > 0 \/ w.io[c].bucket > 0]

\* dead_link without the notice that it sends about a server.
Deadened(w, c) ==
    [w EXCEPT !.io[c] = [@ EXCEPT !.dead = TRUE, !.sendQ = EmptyBuf, !.recvQ = EmptyBuf]]

\* send_queued: the kernel takes what it has room for; an error is found by writing.
\* The caller sends the notice about a server that is dead by it.
send_queued(w, c) ==
    LET e == w.io[c]
        n == DBufLength(e.sendQ)
        k == Min({n, e.sock})
        wrote == [w EXCEPT !.io[c] = [@ EXCEPT !.sendQ = dbuf_delete(@, k), !.sock = @ - k,
                                               !.blocked = n > k,
                                               !.lastsq = IF n > 0 THEN (n - k) \div SqUnits ELSE @],
                           !.owed[c] = SubSeq(@, k + 1, Len(@)),
                           !.garbled = IF IsPrefix(SubSeq(e.sendQ.data, 1, k), w.owed[c])
                                       THEN @ ELSE @ \cup {c}]
    IN IF e.blocked THEN UpdateWrite(w, c)
       ELSE IF e.dead THEN w
       ELSE IF n > 0 /\ e.err THEN Deadened(w, c)
       ELSE UpdateWrite(wrote, c)

\* dbuf_put of m to the sendQ; in a microburst the compressor of a zipped link keeps it.
Puts(w, c, m, mburst) ==
    IF c \in Zipped /\ mburst THEN [w EXCEPT !.io[c].held = Append(@, m)]
    ELSE dbuf_put2(w, c, "sendQ", <<m>>)
PutsFit(w, c, m, mburst) ==
    (c \in Zipped /\ mburst) \/ Fits(w, c, "sendQ", <<m>>)

\* sendbufto_one, without the notices; put is the state with m in the queue.
Queued(w, put, c, fits) ==
    IF w.io[c].dead \/ ~w.io[c].open THEN w
    ELSE IF DBufLength(w.io[c].sendQ) > SendLimit \/ ~fits THEN Deadened(w, c)
    ELSE IF DBufLength(put.io[c].sendQ) \div SqUnits > put.io[c].lastsq THEN send_queued(put, c)
    ELSE UpdateWrite(put, c)
Buffered(w, c, m, mburst) ==
    Queued(w, Puts([w EXCEPT !.owed[c] = Append(@, m)], c, m, mburst), c, PutsFit(w, c, m, mburst))

\* sendto_ops: each operator gets the notice, out of sendbuf.
sendto_ops(w, mburst) == FoldLeft(LAMBDA v, o : Buffered(v, o, Notice, mburst), w, OperSeq)

\* sendbufto_one: what it makes of w, and of sendbuf.  A sendQ over its limit and dead_link
\* are reported to the operators when c is a server.
Warned(w, c, mburst) ==
    IF w.io[c].open /\ ~w.io[c].dead /\ DBufLength(w.io[c].sendQ) > SendLimit /\ IsServerEnd(c)
    THEN sendto_ops(w, mburst) ELSE w
Reported(s, w, c, mburst) ==
    IF IsServerEnd(c) /\ w.io[c].dead /\ ~s.w.io[c].dead
    THEN [w |-> sendto_ops(w, mburst),
          sbuf |-> IF \E i \in DOMAIN OperSeq : w.io[OperSeq[i]].open THEN Notice ELSE s.sbuf]
    ELSE [w |-> w, sbuf |-> s.sbuf]
sendbufto_one(s, c, mburst) == Reported(s, Buffered(Warned(s.w, c, mburst), c, s.sbuf, mburst), c, mburst)

\* sendto_serv_butone: sendbuf is written once and sent to every link but one.
sendto_serv_butone(w, one, m, mburst) ==
    FoldLeft(LAMBDA s, c : IF c = one THEN s ELSE sendbufto_one(s, c, mburst),
             [w |-> w, sbuf |-> m], SelectSeq(Down, LAMBDA c : w.io[c].open)).w

\* Who lives through a message to all servers and was not sent it.
Untold(w, v, one, m) ==
    {c \in ToSet(Down) \ {one} :
        v.io[c].open /\ ~v.io[c].dead /\ ~IsSuffix(v.owed[c], Append(w.owed[c], m))}

\* completa_microburst: what the compressor kept goes to the queue; the answer of dbuf_put
\* is not looked at.
completa_microburst(w) ==
    FoldLeft(LAMBDA v, c :
                 IF v.io[c].held = <<>> \/ ~v.io[c].open THEN v
                 ELSE LET put == dbuf_put2([v EXCEPT !.io[c].held = <<>>], c, "sendQ", v.io[c].held)
                      IN UpdateWrite([put EXCEPT !.scrapped = IF Fits(v, c, "sendQ", v.io[c].held)
                                                              THEN @ ELSE @ \cup {c}], c),
             w, Down)

\* close_connection: what the kernel takes of the queue is still sent.
Exited(w, c) ==
    LET f == IF DBufLength(w.io[c].sendQ) > 0 THEN send_queued(w, c) ELSE w
    IN [f EXCEPT !.io[c] = [NewEnd EXCEPT !.open = FALSE],
                  !.owed[c] = <<>>, !.garbled = @ \ {c}, !.scrapped = @ \ {c}]
ExitIfDead(w, c) == IF w.io[c].dead THEN Exited(w, c) ELSE w

\* list_next_channels: bucket by bucket, one channel each, until the queue is half full.
\* Where it stops is where it starts again.
ListFrom(w, c, b) == [w EXCEPT !.io[c].bucket = b]
HalfFull(w, c) == DBufLength(w.io[c].sendQ) > SendLimit \div 2
AfterBucket(w, c) == [w |-> w, stop |-> HalfFull(w, c)]
ListBucket(s, c, b, m) ==
    IF s.stop \/ b < s.w.io[c].bucket THEN s ELSE AfterBucket(Buffered(ListFrom(s.w, c, b), c, m, FALSE), c)
ListEnd(s, c, m) == IF s.stop THEN s.w ELSE Buffered(ListFrom(s.w, c, 0), c, m, FALSE)
list_next_channels(w, c, m) ==
    ListEnd(FoldLeft(LAMBDA s, b : ListBucket(s, c, b, m), [w |-> w, stop |-> FALSE],
                     [b \in 1..ListBuckets |-> b]), c, m)

-----------------------------------------------------------------------------
SendBecomes(w) ==
    io' = w.io /\ owed' = w.owed /\ garbled' = w.garbled /\ scrapped' = w.scrapped

SendInit ==
    /\ io = [c \in Ends |-> IF c \in Slow THEN [NewEnd EXCEPT !.sock = 0] ELSE NewEnd]
    /\ msgs = 0 /\ lists = 0
    /\ owed = [c \in Ends |-> <<>>] /\ garbled = {}
    /\ scrapped = {} /\ untold = {}

\* Two messages that follow one another can be told apart.
Numbered(n) == 1 + (n % 2)

Alive(c) == io[c].open /\ ~io[c].dead

\* read_packet of a user: the bytes wait in recvQ; too many of them, or no buffer, end it.
ReadUser(u) ==
    LET w == dbuf_put2(SendWorld, u, "recvQ", <<Notice>>) IN
    /\ u \in Ends \ ToSet(Down) /\ Alive(u)
    /\ DBufLength(io[u].recvQ) <= FloodLimit
    /\ SendBecomes(IF ~Fits(SendWorld, u, "recvQ", <<Notice>>)
                      \/ (DBufLength(w.io[u].recvQ) > FloodLimit /\ u \notin ToSet(OperSeq))
                   THEN Exited(w, u) ELSE w)
    /\ UNCHANGED <<msgs, lists, untold>>

\* A command of u has been read out of its recvQ, and w became v by it.
ReadBy(u) == [SendWorld EXCEPT !.io[u].recvQ = dbuf_delete(@, 1)]
ToServers(w, v, u, m) ==
    SendBecomes(ExitIfDead(v, u)) /\ untold' = untold \cup Untold(w, v, u, m)

\* client_dopacket: a message of u to a user or to all servers.
Says(u, to) ==
    /\ msgs < MaxMsgs /\ msgs' = msgs + 1
    /\ Alive(u) /\ DBufLength(io[u].recvQ) > 0
    /\ IF to = "servers"
       THEN ToServers(ReadBy(u), sendto_serv_butone(ReadBy(u), u, Numbered(msgs), FALSE), u, Numbered(msgs))
       ELSE /\ SendBecomes(ExitIfDead(Buffered(ReadBy(u), to, Numbered(msgs), FALSE), u))
            /\ UNCHANGED untold
    /\ UNCHANGED lists

\* m_list, and LIST of one who is listing, which stops it.
Lists(u) ==
    /\ lists < MaxLists /\ lists' = lists + 1
    /\ Alive(u) /\ DBufLength(io[u].recvQ) > 0
    /\ SendBecomes(ExitIfDead(
         IF io[u].bucket > 0 THEN UpdateWrite(Buffered(ListFrom(ReadBy(u), u, 0), u, Notice, FALSE), u)
         ELSE list_next_channels(ListFrom(ReadBy(u), u, 1), u, Notice), u))
    /\ UNCHANGED <<msgs, untold>>

\* dopacket: n messages from server s, to be passed on; more than one make a microburst.
ServerPacket(s, n) ==
    /\ msgs + n <= MaxMsgs /\ msgs' = msgs + n
    /\ IsServerEnd(s) /\ Alive(s)
    /\ IF n = 1
       THEN ToServers(SendWorld, sendto_serv_butone(SendWorld, s, Numbered(msgs), FALSE), s, Numbered(msgs))
       ELSE /\ SendBecomes(ExitIfDead(completa_microburst(
                 FoldLeft(LAMBDA w, m : sendto_serv_butone(w, s, m, TRUE), SendWorld,
                          [i \in 1..n |-> Numbered(msgs + i - 1)])), s))
            /\ UNCHANGED untold
    /\ UNCHANGED lists

\* event_client_write_callback; sent: after send_queued.
Notified(sent, c) ==
    ExitIfDead(IF IsServerEnd(c) /\ sent.io[c].dead THEN sendto_ops(sent, FALSE) ELSE sent, c)
Unblocked(c) == [SendWorld EXCEPT !.io[c].blocked = FALSE]
WriteEvent(c) ==
    /\ io[c].open /\ io[c].armed /\ (io[c].sock > 0 \/ io[c].err)
    /\ SendBecomes(
         IF io[c].dead THEN Exited(SendWorld, c)
         ELSE Notified(send_queued(IF io[c].bucket > 0 /\ DBufLength(io[c].sendQ) < ListLow
                                   THEN list_next_channels(Unblocked(c), c, Notice)
                                   ELSE Unblocked(c), c), c))
    /\ UNCHANGED <<msgs, lists, untold>>

\* The read event or check_ping of a connection that is marked dead.
DeadSocket(c) ==
    /\ io[c].open /\ io[c].dead
    /\ SendBecomes(Exited(SendWorld, c))
    /\ UNCHANGED <<msgs, lists, untold>>

\* The peer reads; the connection breaks (one at a time).
PeerReads(c) ==
    /\ io[c].open /\ ~io[c].err /\ io[c].sock < SockUnits
    /\ io' = [io EXCEPT ![c].sock = SockUnits]
    /\ UNCHANGED <<msgs, lists, owed, garbled, scrapped, untold>>
PeerBreaks(c) ==
    /\ io[c].open /\ \A d \in Ends : ~io[d].err
    /\ io' = [io EXCEPT ![c].err = TRUE]
    /\ UNCHANGED <<msgs, lists, owed, garbled, scrapped, untold>>

SendNext ==
    \/ \E u \in Ends \ ToSet(Down) :
         ReadUser(u) \/ Lists(u) \/ Says(u, "servers") \/ \E to \in Ends \ ToSet(Down) : Says(u, to)
    \/ \E s \in ToSet(Down), n \in 1..2 : ServerPacket(s, n)
    \/ \E c \in Ends : WriteEvent(c) \/ DeadSocket(c) \/ PeerReads(c) \/ PeerBreaks(c)

SendSpec == SendInit /\ [][SendNext]_sendVars

-----------------------------------------------------------------------------
SendTypeOK ==
    /\ \A c \in Ends :
         /\ io[c].sock \in 0..SockUnits /\ io[c].bucket \in 0..ListBuckets
         /\ \A q \in {"sendQ", "recvQ"} : io[c][q].off \in 0..(BufUnits - 1)
    /\ UsedCount(SendWorld) <= PoolBufs
    /\ msgs \in 0..MaxMsgs /\ lists \in 0..MaxLists
    /\ scrapped \subseteq Zipped /\ garbled \subseteq Ends /\ untold \subseteq ToSet(Down)

(* No output is forgotten: a live connection that has something to send,   *)
(* or a LIST to go on with, waits for the write event; and what its peer   *)
(* received and what is queued is, in order, all that was sent to it -     *)
(* but for a compressed link whose queue completa_microburst scrapped      *)
(* when the pool was empty.                                                *)
OutputKept ==
    /\ SendTypeOK
    /\ \A c \in Ends : Alive(c) =>
        /\ DBufLength(io[c].sendQ) > 0 \/ io[c].bucket > 0 => io[c].armed
        /\ io[c].held = <<>>
        /\ c \notin scrapped => c \notin garbled /\ io[c].sendQ.data = owed[c]

(* What is sent to all servers reaches the queue of every link that lives  *)
(* ("Send a message to all connected servers except the client 'one'",     *)
(* send.c): the loop over the links uses the global sendbuf.               *)
ServersTold == untold = {}

=============================================================================
