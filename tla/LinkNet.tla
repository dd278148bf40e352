------------------------------ MODULE LinkNet ------------------------------
(***************************************************************************)
(* How the servers link into a tree and keep it one: connect_server and    *)
(* the automatic connections, the exchange of SERVER between the two ends  *)
(* (m_server, m_server_estab), the introduction of servers behind a link,  *)
(* the breaking of loops when two links join the same parts at once, SQUIT *)
(* (m_squit, exit_client) and the loss of a connection.                    *)
(*                                                                         *)
(* A server's number is its name, its numeric and its place in strcmp.  A  *)
(* connection is a pair of queues; closing an end puts an end-of-file      *)
(* behind what was sent.  Connection rules, passwords and the refusals for *)
(* malformed or juped names end like a missing C line.                     *)
(***************************************************************************)
EXTENDS Integers, Sequences, FiniteSets, SequencesExt, FiniteSetsExt

CONSTANTS
    Servers,        \* a set of positive numbers
    CLines, Ports,  \* CLines[n]: whom n has a C line for; Ports[n]: whom n calls (the C line has a port)
    HLines, LLines, \* <<n, m>>: n's H line (L line) lets (forbids) m to introduce servers
    LeafBuilds,     \* servers compiled without HUB
    StartOf,        \* StartOf[n]: when n was started
    OperNumeric,    \* what NumServ(sptr) of an operator reads as: a server's numeric or 0
    Linked,         \* the links there are at first: a sequence of pairs, no server in two
    SameSecond,     \* two links may be given the same timestamp
    MaxTries, MaxCuts   \* bounds: connections opened; cuts, and operators' SQUITs and CONNECTs

ASSUME LinkConstants ==
    /\ Servers \subseteq Nat \ {0} /\ IsFiniteSet(Servers)
    /\ CLines \in [Servers -> SUBSET Servers] /\ Ports \in [Servers -> SUBSET Servers]
    /\ HLines \subseteq Servers \X Servers /\ LLines \subseteq Servers \X Servers
    /\ LeafBuilds \subseteq Servers /\ StartOf \in [Servers -> Nat]
    /\ OperNumeric \subseteq Servers \cup {0} /\ SameSecond \in BOOLEAN
    /\ Linked \in Seq(Servers \X Servers) /\ Len(Linked) <= MaxTries
    /\ MaxTries \in Nat \ {0} /\ MaxCuts \in Nat

Try == 1..MaxTries
New == 0            \* the NULL of m_server: the link now being offered
NoServer == [via |-> 0, up |-> 0, ts |-> 0, path |-> <<>>]

VARIABLES
    ends,       \* ends[k] = <<who called, who was called>>, <<0, 0>> when unused
    status,     \* status[n][k]: n's end of k
    tried,      \* tried[n][k]: serv->timestamp of a handshake, 0 before
    ghosted,    \* ghosted[n][k]: serv->ghost was set when k was made
    srv,        \* srv[n][m]: what n knows of server m (path is the chain of serv->up)
    inq,        \* inq[n][k]: what is on its way to n's end of k
    started,    \* started[n]: me.serv->timestamp
    offset,     \* offset[n]: TSoffset
    clock,      \* now
    stamps,     \* the timestamps links have been given
    cuts        \* count of cuts and operators' SQUITs

linkVars == <<ends, status, tried, ghosted, srv, inq, started, offset, clock, stamps, cuts>>

Peer(n, k) == IF ends[k][1] = n THEN ends[k][2] ELSE ends[k][1]
TStime(n) == clock + offset[n]

Hello(s, t)         == [type |-> "hello", start |-> s, ts |-> t]
Intro(p, m, t)      == [type |-> "server", prefix |-> p, name |-> m, ts |-> t]
Squit(p, m, t)      == [type |-> "squit", prefix |-> p, name |-> m, ts |-> t]
Eof                 == [type |-> "eof"]

-----------------------------------------------------------------------------
(* What one server does to its own state w and to what it sends.           *)

World(n) == [srv |-> srv[n], status |-> status[n], tried |-> tried[n], ghosted |-> ghosted[n],
             out |-> [k \in Try |-> IF ends[k] = <<0, 0>> THEN <<>> ELSE inq[Peer(n, k)][k]]]

Known(w)   == {m \in Servers : w.srv[m].via # 0}
DownLinks(w) == {k \in Try : w.status[k] = "server"}
Via(w, m)  == w.srv[m].via

\* sendto_one to each connection of K; close_connection lets nothing follow the end-of-file.
SendTo(w, K, msg) ==
    [w EXCEPT !.out = [k \in Try |-> IF k \in K THEN Append(@[k], msg) ELSE @[k]]]

\* close_connection: a connection that is still being made leaves nothing behind.
CloseEnd(w, k) ==
    LET ended == [w EXCEPT !.status[k] = "closed", !.tried[k] = 0, !.ghosted[k] = FALSE]
    IN IF w.status[k] = "connecting" THEN ended ELSE SendTo(ended, {k}, Eof)

\* exit_client of a connection that is no server yet.
DropTry(n, w, k) ==
    CloseEnd(IF w.status[k] = "handshake" THEN SendTo(w, {k}, Squit(n, n, 0)) ELSE w, k)

\* exit_downlinks and exit_one_client: b and all behind it.
Forgotten(w, b) ==
    [w EXCEPT !.srv = [m \in Servers |-> IF Contains(@[m].path, b) THEN NoServer ELSE @[m]]]

\* exit_client of server b, ordered by prefix, which came in by connection from (0: from here).
ExitServer(n, w, b, prefix, from) ==
    LET k      == Via(w, b)
        direct == w.srv[b].up = n
        told   == IF direct /\ k # from THEN SendTo(w, {k}, Squit(prefix, n, 0)) ELSE w
        cut    == IF direct THEN CloseEnd(told, k) ELSE told
        rest   == DownLinks(w) \ ({from} \cup (IF direct THEN {k} ELSE {}))
    IN Forgotten(SendTo(cut, rest, Squit(prefix, b, w.srv[b].ts)), b)
\* The connection that FindClient(m) gives while m is no server: our own attempt.
OwnTry(n, w, m) ==
    {k \in Try : w.status[k] \in {"connecting", "handshake"} /\ Peer(n, k) = m}
\* FindClient(m) with its serv: a server, or our handshake with it.
Entry(n, w, m) ==
    IF m \in Known(w) THEN w.srv[m]
    ELSE LET k == CHOOSE k \in OwnTry(n, w, m) : TRUE
         IN [NoServer EXCEPT !.via = k, !.up = n, !.ts = w.tried[k], !.path = <<m>>]
Found(n, w, m) ==
    IF m \in Known(w) THEN "server"
    ELSE IF OwnTry(n, w, m) = {} THEN "none"
    ELSE w.status[CHOOSE k \in OwnTry(n, w, m) : TRUE]

\* exit_client of what FindClient(m) gives.
ExitFound(n, w, m) ==
    IF m \in Known(w) THEN ExitServer(n, w, m, n, 0) ELSE DropTry(n, w, Entry(n, w, m).via)

(* The second youngest link of the loop that server m, offered with ts by  *)
(* p (New: by m itself), would close; New is the offered link.  T: the     *)
(* timestamps of the links, up: the servers they go up to, loop: the       *)
(* servers on the way, c3: the youngest link.                              *)
LoopStamps(n, w, m, ts) ==
    [x \in Servers \cup {New} |-> IF x = New THEN ts ELSE IF x = m THEN Entry(n, w, m).ts ELSE w.srv[x].ts]
LoopUps(n, w, m, p) ==
    [x \in Servers \cup {New} |-> IF x = New THEN (IF p = New THEN n ELSE p)
                                  ELSE IF x = m THEN Entry(n, w, m).up ELSE w.srv[x].up]
LoopOf(n, w, m, p) == Entry(n, w, m).path \o (IF p = New THEN <<>> ELSE w.srv[p].path)
Younger(T, best, x) == IF T[x] > T[best] THEN x ELSE best
Youngest(T, m, loop) == Younger(T, FoldLeft(LAMBDA best, x : Younger(T, best, x), m, loop), New)
Second(T, m, loop, c3) ==
    LET second == FoldLeft(LAMBDA best, x : IF x = c3 THEN best ELSE Younger(T, best, x),
                           IF c3 = New THEN m ELSE New, loop)
    IN IF c3 = New THEN second ELSE Younger(T, second, New)
LowerName(up, m, x) == Min({IF x = New THEN m ELSE x, up[x]})
TieBroken(T, up, m, c3, c2) ==
    IF T[c2] = T[c3] /\ LowerName(up, m, c3) > LowerName(up, m, c2) THEN c3 ELSE c2
WeakestOf(T, up, m, loop, c3) == TieBroken(T, up, m, c3, Second(T, m, loop, c3))
WeakestIn(T, up, m, loop) == WeakestOf(T, up, m, loop, Youngest(T, m, loop))
SecondYoungest(n, w, m, ts, p) ==
    WeakestIn(LoopStamps(n, w, m, ts), LoopUps(n, w, m, p), m, LoopOf(n, w, m, p))
-----------------------------------------------------------------------------
(* Actions.                                                                *)

LinkInit ==
    LET Of(n) == {k \in 1..Len(Linked) : n \in {Linked[k][1], Linked[k][2]}}
        Other(n, k) == IF Linked[k][1] = n THEN Linked[k][2] ELSE Linked[k][1]
    IN /\ ends = [k \in Try |-> IF k <= Len(Linked) THEN Linked[k] ELSE <<0, 0>>]
       /\ status = [n \in Servers |-> [k \in Try |-> IF k \in Of(n) THEN "server" ELSE "none"]]
       /\ srv = [n \in Servers |-> [m \in Servers |->
                   IF \E k \in Of(n) : Other(n, k) = m
                   THEN [via |-> CHOOSE k \in Of(n) : Other(n, k) = m, up |-> n, ts |-> 1, path |-> <<m>>]
                   ELSE NoServer]]
       /\ tried = [n \in Servers |-> [k \in Try |-> 0]]
       /\ ghosted = [n \in Servers |-> [k \in Try |-> FALSE]]
       /\ inq = [n \in Servers |-> [k \in Try |-> <<>>]]
       /\ started = StartOf
       /\ offset = [n \in Servers |-> 0]
       /\ clock = 2 /\ stamps = {1} /\ cuts = 0

\* n has become w; the first line of connection read, if any, is consumed.
Become(n, w, read) ==
    /\ status' = [status EXCEPT ![n] = w.status]
    /\ tried' = [tried EXCEPT ![n] = w.tried]
    /\ ghosted' = [ghosted EXCEPT ![n] = w.ghosted]
    /\ srv' = [srv EXCEPT ![n] = w.srv]
    /\ inq' = [m \in Servers |-> [k \in Try |->
                 IF m = n THEN IF w.status[k] = "closed" THEN <<>>
                               ELSE IF k = read THEN Tail(inq[n][k]) ELSE inq[n][k]
                 ELSE IF n \in {ends[k][1], ends[k][2]} /\ Peer(n, k) = m /\ status[m][k] # "closed"
                 THEN w.out[k] ELSE inq[m][k]]]

\* A second passes before the next timestamp is made.
Passes == clock' = IF SameSecond THEN clock ELSE clock + 1

connect_server(n, m, k) ==
    /\ k = Cardinality({i \in Try : ends[i] # <<0, 0>>}) + 1
    /\ m # n /\ Found(n, World(n), m) = "none"
    /\ ends' = [ends EXCEPT ![k] = <<n, m>>]
    /\ status' = [status EXCEPT ![n][k] = "connecting"]
    /\ UNCHANGED <<tried, ghosted, srv, inq, started, offset, clock, stamps>>

\* event_try_connections_callback: a C line with a port, whose server is not here.
TryConnections(n, m, k) == m \in Ports[n] /\ connect_server(n, m, k) /\ UNCHANGED cuts

\* m_connect: an operator gives the port.
OperConnect(n, m, k) ==
    /\ cuts < MaxCuts /\ cuts' = cuts + 1
    /\ m \in CLines[n] \ Ports[n] /\ connect_server(n, m, k)

\* The other end accepts (add_connection) and completed_connection sends our SERVER.
Complete(k) ==
    LET n == ends[k][1]
        m == ends[k][2]
        w == World(n)
        others == {IF w.status[i] = "handshake" THEN w.tried[i] ELSE w.srv[Peer(n, i)].ts :
                     i \in {i \in Try : w.status[i] \in {"handshake", "server"}}}
        newts == Max({TStime(n)} \cup {t + 1 : t \in {t \in others : t >= TStime(n)}})
    IN /\ ends[k] # <<0, 0>> /\ status[n][k] = "connecting"
       /\ status' = [status EXCEPT ![n][k] = "handshake", ![m][k] = "unknown"]
       /\ tried' = [tried EXCEPT ![n][k] = newts]
       /\ inq' = [inq EXCEPT ![m][k] = <<Hello(started[n], newts)>>]
       /\ Passes
       /\ UNCHANGED <<ends, ghosted, srv, started, offset, stamps, cuts>>

Head1(n, k, type) == inq[n][k] # <<>> /\ Head(inq[n][k]).type = type

\* check_server and find_conf: the C line of who calls itself m.
CLineFor(n, m) == m \in CLines[n]

\* What ends an incoming SERVER of m itself: no C line, or a loop in which the new link is the one
\* to go (exit_new_server), or a leaf that has its server.
Refused(n, m, k, ts) ==
    LET w == World(n) IN
    \/ ~CLineFor(n, m)
    \/ n \in LeafBuilds /\ DownLinks(w) # {}
    \/ /\ Found(n, w, m) \in {"server", "handshake"} /\ Entry(n, w, m).via # k
       /\ SecondYoungest(n, w, m, ts, New) = New

RefuseHello(n, k) ==
    /\ Head1(n, k, "hello") /\ status[n][k] \in {"unknown", "handshake"}
    /\ Refused(n, Peer(n, k), k, Head(inq[n][k]).ts)
    /\ Become(n, DropTry(n, World(n), k), k)
    /\ UNCHANGED <<ends, started, offset, clock, stamps, cuts>>

\* m_server_estab: our SERVER to who called, the new server to our other links, ours to it.
Established(n, w, k, start, ts) ==
    LET m     == Peer(n, k)
        reply == IF w.status[k] = "unknown" THEN SendTo(w, {k}, Hello(start, ts)) ELSE w
        told  == SendTo(reply, DownLinks(w), Intro(n, m, ts))
        order == SetToSortSeq(Known(w), LAMBDA a, b :
                     \/ Len(w.srv[a].path) < Len(w.srv[b].path)
                     \/ Len(w.srv[a].path) = Len(w.srv[b].path) /\ a < b)
        burst == [i \in DOMAIN order |-> Intro(w.srv[order[i]].up, order[i], w.srv[order[i]].ts)]
    IN [told EXCEPT !.status[k] = "server", !.tried[k] = 0, !.out[k] = @ \o burst,
                    !.srv[m] = [via |-> k, up |-> n, ts |-> ts, path |-> <<m>>]]

\* m_server for a direct link, with what it does to the clock, and m_server_estab.
AcceptHello(n, k) ==
    LET msg   == Head(inq[n][k])
        m     == Peer(n, k)
        w     == World(n)
        found == Found(n, w, m)
        ghost == found \in {"server", "handshake"} /\ Entry(n, w, m).via # k
        gone  == IF ghost THEN ExitFound(n, w, m)
                 ELSE IF found = "connecting" THEN DropTry(n, w, Entry(n, w, m).via) ELSE w
        unknown == status[n][k] = "unknown"
        early == msg.start < started[n]
        late  == msg.start > started[n] /\ unknown
        recv  == TStime(n)
        ts    == IF ~early /\ unknown /\ (late \/ msg.ts # recv) THEN recv ELSE msg.ts
        start == IF early THEN msg.start ELSE started[n]
    IN /\ Head1(n, k, "hello") /\ status[n][k] \in {"unknown", "handshake"}
       /\ ~Refused(n, m, k, msg.ts)
       /\ Become(n, [Established(n, gone, k, start, ts) EXCEPT
                        !.ghosted[k] = ghost], k)
       /\ started' = [started EXCEPT ![n] = start]
       /\ offset' = [offset EXCEPT ![n] =
                       IF early \/ (~late /\ msg.ts # recv /\ ~unknown) THEN @ + msg.ts - recv ELSE @]
       /\ Passes /\ stamps' = stamps \cup {ts} /\ (SameSecond \/ ~unknown \/ ts \notin stamps)
       /\ UNCHANGED <<ends, cuts>>

\* parse_server: a message from prefix is heard only from the link prefix is behind.
Heard(n, k, prefix) == prefix \in Known(World(n)) /\ srv[n][prefix].via = k

\* The L and H lines n has for the server at the other end of k.
LHLine(n, k) == IF <<n, Peer(n, k)>> \in LLines THEN 1
                ELSE IF <<n, Peer(n, k)>> \notin HLines THEN 2 ELSE 0

\* a is on the way to b: without a, b is gone too.
a_kills_b_too(w, a, b) == Contains(w.srv[b].path, a)

\* The end of m_server: the server behind k is remembered and told to the other links.
AddServer(w, k, msg) ==
    [SendTo(w, DownLinks(w) \ {k}, msg) EXCEPT !.srv[msg.name] =
        [via |-> k, up |-> msg.prefix, ts |-> msg.ts, path |-> <<msg.name>> \o w.srv[msg.prefix].path]]

\* Whom the L and H lines blame: junction is the net junction that an H line blames, if any.
Guilty(n, w, k, msg, junction) ==
    CASE LHLine(n, k) = 1 /\ msg.ts > w.srv[Peer(n, k)].ts -> Peer(n, k)
      [] LHLine(n, k) = 2 -> junction
      [] OTHER -> New

SquitBack(n, w, k, msg) == SendTo(w, {k}, Squit(n, msg.name, msg.ts))
\* The lines forbid the server: the guilty one goes, or the server is sent back.
Forbidden(n, w, k, msg, guilty) ==
    IF guilty = New THEN SquitBack(n, w, k, msg) ELSE ExitServer(n, w, guilty, n, 0)

(* A loop, c2 its second youngest link and c2e what we know of it; recent: *)
(* k caused a ghost less than twenty seconds ago.                          *)
LoopBroken(n, w, k, msg, recent, guilty, c2, c2e) ==
    LET m      == msg.name
        victim == IF recent THEN m ELSE c2
        solved == c2e.via = k \/ (guilty # New /\ a_kills_b_too(w, c2, guilty))
        exited == IF victim = m THEN ExitFound(n, w, m) ELSE ExitServer(n, w, victim, n, 0)
        gone   == (IF victim = m THEN Entry(n, w, m).via ELSE c2e.via) = k
    IN CASE LHLine(n, k) # 0 /\ guilty # New /\ Contains(c2e.path, guilty) -> Forbidden(n, w, k, msg, guilty)
         [] OTHER -> IF LHLine(n, k) # 0 /\ ~solved THEN SquitBack(n, w, k, msg)
                     ELSE IF gone THEN exited ELSE AddServer(exited, k, msg)
LoopFound(n, w, k, msg, recent, guilty, c2) ==
    IF c2 = New THEN SquitBack(n, w, k, msg)
    ELSE LoopBroken(n, w, k, msg, recent, guilty, c2, IF c2 = msg.name THEN Entry(n, w, c2) ELSE w.srv[c2])

\* m_server for server msg.name introduced by msg.prefix: what n becomes.
Weighed(n, w, k, msg, recent, guilty, found) ==
    CASE found = "none" -> IF LHLine(n, k) = 0 THEN AddServer(w, k, msg) ELSE Forbidden(n, w, k, msg, guilty)
      [] found = "connecting" ->
           IF LHLine(n, k) = 0 THEN AddServer(DropTry(n, w, Entry(n, w, msg.name).via), k, msg)
           ELSE Forbidden(n, w, k, msg, guilty)
      [] OTHER -> LoopFound(n, w, k, msg, recent, guilty, SecondYoungest(n, w, msg.name, msg.ts, msg.prefix))
Introduced(n, w, k, msg, junction, recent) ==
    Weighed(n, w, k, msg, recent, Guilty(n, w, k, msg, junction), Found(n, w, msg.name))

RecvServer(n, k, junction, recent) ==
    LET msg == Head(inq[n][k]) IN
    /\ Head1(n, k, "server") /\ status[n][k] = "server"
    /\ recent => ghosted[n][k]
    /\ junction = New \/ (LHLine(n, k) = 2 /\ Contains(srv[n][msg.prefix].path, junction))
    /\ Become(n, CASE ~Heard(n, k, msg.prefix) -> World(n)
                   [] msg.name = n -> ExitServer(n, World(n), Peer(n, k), n, 0)
                   [] OTHER -> Introduced(n, World(n), k, msg, junction, recent), k)
    /\ UNCHANGED <<ends, started, offset, clock, stamps, cuts>>

SquitTarget_AnyTime(n, k, msg) ==
    LET t == IF msg.name = n THEN Peer(n, k) ELSE msg.name
    IN IF /\ msg.prefix \notin Known(World(n)) \cup {n} \/ Heard(n, k, msg.prefix)
          /\ t \in Known(World(n))
       THEN t ELSE New

\* What parse_server and m_squit make of a SQUIT: whom it removes, New for nobody.
SquitTarget(n, k, msg) ==
    LET t == IF msg.name = n THEN Peer(n, k) ELSE msg.name
    IN IF /\ msg.prefix \notin Known(World(n)) \cup {n} \/ Heard(n, k, msg.prefix)
          /\ t \in Known(World(n))
          /\ msg.ts \in {0, srv[n][t].ts}
       THEN t ELSE New
RecvSquit(n, k) ==
    LET msg == Head(inq[n][k])
        t   == SquitTarget(n, k, msg)
        src == IF msg.prefix \in Known(World(n)) THEN msg.prefix ELSE Peer(n, k)
    IN /\ Head1(n, k, "squit") /\ status[n][k] = "server"
       /\ Become(n, IF t = New THEN World(n) ELSE ExitServer(n, World(n), t, src, k), k)
       /\ UNCHANGED <<ends, started, offset, clock, stamps, cuts>>

\* read_packet finds the connection closed.
RecvEof(n, k) ==
    /\ Head1(n, k, "eof")
    /\ Become(n, IF status[n][k] = "server" THEN ExitServer(n, World(n), Peer(n, k), n, 0)
                 ELSE DropTry(n, World(n), k), k)
    /\ UNCHANGED <<ends, started, offset, clock, stamps, cuts>>

\* m_squit by an operator of n.
OperSquit(n, t, numeric) ==
    /\ cuts < MaxCuts /\ cuts' = cuts + 1
    /\ t \in Known(World(n))
    /\ Become(n, ExitServer(n, World(n), t, numeric, 0), 0)
    /\ UNCHANGED <<ends, started, offset, clock, stamps>>

\* The connection breaks, or fails to be made, and what was on its way is lost.
Cut(k) ==
    /\ cuts < MaxCuts /\ cuts' = cuts + 1
    /\ \E n \in Servers : status[n][k] \in {"connecting", "unknown", "handshake", "server"}
    /\ inq' = [n \in Servers |-> [i \in Try |->
                 IF i = k /\ status[n][k] \in {"unknown", "handshake", "server"}
                 THEN <<Eof>> ELSE inq[n][i]]]
    /\ status' = [n \in Servers |-> [status[n] EXCEPT ![k] = IF @ = "connecting" THEN "closed" ELSE @]]
    /\ UNCHANGED <<ends, tried, ghosted, srv, started, offset, clock, stamps>>

LinkNext ==
    \/ \E k \in Try : Complete(k) \/ Cut(k)
    \/ \E n \in Servers, m \in Servers, k \in Try : TryConnections(n, m, k) \/ OperConnect(n, m, k)
    \/ \E n \in Servers, k \in Try :
         \/ RefuseHello(n, k) \/ AcceptHello(n, k) \/ RecvSquit(n, k) \/ RecvEof(n, k)
         \/ \E junction \in Servers \cup {New}, recent \in BOOLEAN : RecvServer(n, k, junction, recent)
    \/ \E n \in Servers, t \in Servers, numeric \in OperNumeric : OperSquit(n, t, numeric)

LinkSpec == LinkInit /\ [][LinkNext]_linkVars

-----------------------------------------------------------------------------
LinkTypeOK ==
    /\ ends \in [Try -> (Servers \cup {0}) \X (Servers \cup {0})]
    /\ status \in [Servers -> [Try -> {"none", "connecting", "unknown", "handshake", "server", "closed"}]]
    /\ \A n \in Servers, m \in Servers :
         /\ srv[n][m].via \in Try \cup {0} /\ srv[n][m].up \in Servers \cup {0}
         /\ srv[n][m].ts \in Int /\ srv[n][m].path \in Seq(Servers)
    /\ clock \in Nat /\ offset \in [Servers -> Int] /\ started \in [Servers -> Nat]

LinksQuiet ==
    \A n \in Servers, k \in Try :
        inq[n][k] = <<>> /\ status[n][k] \notin {"connecting", "unknown", "handshake"}

(* When no connection is being made and nothing is on its way, what every  *)
(* server knows (serv->up, serv->timestamp) is exactly the links of its    *)
(* own part of the network, and these are a tree: no loop is left, no      *)
(* server is remembered that cannot be reached, none that can is missing.  *)
QuietTree ==
    /\ LinkTypeOK
    /\ LinksQuiet =>
        \A n \in Servers :
            LET side == Known(World(n)) \cup {n}
                Live == {k \in Try : \E m \in side : status[m][k] = "server"}
            IN /\ {<<{m, srv[n][m].up}, srv[n][m].ts>> : m \in side \ {n}}
                    = {<<{ends[k][1], ends[k][2]}, srv[ends[k][1]][ends[k][2]].ts>> : k \in Live}
               /\ Cardinality(Live) = Cardinality(side) - 1
               /\ \A k \in Live : status[ends[k][1]][k] = "server" /\ status[ends[k][2]][k] = "server"

=============================================================================
