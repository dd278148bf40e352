-------------------------------- MODULE Conn --------------------------------
(***************************************************************************)
(* The connections of one server: accept and connect, the look-ups of host *)
(* name (res.c) and ident (s_auth.c) that race the first lines and each    *)
(* other, registration, the timers, and close_connection, which gives the  *)
(* descriptor of the one that leaves to the one with the highest.          *)
(*                                                                         *)
(* Time is counted in ping intervals; CONNECTTIMEOUT is one.  Lines are    *)
(* counted, not read: the first of a connection stands for NICK and USER,  *)
(* the second for the PONG with the cookie, after which register_user      *)
(* decides.  A server's line is SERVER, and may come in two halves.        *)
(***************************************************************************)
EXTENDS Integers, Sequences, FiniteSets, SequencesExt, FiniteSetsExt

CONSTANTS
    Caller, Link,   \* connections that come in, links we open
    Addr, Home,     \* addresses; Home[c]: where c calls from
    MaxFd,          \* MAXCONNECTIONS
    MaxClients,     \* MAXCLIENTS: accept and connect_inet refuse a descriptor from here on
    MaxCached,      \* MAXCACHED: host names kept
    Ident,          \* ~desactivar_ident
    MaxLines, MaxOpen, MaxOps   \* bounds: lines waiting, connections opened; operators' commands and
                                \* links that fail

Client == Caller \cup Link
Fd == 1..MaxFd
None == "none"
NoEvent == <<None, None>>

ASSUME ConnConstants ==
    /\ Caller \cap Link = {} /\ Home \in [Client -> Addr]
    /\ IsFiniteSet(Client) /\ None \notin Client \cup Addr
    /\ MaxFd \in Nat /\ MaxClients \in 1..MaxFd /\ MaxCached \in Nat \ {0}
    /\ Ident \in BOOLEAN /\ MaxLines \in Nat \ {0} /\ MaxOpen \in Nat /\ MaxOps \in Nat

VARIABLES
    cl,     \* cl[c]: the local part of struct Client
    loc,    \* loc_clients[]
    high,   \* highest_fd
    ev,     \* libevent's table: whose read event is registered for a descriptor
    req,    \* the list of requests of res.c
    cache,  \* cachetop: host entries, the last used first
    nr,     \* nrof.unknowns, local_clients, local_servers
    gline,  \* addresses with a G-line
    down,   \* an assertion has ended the process
    opened, ops     \* counts of what the bounds limit

vars == <<cl, loc, high, ev, req, cache, nr, gline, down, opened, ops>>

Unknown == {"unknown", "connecting", "handshake"}
Registered == {"user", "server"}
Record ==
    [st : Unknown \cup Registered \cup {None}, fd : 0..MaxFd, authfd : 0..MaxFd,
     dns : BOOLEAN, auth : {"no", "write", "read"}, hostp : Addr \cup {None},
     in : 0..MaxLines, step : 0..1, half : BOOLEAN, torn : BOOLEAN, pinged : BOOLEAN,
     age : 0..2, life : 0..1, check : 0..1, timer : BOOLEAN, dead : BOOLEAN,
     waited : 0..3]

\* make_client.
Gone == [st |-> None, fd |-> 0, authfd |-> 0, dns |-> FALSE, auth |-> "no", hostp |-> None,
         in |-> 0, step |-> 0, half |-> FALSE, torn |-> FALSE, pinged |-> FALSE,
         age |-> 0, life |-> 0, check |-> 1, timer |-> FALSE, dead |-> FALSE,
         waited |-> 0]

Init ==
    /\ cl = [c \in Client |-> Gone]
    /\ loc = [f \in Fd |-> None] /\ high = 0 /\ ev = [f \in Fd |-> NoEvent]
    /\ req = {} /\ cache = <<>>
    /\ nr = [unknowns |-> 0, users |-> 0, servers |-> 0]
    /\ gline = {} /\ down = FALSE /\ opened = 0 /\ ops = 0

Here(c) == cl[c].st # None /\ ~down
Opens == opened < MaxOpen /\ opened' = opened + 1 /\ UNCHANGED ops
Happens == ops < MaxOps /\ ops' = ops + 1 /\ UNCHANGED opened
Least(S) == CHOOSE i \in S : \A j \in S : i <= j

\* The descriptor the kernel hands out.
Open(k) == {k[c].fd : c \in Client} \cup {k[c].authfd : c \in Client}
Lowest(k) == Least((1..(MaxFd + 1)) \ Open(k))

-----------------------------------------------------------------------------
(* Leaving.  A state of the tables is a record, so that loops over the     *)
(* descriptors can close several connections one after the other.          *)

Now == [cl |-> cl, loc |-> loc, high |-> high, ev |-> ev, req |-> req, nr |-> nr]
Becomes(s) ==
    /\ cl' = s.cl /\ loc' = s.loc /\ high' = s.high /\ ev' = s.ev /\ req' = s.req /\ nr' = s.nr

\* del_queries.
del_queries(r, c) == {q \in r : q.c # c}

\* exit_one_client counts it off by what it was.
Uncounted(n, st) ==
    CASE st = "user" -> [n EXCEPT !.users = @ - 1]
      [] st = "server" -> [n EXCEPT !.servers = @ - 1]
      [] OTHER -> [n EXCEPT !.unknowns = @ - 1]

\* register_user and m_server_estab count it among the registered.
Promoted(n, st) ==
    IF st = "user" THEN [n EXCEPT !.unknowns = @ - 1, !.users = @ + 1]
    ELSE [n EXCEPT !.unknowns = @ - 1, !.servers = @ + 1]

Highest(l, h) == Max({0} \cup {f \in 1..h : l[f] # None})

close_connection_KeepsEvent(s, c) ==                                 \* mutant
    LET f == s.cl[c].fd
        loc1 == [s.loc EXCEPT ![f] = None]
        h == Highest(loc1, s.high)
        m == IF h > f THEN loc1[h] ELSE None
        ev1 == [g \in Fd |-> IF s.ev[g][1] = c THEN NoEvent ELSE s.ev[g]]
        kept == [s EXCEPT !.cl[c] = Gone, !.loc = loc1, !.high = h, !.ev = ev1,
                          !.req = del_queries(@, c)]
        loc2 == [loc1 EXCEPT ![f] = m, ![h] = None]
    IN  IF m = None THEN kept
        ELSE [kept EXCEPT !.cl[m].fd = f, !.loc = loc2, !.high = Highest(loc2, h)]

\* close_connection and free_client: requests, events and the descriptors go,
\* highest_fd comes down, and the connection at the top moves into the hole.
close_connection(s, c) ==
    LET f == s.cl[c].fd
        loc1 == [s.loc EXCEPT ![f] = None]
        h == Highest(loc1, s.high)
        m == IF h > f THEN loc1[h] ELSE None
        ev1 == [g \in Fd |-> IF s.ev[g][1] = c THEN NoEvent ELSE s.ev[g]]
        kept == [s EXCEPT !.cl[c] = Gone, !.loc = loc1, !.high = h, !.ev = ev1,
                          !.req = del_queries(@, c)]
        loc2 == [loc1 EXCEPT ![f] = m, ![h] = None]
    IN  IF m = None THEN kept
        ELSE [kept EXCEPT !.cl[m].fd = f, !.loc = loc2, !.high = Highest(loc2, h),
                          !.ev = [ev1 EXCEPT ![h] = NoEvent, ![f] = <<m, "conn">>]]

exit_client_Uncounted(s, c) == close_connection(s, c)                \* mutant

\* exit_client of a connection of ours.
exit_client(s, c) ==
    [close_connection(s, c) EXCEPT !.nr = Uncounted(s.nr, s.cl[c].st)]

\* The loops over loc_clients that exit whom they meet.
Sweep(s, fds, Goes(_, _)) ==
    LET Turn(t, f) == IF t.loc[f] # None /\ Goes(t, t.loc[f]) THEN exit_client(t, t.loc[f]) ELSE t
        Pass[n \in 0..Len(fds)] == IF n = 0 THEN s ELSE Turn(Pass[n - 1], fds[n])
    IN  Pass[Len(fds)]
SweepUnknown(s, fds) == Sweep(s, fds, LAMBDA t, c : t.cl[c].st \in Unknown)
\* Only who has given its names is looked at.  The sender, whom add_gline spares
\* (opercmds.c:2281), is a server or a user of another one and not among them.
SweepMask(s, fds, mask) ==
    Sweep(s, fds, LAMBDA t, c : (t.cl[c].st = "user" \/ t.cl[c].step = 1) /\ Home[c] \in mask)
Up(h) == [i \in 1..h |-> i]
Down(h) == [i \in 1..h |-> h + 1 - i]

-----------------------------------------------------------------------------
(* Host names.                                                             *)

Cached(a) == a \in ToSet(cache)
\* update_list: an entry that is found goes to the top.
Touched(q, a) == <<a>> \o RemoveFirst(q, a)

Freed_Keeps(k, a) == k                                               \* mutant
\* rem_cache: who points to the entry, among the descriptors up to highest_fd.
Freed(k, a) ==
    [c \in Client |-> IF k[c].hostp = a /\ k[c].fd \in 1..high THEN [k[c] EXCEPT !.hostp = None]
                      ELSE k[c]]

\* add_to_cache: one too many, and the one used longest ago goes.
Evicted(q) == IF Len(q) > MaxCached THEN {Last(q)} ELSE {}
Trimmed(q) == IF Len(q) > MaxCached THEN Front(q) ELSE q

\* SetAccess: the timer reads what has been waiting.
SetAccess(x) == [x EXCEPT !.timer = TRUE]
NoDns(x) == LET y == [x EXCEPT !.dns = FALSE]
            IN  IF x.auth = "no" THEN SetAccess(y) ELSE y
NoAuth(x) == LET y == [x EXCEPT !.auth = "no", !.authfd = 0]
             IN  IF ~x.dns THEN SetAccess(y) ELSE y

\* do_dns_async with the entry hp for a client.
Answered(c, hp) ==
    /\ req' = del_queries(req, c)
    /\ cl' = [cl EXCEPT ![c] = [NoDns(cl[c]) EXCEPT !.hostp = hp]]

Still == UNCHANGED <<loc, high, ev, nr, gline, down, opened, ops>>

\* get_res with NXDOMAIN or SERVFAIL.  What it takes no notice of (another
\* sender, a truncated answer) and what makes it ask again changes nothing here.
DnsUnknown(q) ==
    /\ ~down /\ q \in req
    /\ Answered(q.c, None)
    /\ UNCHANGED cache /\ Still

\* The name of an address, perhaps another's: its own address is asked for next, or known.
DnsName(q, a) ==
    /\ ~down /\ q \in req /\ q.type = "ptr"
    /\ IF Cached(a)
       THEN Answered(q.c, a) /\ cache' = Touched(cache, a)
       ELSE /\ req' = (req \ {q}) \cup {[q EXCEPT !.type = "a"]}
            /\ UNCHANGED <<cl, cache>>
    /\ Still

\* The addresses of a name, which are the caller's (make_cache).
DnsAddress(q) ==
    /\ ~down /\ q \in req /\ q.type = "a"
    /\ LET a == Home[q.c]
           new == Touched(cache, a)
           out == Evicted(new)
           kept == IF out = {} THEN cl ELSE Freed(cl, CHOOSE x \in out : TRUE)
       IN  /\ cache' = Trimmed(new)
           /\ cl' = [kept EXCEPT ![q.c] = [NoDns(kept[q.c]) EXCEPT !.hostp = a]]
           /\ req' = del_queries(req, q.c)
    /\ Still

\* event_timeout_query_list_callback, after the last retry.
DnsTimeout(q) ==
    /\ ~down /\ q \in req
    /\ req' = req \ {q} /\ cl' = [cl EXCEPT ![q.c] = NoDns(@)]
    /\ UNCHANGED cache /\ Still

\* event_expire_cache_callback.
Expire(a) ==
    /\ ~down /\ Cached(a)
    /\ cache' = RemoveFirst(cache, a)
    /\ cl' = Freed(cl, a)
    /\ UNCHANGED req /\ Still

-----------------------------------------------------------------------------
(* Ident.                                                                  *)

\* event_add on a descriptor for which an event is still registered: epoll
\* is asked to modify what it does not know, and the assertion fails.
Clean(e, f) == e[f] = NoEvent

\* start_auth for a connection in tables s, and its outcomes: no socket, no
\* descriptor to spare, refused at once, under way.
start_auth(s, c) ==
    LET x == s.cl[c]
        f == Lowest(s.cl)
        none == [s EXCEPT !.cl[c] = IF x.dns THEN x ELSE SetAccess(x)]
    IN  IF ~Ident THEN {none}
        ELSE {none} \cup
             (IF f >= MaxFd - 1 THEN {s}
              ELSE {[s EXCEPT !.cl[c].auth = "write", !.cl[c].authfd = f,
                              !.ev = [@ EXCEPT ![f] = <<c, "auth">>],
                              !.high = IF f > @ THEN f ELSE @]})

Starts(s, c) ==
    \E u \in start_auth(s, c) :
        LET f == u.cl[c].authfd
        IN  IF f # 0 /\ ~Clean(s.ev, f)
            THEN down' = TRUE /\ UNCHANGED <<cl, loc, high, ev, req, nr>>
            ELSE Becomes(u) /\ UNCHANGED down

\* send_authports.
SendAuthPorts(c, ok) ==
    /\ Here(c) /\ cl[c].auth = "write"
    /\ IF ok THEN cl' = [cl EXCEPT ![c].auth = "read"] /\ UNCHANGED <<ev, high>>
       ELSE /\ cl' = [cl EXCEPT ![c] = NoAuth(@)]
            /\ ev' = [ev EXCEPT ![cl[c].authfd] = NoEvent]
            /\ high' = IF high = cl[c].authfd THEN Highest(loc, high) ELSE high
    /\ UNCHANGED <<loc, req, cache, nr, gline, down, opened, ops>>

\* read_authports with the whole of the answer.  It is collected in the buffer
\* of the connection, which is empty afterwards.
ReadAuthPorts(c) ==
    /\ Here(c) /\ cl[c].auth = "read"
    /\ cl' = [cl EXCEPT ![c] = [NoAuth(@) EXCEPT !.half = FALSE, !.torn = cl[c].torn \/ cl[c].half]]
    /\ ev' = [ev EXCEPT ![cl[c].authfd] = NoEvent]
    /\ high' = IF high = cl[c].authfd THEN Highest(loc, high) ELSE high
    /\ UNCHANGED <<loc, req, cache, nr, gline, down, opened, ops>>

-----------------------------------------------------------------------------
(* Coming in.                                                              *)

\* event_connection_callback and add_connection.
Accept(c, throttled) ==
    LET f == Lowest(cl)
        hit == Cached(Home[c])
        x == [Gone EXCEPT !.st = "unknown", !.fd = f, !.dns = ~hit /\ ~throttled,
                          !.hostp = IF hit /\ ~throttled THEN Home[c] ELSE None]
        s == [Now EXCEPT !.cl[c] = x, !.loc = [@ EXCEPT ![f] = c],
                         !.high = IF f > @ THEN f ELSE @,
                         !.ev = [@ EXCEPT ![f] = <<c, "conn">>],
                         !.nr.unknowns = @ + 1]
    IN  /\ c \in Caller /\ cl[c].st = None /\ ~down /\ Opens
        /\ f < MaxClients
        /\ IF ~Clean(ev, f) THEN down' = TRUE /\ UNCHANGED <<cl, loc, high, ev, req, cache, nr>>
           ELSE IF throttled THEN Becomes(exit_client(s, c)) /\ UNCHANGED <<cache, down>>
           ELSE LET t == [s EXCEPT !.req = IF hit THEN @
                                           ELSE @ \cup {[c |-> c, type |-> "ptr"]}]
                IN  /\ cache' = IF hit THEN Touched(cache, Home[c]) ELSE cache
                    /\ Starts(t, c)
        /\ UNCHANGED gline

\* connect_server to a configured address.
Connect(c) ==
    LET f == Lowest(cl)
    IN  /\ c \in Link /\ cl[c].st = None /\ ~down /\ Opens
        /\ f < MaxClients
        /\ IF ~Clean(ev, f) THEN down' = TRUE /\ UNCHANGED <<cl, loc, high, ev, nr>>
           ELSE /\ cl' = [cl EXCEPT ![c] = [Gone EXCEPT !.st = "connecting", !.fd = f]]
                /\ loc' = [loc EXCEPT ![f] = c] /\ ev' = [ev EXCEPT ![f] = <<c, "conn">>]
                /\ high' = (IF f > high THEN f ELSE high)
                /\ nr' = [nr EXCEPT !.unknowns = @ + 1] /\ UNCHANGED down
        /\ UNCHANGED <<req, cache, gline>>

\* completed_connection, when the socket can be written.
Connected(c) ==
    LET x == [cl[c] EXCEPT !.st = "handshake", !.age = 0, !.pinged = TRUE]
        s == [Now EXCEPT !.cl[c] = x]
    IN  /\ Here(c) /\ cl[c].st = "connecting" /\ ~cl[c].dead
        /\ Starts(s, c)
        /\ UNCHANGED <<cache, gline, opened, ops>>

-----------------------------------------------------------------------------
(* Reading.                                                                *)

\* register_user: find_kill and the other checks.
Registers(s, c, admitted) ==
    IF admitted /\ Home[c] \notin gline
    THEN [s EXCEPT !.cl[c] = [s.cl[c] EXCEPT !.st = "user", !.step = 0],
                   !.nr = Promoted(@, "user")]
    ELSE exit_client(s, c)

\* The loop of read_packet over complete lines.
Parsed(s, c, admitted) ==
    LET x == s.cl[c]
        t == [s EXCEPT !.cl[c].in = 0, !.cl[c].timer = FALSE]
    IN  IF x.st # "unknown" \/ x.in = 0 THEN t
        ELSE IF x.step + x.in >= 2 THEN Registers(t, c, admitted)
        ELSE [t EXCEPT !.cl[c].step = 1]

\* read_packet: lines wait while a look-up is under way.
read_packet(s, c, admitted) ==
    IF s.cl[c].dns \/ s.cl[c].auth # "no" THEN s ELSE Parsed(s, c, admitted)

\* What is read puts off the timer, of unregistered connections too.
Heard(x) == [x EXCEPT !.age = 0, !.check = 1, !.pinged = FALSE, !.waited = 0]

\* event_client_read_callback of a user or unknown connection: a line, or EOF.
Read(c, eof, admitted) ==
    LET x == [Heard(cl[c]) EXCEPT !.in = @ + 1]
        s == [Now EXCEPT !.cl[c] = x]
    IN  /\ Here(c) /\ cl[c].st \in {"unknown", "user"}
        /\ IF cl[c].dead \/ eof THEN ~admitted /\ Becomes(exit_client(Now, c))
           ELSE cl[c].in < MaxLines /\ Becomes(read_packet(s, c, admitted))
        /\ UNCHANGED <<cache, gline, down, opened, ops>>

\* The timer of SetAccess, and of input left over.
Timer(c, admitted) ==
    /\ Here(c) /\ cl[c].timer
    /\ LET s == [Now EXCEPT !.cl[c].timer = FALSE]
       IN  IF cl[c].dead THEN ~admitted /\ Becomes(exit_client(s, c))
           ELSE Becomes(read_packet(s, c, admitted))
    /\ UNCHANGED <<cache, gline, down, opened, ops>>

\* dopacket for a server, which waits for no look-up: part of a line, the
\* rest of it, a whole one, EOF.  m_server accepts the other side or not.
ReadServer(c, what, admitted) ==
    LET x == Heard(cl[c])
        s == [Now EXCEPT !.cl[c] = [x EXCEPT !.half = what = "half"]]
    IN  /\ Here(c) /\ cl[c].st \in {"handshake", "server"}
        /\ what = "rest" => cl[c].half \/ cl[c].torn
        /\ what = "whole" => ~cl[c].half /\ ~cl[c].torn
        /\ what = "half" => ~cl[c].half /\ ~cl[c].torn
        /\ IF cl[c].dead \/ what = "eof" THEN ~admitted /\ Becomes(exit_client(Now, c))
           ELSE IF what = "half" \/ cl[c].st = "server"
                THEN ~admitted /\ Becomes([s EXCEPT !.cl[c].torn = FALSE])
           ELSE IF admitted /\ ~cl[c].torn
                THEN Becomes([s EXCEPT !.cl[c] = [s.cl[c] EXCEPT !.st = "server"],
                                       !.nr = Promoted(@, "server")])
           ELSE Becomes(exit_client(s, c))
        /\ UNCHANGED <<cache, gline, down, opened, ops>>

-----------------------------------------------------------------------------
(* Time, dead links, operators.                                            *)

\* dead_link: a write has failed or the queue is full.
DeadLink(c) ==
    /\ Here(c) /\ ~cl[c].dead /\ Happens
    /\ cl' = [cl EXCEPT ![c].dead = TRUE, ![c].in = 0, ![c].waited = 0]
    /\ UNCHANGED <<loc, high, ev, req, cache, nr, gline, down>>

\* For whom the time since it was last heard counts (lasttime); for the others
\* it is the time since it came (firsttime).
Pingable(x) == x.st \in Registered \cup {"handshake"}

\* Who is to go if nothing happens (waited: for how many intervals).
Waiting(x) == x.st \in {"unknown", "connecting"} \/ x.dead

\* A ping interval passes; timers that are due come first.
Tick ==
    /\ ~down /\ \E c \in Client : cl[c].st # None
    /\ \A c \in Client : cl[c].st # None => cl[c].check > 0 /\ ~cl[c].timer
    /\ cl' = [c \in Client |-> IF cl[c].st = None THEN cl[c]
                ELSE [cl[c] EXCEPT !.age = IF Pingable(cl[c]) /\ @ < 2 THEN @ + 1 ELSE @,
                                   !.life = IF Pingable(cl[c]) THEN 0 ELSE 1, !.check = 0,
                                   !.waited = IF Waiting(cl[c]) THEN @ + 1 ELSE 0]]
    /\ UNCHANGED <<loc, high, ev, req, cache, nr, gline, down, opened, ops>>

check_ping_NoDns(s, c) ==                                            \* mutant
    LET x == s.cl[c]
        t == [s EXCEPT !.cl[c].check = 1]
    IN  IF x.dead THEN exit_client(s, c)
        ELSE IF x.dns \/ x.auth # "no" THEN t
        ELSE IF x.st \in Registered /\ x.age <= 1 THEN t
        ELSE IF (x.age >= 2 /\ x.pinged) \/ (x.st \in {"unknown", "connecting"} /\ x.life = 1)
             THEN exit_client(s, c)
        ELSE IF x.st \in Registered /\ ~x.pinged
             THEN [t EXCEPT !.cl[c].pinged = TRUE, !.cl[c].age = 1]
        ELSE t

\* event_checkping_callback.  A look-up that has taken too long is given up,
\* and the connection gets as much time again; the descriptor of the ident
\* query is closed, its events stay.
check_ping(s, c) ==
    LET x == s.cl[c]
        t == [s EXCEPT !.cl[c].check = 1]
    IN  IF x.dead THEN exit_client(s, c)
        ELSE IF x.st \in Registered /\ x.age <= 1 THEN t
        ELSE IF (x.age >= 2 /\ x.pinged) \/ (x.st \in {"unknown", "connecting"} /\ x.life = 1)
             THEN IF x.st \in Unknown /\ (x.dns \/ x.auth # "no")
                  THEN [t EXCEPT !.req = del_queries(@, c),
                                 !.cl[c] = SetAccess([x EXCEPT
                                     !.authfd = 0, !.dns = FALSE, !.auth = "no",
                                     !.half = FALSE, !.torn = x.torn \/ (x.half /\ x.authfd # 0),
                                     !.age = 0, !.life = 0, !.check = 1])]
                  ELSE exit_client(s, c)
        ELSE IF x.st \in Registered /\ ~x.pinged
             THEN [t EXCEPT !.cl[c].pinged = TRUE, !.cl[c].age = 1]
        ELSE t

CheckPing(c) ==
    /\ Here(c) /\ cl[c].check = 0
    /\ Becomes(check_ping(Now, c))
    /\ UNCHANGED <<cache, gline, down, opened, ops>>

\* m_close: unknown connections, from the top.
Close ==
    /\ ~down /\ Happens
    /\ Becomes(SweepUnknown(Now, Down(high)))
    /\ UNCHANGED <<cache, gline, down>>

GlineFds_Up(h) == Up(h)                                              \* mutant
GlineFds(h) == Down(h)

\* add_gline of a mask, from the top.
Gline(mask) ==
    /\ ~down /\ Happens /\ gline' = gline \cup mask
    /\ Becomes(SweepMask(Now, GlineFds(high), mask))
    /\ UNCHANGED <<cache, down>>

\* rehash: no connection keeps a host entry, the cache is emptied, and users
\* with a K-line for the mask go, from the bottom.
Rehash(mask) ==
    /\ ~down /\ Happens
    /\ LET k == [c \in Client |-> IF cl[c].fd \in 1..high THEN [cl[c] EXCEPT !.hostp = None]
                                  ELSE cl[c]]
       IN  Becomes(SweepMask([Now EXCEPT !.cl = k], Up(high), mask))
    /\ cache' = <<>>
    /\ UNCHANGED <<gline, down>>

-----------------------------------------------------------------------------
Next ==
    \/ \E q \in req : \/ DnsUnknown(q) \/ DnsTimeout(q)
                      \/ DnsAddress(q) \/ \E a \in Addr : DnsName(q, a)
    \/ \E a \in Addr : Expire(a)
    \/ \E mask \in (SUBSET Addr) \ {{}} : Gline(mask) \/ Rehash(mask)
    \/ Close \/ Tick
    \/ \E c \in Client :
          \/ Connect(c) \/ Connected(c) \/ ReadAuthPorts(c) \/ DeadLink(c) \/ CheckPing(c)
          \/ \E p \in BOOLEAN : \/ Accept(c, p) \/ SendAuthPorts(c, p) \/ Timer(c, p)
                                \/ \E e \in BOOLEAN : Read(c, e, p)
          \/ \E what \in {"half", "rest", "whole", "eof"}, p \in BOOLEAN : ReadServer(c, what, p)

Spec == Init /\ [][Next]_vars

-----------------------------------------------------------------------------
(* Properties.                                                             *)

\* The variables have their types: the local part of struct Client, the
\* descriptor tables, the requests and the cache of host names.
TypeOK ==
    /\ cl \in [Client -> Record] /\ loc \in [Fd -> Client \cup {None}]
    /\ high \in 0..MaxFd /\ ev \in [Fd -> {NoEvent} \cup (Client \X {"conn", "auth"})]
    /\ req \subseteq [c : Client, type : {"ptr", "a"}]
    /\ cache \in Seq(Addr) /\ nr \in [unknowns : Nat, users : Nat, servers : Nat]
    /\ gline \subseteq Addr /\ down \in BOOLEAN

\* The tables of descriptors agree whatever order connections come, move and
\* leave in: loc_clients and fd are inverse, highest_fd bounds them, the
\* event registered for a descriptor is its owner's, no two connections and
\* ident queries share one.
FdTable ==
    /\ TypeOK
    /\ \A c \in Client : cl[c].st # None =>
         /\ cl[c].fd \in 1..high /\ loc[cl[c].fd] = c /\ ev[cl[c].fd] = <<c, "conn">>
         /\ cl[c].auth # "no" => cl[c].authfd # 0
         /\ cl[c].authfd # 0 => loc[cl[c].authfd] = None /\ ev[cl[c].authfd] = <<c, "auth">>
    /\ \A f \in Fd : loc[f] # None => cl[loc[f]].fd = f

\* What a late answer would touch is there: a request is of a connection that
\* waits for it, and a host entry that a connection points to has not been
\* freed (do_dns_async, rem_cache, del_queries).
NothingFreed ==
    /\ \A q \in req : cl[q.c].st # None /\ cl[q.c].dns
    /\ \A c \in Client : cl[c].hostp # None => Cached(cl[c].hostp)

\* The counters are what their declarations say (querycmds.h).
NrOf ==
    LET N(S) == Cardinality({c \in Client : cl[c].st \in S})
    IN  nr = [unknowns |-> N(Unknown), users |-> N({"user"}), servers |-> N({"server"})]

\* Nobody under a G-line is on line: the loop of add_gline misses nobody while
\* close_connection moves connections about, and registration looks again.
NoneGlined == \A c \in Client : cl[c].st = "user" => Home[c] \notin gline

\* No silent connection stays half open, whatever answers are lost and whatever
\* look-up gives it more time, and a dead link is let go: three intervals never
\* pass (event_checkping_callback, event_timeout_query_list_callback).  Left out
\* (Waiting): a link in its handshake, which nothing times out.
Settles == \A c \in Client : Waiting(cl[c]) => cl[c].waited < 3
=============================================================================
