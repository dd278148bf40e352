-------------------------------- MODULE Uping --------------------------------
(****************************************************************************)
(* UPING: an operator, here or on another server, has this server ping a    *)
(* server of its C lines by UDP (s_ping.c).  A ping is a client structure   *)
(* of its own in loc_clients; it waits for the resolver, then sends a       *)
(* packet a second and reads the answers.  It must go when its operator     *)
(* goes, when he asks for another, when the name is unknown and when all    *)
(* answers are in, and each of these meets it in any state.                 *)
(*                                                                          *)
(* Other connections come and go in the same table, and close_connection    *)
(* moves the last entry, which may be a ping, into the hole.  Whoever asks  *)
(* is a user: the handler lets servers ask as well.                         *)
(****************************************************************************)
EXTENDS Integers, FiniteSets

CONSTANTS
  Askers,         \* operators
  Pings,          \* client structures for pings
  Fds,            \* file descriptors, 1..MAXCONNECTIONS
  Counts,         \* numbers of packets that are asked for
  MaxExtra        \* packets sent beyond those (the timer never stops)

NoOne == "none"
Other == "other"

ASSUME UpingConstants ==
  /\ IsFiniteSet(Fds) /\ Fds # {} /\ Fds = 1..Cardinality(Fds)
  /\ {NoOne, Other} \cap (Pings \cup Askers) = {}
  /\ Counts \subseteq Nat \ {0}
  /\ MaxExtra \in Nat

VARIABLES
  around,        \* operators that are here
  asking,         \* those with FLAGS_ASKEDPING
  loc,            \* [Fds -> ping, Other, or NoOne]: loc_clients
  highest,        \* highest_fd
  pg,             \* [Pings -> the structure]
  watched,        \* [Pings -> fd its read event watches, or 0]
  armed,          \* pings whose timer event is pending
  queries         \* pings a resolver query names

upingVars == <<around, asking, loc, highest, pg, watched, armed, queries>>

Freed0 == [acpt |-> NoOne, fd |-> 0, hopcount |-> 0, sendB |-> 0, receiveB |-> 0,
           sending |-> FALSE, started |-> FALSE]
Live(p) == pg[p].fd # 0
MaxFd == CHOOSE f \in Fds : \A g \in Fds : g <= f

-----------------------------------------------------------------------------
(* The state as one record, so that a handler can be put together.          *)

Now == [asking |-> asking, loc |-> loc, pg |-> pg, watched |-> watched, armed |-> armed,
        queries |-> queries]

\* end_ping: what it says to the operator is left out; free_client takes the
\* events along, the resolver's queries stay.
end_ping(s, p) ==
  [s EXCEPT !.asking = @ \ {s.pg[p].acpt},
            !.loc[s.pg[p].fd] = NoOne,
            !.pg[p] = Freed0,
            !.watched[p] = 0,
            !.armed = @ \ {p}]

\* del_queries, then end_ping.
Dropped(s, p) == end_ping([s EXCEPT !.queries = @ \ {p}], p)

\* cancel_ping: the first ping of the operator found from highest_fd down.
OfAsker(s, u) == {p \in Pings : /\ s.pg[p].fd \in 1..highest /\ s.loc[s.pg[p].fd] = p
                                /\ s.pg[p].acpt = u}
cancel_ping_KeepsQuery(s, u) ==
  LET mine == OfAsker(s, u)
      done == IF mine = {} THEN s ELSE end_ping(s, CHOOSE p \in mine : TRUE)
  IN [done EXCEPT !.asking = @ \ {u}]
cancel_ping(s, u) ==
  LET mine == OfAsker(s, u)
      last == CHOOSE p \in mine : \A q \in mine : s.pg[q].fd <= s.pg[p].fd
      done == IF mine = {} THEN s ELSE Dropped([s EXCEPT !.pg[last].acpt = NoOne], last)
  IN [done EXCEPT !.asking = @ \ {u}]

\* start_ping: the timer fires at once.
start_ping(s, p) ==
  [s EXCEPT !.pg[p].started = TRUE, !.pg[p].sending = TRUE, !.armed = @ \cup {p}]

\* ping_server: start when the address is in the C line, is written out or is
\* in the resolver's cache, else ask.
ping_server(s, p, known) ==
  IF known THEN start_ping(s, p) ELSE [s EXCEPT !.queries = @ \cup {p}]

Becomes(s) ==
  /\ asking' = s.asking /\ loc' = s.loc /\ pg' = s.pg
  /\ watched' = s.watched /\ armed' = s.armed /\ queries' = s.queries

-----------------------------------------------------------------------------
(* Actions.                                                                 *)

\* m_uping, for this server and a server it has a C line for: a ping under
\* way is cancelled first, even when no socket can be had for the new one.
m_uping(u, n, known, socket) ==
  LET s == IF u \in asking THEN cancel_ping(Now, u) ELSE Now
      free == {f \in Fds : s.loc[f] = NoOne}
      fd == CHOOSE f \in free : \A g \in free : f <= g
  IN /\ u \in around
     /\ IF ~socket \/ free = {} \/ {p \in Pings : s.pg[p].fd = 0} = {}
        THEN /\ Becomes(s)
             /\ UNCHANGED <<around, highest>>
        ELSE \E p \in {q \in Pings : s.pg[q].fd = 0} :
             LET new == [s EXCEPT !.loc[fd] = p, !.watched[p] = fd, !.asking = @ \cup {u},
                                  !.pg[p] = [acpt |-> u, fd |-> fd, hopcount |-> n, sendB |-> n,
                                             receiveB |-> n, sending |-> FALSE, started |-> FALSE]]
             IN /\ Becomes(ping_server(new, p, known))
                /\ highest' = IF fd > highest THEN fd ELSE highest
                /\ UNCHANGED around

\* event_ping_callback, timer: send_ping.  After the last packet the timer is
\* armed again all the same.
send_ping(p, ok) ==
  LET left == pg[p].sendB - 1
      s == [Now EXCEPT !.armed = @ \ {p}]
      sent == [s EXCEPT !.pg[p].sendB = left, !.pg[p].sending = @ /\ left > 0]
  IN /\ p \in armed
     /\ left >= -MaxExtra
     /\ Becomes(IF ~ok \/ (left <= 0 /\ pg[p].receiveB <= 0)
                THEN end_ping(IF ok THEN sent ELSE s, p)
                ELSE [sent EXCEPT !.armed = @ \cup {p}])
     /\ UNCHANGED <<around, highest>>

\* event_ping_callback, data: read_ping.
read_ping(p, what) ==
  LET left == pg[p].receiveB - 1
      s == [Now EXCEPT !.pg[p].receiveB = left]
  IN /\ Live(p) /\ watched[p] # 0 /\ loc[watched[p]] = p
     /\ pg[p].sendB < pg[p].hopcount
     /\ left >= -MaxExtra
     /\ CASE what = "error" -> Becomes(end_ping(Now, p))
          [] what = "broken" -> Becomes(Now)
          [] what = "answer" -> Becomes(IF left <= 0 /\ ~pg[p].sending THEN end_ping(s, p) ELSE s)
     /\ UNCHANGED <<around, highest>>

\* do_dns_async, ASYNC_PING: an answer.  The address it brings is written
\* where ping_server does not look, so the name is looked up once more, in
\* the cache, which has it unless it has been pushed out.
DnsAnswer(p, found, cached) ==
  /\ p \in queries
  /\ LET s == [Now EXCEPT !.queries = @ \ {p}] IN
     Becomes(IF found THEN ping_server(s, p, cached) ELSE end_ping(s, p))
  /\ UNCHANGED <<around, highest>>

\* event_timeout_query_list_callback: no answer.
DnsTimeout(p) ==
  /\ p \in queries
  /\ Becomes([end_ping(Now, p) EXCEPT !.queries = @ \ {p}])
  /\ UNCHANGED <<around, highest>>

\* exit_one_client of an operator.
AskerQuits(u) ==
  /\ u \in around
  /\ Becomes(IF u \in asking THEN cancel_ping(Now, u) ELSE Now)
  /\ around' = around \ {u}
  /\ UNCHANGED highest

AskerComes(u) ==
  /\ u \notin around
  /\ around' = around \cup {u}
  /\ UNCHANGED <<asking, loc, highest, pg, watched, armed, queries>>

\* Another connection takes the lowest free descriptor.
OtherOpens ==
  LET free == {f \in Fds : loc[f] = NoOne}
      fd == CHOOSE f \in free : \A g \in free : f <= g
  IN /\ free # {}
     /\ loc' = [loc EXCEPT ![fd] = Other]
     /\ highest' = IF fd > highest THEN fd ELSE highest
     /\ UNCHANGED <<around, asking, pg, watched, armed, queries>>

\* close_connection of another connection: the last entry moves into the hole
\* and takes its descriptor and its read event along.
TopOf(l, h) == LET used == {f \in 1..h : l[f] # NoOne} IN
               IF used = {} THEN 0 ELSE CHOOSE f \in used : \A g \in used : g <= f
OtherCloses(i) ==
  LET out == [loc EXCEPT ![i] = NoOne]
      j == TopOf(out, highest)
      who == out[j]
      moved == [out EXCEPT ![i] = who, ![j] = NoOne]
  IN /\ loc[i] = Other
     /\ IF j > i
        THEN /\ loc' = moved
             /\ highest' = TopOf(moved, j)
             /\ IF who = Other THEN UNCHANGED <<pg, watched>>
                ELSE /\ pg' = [pg EXCEPT ![who].fd = i]
                     /\ watched' = [watched EXCEPT ![who] = i]
        ELSE /\ loc' = out
             /\ highest' = j
             /\ UNCHANGED <<pg, watched>>
     /\ UNCHANGED <<around, asking, armed, queries>>

-----------------------------------------------------------------------------
UpingInit ==
  /\ around = Askers
  /\ asking = {}
  /\ loc = [f \in Fds |-> NoOne]
  /\ highest = 0
  /\ pg = [p \in Pings |-> Freed0]
  /\ watched = [p \in Pings |-> 0]
  /\ armed = {} /\ queries = {}

UpingNext ==
  \/ \E u \in Askers, n \in Counts, known \in BOOLEAN, socket \in BOOLEAN : m_uping(u, n, known, socket)
  \/ \E p \in Pings, ok \in BOOLEAN : send_ping(p, ok)
  \/ \E p \in Pings, what \in {"error", "broken", "answer"} : read_ping(p, what)
  \/ \E p \in Pings, found \in BOOLEAN, cached \in BOOLEAN : DnsAnswer(p, found, cached)
  \/ \E p \in Pings : DnsTimeout(p)
  \/ \E u \in Askers : AskerQuits(u) \/ AskerComes(u)
  \/ OtherOpens
  \/ \E i \in Fds : OtherCloses(i)

UpingSpec == UpingInit /\ [][UpingNext]_upingVars

-----------------------------------------------------------------------------
(* Properties.                                                              *)

UpingTypeOK ==
  /\ around \subseteq Askers /\ asking \subseteq Askers
  /\ loc \in [Fds -> Pings \cup {Other, NoOne}]
  /\ highest \in 0..MaxFd
  /\ armed \subseteq Pings /\ queries \subseteq Pings

\* An operator is marked as asking if and only if one ping is his, and he is
\* here; a ping stands in loc_clients where its descriptor says, below
\* highest_fd, its read event watches that descriptor, and it either waits
\* for the resolver or has its timer armed, so that something still ends it;
\* no query and no event names a ping that has been freed (cancel_ping,
\* end_ping, exit_one_client, close_connection).
PingsOwned ==
  /\ UpingTypeOK
  /\ \A u \in Askers : Cardinality({p \in Pings : Live(p) /\ pg[p].acpt = u})
                       = IF u \in asking THEN 1 ELSE 0
  /\ asking \subseteq around
  /\ \A p \in Pings :
       IF Live(p)
       THEN /\ loc[pg[p].fd] = p /\ pg[p].fd <= highest
            /\ watched[p] = pg[p].fd
            /\ pg[p].acpt \in around
            /\ (p \in queries) # (p \in armed)
       ELSE p \notin queries \cup armed /\ watched[p] = 0
=============================================================================
