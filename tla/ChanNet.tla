------------------------------ MODULE ChanNet -------------------------------
(***************************************************************************)
(* One channel over the tree of servers: m_join, m_create, m_part, m_kick, *)
(* m_mode with set_mode_local and set_mode_remoto, m_topic, m_burst,       *)
(* send_channel_modes and the removal of members (ircd/channel.c), with    *)
(* links that are lost and made again (exit_client, m_server_estab).       *)
(*                                                                         *)
(* Each server keeps its own copy of the channel and acts on the lines of  *)
(* its links in order; the links interleave.  All servers speak protocol   *)
(* 10, so FLAGS_TS8 and CHFL_SERVOPOK are never set, and none is a U-lined *)
(* service.  Who may enter (can_join) and channels that are registered are *)
(* the matter of ChanLocal.  A MODE line carries one change.               *)
(***************************************************************************)
EXTENDS Integers, Sequences, FiniteSets

CONSTANTS
    Server, User,
    Mode,      \* flags of the channel without a parameter
    Ban,       \* masks
    Covers,    \* <<e, b>>: e matches all that b does (mmatch), reflexive
    Topic, NoTopic,
    Empty,     \* the topic "", which is not the absence of a topic
    MaxKey,    \* keys and limits are 1..MaxKey in the order of strcmp; 0 is none
    Home,      \* Home[u]: user->server
    Hop,       \* Hop[n][s]: the neighbour of n that leads to s; n if s = n
    Dials,     \* <<i, a>>: i connects to a
    Magic,     \* MAGIC_REMOTE_JOIN_TS, in the past of every clock
    Lag,       \* TS_LAG_TIME
    Plans,     \* sets of commands; users keep to one of them in a behaviour
    Titles,    \* topics that users set
    MaxNow,    \* bound: time
    MaxTurn,   \* bound: commands of users
    MaxLoss    \* bound: link losses

ASSUME ChanConstants ==
    /\ IsFiniteSet(User)
    /\ NoTopic \notin Topic /\ Empty \in Topic /\ Titles \subseteq Topic
    /\ Covers \subseteq Ban \X Ban /\ \A b \in Ban : <<b, b>> \in Covers
    /\ Home \in [User -> Server]
    /\ Hop \in [Server -> [Server -> Server]]
    /\ Dials \subseteq Server \X Server
    /\ Magic \in Nat \ {0} /\ Magic < MaxNow /\ MaxNow \in Nat
    /\ Lag \in Nat /\ MaxKey \in Nat /\ MaxTurn \in Nat /\ MaxLoss \in Nat

Adjacent(n) == {m \in Server \ {n} : Hop[n][m] = m}
Behind(n, m) == {u \in User : Home[u] # n /\ Hop[n][Home[u]] = m}
From(n, u) == Hop[n][Home[u]]

VARIABLES
    chan,    \* chan[n]: the channel as server n has it
    linked,  \* linked[n]: the neighbours n has an established link with
    q,       \* q[<<m, n>>]: lines sent by m and not yet parsed by n
    now,     \* TStime()
    turns, losses,
    doubled, \* history: was a member ever added a second time?
    raced,   \* history: did a user act with lines in flight?
    torn,    \* history: was a link lost or made with lines in flight?
    plan     \* the commands users give

vars == <<chan, linked, q, now, turns, losses, doubled, raced, torn, plan>>

Flag == {"o", "v", "deopped", "zombie"}
Time == 0..MaxNow
Flags == [User -> SUBSET Flag]

\* struct Channel; a channel without members is freed.
Channel == [ts : Time, mem : SUBSET User, fl : Flags, modes : SUBSET Mode,
            key : 0..MaxKey, bans : SUBSET Ban, topic : Topic \cup {NoTopic},
            ttime : Time]
NoChan == [ts |-> 0, mem |-> {}, fl |-> [u \in User |-> {}], modes |-> {},
           key |-> 0, bans |-> {}, topic |-> NoTopic, ttime |-> 0]

NoTS == -1
By == User \cup Server
Change == [type : {"MODE"}, by : By, add : BOOLEAN, what : {"o", "v", "m", "k", "b", "none"},
           arg : User \cup Mode \cup Ban \cup (0..MaxKey), ts : Time \cup {NoTS}]
Msg == [type : {"SERVER"}]
       \cup [type : {"SQUIT"}, who : SUBSET User]
       \cup [type : {"PART"}, by : User]
       \cup [type : {"JOIN", "CREATE"}, by : User, ts : Time \cup {NoTS}]
       \cup [type : {"KICK"}, by : User, who : User]
       \cup [type : {"BURST"}, c : Channel]
       \cup [type : {"TOPIC"}, by : By, topic : Topic \cup {NoTopic},
             ts : Time, ttime : Time]
       \cup Change

MODEMsg(s, add, w, a, t) ==
    [type |-> "MODE", by |-> s, add |-> add, what |-> w, arg |-> a, ts |-> t]
TOPICMsg(s, c, withTS) ==
    [type |-> "TOPIC", by |-> s, topic |-> c.topic,
     ts |-> IF withTS THEN c.ts ELSE 0, ttime |-> IF withTS THEN c.ttime ELSE 0]

Init ==
    /\ chan = [n \in Server |-> NoChan]
    /\ linked = [n \in Server |-> Adjacent(n)]
    /\ q = [p \in Server \X Server |-> <<>>]
    /\ now = Magic + 1 /\ turns = 0 /\ losses = 0
    /\ doubled = FALSE /\ raced = FALSE /\ torn = FALSE /\ plan \in Plans

-----------------------------------------------------------------------------
(* Members.                                                                *)

Added(c, u, F) == [c EXCEPT !.mem = @ \cup {u}, !.fl[u] = F]
Flagged(c, u, F) == [c EXCEPT !.fl[u] = F]

\* remove_user_from_channel for each of U: when only zombies are left they
\* go too, and sub1_from_channel frees the channel.
Removed(c, U) ==
    LET rest == c.mem \ U
    IN  IF \A u \in rest : "zombie" \in c.fl[u] THEN NoChan
        ELSE [c EXCEPT !.mem = rest,
                       !.fl = [u \in User |-> IF u \in U THEN {} ELSE c.fl[u]]]

IsMember(c, u) == u \in c.mem /\ "zombie" \notin c.fl[u]
is_chan_op(c, u) == IsMember(c, u) /\ "o" \in c.fl[u]

\* is_deopped, for a user.
is_deopped(c, u) == u \notin c.mem \/ "deopped" \in c.fl[u]

\* add_banid: a mask that another covers is not kept.
Maximal(B) == {b \in B : ~\E e \in B \ {b} : <<e, b>> \in Covers}

-----------------------------------------------------------------------------
(* Links.                                                                  *)

Sent(c, n, T, L) ==
    [p \in Server \X Server |->
        IF p[1] = n /\ p[2] \in T THEN c[p] \o L ELSE c[p]]
Parsed(m, n) == [q EXCEPT ![<<m, n>>] = Tail(@)]
Others(n, m) == linked[n] \ {m}
InFlight == \E p \in Server \X Server : q[p] # <<>>

Arrives(m, n, T) == q[<<m, n>>] # <<>> /\ Head(q[<<m, n>>]).type \in T

Holds(n, c) == chan' = [chan EXCEPT ![n] = c]
Relays(n, m, L) == q' = Sent(Parsed(m, n), n, Others(n, m), L)

\* What a line leaves alone.
Still == UNCHANGED <<linked, now, turns, losses, raced, torn, plan>>

-----------------------------------------------------------------------------
(* What the users of a server do.                                          *)

Acts(k) == /\ k \in plan
           /\ turns < MaxTurn
           /\ turns' = turns + 1
           /\ raced' = (raced \/ InFlight)
           /\ UNCHANGED <<linked, now, losses, doubled, torn, plan>>

\* What a user does and all servers are told.
Tells(n, c, msg) == Holds(n, c) /\ q' = Sent(q, n, linked[n], <<msg>>)

\* m_join by a local user.
Join(u) ==
    LET n == Home[u]
        new == chan[n] = NoChan
    IN  /\ u \notin chan[n].mem
        /\ Acts("join")
        /\ Tells(n, IF new THEN Added([chan[n] EXCEPT !.ts = now], u, {"o"})
                           ELSE Added(chan[n], u, {"deopped"}),
                 [type |-> IF new THEN "CREATE" ELSE "JOIN", by |-> u,
                  ts |-> IF new THEN now ELSE NoTS])

\* m_part by a local user.
Part(u) ==
    LET n == Home[u]
    IN  /\ u \in chan[n].mem
        /\ Acts("part")
        /\ Tells(n, Removed(chan[n], {u}), [type |-> "PART", by |-> u])

\* m_kick by a local user: a user of another server stays as a zombie.
Kick(u, w) ==
    LET n == Home[u]
    IN  /\ is_chan_op(chan[n], u) /\ IsMember(chan[n], w)
        /\ Acts("kick")
        /\ Tells(n, IF Home[w] = n THEN Removed(chan[n], {w})
                    ELSE Flagged(chan[n], w, chan[n].fl[w] \cup {"zombie"}),
                 [type |-> "KICK", by |-> u, who |-> w])

-----------------------------------------------------------------------------
(* Mode changes.                                                           *)

\* +p and +s exclude each other.
With(M, x) == (M \ CASE x = "p" -> {"s"} [] x = "s" -> {"p"} [] OTHER -> {}) \cup {x}

\* +o takes the mark of a deopped member away; -o by a server leaves one.
StatusChanged(c, msg, byServer) ==
    LET F == c.fl[msg.arg]
        mark == IF msg.what = "o" /\ (msg.add \/ (byServer /\ "o" \in F)) THEN {"deopped"} ELSE {}
    IN  Flagged(c, msg.arg, IF msg.add THEN (F \cup {msg.what}) \ mark
                                       ELSE (F \ {msg.what}) \cup mark)

FlagChanged(c, msg) == [c EXCEPT !.modes = IF msg.add THEN With(@, msg.arg) ELSE @ \ {msg.arg}]

\* A key is set only where there is none, and taken away by naming it.
KeyChanged(c, msg) ==
    CASE msg.add /\ c.key = 0 -> [c EXCEPT !.key = msg.arg]
      [] ~msg.add /\ c.key = msg.arg -> [c EXCEPT !.key = 0]
      [] OTHER -> c

BanChanged(c, msg) ==
    [c EXCEPT !.bans = IF msg.add THEN Maximal(@ \cup {msg.arg}) ELSE @ \ {msg.arg}]

\* What a change does that is not bounced.
Changed(c, msg, byServer) ==
    CASE msg.what \in {"o", "v"} -> StatusChanged(c, msg, byServer)
      [] msg.what = "m" -> FlagChanged(c, msg)
      [] msg.what = "k" -> KeyChanged(c, msg)
      [] msg.what = "b" -> BanChanged(c, msg)
      [] OTHER -> c

\* Does the line name a member, or nobody?
Aimed(c, msg) == msg.what \in {"o", "v"} => msg.arg \in c.mem

\* m_mode by a local operator of the channel.
SetMode(u, add, w, a) ==
    LET n == Home[u]
        msg == MODEMsg(u, add, w, a, NoTS)
    IN  /\ is_chan_op(chan[n], u)
        /\ w \in {"o", "v"} => IsMember(chan[n], a)
        /\ Acts(w)
        /\ Changed(chan[n], msg, FALSE) # chan[n]
        /\ Tells(n, Changed(chan[n], msg, FALSE), msg)

\* m_mode from another server on behalf of a user: never refused.  The bounce for
\* a deopped user with PRIV_MODE_LCHAN (2733-2736, 3211-3222) is for operators
\* who change channels they are not operators of, and no user here is one.
RecvUserMode(m, n) ==
    LET msg == Head(q[<<m, n>>])
        c == chan[n]
        d == Changed(c, msg, FALSE)
        done == c # NoChan /\ Aimed(c, msg) /\ d # c
    IN  /\ Arrives(m, n, {"MODE"}) /\ msg.by \in User
        /\ Holds(n, IF done THEN d ELSE c)
        /\ Relays(n, m, IF done THEN <<msg>> ELSE <<>>)
        /\ Still /\ UNCHANGED doubled

\* +o and +v of a server are for users behind that server only.
Considered(c, n, m, msg) ==
    /\ msg.what \in {"o", "v"} /\ msg.arg \in c.mem
    /\ msg.add => From(n, msg.arg) = m

\* The verdict of set_mode_remoto on a line of a server: 0 accept, 3 accept
\* with a notice, 1 bounce, 2 refuse; by the timestamp it ends with.
Badop(c, n, m, msg) ==
    LET cares == Considered(c, n, m, msg)
        first == IF ~(cares /\ msg.add) THEN 0
                 ELSE IF msg.what = "o" /\ "deopped" \in c.fl[msg.arg] THEN 2 ELSE 3
        deops == cares /\ ~msg.add
        fresh == c.ts = Magic
        ts == IF fresh /\ msg.ts # 0 THEN msg.ts ELSE c.ts
        was == IF fresh /\ msg.ts # 0 THEN 0 ELSE first
    IN  IF msg.ts = 0 THEN 2
        ELSE IF msg.ts > ts THEN IF deops THEN 2 ELSE 1
        ELSE IF was = 0 \/ ts > now - Lag THEN 0 ELSE was

\* The timestamp the channel has afterwards.
NewTS(c, msg, badop) ==
    IF c.ts = Magic /\ msg.ts # 0 THEN msg.ts
    ELSE IF msg.ts # 0 /\ msg.ts < c.ts /\ badop = 0 THEN msg.ts
    ELSE c.ts

\* A change that is bounced still marks the member.
Bounced(c, msg) ==
    LET F == c.fl[msg.arg]
    IN  IF msg.what # "o" \/ (msg.add <=> "o" \in F) THEN c
        ELSE Flagged(c, msg.arg, IF msg.add THEN F \cup {"deopped"} ELSE F \ {"deopped"})

\* m_mode from a server, which speaks for itself when it bounces.
RecvServerMode(m, n) ==
    LET msg == Head(q[<<m, n>>])
        old == chan[n]
        badop == Badop(old, n, m, msg)
        c == [old EXCEPT !.ts = NewTS(old, msg, badop)]
        cares == Considered(old, n, m, msg)
        moves == cares /\ (msg.add <=> msg.what \notin c.fl[msg.arg])
        back == MODEMsg(n, ~msg.add, msg.what, msg.arg, IF badop = 2 THEN 0 ELSE c.ts)
        on == IF moves /\ badop # 1 THEN MODEMsg(msg.by, msg.add, msg.what, msg.arg, c.ts)
              ELSE MODEMsg(msg.by, TRUE, "none", 0, c.ts)
        told == Sent(Parsed(m, n), n, Others(n, m), IF badop = 2 THEN <<>> ELSE <<on>>)
    IN  /\ Arrives(m, n, {"MODE"}) /\ msg.by \in Server
        /\ IF old = NoChan THEN Holds(n, old) /\ q' = Parsed(m, n)
           ELSE IF badop \in {1, 2} THEN
             /\ Holds(n, IF cares THEN Bounced(c, msg) ELSE c)
             /\ q' = IF moves /\ msg.ts # 0 THEN Sent(told, n, {m}, <<back>>) ELSE told
           ELSE
             /\ Holds(n, IF cares THEN Changed(c, msg, TRUE) ELSE c)
             /\ q' = told
        /\ Still /\ UNCHANGED doubled

-----------------------------------------------------------------------------
(* Entering and leaving, as other servers hear of it.                      *)

\* m_join: a zombie that comes back keeps its mark and is first removed.
RecvJoin(m, n) ==
    LET msg == Head(q[<<m, n>>])
        u == msg.by
        back == u \in chan[n].mem
        F == IF back THEN chan[n].fl[u] \cap {"deopped"} ELSE {"deopped"}
        old == IF back THEN Removed(chan[n], {u}) ELSE chan[n]
        made == IF old.ts = 0 THEN [old EXCEPT !.ts = Magic] ELSE old
        takes == msg.ts # NoTS /\ made.ts = Magic
        c == IF takes THEN [made EXCEPT !.ts = msg.ts] ELSE made
    IN  /\ Arrives(m, n, {"JOIN"})
        /\ IF IsMember(chan[n], u) THEN Holds(n, chan[n]) /\ q' = Parsed(m, n)
           ELSE /\ Holds(n, Added(c, u, F))
                /\ Relays(n, m, <<[msg EXCEPT !.ts = IF takes THEN @ ELSE NoTS]>>)
        /\ Still /\ UNCHANGED doubled

\* m_create used on an older channel, probably a net ride.
CreateTooNew(c, t) == c.ts # 0 /\ t > c.ts /\ c.ts # Magic

\* m_create: the creator is an operator unless the channel is older here;
\* then it is told to go without.
RecvCreate(m, n) ==
    LET msg == Head(q[<<m, n>>])
        u == msg.by
        c == chan[n]
        stale == c # NoChan /\ now - msg.ts > Lag
        bad == stale \/ CreateTooNew(c, msg.ts)
        deop == MODEMsg(n, FALSE, "o", u, IF stale THEN 0 ELSE c.ts)
    IN  /\ Arrives(m, n, {"CREATE"})
        /\ doubled' = (doubled \/ u \in c.mem)
        /\ IF bad
           THEN /\ Holds(n, Added(c, u, {"deopped"}))
                /\ q' = Sent(Sent(Parsed(m, n), n, {m}, <<deop>>), n, Others(n, m),
                             <<[type |-> "JOIN", by |-> u, ts |-> c.ts]>>)
           ELSE /\ Holds(n, Added([c EXCEPT !.ts = msg.ts], u, {"o"}))
                /\ Relays(n, m, <<msg>>)
        /\ Still

\* m_part: zombies part too.
RecvPart(m, n) ==
    LET msg == Head(q[<<m, n>>])
        there == msg.by \in chan[n].mem
    IN  /\ Arrives(m, n, {"PART"})
        /\ Holds(n, IF there THEN Removed(chan[n], {msg.by}) ELSE chan[n])
        /\ Relays(n, m, IF there THEN <<msg>> ELSE <<>>)
        /\ Still /\ UNCHANGED doubled

\* Is s on the way from n to the server t?
OnPath(n, s, t) == s # n /\ (t = s \/ Hop[s][n] # Hop[s][t])

\* A KICK towards its victim by one who is no operator here.
KickBounced(c, n, m, u, w) == From(n, w) # m /\ is_deopped(c, u)

KickAnswer_Silent(n, w) == <<>>                                    \* mutant

\* The victim's own server says PART on its behalf to the kicker's side.
KickAnswer(n, w) == IF Home[w] = n THEN <<[type |-> "PART", by |-> w]>> ELSE <<>>

\* The four cases of m_kick: the victim leaves at its own server, which says
\* PART to the kicker's side, and at servers beyond it; elsewhere it is a
\* zombie until that PART, or until only zombies are left.
RecvKick(m, n) ==
    LET msg == Head(q[<<m, n>>])
        u == msg.by
        w == msg.who
        c == chan[n]
        left == Flagged(c, w, c.fl[w] \cup {"zombie"})
        gone == Removed(left, {w})
        own == Home[w] = n
        beyond == From(n, w) = m /\ OnPath(n, Home[w], Home[u])
        alone == \A x \in left.mem : "zombie" \in left.fl[x]
        again == <<MODEMsg(n, FALSE, "o", u, c.ts), [type |-> "JOIN", by |-> w, ts |-> NoTS]>>
                 \o (IF "o" \in c.fl[w] THEN <<MODEMsg(n, TRUE, "o", w, c.ts)>> ELSE <<>>)
                 \o (IF "v" \in c.fl[w] THEN <<MODEMsg(n, TRUE, "v", w, c.ts)>> ELSE <<>>)
        on == Sent(Parsed(m, n), n, Others(n, m), <<msg>>)
    IN  /\ Arrives(m, n, {"KICK"})
        /\ IF ~IsMember(c, w) THEN Holds(n, c) /\ q' = Parsed(m, n)
           ELSE IF KickBounced(c, n, m, u, w)
           THEN Holds(n, c) /\ q' = Sent(Parsed(m, n), n, {m}, again)
           ELSE /\ Holds(n, IF own \/ beyond \/ alone THEN gone ELSE left)
                /\ q' = Sent(on, n, {m}, KickAnswer(n, w))
        /\ Still /\ UNCHANGED doubled

-----------------------------------------------------------------------------
(* Topics.                                                                 *)

\* A member who is banned needs to be operator too (6122-6123); whom a mask hits
\* is not known here (see ChanLocal), so nobody is held back by a ban.
MayTopic(c, u) == "t" \notin c.modes \/ is_chan_op(c, u)
Titled(c, t, w) == [c EXCEPT !.topic = t, !.ttime = w]

\* m_topic by a local member.
SetTopic(u, t) ==
    LET n == Home[u]
        c == Titled(chan[n], t, now)
    IN  /\ IsMember(chan[n], u) /\ MayTopic(chan[n], u)
        /\ Acts("topic")
        /\ Tells(n, c, TOPICMsg(u, c, TRUE))

\* m_topic from another server.  A user who may not set it here loses its op
\* there and gets the topic as it is here; a server that sends an older
\* channel's, or an older, topic is ignored.
RecvTopic(m, n) ==
    LET msg == Head(q[<<m, n>>])
        c == chan[n]
        byUser == msg.by \in User
        heard == /\ c # NoChan
                 /\ IF byUser THEN IsMember(c, msg.by)
                    ELSE ~(msg.ts # 0 /\ c.ts < msg.ts) /\ ~(msg.ttime # 0 /\ c.ttime > msg.ttime)
        done == Titled(c, msg.topic, IF byUser \/ msg.ttime = 0 THEN now ELSE msg.ttime)
        mine == Titled(c, IF c.topic = NoTopic THEN Empty ELSE c.topic, 0)
    IN  /\ Arrives(m, n, {"TOPIC"})
        /\ IF ~heard THEN Holds(n, c) /\ q' = Parsed(m, n)
           ELSE IF byUser /\ ~MayTopic(c, msg.by)
           THEN /\ Holds(n, c)
                /\ q' = Sent(Parsed(m, n), n, {m},
                             <<MODEMsg(n, FALSE, "o", msg.by, c.ts), TOPICMsg(n, mine, FALSE)>>)
           ELSE Holds(n, done) /\ Relays(n, m, <<TOPICMsg(msg.by, done, TRUE)>>)
        /\ Still /\ UNCHANGED doubled

-----------------------------------------------------------------------------
(* The burst of a new link.                                                *)

\* send_channel_modes: all members, zombies too, with o and v; the masks;
\* then the topic.
BurstOf(n) ==
    LET c == chan[n]
        said == [c EXCEPT !.fl = [u \in User |-> c.fl[u] \cap {"o", "v"}],
                          !.topic = NoTopic, !.ttime = 0]
    IN  IF c = NoChan THEN <<>>
        ELSE <<[type |-> "BURST", c |-> said]>>
             \o (IF c.topic = NoTopic THEN <<>> ELSE <<TOPICMsg(n, c, TRUE)>>)

\* m_burst with an older channel: what this side had is wiped out.
Wiped(c, b) == c.ts = 0 \/ c.ts > b.ts
\* ... with a younger one: only the members are taken.
Netride(c, b) == c.ts # 0 /\ c.ts < b.ts

MergedModes(c, b) ==
    LET M == c.modes \cup b.modes
    IN  IF Netride(c, b) THEN c.modes
        ELSE IF Wiped(c, b) THEN b.modes
        ELSE IF "s" \in M THEN M \ {"p"} ELSE M

\* The same rule serves the key (strcmp) and the limit.
MergedKey(c, b) ==
    IF Netride(c, b) THEN c.key
    ELSE IF Wiped(c, b) THEN b.key
    ELSE IF b.key = 0 \/ (c.key # 0 /\ c.key <= b.key) THEN c.key
    ELSE b.key

MergedBans(c, b) ==
    IF Netride(c, b) THEN c.bans
    ELSE IF Wiped(c, b) THEN b.bans
    ELSE Maximal(c.bans \cup b.bans)

\* The members in the line.
JoinerFlags(c, b, u) ==
    IF Netride(c, b) THEN {"deopped"}
    ELSE b.fl[u] \cup (IF "o" \in b.fl[u] THEN {} ELSE {"deopped"})

RiderFlags_Kept(c, b, u) == c.fl[u]                                \* mutant

\* The members this side had: net riders lose op and voice.
RiderFlags(c, b, u) ==
    IF Wiped(c, b)
    THEN (c.fl[u] \ {"o", "v"}) \cup (IF "o" \in c.fl[u] THEN {"deopped"} ELSE {})
    ELSE c.fl[u]

MergedTS(c, b) == IF Wiped(c, b) THEN b.ts ELSE c.ts

Merged(c, b) ==
    [ts |-> MergedTS(c, b), mem |-> c.mem \cup b.mem,
     fl |-> [u \in User |-> IF u \in b.mem THEN JoinerFlags(c, b, u) ELSE RiderFlags(c, b, u)],
     modes |-> MergedModes(c, b), key |-> MergedKey(c, b), bans |-> MergedBans(c, b),
     topic |-> IF Wiped(c, b) THEN NoTopic ELSE c.topic,
     ttime |-> IF Wiped(c, b) THEN 0 ELSE c.ttime]

\* What m_burst passes on: the timestamp it settled on, what was a change
\* here, and the members.
Passed(c, b) ==
    [b EXCEPT !.ts = MergedTS(c, b),
              !.modes = IF Wiped(c, b) THEN @ ELSE MergedModes(c, b) \ c.modes,
              !.key = IF Wiped(c, b) \/ MergedKey(c, b) # c.key THEN MergedKey(c, b) ELSE 0,
              !.bans = IF Wiped(c, b) THEN @ ELSE MergedBans(c, b) \ c.bans,
              !.fl = [u \in User |-> IF u \in b.mem THEN JoinerFlags(c, b, u) \cap {"o", "v"}
                                    ELSE {}]]

RecvBurst(m, n) ==
    LET b == Head(q[<<m, n>>]).c
        c == chan[n]
    IN  /\ Arrives(m, n, {"BURST"})
        /\ doubled' = (doubled \/ b.mem \cap c.mem # {})
        /\ Holds(n, Merged(c, b))
        /\ Relays(n, m, <<[type |-> "BURST", c |-> Passed(c, b)]>>)
        /\ Still

-----------------------------------------------------------------------------
(* Links come and go.                                                      *)

Connect(i, a) ==
    /\ <<i, a>> \in Dials
    /\ a \notin linked[i] /\ i \notin linked[a]
    /\ q[<<i, a>>] = <<>> /\ q[<<a, i>>] = <<>>
    /\ q' = Sent(q, i, {a}, <<[type |-> "SERVER"]>>)
    /\ torn' = (torn \/ InFlight)
    /\ UNCHANGED <<chan, linked, now, turns, losses, doubled, raced, plan>>

\* m_server_estab: the one that was called answers; both burst.
RecvServer(m, n) ==
    LET hello == IF <<m, n>> \in Dials THEN <<[type |-> "SERVER"]>> ELSE <<>>
    IN  /\ Arrives(m, n, {"SERVER"})
        /\ linked' = [linked EXCEPT ![n] = @ \cup {m}]
        /\ q' = Sent(Parsed(m, n), n, {m}, hello \o BurstOf(n))
        /\ UNCHANGED <<chan, now, turns, losses, doubled, raced, torn, plan>>

\* exit_client for the server at the other end, seen by both at once.
LinkLoss(a, d) ==
    LET cut(n, m) == IF m \in linked[n] THEN Behind(n, m) ELSE {}
        note(c, n, m) == IF m \in linked[n]
                         THEN Sent(c, n, Others(n, m), <<[type |-> "SQUIT", who |-> Behind(n, m)]>>)
                         ELSE c
        empty == [q EXCEPT ![<<a, d>>] = <<>>, ![<<d, a>>] = <<>>]
    IN  /\ <<a, d>> \in Dials /\ losses < MaxLoss
        /\ d \in linked[a] \/ a \in linked[d]
        /\ chan' = [chan EXCEPT ![a] = Removed(@, cut(a, d)), ![d] = Removed(@, cut(d, a))]
        /\ linked' = [linked EXCEPT ![a] = @ \ {d}, ![d] = @ \ {a}]
        /\ q' = note(note(empty, a, d), d, a)
        /\ losses' = losses + 1
        /\ torn' = (torn \/ InFlight)
        /\ UNCHANGED <<now, turns, doubled, raced, plan>>

RecvSquit_Keeps(m, n) ==                                           \* mutant
    /\ Arrives(m, n, {"SQUIT"})
    /\ Holds(n, chan[n])
    /\ Relays(n, m, <<Head(q[<<m, n>>])>>)
    /\ Still /\ UNCHANGED doubled

\* m_squit: users that were behind the lost link leave.
RecvSquit(m, n) ==
    LET msg == Head(q[<<m, n>>])
    IN  /\ Arrives(m, n, {"SQUIT"})
        /\ Holds(n, Removed(chan[n], msg.who))
        /\ Relays(n, m, <<msg>>)
        /\ Still /\ UNCHANGED doubled

Tick ==
    /\ now < MaxNow
    /\ now' = now + 1
    /\ UNCHANGED <<chan, linked, q, turns, losses, doubled, raced, torn, plan>>

Command(u) ==
    \/ Join(u)
    \/ Part(u)
    \/ \E w \in User : Kick(u, w)
    \/ \E add \in BOOLEAN, w \in {"o", "v"}, x \in User : SetMode(u, add, w, x)
    \/ \E add \in BOOLEAN, x \in Mode : SetMode(u, add, "m", x)
    \/ \E add \in BOOLEAN, x \in 1..MaxKey : SetMode(u, add, "k", x)
    \/ \E add \in BOOLEAN, x \in Ban : SetMode(u, add, "b", x)
    \/ \E t \in Titles : SetTopic(u, t)

Deliver(m, n) ==
    \/ RecvJoin(m, n)
    \/ RecvCreate(m, n)
    \/ RecvPart(m, n)
    \/ RecvKick(m, n)
    \/ RecvUserMode(m, n)
    \/ RecvServerMode(m, n)
    \/ RecvTopic(m, n)
    \/ RecvBurst(m, n)
    \/ RecvServer(m, n)
    \/ RecvSquit(m, n)

Next ==
    \/ Tick
    \/ \E u \in User : Command(u)
    \/ \E m, n \in Server : Connect(m, n) \/ LinkLoss(m, n)
    \/ \E m, n \in Server : Deliver(m, n)

Spec == Init /\ [][Next]_vars

-----------------------------------------------------------------------------
\* Types, and a channel without members is free: what m_part, m_kick and
\* exit_client leave behind holds neither modes nor flags of those who left.
TypeOK ==
    /\ chan \in [Server -> Channel]
    /\ linked \in [Server -> SUBSET Server]
    /\ now \in Time /\ turns \in 0..MaxTurn /\ losses \in 0..MaxLoss
    /\ doubled \in BOOLEAN /\ raced \in BOOLEAN /\ torn \in BOOLEAN /\ plan \in Plans
    /\ \A n \in Server : chan[n].mem = {} => chan[n] = NoChan
    /\ \A n \in Server : \A u \in User \ chan[n].mem : chan[n].fl[u] = {}

\* A KICK may have crossed another command.  A server where its victim is a
\* zombie, or only zombies were left, drops lines that servers beyond it need.
KickCrossed == raced /\ "kick" \in plan

\* m_create and m_burst call add_user_to_channel without looking whether the
\* user is a member already: no order of lines, losses and bursts makes them
\* link a user to the channel twice, unless a KICK crossed other commands.
NoDouble == TypeOK /\ (doubled => KickCrossed)

\* Every link is up and nothing is in flight.
Quiet == ~InFlight /\ \A n \in Server : linked[n] = Adjacent(n)

Visible(c) == {u \in User : IsMember(c, u)}
Shown(c) == [u \in Visible(c) |-> c.fl[u] \cap {"o", "v"}]

\* However joins, parts, changes and their bounces cross, and whatever KICKs
\* do that crossed nothing, once the network is quiet all servers show the
\* same members (a link that was lost or made with lines in flight excepted).
QuietMembers == Quiet /\ ~torn /\ ~KickCrossed => \A m, n \in Server : Visible(chan[m]) = Visible(chan[n])

\* A kicked user that m_kick left as a zombie is gone once the PART of its
\* own server has passed: no server keeps it, if commands did not cross.
QuietZombies ==
    Quiet /\ ~torn /\ ~raced => \A n \in Server, u \in User : "zombie" \notin chan[n].fl[u]

\* If commands did not cross, the two sides of a split merge by m_burst to
\* one channel: same timestamp, operators, voices, modes, key and bans, and
\* the same topic unless both sides set one in the same second.
QuietStatus == Quiet /\ ~torn /\ ~raced => \A m, n \in Server :
    /\ Shown(chan[m]) = Shown(chan[n])
    /\ chan[m].ts = chan[n].ts
    /\ chan[m].modes = chan[n].modes
    /\ chan[m].key = chan[n].key
    /\ chan[m].bans = chan[n].bans
    /\ chan[m].topic = chan[n].topic \/ chan[m].ttime = chan[n].ttime
=============================================================================
