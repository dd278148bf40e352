------------------------------ MODULE NickNet -------------------------------
(***************************************************************************)
(* The names of users over the tree of servers: m_nick_local,              *)
(* m_nick_remoto, m_quit, m_kill, m_ghost and register_user (ircd/         *)
(* s_user.c), the treatment of unknown and wrong prefixes in parse_server  *)
(* (ircd/parse.c), SetRemoteNumNick (ircd/numnicks.c), exit_client (ircd/  *)
(* s_misc.c), m_squit (ircd/opercmds.c) and the burst of a new link in     *)
(* m_server_estab (ircd/s_serv.c).                                         *)
(*                                                                         *)
(* A user is its numeric: it signs on once, at its home server.  Lines of  *)
(* one link are parsed in order, one per action; the links interleave.     *)
(* All servers speak protocol 10 and the tree of links is fixed: a link is *)
(* lost and made again, but never elsewhere.  A nick stands for all its     *)
(* spellings: a change of case is no step.                                 *)
(***************************************************************************)
EXTENDS Integers, Sequences, FiniteSets

CONSTANTS
    Server, User, Nick, NoNick,
    Home,      \* Home[u]: user->server
    HostOf,    \* HostOf[u]: user@host
    Hop,       \* Hop[n][s]: the neighbour of n that leads to s; n if s = n
    Dials,     \* <<i, a>>: i connects to a
    Oper,      \* users that may KILL
    Owner,     \* Owner[k]: users that know the password of the nick k
    MaxNow,    \* bound: time
    MaxTurn,   \* bound: things users do after they sign on
    MaxLoss    \* bound: link losses

ASSUME NickConstants ==
    /\ IsFiniteSet(User)
    /\ NoNick \notin Nick
    /\ Home \in [User -> Server]
    /\ Hop \in [Server -> [Server -> Server]]
    /\ \A d \in Dials : d \in Server \X Server /\ <<d[2], d[1]>> \notin Dials
    /\ Oper \subseteq User
    /\ Owner \in [Nick -> SUBSET User]
    /\ MaxNow \in Nat \ {0} /\ MaxTurn \in Nat /\ MaxLoss \in Nat

\* The links make a tree: a hop is a neighbour and leads nearer, neighbours see
\* each other, the way between two servers on different sides of a third leads
\* over it, and hop by hop every server is reached from every other.
ASSUME HopIsTree ==
    /\ \A n \in Server : Hop[n][n] = n
    /\ \A n, s \in Server : s # n => Hop[n][s] # n /\ Hop[n][Hop[n][s]] = Hop[n][s]
    /\ \A n, m \in Server : Hop[n][m] = m => Hop[m][n] = n
    /\ \A n, s \in Server : s # n => Hop[Hop[n][s]][s] # n
    /\ \A n, s, t \in Server : n # s /\ Hop[n][t] # Hop[n][s] => Hop[s][t] = Hop[s][n]
    /\ \A s \in Server, S \in SUBSET Server :
          s \in S /\ (\A n \in Server : Hop[n][s] \in S => n \in S) => S = Server
    /\ \A d \in Dials : d[1] # d[2] /\ Hop[d[1]][d[2]] = d[2]

Adjacent(n) == {m \in Server \ {n} : Hop[n][m] = m}
Behind(n, m) == {s \in Server \ {n} : Hop[n][s] = m}

VARIABLES
    tab,     \* tab[n][u]: the nick and lastnick of u at n
    known,   \* known[n]: the servers n knows, itself included
    chan,    \* chan[<<m, n>>]: lines sent by m and not yet parsed by n
    signed,  \* the users that have signed on
    now,     \* TStime()
    turns,   \* things done by users so far
    losses,  \* links lost so far
    claims,  \* history: every nick a user took
    killed,  \* history: users killed by a server of its own accord
    ousted,  \* history: users that a user had killed
    raced    \* history: did a user act, or a link come or go, with lines in flight?

vars == <<tab, known, chan, signed, now, turns, losses, claims, killed, ousted, raced>>

Entry == [nick : Nick \cup {NoNick}, ts : 0..MaxNow]
Gone == [nick |-> NoNick, ts |-> 0]
Claim == [user : User, nick : Nick, ts : 0..MaxNow]
Msg == [type : {"SERVER", "INTRO", "SQUIT", "EOF"}, servers : SUBSET Server]
       \cup [type : {"NICK"}, claims : SUBSET Claim]
       \cup [type : {"CHANGE"}, claim : Claim]
       \cup [type : {"QUIT"}, user : User]
       \cup [type : {"KILL"}, by : Server \cup Nick, user : User]

SERVERMsg   == [type |-> "SERVER", servers |-> {}]
EOFMsg      == [type |-> "EOF", servers |-> {}]
INTROMsg(S) == [type |-> "INTRO", servers |-> S]
SQUITMsg(s) == [type |-> "SQUIT", servers |-> {s}]
NICKMsg(C)  == [type |-> "NICK", claims |-> C]
CHANGEMsg(c)  == [type |-> "CHANGE", claim |-> c]
QUITMsg(u)  == [type |-> "QUIT", user |-> u]
KILLMsg(b, u) == [type |-> "KILL", by |-> b, user |-> u]

Init ==
    /\ tab = [n \in Server |-> [u \in User |-> Gone]]
    /\ known = [n \in Server |-> Server]
    /\ chan = [c \in Server \X Server |-> <<>>]
    /\ signed = {} /\ now = 1 /\ turns = 0 /\ losses = 0
    /\ claims = {} /\ killed = {} /\ ousted = {} /\ raced = FALSE

-----------------------------------------------------------------------------
(* Helpers.                                                                *)

MakeClaim(u, k, t) == [user |-> u, nick |-> k, ts |-> t]
At(c) == [nick |-> c.nick, ts |-> c.ts]

\* FindClient.
Holder(n, k) == {u \in User : tab[n][u].nick = k}
From(n, u) == Hop[n][Home[u]]
Linked(n) == Adjacent(n) \cap known[n]
Others(n, m) == Linked(n) \ {m}

Sent(c, n, T, msg) ==
    [p \in Server \X Server |->
        IF p[1] = n /\ p[2] \in T THEN Append(c[p], msg) ELSE c[p]]

InFlight == \E p \in Server \X Server : chan[p] # <<>>

Parsed(m, n) == [chan EXCEPT ![<<m, n>>] = Tail(@)]

Arrives(n, m, t) ==
    /\ chan[<<m, n>>] # <<>>
    /\ Head(chan[<<m, n>>]).type = t
    /\ (t = "SERVER" <=> m \notin known[n])

Without(T, U) == [u \in User |-> IF u \in U THEN Gone ELSE T[u]]
Keeps(n, T) == tab' = [tab EXCEPT ![n] = T]

Overruled_Untold(c, n, m, h) ==                                    \* mutant
    Sent(c, n, Others(n, m), KILLMsg(n, h))

\* What a server says when it kills h because of a line from m: KILL to the
\* other links; to m, which is expected to see the same collision, a QUIT if
\* h is a client of this server and else nothing.
Overruled(c, n, m, h) ==
    LET K == Sent(c, n, Others(n, m), KILLMsg(n, h))
    IN  IF Home[h] = n THEN Sent(K, n, {m}, QUITMsg(h)) ELSE K

-----------------------------------------------------------------------------
(* What the users of a server do.                                          *)

\* register_user: the nick was free here.
SignOn(u, k) ==
    LET n == Home[u]
        c == MakeClaim(u, k, now)
    IN  /\ u \notin signed
        /\ Holder(n, k) = {}
        /\ signed' = signed \cup {u}
        /\ claims' = claims \cup {c}
        /\ Keeps(n, [tab[n] EXCEPT ![u] = At(c)])
        /\ chan' = Sent(chan, n, Linked(n), NICKMsg({c}))
        /\ UNCHANGED <<known, now, turns, losses, killed, ousted, raced>>

Acts(u) == /\ turns < MaxTurn
           /\ tab[Home[u]][u] # Gone
           /\ turns' = turns + 1
           /\ raced' = (raced \/ InFlight)
           /\ UNCHANGED <<known, signed, now, losses, killed>>

\* m_ghost, and "NICK nick!password": the holder is killed; exit_client adds
\* a QUIT, as nothing marks the victim as killed.
Ghosted(c, n, h) == Sent(Sent(c, n, Linked(n), KILLMsg(n, h)),
                         n, Linked(n), QUITMsg(h))

Ghost(u, h) ==
    LET n == Home[u]
    IN  /\ Acts(u)
        /\ h # u /\ tab[n][h] # Gone /\ u \in Owner[tab[n][h].nick]
        /\ Keeps(n, Without(tab[n], {h}))
        /\ chan' = Ghosted(chan, n, h)
        /\ ousted' = ousted \cup {h}
        /\ UNCHANGED claims

\* m_nick_local: a nick that is free, or held by somebody its owner ghosts.
ChangeNick(u, k) ==
    LET n == Home[u]
        c == MakeClaim(u, k, now)
        H == Holder(n, k)
        Changes(T, ch) ==
            /\ Keeps(n, [T EXCEPT ![u] = At(c)])
            /\ chan' = Sent(ch, n, Linked(n), CHANGEMsg(c))
    IN  /\ Acts(u)
        /\ u \notin H
        /\ \/ H = {} /\ Changes(tab[n], chan)
           \/ \E h \in H : /\ u \in Owner[k]
                           /\ Changes(Without(tab[n], H), Ghosted(chan, n, h))
        /\ claims' = claims \cup {c}
        /\ ousted' = ousted \cup H

\* m_quit and any other end of a local client that is no KILL from elsewhere,
\* the KILL of a local operator included: it is not passed on.
Quit(u) ==
    LET n == Home[u]
    IN  /\ Acts(u)
        /\ Keeps(n, Without(tab[n], {u}))
        /\ chan' = Sent(chan, n, Linked(n), QUITMsg(u))
        /\ UNCHANGED <<claims, ousted>>

\* m_kill by an operator, of a user of another server.  The line carries the
\* operator's nick.
OperKill(o, u) ==
    LET n == Home[o]
    IN  /\ o \in Oper /\ Acts(o)
        /\ Home[u] # n /\ tab[n][u] # Gone
        /\ Keeps(n, Without(tab[n], {u}))
        /\ chan' = Sent(chan, n, Linked(n), KILLMsg(tab[n][o].nick, u))
        /\ ousted' = ousted \cup {u}
        /\ UNCHANGED claims

Tick ==
    /\ now < MaxNow
    /\ now' = now + 1
    /\ UNCHANGED <<tab, known, chan, signed, turns, losses, claims, killed,
                   ousted, raced>>

-----------------------------------------------------------------------------
(* m_nick_remoto.                                                          *)

Differ(u, h) == HostOf[u] # HostOf[h]

Loses_Reversed(n, m, c, h) ==                                      \* mutant
    /\ From(n, h) # m
    /\ IF Differ(c.user, h) THEN c.ts <= tab[n][h].ts
       ELSE c.ts >= tab[n][h].ts

\* The claim c, come from m, gives way to the holder h: with another
\* user@host the older nick stays, with the same one the younger.  A holder
\* on the side of m always goes.
Loses(n, m, c, h) ==
    /\ From(n, h) # m
    /\ IF Differ(c.user, h) THEN c.ts >= tab[n][h].ts
       ELSE c.ts <= tab[n][h].ts

\* The code reads h's lastnick after exit_client has freed h; nothing is
\* allocated in between and RunFree is free, so it still reads what h had.
Equal(n, c, h) == c.ts = tab[n][h].ts

\* The rest of a burst stays at the head of the queue.
NickTaken(m, n, c) ==
    LET C == Head(chan[<<m, n>>]).claims \ {c}
    IN  IF C = {} THEN Parsed(m, n)
        ELSE [chan EXCEPT ![<<m, n>>] = <<NICKMsg(C)>> \o Tail(@)]

Same ==
    UNCHANGED <<known, signed, now, turns, losses, claims, ousted, raced>>

Introduce_Beside(n, m, c, T, ch) ==                                \* mutant
    /\ Keeps(n, [tab[n] EXCEPT ![c.user] = At(c)])
    /\ chan' = Sent(ch, n, Others(n, m), NICKMsg({c}))

\* SetRemoteNumNick and register_user: who had the numeric goes, the new
\* user is entered and passed on.
Introduce(n, m, c, T, ch) ==
    /\ Keeps(n, [T EXCEPT ![c.user] = At(c)])
    /\ chan' = Sent(IF T[c.user] = Gone THEN ch
                    ELSE Sent(ch, n, Others(n, m), QUITMsg(c.user)),
                    n, Others(n, m), NICKMsg({c}))

\* A server introduces a user.
RecvNick(n, m) ==
    /\ Arrives(n, m, "NICK")
    /\ \E c \in Head(chan[<<m, n>>]).claims :
       LET ch == NickTaken(m, n, c)
           H == Holder(n, c.nick)
       IN  \/ /\ H = {}
              /\ Introduce(n, m, c, tab[n], ch)
              /\ UNCHANGED killed
           \/ \E h \in H :
              /\ Loses(n, m, c, h) /\ ~Equal(n, c, h)
              /\ chan' = ch
              /\ UNCHANGED <<tab, killed>>
           \/ \E h \in H :
              /\ Equal(n, c, h)
              /\ Keeps(n, Without(tab[n], {h}))
              /\ chan' = Overruled(ch, n, m, h)
              /\ killed' = killed \cup {h}
           \/ \E h \in H :
              /\ ~Loses(n, m, c, h) /\ ~Equal(n, c, h)
              /\ Introduce(n, m, c, Without(tab[n], {h}),
                           Overruled(ch, n, m, h))
              /\ killed' = killed \cup {h}
    /\ Same

\* parse_server: a nick change by a numeric that is not known here is
\* answered with a KILL if its server is.
UnknownPrefix(c, n, m, u) ==
    IF Home[u] \in known[n] THEN Sent(c, n, {m}, KILLMsg(n, u)) ELSE c

\* A user changes its nick.
RecvChange(n, m) ==
    /\ Arrives(n, m, "CHANGE")
    /\ LET c == Head(chan[<<m, n>>]).claim
           u == c.user
           ch == Parsed(m, n)
           H == Holder(n, c.nick)
           Changes(T, x) == /\ Keeps(n, [T EXCEPT ![u] = At(c)])
                            /\ chan' = Sent(x, n, Others(n, m), CHANGEMsg(c))
           Ghosts(x) == Sent(x, n, Others(n, m), KILLMsg(n, u))
       IN  \/ /\ tab[n][u] = Gone
              /\ chan' = UnknownPrefix(ch, n, m, u)
              /\ killed' = killed \cup {u}
              /\ UNCHANGED tab
           \/ /\ tab[n][u] # Gone /\ H = {}
              /\ Changes(tab[n], ch)
              /\ UNCHANGED killed
           \/ \E h \in H :
              /\ tab[n][u] # Gone
              /\ Loses(n, m, c, h) /\ ~Equal(n, c, h)
              /\ Keeps(n, Without(tab[n], {u}))
              /\ chan' = Ghosts(ch)
              /\ killed' = killed \cup {u}
           \/ \E h \in H :
              /\ tab[n][u] # Gone
              /\ Loses(n, m, c, h) /\ Equal(n, c, h)
              /\ Keeps(n, Without(tab[n], {u, h}))
              /\ chan' = Overruled(Ghosts(ch), n, m, h)
              /\ killed' = killed \cup {u, h}
           \/ \E h \in H :
              /\ tab[n][u] # Gone
              /\ ~Loses(n, m, c, h) /\ Equal(n, c, h)
              /\ Keeps(n, Without(tab[n], {h}))
              /\ chan' = Overruled(ch, n, m, h)
              /\ killed' = killed \cup {h}
           \/ \E h \in H :
              /\ tab[n][u] # Gone
              /\ ~Loses(n, m, c, h) /\ ~Equal(n, c, h)
              /\ Changes(Without(tab[n], {h}), Overruled(ch, n, m, h))
              /\ killed' = killed \cup {h}
    /\ Same

-----------------------------------------------------------------------------
(* m_quit and m_kill from a server.                                        *)

\* A QUIT is obeyed only if it comes from where the user is.
RecvQuit(n, m) ==
    /\ Arrives(n, m, "QUIT")
    /\ LET u == Head(chan[<<m, n>>]).user
           ch == Parsed(m, n)
       IN  \/ /\ tab[n][u] = Gone \/ From(n, u) # m
              /\ chan' = ch
              /\ UNCHANGED tab
           \/ /\ tab[n][u] # Gone /\ From(n, u) = m
              /\ chan' = Sent(ch, n, Others(n, m), QUITMsg(u))
              /\ Keeps(n, Without(tab[n], {u}))
    /\ UNCHANGED killed
    /\ Same

\* parse_server: the sender, a server or a nick, is known and comes from m.
Sender(n, m, b) == \/ b \in known[n] /\ Hop[n][b] = m
                   \/ \E o \in User : tab[n][o].nick = b /\ From(n, o) = m

\* The home of the victim answers with a KILL of its own: the user may have
\* been introduced again on the way.
GhostFive(c, n, m, u) ==
    IF Home[u] = n THEN Sent(c, n, {m}, KILLMsg(n, u)) ELSE c

RecvKill(n, m) ==
    /\ Arrives(n, m, "KILL")
    /\ LET b == Head(chan[<<m, n>>]).by
           u == Head(chan[<<m, n>>]).user
           ch == Parsed(m, n)
           obeyed == Sender(n, m, b) /\ tab[n][u] # Gone
       IN  \/ /\ ~obeyed
              /\ chan' = ch
              /\ UNCHANGED tab
           \/ /\ obeyed
              /\ chan' = GhostFive(Sent(ch, n, Others(n, m), KILLMsg(b, u)),
                                   n, m, u)
              /\ Keeps(n, Without(tab[n], {u}))
    /\ UNCHANGED killed
    /\ Same

-----------------------------------------------------------------------------
(* Links.                                                                  *)

\* The servers that n reaches through s, s included, and their users.
Beyond(n, s) == {s} \cup {t \in Server : Hop[s][t] # Hop[s][n]}
UsersOf(S) == {u \in User : Home[u] \in S}

\* exit_client of a server: all behind it goes and the other links hear of it.
Dropped(n, s) ==
    /\ known' = [known EXCEPT ![n] = @ \ Beyond(n, s)]
    /\ Keeps(n, Without(tab[n], UsersOf(Beyond(n, s))))

Squitted_Silent(c, n, m, s) == c                                   \* mutant

Squitted(c, n, m, s) == Sent(c, n, Others(n, m), SQUITMsg(s))

\* n closes the link to m; what m has not read yet may still reach it.
LinkLoss(n, m) ==
    /\ losses < MaxLoss
    /\ m \in Linked(n)
    /\ Dropped(n, m)
    /\ \E lossy \in BOOLEAN :
         chan' = Squitted([chan EXCEPT
                    ![<<n, m>>] = IF n \notin known[m] THEN <<>>
                                  ELSE Append(IF lossy THEN <<>> ELSE @, EOFMsg),
                    ![<<m, n>>] = <<>>], n, m, m)
    /\ losses' = losses + 1
    /\ raced' = (raced \/ InFlight)
    /\ UNCHANGED <<signed, now, turns, claims, killed, ousted>>

RecvEOF(n, m) ==
    /\ Arrives(n, m, "EOF")
    /\ Dropped(n, m)
    /\ chan' = Squitted([chan EXCEPT ![<<m, n>>] = <<>>, ![<<n, m>>] = <<>>],
                        n, m, m)
    /\ UNCHANGED <<signed, now, turns, losses, claims, killed, ousted, raced>>

\* m_squit from a server.  The line comes from where the server is, and links
\* keep their order, so the server is known here and the timestamp is right.
RecvSQUIT(n, m) ==
    /\ Arrives(n, m, "SQUIT")
    /\ \E s \in Head(chan[<<m, n>>]).servers :
         /\ Dropped(n, s)
         /\ chan' = Squitted(Parsed(m, n), n, m, s)
    /\ UNCHANGED <<signed, now, turns, losses, claims, killed, ousted, raced>>

Connect(i, a) ==
    /\ <<i, a>> \in Dials
    /\ a \notin known[i] /\ i \notin known[a]
    /\ chan[<<i, a>>] = <<>> /\ chan[<<a, i>>] = <<>>
    /\ chan' = [chan EXCEPT ![<<i, a>>] = <<SERVERMsg>>]
    /\ raced' = (raced \/ InFlight)
    /\ UNCHANGED <<tab, known, signed, now, turns, losses, claims, killed,
                   ousted>>

ClaimsOf(T) == {MakeClaim(u, T[u].nick, T[u].ts) : u \in {v \in User : T[v] # Gone}}

\* m_server_estab: the other links hear of m; m hears of our servers and then
\* of our users.
RecvSERVER(n, m) ==
    /\ Arrives(n, m, "SERVER")
    /\ known' = [known EXCEPT ![n] = @ \cup {m}]
    /\ LET hello == IF <<m, n>> \in Dials THEN <<SERVERMsg>> ELSE <<>>
           names == IF known[n] = {n} THEN <<>>
                    ELSE <<INTROMsg(known[n] \ {n})>>
           users == IF ClaimsOf(tab[n]) = {} THEN <<>>
                    ELSE <<NICKMsg(ClaimsOf(tab[n]))>>
       IN  chan' = [Sent(Parsed(m, n), n, Others(n, m), INTROMsg({m}))
                    EXCEPT ![<<n, m>>] = @ \o hello \o names \o users]
    /\ UNCHANGED <<tab, signed, now, turns, losses, claims, killed, ousted, raced>>

\* m_server, a server behind m.
RecvINTRO(n, m) ==
    /\ Arrives(n, m, "INTRO")
    /\ known' = [known EXCEPT ![n] = @ \cup Head(chan[<<m, n>>]).servers]
    /\ chan' = Sent(Parsed(m, n), n, Others(n, m), Head(chan[<<m, n>>]))
    /\ UNCHANGED <<tab, signed, now, turns, losses, claims, killed, ousted, raced>>

-----------------------------------------------------------------------------
Deliver(n, m) ==
    \/ RecvNick(n, m) \/ RecvChange(n, m)
    \/ RecvQuit(n, m) \/ RecvKill(n, m)
    \/ RecvSERVER(n, m) \/ RecvINTRO(n, m)
    \/ RecvSQUIT(n, m) \/ RecvEOF(n, m)

Next ==
    \/ \E u \in User, k \in Nick : SignOn(u, k) \/ ChangeNick(u, k)
    \/ \E u \in User : Quit(u)
    \/ \E u, h \in User : Ghost(u, h) \/ OperKill(u, h)
    \/ \E n, m \in Server : Deliver(n, m)
    \/ \E n, m \in Server : LinkLoss(n, m) \/ Connect(n, m)
    \/ Tick

Spec == Init /\ [][Next]_vars

-----------------------------------------------------------------------------
(* Properties.                                                             *)

\* Types.
TypeOK ==
    /\ tab \in [Server -> [User -> Entry]]
    /\ known \in [Server -> SUBSET Server]
    /\ chan \in [Server \X Server -> Seq(Msg)]
    /\ signed \subseteq User /\ killed \subseteq User /\ ousted \subseteq User
    /\ claims \subseteq Claim
    /\ now \in 1..MaxNow /\ turns \in 0..MaxTurn /\ losses \in 0..MaxLoss
    /\ raced \in BOOLEAN

\* No server ever has two users with one nick: the hash table of names and
\* everything that looks a client up by name rely on it.
NickUnique ==
    \A n \in Server, k \in Nick : Cardinality(Holder(n, k)) <= 1

\* A server kills of its own accord only users that took a nick somebody else
\* had the better right to ("Only kills the RIGHT person, when a nick
\* collision occurs", doc/history/ircd_old/ChangeLog-2.8), over splits, bursts,
\* crossing nick changes, ghosts and operators' kills.
RightOneKilled ==
    \A u \in killed \ ousted : \E c, d \in claims :
        /\ c.user = u /\ d.user # u /\ c.nick = d.nick
        /\ IF Differ(u, d.user) THEN d.ts <= c.ts ELSE d.ts >= c.ts

\* Collisions leave one holder of a nick at every server (NickUnique) and
\* take the right user for it (RightOneKilled).
CollisionsSettled == TypeOK /\ NickUnique /\ RightOneKilled

Quiet == /\ ~InFlight
         /\ \A n \in Server : known[n] = Server

\* With every link up and nothing in flight all servers have the same users
\* with the same nicks.
NickAgreement ==
    Quiet => \A n \in Server, u \in User : tab[n][u] = tab[Home[u]][u]

\* The same as long as users leave nicks, and links come and go, only with
\* nothing in flight: collisions of users that sign on in different places, or
\* on the two sides of a split, are settled alike by all servers, each on its
\* own (the burst of m_server_estab, m_nick_remoto, m_kill).  It is checked
\* for two users of one user@host and for three who all differ: of three who
\* claim one nick, two of them alike, a server may keep one that the others
\* have killed.
SignOnAgreement == raced \/ NickAgreement
=============================================================================
