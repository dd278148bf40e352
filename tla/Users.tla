------------------------------- MODULE Users --------------------------------
(***************************************************************************)
(* Names and modes of the users of one server: NICK with a password, the   *)
(* tables of nicks and operators and what a change of a record does to the *)
(* user who holds the nick, MODE, OPER, SVSMODE, SVSNICK, the counters     *)
(* LUSERS shows, the lists of WATCH and the ring of WHOWAS.                *)
(*                                                                         *)
(* Modes: r nick registered, S nick suspended, o and O operator and local  *)
(* operator, h helper (a, C and B are treated as h is, without a counter), *)
(* i invisible, k channel service.  The nick flood limit appears as the    *)
(* choice fast.  The automodes of a nick record are modes its user gets    *)
(* with the nick, whatever they are; nobody counts them.                   *)
(***************************************************************************)
EXTENDS Integers, Sequences, FiniteSets, SequencesExt

CONSTANTS
    Local, Remote,  \* clients of this server, users of others
    Name, Guest,    \* nicks users choose; nicks of the form invitado-XXXXXX
    Vip,            \* names with a record in the table of virtual hosts
    Lines,          \* kinds of O: line: "o", "O"
    AutoModes,      \* auto_usermodes
    Autos,          \* Autos[n]: the automodes that records of n come with
    MaxWatch,       \* MAXWATCH
    Hist,           \* NICKNAMEHISTORYLENGTH
    Plans, MaxTurn  \* bounds: sets of commands a behaviour keeps to; commands

Client == Local \cup Remote
Nick == Name \cup Guest
Modes == {"r", "S", "o", "O", "h", "i", "k"}
None == "none"

ASSUME UserConstants ==
    /\ Local \cap Remote = {} /\ Name \cap Guest = {} /\ Vip \subseteq Name
    /\ IsFiniteSet(Client) /\ None \notin Nick \cup Client
    /\ Lines \subseteq {"o", "O"} /\ AutoModes \subseteq {"i"}
    /\ Autos \in [Name -> SUBSET SUBSET Modes]
    /\ MaxWatch \in Nat \ {0} /\ Hist \in Nat \ {0} /\ MaxTurn \in Nat
    /\ Cardinality(Guest) > Cardinality(Local)

VARIABLES
    who,        \* who[u]: struct Client and struct User
    ndb, adb,   \* the table ESNET_NICKDB: state and automodes of a record
    odb,        \* the table BDD_OPERDB
    cnt,        \* nrof.opers, helpers, inv_clients; missed: users who got +i uncounted
    wl,         \* wl[n]: aWatch->watch, who watches n
    uw, cw,     \* uw[u], cw[u]: user->watch, user->cwatch
    told,       \* told[u][n]: what u last heard of n
    early,      \* early[u]: nicks WATCH showed u on line before their sign on
    wtab, wnext,\* whowas[], whowas_next
    hl, cl,     \* the list of each hash value, and of each client (cptr->whowas)
    exempt,     \* users whose modes came from services or a table behind their back
    clash,      \* nicks that two clients have held at once
    turns, plan

wvars == <<wl, uw, cw, told, early>>
hvars == <<wtab, wnext, hl, cl>>
userVars == <<who, ndb, adb, odb, cnt, wvars, hvars, exempt, clash, turns, plan>>

\* st: NICK given ("named"), cookie answered ("ponged"), IsUser.  cmd is
\* IsOperCmd, wait the flag MODE_ISWATCH.  extra is history: of h and o, what
\* the user has from automodes or kept from a nick it had while registering.
\* So are early, cnt.missed, exempt and clash: no step depends on them.
Status == {"none", "named", "ponged", "user"}
Record == [st : Status, nick : Nick \cup {None}, modes : SUBSET Modes, cmd : BOOLEAN,
           privs : {"none", "line", "table"}, wait : BOOLEAN,
           extra : SUBSET {"h", "o"}]
Gone == [st |-> "none", nick |-> None, modes |-> {}, cmd |-> FALSE, privs |-> "none",
         wait |-> FALSE, extra |-> {}]
Unused == [nick |-> None, online |-> None]

UserInit ==
    /\ who = [u \in Client |-> Gone]
    /\ ndb = [n \in Nick |-> "none"] /\ adb = [n \in Nick |-> {}]
    /\ odb = [n \in Nick |-> {}]
    /\ cnt = [opers |-> 0, helpers |-> 0, inv |-> 0, missed |-> 0]
    /\ wl = [n \in Nick |-> {}] /\ uw = [u \in Client |-> {}] /\ cw = [u \in Client |-> 0]
    /\ told = [u \in Client |-> [n \in Nick |-> "off"]]
    /\ early = [u \in Client |-> {}]
    /\ wtab = [i \in 1..Hist |-> Unused] /\ wnext = 1
    /\ hl = [n \in Nick |-> <<>>] /\ cl = [u \in Client |-> <<>>]
    /\ exempt = {} /\ clash = {}
    /\ turns = 0 /\ plan \in Plans

IsUser(u) == who[u].st = "user"
FindUser(n) == {u \in Client : IsUser(u) /\ who[u].nick = n}
FindClient(n) == {u \in Client : who[u].nick = n}
IsAnOper(m) == m \cap {"o", "O"} # {}
Acts(k) == k \in plan /\ turns < MaxTurn /\ turns' = turns + 1 /\ UNCHANGED plan
One(p) == IF p THEN 1 ELSE 0
Tables == UNCHANGED <<ndb, adb, odb>>

\* The counters follow a change of modes from a to b.
Counted(c, a, b) ==
    [opers |-> c.opers + One("o" \in b) - One("o" \in a),
     helpers |-> c.helpers + One("h" \in b) - One("h" \in a),
     inv |-> c.inv, missed |-> c.missed]

-----------------------------------------------------------------------------
(* WATCH and WHOWAS.                                                       *)

\* chequea_estado_watch: those who watch n hear it.
Heard(t, n, what) ==
    [w \in Client |-> IF w \in wl[n] THEN [t[w] EXCEPT ![n] = what] ELSE t[w]]
Past(ns) == [w \in Client |-> early[w] \ ns]

Drops(s, i) == RemoveFirst(s, i)
Used(i) == wtab[i].nick # None
IsLast(i, s) == s # <<>> /\ Last(s) = i

add_history_NoOff(u, n, on) ==                                       \* mutant
    LET i == wnext
        old == wtab[i]
        hl1 == IF Used(i) THEN [hl EXCEPT ![old.nick] = Drops(@, i)] ELSE hl
        cl1 == IF Used(i) /\ old.online # None THEN [cl EXCEPT ![old.online] = Drops(@, i)] ELSE cl
    IN  /\ wnext' = IF i = Hist THEN 1 ELSE i + 1
        /\ hl' = [hl1 EXCEPT ![n] = <<i>> \o @]
        /\ wtab' = [wtab EXCEPT ![i] = [nick |-> n, online |-> IF on THEN u ELSE None]]
        /\ cl' = [cl1 EXCEPT ![u] = IF on THEN <<i>> \o @ ELSE <<>>]

\* add_history, with the entry of the ring it overwrites taken from its lists.
add_history(u, n, on) ==
    LET i == wnext
        old == wtab[i]
        hl1 == IF Used(i) THEN [hl EXCEPT ![old.nick] = Drops(@, i)] ELSE hl
        cl1 == IF Used(i) /\ old.online # None THEN [cl EXCEPT ![old.online] = Drops(@, i)] ELSE cl
    IN  /\ wnext' = IF i = Hist THEN 1 ELSE i + 1
        /\ hl' = [hl1 EXCEPT ![n] = <<i>> \o @]
        /\ wtab' = [j \in 1..Hist |->
                      IF j = i THEN [nick |-> n, online |-> IF on THEN u ELSE None]
                      ELSE IF ~on /\ j \in ToSet(cl1[u]) THEN [wtab[j] EXCEPT !.online = None]
                      ELSE wtab[j]]
        /\ cl' = [cl1 EXCEPT ![u] = IF on THEN <<i>> \o @ ELSE <<>>]

\* get_history: the client that last gave up n, while it is on line.
get_history(n) == IF hl[n] = <<>> THEN None ELSE wtab[Head(hl[n])].online

\* m_watch: + (agrega_nick_watch, muestra_estado_watch), - and C.  The answer
\* is that of FindClient, which finds a client that is still registering too.
Watch(u, n) ==
    /\ u \in Local /\ IsUser(u) /\ cw[u] < MaxWatch
    /\ Acts("watch")
    /\ wl' = [wl EXCEPT ![n] = @ \cup {u}]
    /\ uw' = [uw EXCEPT ![u] = @ \cup {n}]
    /\ cw' = [cw EXCEPT ![u] = IF u \in wl[n] THEN @ ELSE @ + 1]
    /\ told' = [told EXCEPT ![u][n] = IF FindClient(n) # {} THEN "on" ELSE "off"]
    /\ early' = [early EXCEPT ![u] = IF FindClient(n) # {} /\ FindUser(n) = {}
                                     THEN @ \cup {n} ELSE @ \ {n}]
    /\ Tables /\ UNCHANGED <<who, cnt, hvars, exempt, clash>>

Unwatch_Blind(u, n) ==                                               \* mutant
    /\ u \in Local /\ IsUser(u) /\ Acts("watch")
    /\ wl' = [wl EXCEPT ![n] = @ \ {u}]
    /\ uw' = [uw EXCEPT ![u] = @ \ {n}]
    /\ cw' = [cw EXCEPT ![u] = @ - 1]
    /\ told' = [told EXCEPT ![u][n] = "off"] /\ early' = [early EXCEPT ![u] = @ \ {n}]
    /\ Tables /\ UNCHANGED <<who, cnt, hvars, exempt, clash>>

Unwatch(u, n) ==
    /\ u \in wl[n] /\ IsUser(u) /\ Acts("watch")
    /\ wl' = [wl EXCEPT ![n] = @ \ {u}]
    /\ uw' = [uw EXCEPT ![u] = @ \ {n}]
    /\ cw' = [cw EXCEPT ![u] = @ - 1]
    /\ told' = [told EXCEPT ![u][n] = "off"] /\ early' = [early EXCEPT ![u] = @ \ {n}]
    /\ Tables /\ UNCHANGED <<who, cnt, hvars, exempt, clash>>

\* borra_lista_watch.
NoWatch(u) == [n \in Nick |-> wl[n] \ {u}]
UnwatchAll(u) ==
    /\ u \in Local /\ IsUser(u) /\ uw[u] # {} /\ Acts("watch")
    /\ wl' = NoWatch(u) /\ uw' = [uw EXCEPT ![u] = {}] /\ cw' = [cw EXCEPT ![u] = 0]
    /\ told' = [told EXCEPT ![u] = [n \in Nick |-> "off"]]
    /\ early' = [early EXCEPT ![u] = {}]
    /\ Tables /\ UNCHANGED <<who, cnt, hvars, exempt, clash>>

-----------------------------------------------------------------------------
(* Names.                                                                  *)

Without(x, M) == [x EXCEPT !.modes = @ \ M, !.extra = @ \ M]
Stripped(x) == Without(x, {"r", "S", "h", "o"})

\* get_status and set_privs: what the operator table gives the nick.
get_status(n) == odb[n]
Granted(x, n) ==
    [x EXCEPT !.modes = @ \cup get_status(n),
              !.privs = IF "o" \in get_status(n) THEN "table" ELSE @]

\* mask_user_flags: the automodes a only add, and count nothing.
Given(x, a) == [x EXCEPT !.modes = @ \cup a, !.extra = @ \cup (a \cap {"h", "o"})]
Missed(c, x, a) == [c EXCEPT !.missed = @ + One(x.st = "user" /\ "i" \in a \ x.modes)]

\* What NICK makes of a client that takes n, before the automodes; ok: the
\* password was right.  Only a registered user loses the modes of the old nick
\* first; the others keep them if n is in the operator table.
Parted(x) == IF x.modes \cap {"r", "S"} # {} THEN Stripped(x) ELSE x
Named(x, n, ok) ==
    LET y == [(IF x.st = "user" THEN Parted(x) ELSE x) EXCEPT !.nick = n]
        r == [y EXCEPT !.modes = @ \cup {"r"}]
    IN  IF ~ok THEN Stripped(y)
        ELSE IF ndb[n] = "susp"
        THEN [Without(y, {"h", "o"}) EXCEPT !.modes = @ \cup {"S"}]
        ELSE IF get_status(n) = {} THEN Without(r, {"h", "o"})
        ELSE [Granted(r, n) EXCEPT !.extra = (y.modes \cap {"h", "o"}) \ get_status(n)]
automodes(n) == IF ndb[n] \in {"none", "susp"} THEN {} ELSE adb[n]

Left_KeepsInv(c, x) ==                                               \* mutant
    IF x.st # "user" THEN c ELSE Counted(c, x.modes, {})

\* exit_one_client: an unregistered client is counted nowhere.
Left(c, x) ==
    IF x.st # "user" THEN c
    ELSE [Counted(c, x.modes, {}) EXCEPT !.inv = @ - One("i" \in x.modes)]

\* m_nick_local by a client without a name.  The holder of n may be an
\* unregistered client of ours, which is thrown out.  nopass: the table does
\* not ask, since n has no record.
Taken(n) == \E v \in FindClient(n) : IsUser(v) \/ v \in Remote
Allowed(n, ok, suspends) ==
    \/ ndb[n] = "none" /\ ~ok
    \/ ndb[n] = "ok" /\ ok
    \/ ndb[n] = "susp" /\ ok /\ suspends

FirstNick(u, n, ok, suspends) ==
    LET x == Named([Gone EXCEPT !.st = "named", !.modes = AutoModes], n, ok)
        y == Given(x, IF ok THEN automodes(n) ELSE {})
    IN  /\ u \in Local /\ who[u] = Gone /\ ~Taken(n) /\ Allowed(n, ok, suspends)
        /\ Acts("nick")
        /\ who' = [v \in Client |-> IF v = u THEN y ELSE IF v \in FindClient(n) THEN Gone ELSE who[v]]
        /\ cnt' = Counted(cnt, {}, x.modes)
        /\ exempt' = exempt \ ({u} \cup FindClient(n))
        /\ Tables /\ UNCHANGED <<wvars, hvars, clash>>

\* register_user for a client of ours: PONG or USER completes it.
Registered(u, x) ==
    /\ who' = [who EXCEPT ![u] = x]
    /\ cnt' = [cnt EXCEPT !.inv = @ + One("i" \in x.modes)]
    /\ told' = Heard(told, x.nick, "on") /\ early' = Past({x.nick})
    /\ UNCHANGED <<wl, uw, cw>>

Pong(u, complete) ==
    /\ who[u].st = "named" /\ Acts("nick")
    /\ IF complete THEN Registered(u, [who[u] EXCEPT !.st = "user"])
       ELSE who' = [who EXCEPT ![u].st = "ponged"] /\ UNCHANGED <<cnt, wvars>>
    /\ Tables /\ UNCHANGED <<hvars, exempt, clash>>

UserCmd(u) ==
    /\ who[u].st = "ponged" /\ Acts("nick")
    /\ Registered(u, [who[u] EXCEPT !.st = "user"])
    /\ Tables /\ UNCHANGED <<hvars, exempt, clash>>

Moves_Silent(u, x, on) ==                                            \* mutant
    /\ told' = IF on THEN Heard(told, x.nick, "on") ELSE told
    /\ early' = Past({who[u].nick} \cup IF on THEN {x.nick} ELSE {})
    /\ add_history(u, who[u].nick, TRUE)
    /\ UNCHANGED <<wl, uw, cw>>

\* A registered user leaves the name n for x.nick.
Moves(u, x, on) ==
    /\ told' = IF on THEN Heard(Heard(told, who[u].nick, "off"), x.nick, "on")
               ELSE Heard(told, who[u].nick, "off")
    /\ early' = Past({who[u].nick} \cup IF on THEN {x.nick} ELSE {})
    /\ add_history(u, who[u].nick, TRUE)
    /\ UNCHANGED <<wl, uw, cw>>

\* m_nick_local by a client that has one.  Channel services may change nick
\* while the flood limit lasts, and then nobody asks for a password.  With a
\* right password and "!" the holder is killed (ghost).
ChangeNick(u, n, ok, fast, suspends) ==
    LET x == Named(who[u], n, ok /\ ~fast)
        a == IF ok /\ ~fast THEN automodes(n) ELSE {}
        y == Given(x, a)
    IN  /\ u \in Local /\ who[u].st \in {"ponged", "user"} /\ who[u].nick # n
        /\ FindClient(n) \subseteq {v \in Local : ~IsUser(v)}
        /\ IF fast THEN "k" \in who[u].modes /\ ~ok ELSE Allowed(n, ok, suspends)
        /\ Acts("nick")
        /\ who' = [v \in Client |-> IF v = u THEN y ELSE IF v \in FindClient(n) THEN Gone ELSE who[v]]
        /\ cnt' = Missed(Counted(cnt, who[u].modes, x.modes), x, a)
        /\ IF IsUser(u) THEN Moves(u, y, TRUE) ELSE UNCHANGED <<wvars, hvars>>
        /\ exempt' = (exempt \ (FindClient(n) \cup {u})) \cup (IF fast THEN {u} ELSE {})
        /\ Tables /\ UNCHANGED clash

\* exit_one_client and remove_client_from_list.
Exit(u) ==
    /\ who[u] # Gone /\ Acts("quit")
    /\ who' = [who EXCEPT ![u] = Gone]
    /\ cnt' = Left(cnt, who[u])
    /\ IF IsUser(u)
       THEN /\ told' = [Heard(told, who[u].nick, "off") EXCEPT ![u] = [n \in Nick |-> "off"]]
            /\ early' = [Past({who[u].nick}) EXCEPT ![u] = {}]
            /\ wl' = NoWatch(u) /\ uw' = [uw EXCEPT ![u] = {}] /\ cw' = [cw EXCEPT ![u] = 0]
            /\ add_history(u, who[u].nick, FALSE)
       ELSE UNCHANGED <<wvars, hvars>>
    /\ exempt' = exempt \ {u}
    /\ Tables /\ UNCHANGED clash

\* rename_user: the modes of a registered nick go, those of the new one come,
\* its automodes last.
Renamed(x, n) ==
    LET y == [Parted(x) EXCEPT !.nick = n]
    IN  IF ndb[n] = "none" THEN y
        ELSE IF ndb[n] = "susp" THEN [y EXCEPT !.modes = @ \cup {"S"}]
        ELSE Granted([y EXCEPT !.modes = @ \cup {"r"}], n)

rename_user(u, x, n) ==
    LET y == Renamed(x, n)
    IN  /\ who' = [who EXCEPT ![u] = Given(y, automodes(n))]
        /\ cnt' = Missed(Counted(cnt, who[u].modes, y.modes), y, automodes(n))
        /\ Moves(u, y, TRUE)

\* m_svsnick: to a name no user holds (a client that is still registering
\* may hold it), or to a guest name.
SvsNick(u, n) ==
    /\ u \in Local /\ IsUser(u) /\ FindUser(n) = {}
    /\ n \in Guest \/ ndb[n] # "forbid"
    /\ n \in Guest => FindClient(n) = {}
    /\ Acts("svs")
    /\ rename_user(u, who[u], n)
    /\ exempt' = exempt \cup {u}
    /\ clash' = IF FindClient(n) = {} THEN clash ELSE clash \cup {n}
    /\ Tables

-----------------------------------------------------------------------------
(* Modes.                                                                  *)

HasPriv(m, x) == IsAnOper(m) /\ x.privs # "none"

\* The flags of the line, as m_umode and m_svsumode read it.
Flagged(m, add, f) ==
    IF add THEN m \cup {f} ELSE IF f \in {"o", "O"} THEN m \ {"o", "O"} ELSE m \ {f}

\* What m_umode lets stand of them for a client of ours.
Permitted(x, m) ==
    LET old == x.modes
        s == get_status(x.nick)
        m1 == m \ (IF "o" \notin old /\ "o" \notin s THEN {"o"} ELSE {})
        m2 == m1 \ (IF "O" \notin old THEN {"O"} ELSE {})
        m3 == (m2 \ {"r", "S"}) \cup (old \cap {"r", "S"})
        m4 == IF "r" \in m3
              THEN m3 \ (IF "h" \notin old /\ "h" \notin s THEN {"h"} ELSE {})
              ELSE m3 \ {"h", "o"}
    IN  m4 \ (IF "k" \notin old /\ ~HasPriv(m4, x) THEN {"k"} ELSE {})

\* Helper and operator flags of an unregistered nick are counted off where
\* they are cleared, and once more with all the differences.
Umode(u, add, f) ==
    LET x == who[u]
        m == Flagged(x.modes, add, f)
        new == Permitted(x, m)
        bare == "r" \notin x.modes
        y == [x EXCEPT !.modes = new, !.extra = @ \cap new, !.cmd = @ /\ (add \/ f \notin {"o", "O"})]
        c == [cnt EXCEPT !.helpers = @ - One(bare /\ "h" \in m),
                         !.opers = @ - One(bare /\ "o" \in m \cap (x.modes \cup get_status(x.nick)))]
    IN  /\ u \in Local /\ IsUser(u) /\ Acts("umode")
        /\ who' = [who EXCEPT ![u] = y]
        /\ cnt' = [Counted(c, x.modes, new) EXCEPT !.inv = @ + One("i" \in new) - One("i" \in x.modes)]
        /\ Tables /\ UNCHANGED <<wvars, hvars, exempt, clash>>

\* m_oper with a line of kind k.
Oper(u, k) ==
    LET y == [who[u] EXCEPT !.modes = @ \cup {k}, !.cmd = TRUE, !.privs = "line"]
    IN  /\ u \in Local /\ IsUser(u) /\ ~IsAnOper(who[u].modes)
        /\ Acts("oper")
        /\ who' = [who EXCEPT ![u] = y]
        /\ cnt' = Counted(cnt, who[u].modes, y.modes)
        /\ Tables /\ UNCHANGED <<wvars, hvars, exempt, clash>>

\* m_svsumode, and m_umode of a remote user: taken as they come.  A remote
\* user's MODE also releases the notice of WATCH that its NICK held back.
SvsUmode(u, add, f) ==
    LET new == Flagged(who[u].modes, add, f)
        y == [who[u] EXCEPT !.modes = new, !.extra = @ \cap new, !.wait = FALSE]
        held == u \in Remote /\ who[u].wait
    IN  /\ IsUser(u) /\ (new # who[u].modes \/ held)
        /\ Acts(IF u \in Local THEN "svs" ELSE "remote")
        /\ who' = [who EXCEPT ![u] = y]
        /\ cnt' = [Counted(cnt, who[u].modes, new) EXCEPT
                      !.inv = @ + One("i" \in new) - One("i" \in who[u].modes)]
        /\ told' = IF held THEN Heard(told, who[u].nick, "on") ELSE told
        /\ early' = IF held THEN Past({who[u].nick}) ELSE early
        /\ exempt' = exempt \cup ({u} \cap Local)
        /\ Tables /\ UNCHANGED <<wl, uw, cw, hvars, clash>>

-----------------------------------------------------------------------------
(* Users of other servers (m_nick_remoto).                                 *)

\* A server introduces a user: its operator flag is not counted.
Introduce(u, n, m) ==
    /\ u \in Remote /\ who[u] = Gone /\ FindClient(n) = {}
    /\ Acts("remote")
    /\ who' = [who EXCEPT ![u] = [Gone EXCEPT !.st = "user", !.nick = n, !.modes = m]]
    /\ cnt' = [cnt EXCEPT !.inv = @ + One("i" \in m), !.helpers = @ + One("h" \in m)]
    /\ told' = Heard(told, n, "on") /\ early' = Past({n})
    /\ Tables /\ UNCHANGED <<wl, uw, cw, hvars, exempt, clash>>

RemoteNick(u, n) ==
    LET y == [Parted(who[u]) EXCEPT !.nick = n, !.wait = n \in Vip]
    IN  /\ u \in Remote /\ IsUser(u) /\ FindClient(n) = {}
        /\ Acts("remote")
        /\ who' = [who EXCEPT ![u] = y]
        /\ cnt' = Counted(cnt, who[u].modes, y.modes)
        /\ Moves(u, y, n \notin Vip)
        /\ Tables /\ UNCHANGED <<exempt, clash>>

-----------------------------------------------------------------------------
(* Records of the tables.  FindUser finds no client that is registering.   *)

Ours(n) == FindUser(n) \cap Local
Unfinished(n) == {u \in Local : who[u].st \in {"named", "ponged"} /\ who[u].nick = n}
Free == {g \in Guest : FindClient(g) = {}}

NickEffect_NoRename(u, x, v, a) ==                                   \* mutant
    /\ who' = [who EXCEPT ![u] = x]
    /\ cnt' = Counted(cnt, who[u].modes, x.modes)
    /\ UNCHANGED <<wvars, hvars>>

\* What db_insertar_registro does for the nick table; x is the user as the
\* operator table, whose case falls into this one, has left it; a: the
\* automodes of the record.
NickEffect(u, x, v, a) ==
    IF v # "ok" \/ x.modes \cap {"r", "S"} = {}
    THEN \E g \in Free : rename_user(u, x, g)
    ELSE LET y == IF "S" \in x.modes
                  THEN Granted([x EXCEPT !.modes = (@ \ {"S"}) \cup {"r"}], x.nick) ELSE x
         IN  /\ who' = [who EXCEPT ![u] = Given(y, a)]
             /\ cnt' = Missed(Counted(cnt, who[u].modes, y.modes), y, a)
             /\ UNCHANGED <<wvars, hvars>>

Nothing == UNCHANGED <<who, cnt, wvars, hvars>>

InsertNick(n, v, a) ==
    /\ ndb[n] # v \/ adb[n] # a
    /\ Acts("table")
    /\ ndb' = [ndb EXCEPT ![n] = v] /\ adb' = [adb EXCEPT ![n] = a]
    /\ IF Ours(n) = {} THEN Nothing ELSE \E u \in Ours(n) : NickEffect(u, who[u], v, a)
    /\ exempt' = exempt \cup Unfinished(n)
    /\ UNCHANGED <<odb, clash>>

\* The old record goes first, and with it the modes.  The case falls into that
\* of the nick table with the operator's record, which has no automodes.
InsertOper(n, s) ==
    /\ odb[n] # s /\ s # {} /\ Acts("status")
    /\ odb' = [odb EXCEPT ![n] = s]
    /\ IF Ours(n) = {} THEN Nothing
       ELSE \E u \in Ours(n) :
              LET x == IF odb[n] = {} THEN who[u] ELSE Without(who[u], {"h", "o"})
                  y == IF "r" \notin x.modes THEN x
                       ELSE [x EXCEPT !.modes = @ \cup s,
                                      !.privs = IF "o" \in s THEN "table" ELSE @]
              IN  IF x.modes \cap {"r", "S"} = {} THEN \E g \in Free : rename_user(u, x, g)
                  ELSE LET z == IF "S" \in y.modes
                                THEN [y EXCEPT !.modes = (@ \ {"S"}) \cup {"r"} \cup s,
                                               !.privs = IF "o" \in s THEN "table" ELSE @] ELSE y
                       IN  /\ who' = [who EXCEPT ![u] = z]
                           /\ cnt' = Counted(cnt, who[u].modes, z.modes)
                           /\ UNCHANGED <<wvars, hvars>>
    /\ exempt' = exempt \cup Unfinished(n)
    /\ UNCHANGED <<ndb, adb, clash>>

\* db_eliminar_registro, of either table.
Deprived(n, M) ==
    /\ who' = [u \in Client |-> IF u \in Ours(n) THEN Without(who[u], M) ELSE who[u]]
    /\ cnt' = IF Ours(n) = {} THEN cnt
              ELSE LET u == CHOOSE v \in Ours(n) : TRUE
                   IN  Counted(cnt, who[u].modes, who[u].modes \ M)
    /\ exempt' = exempt \cup Unfinished(n)
    /\ UNCHANGED <<wvars, hvars, clash>>

DeleteNick(n) ==
    /\ ndb[n] # "none" /\ Acts("table")
    /\ ndb' = [ndb EXCEPT ![n] = "none"] /\ adb' = [adb EXCEPT ![n] = {}]
    /\ Deprived(n, {"r", "S", "h", "o"})
    /\ UNCHANGED odb

DeleteOper_Late(n) ==                                                \* mutant
    /\ odb[n] # {} /\ Acts("status")
    /\ odb' = [odb EXCEPT ![n] = {}]
    /\ Nothing /\ UNCHANGED <<ndb, adb, exempt, clash>>

DeleteOper(n) ==
    /\ odb[n] # {} /\ Acts("status")
    /\ odb' = [odb EXCEPT ![n] = {}]
    /\ Deprived(n, {"h", "o"})
    /\ UNCHANGED <<ndb, adb>>

\* borrar_db empties a table and looks at no user.
DropTables ==
    /\ Acts("drop")
    /\ ndb' = [n \in Nick |-> "none"] /\ adb' = [n \in Nick |-> {}]
    /\ odb' = [n \in Nick |-> {}]
    /\ exempt' = exempt \cup {u \in Local : who[u] # Gone}
    /\ Nothing /\ UNCHANGED clash

-----------------------------------------------------------------------------
UserNext ==
    \/ \E u \in Local, n \in Name, ok \in BOOLEAN, suspends \in BOOLEAN :
          \/ FirstNick(u, n, ok, suspends)
          \/ \E fast \in BOOLEAN : ChangeNick(u, n, ok, fast, suspends)
    \/ \E u \in Local : \/ \E complete \in BOOLEAN : Pong(u, complete)
                        \/ UserCmd(u) \/ UnwatchAll(u)
    \/ \E u \in Client : Exit(u)
    \/ \E u \in Local, n \in Nick : Watch(u, n) \/ Unwatch(u, n) \/ SvsNick(u, n)
    \/ \E u \in Local, k \in Lines : Oper(u, k)
    \/ \E u \in Client, add \in BOOLEAN, f \in Modes : SvsUmode(u, add, f)
    \/ \E u \in Local, add \in BOOLEAN, f \in Modes : Umode(u, add, f)
    \/ \E u \in Remote, n \in Name : RemoteNick(u, n) \/ \E m \in {{}, {"r", "o", "h"}, {"i"}} : Introduce(u, n, m)
    \/ \E n \in Name :
          \/ \E v \in {"ok", "susp", "forbid"}, a \in Autos[n] : InsertNick(n, v, a)
          \/ \E s \in SUBSET {"o", "h"} : InsertOper(n, s)
          \/ DeleteNick(n) \/ DeleteOper(n)
    \/ DropTables

UserSpec == UserInit /\ [][UserNext]_userVars

-----------------------------------------------------------------------------
(* Properties.                                                             *)

\* The variables have their types: struct Client, the tables, the lists.
UserTypeOK ==
    /\ who \in [Client -> Record]
    /\ ndb \in [Nick -> {"none", "ok", "susp", "forbid"}] /\ adb \in [Nick -> SUBSET Modes]
    /\ odb \in [Nick -> SUBSET {"o", "h"}]
    /\ cnt \in [opers : Int, helpers : Int, inv : Int, missed : Nat]
    /\ wl \in [Nick -> SUBSET Local] /\ uw \in [Client -> SUBSET Nick]
    /\ cw \in [Client -> 0..MaxWatch]
    /\ told \in [Client -> [Nick -> {"on", "off"}]] /\ early \in [Client -> SUBSET Nick]
    /\ wtab \in [1..Hist -> [nick : Nick \cup {None}, online : Client \cup {None}]]
    /\ wnext \in 1..Hist
    /\ exempt \subseteq Local /\ clash \subseteq Nick

\* A user of ours has +r only on a nick with a record, and +h and +o only
\* from the operator table for a registered nick or, +o, from OPER; the
\* privileges of an operator who is not a local one are those of that source.
\* The exceptions are extra: +h and +o from the automodes of the nick record,
\* which come without privileges, and those a client that changed nick before
\* its registration ended brought along, both until something takes them away.
\* It takes NICK, MODE, OPER and every insertion and deletion of a record
\* together; services, a dropped table and a record that changes between
\* NICK and the end of registration are excepted, and so are nicks that two
\* have held: a record finds one of them.
Grounds ==
    \A u \in Local \ exempt :
        LET x == who[u]
        IN  IsUser(u) /\ x.nick \notin clash =>
              /\ "r" \in x.modes => ndb[x.nick] \in {"ok", "susp"}
              /\ "h" \in x.modes => "r" \in x.modes /\ "h" \in odb[x.nick] \cup x.extra
              /\ "o" \in x.modes =>
                   x.cmd \/ ("r" \in x.modes /\ "o" \in odb[x.nick] \cup x.extra)
              /\ "o" \in x.modes /\ "O" \notin x.modes /\ "o" \notin odb[x.nick] \cup x.extra =>
                   x.privs # "none"
              /\ x.extra \subseteq x.modes

\* Nobody of ours stays on a nick with a record without having shown its
\* password (m_nick_local, and rename_user when the record comes later).
Protected ==
    \A u \in Local \ exempt :
        IsUser(u) /\ who[u].nick \notin clash /\ ndb[who[u].nick] # "none" =>
            who[u].modes \cap {"r", "S"} # {}

\* Whoever watches a nick has last heard the truth about it: it is on line if
\* a user holds it (or the notice waits for its MODE), off line if none does.
\* NICK, renames, SVSNICK, sign on and exit each send their own notices.
\* The exception is early: WATCH says on line of a client that is registering,
\* and nothing follows if that client gives up (chequea_estado_watch returns);
\* it ends with the next notice, so that no user who signs on stays early.
\* Both ends of the lists agree.
WatchTold ==
    /\ \A u \in Local, n \in Nick : u \in wl[n] <=> n \in uw[u]
    /\ \A u \in Local : cw[u] = Cardinality(uw[u]) /\ early[u] \subseteq uw[u]
    /\ \A n \in Nick \ clash : \A w \in wl[n] :
         /\ told[w][n] = "on" => FindUser(n) # {} \/ n \in early[w]
         /\ told[w][n] = "off" => \A v \in FindUser(n) : who[v].wait
         /\ n \in early[w] => told[w][n] = "on" /\ \A v \in FindUser(n) : who[v].wait

\* The entry add_history is about to overwrite is the last of its two lists,
\* as the checks that dump core there assume; an entry on line is in the list
\* of a client that is there, so get_history never answers with a client
\* that has gone.
HistoryLists ==
    /\ Used(wnext) =>
         /\ IsLast(wnext, hl[wtab[wnext].nick])
         /\ wtab[wnext].online # None => IsLast(wnext, cl[wtab[wnext].online])
    /\ \A i \in 1..Hist :
         LET v == wtab[i].online
         IN  v # None => IsUser(v) /\ i \in ToSet(cl[v])
    /\ \A n \in Nick : get_history(n) # None => IsUser(get_history(n))

\* The number of invisible users that LUSERS shows is that of the users with
\* +i, but for those who got +i from automodes after they had registered:
\* registration, MODE, SVSMODE, exit and the introduction of a remote user each
\* count for themselves, automodes do not, and nothing else makes the count
\* drift.  (The counts of operators and helpers drift.)
InvisibleCount ==
    cnt.inv + cnt.missed = Cardinality({u \in Client : IsUser(u) /\ "i" \in who[u].modes})

\* What users have, modes and protected nicks, has its ground in the tables
\* (Grounds, Protected), and the server counts it right (InvisibleCount),
\* however commands and records interleave.
Entitled == UserTypeOK /\ Grounds /\ Protected /\ InvisibleCount
=============================================================================
