------------------------------ MODULE IpCheck -------------------------------
(***************************************************************************)
(* The registry of addresses (ircd/IPcheck.c) together with every place    *)
(* that updates it: the accept loop (s_bsd.c add_connection), the clone    *)
(* limit of check_client (s_bsd.c), register_user, WEBIRC and PROXY        *)
(* (s_user.c), the end of a server handshake (s_serv.c) and exit_one_      *)
(* client (s_misc.c).  The registry keeps, per address, how many clients   *)
(* are connected and how many connected lately; both are bit fields.       *)
(*                                                                         *)
(* All addresses share one hash bucket, the case in which a disconnection  *)
(* of one expires the others.  The free targets an address hands over to   *)
(* its next client are left out.                                           *)
(***************************************************************************)
EXTENDS Integers, FiniteSets

CONSTANTS
    Client, Ip,
    Iline,       \* addresses with a record in the clones table (IPbusca_clones)
    MaxClones,   \* clones allowed for an address (0, no limit, is left out)
    ConnMod,     \* 2^16: width of `connected'
    AttMod,      \* 2^4: width of `connect_attempts'
    TimeMod,     \* 2^16: width of `last_connect'
    Limit,       \* IPCHECK_CLONE_LIMIT
    Period,      \* IPCHECK_CLONE_PERIOD
    Delay,       \* IPCHECK_CLONE_DELAY
    Expire,      \* the 600 seconds of IPregistry_find_with_expire
    ProxyProto,  \* protocols in the PROXY lines that arrive
    MaxNow,      \* bound: time
    MaxIpTries     \* bound: connections accepted from one address

ASSUME IpConstants ==
    /\ IsFiniteSet(Client) /\ Ip # {}
    /\ Iline \subseteq Ip
    /\ MaxClones \in Nat \ {0}
    /\ {Limit, Period, Delay, Expire, MaxNow, MaxIpTries} \subseteq Nat
    /\ {ConnMod, AttMod, TimeMod} \subseteq Nat \ {0, 1}
    /\ ProxyProto \subseteq {"TCP4", "UNKNOWN"}

VARIABLES
    reg,    \* reg[i]: the IPregistry entry of address i, or NoEntry
    state,  \* state[c]: of the client structure c
    ip,     \* ip[c]: cptr->ip
    tries,  \* tries[i]: connections accepted from i so far (a history)
    now

ipVars == <<reg, state, ip, tries, now>>

IpEntry == [conn : 0..(ConnMod - 1), att : 0..(AttMod - 1), last : 0..(TimeMod - 1)]
NoEntry == [conn |-> -1, att |-> 0, last |-> 0]
IpState == {"free", "unknown", "user", "server", "remote"}

IpInit ==
    /\ reg = [i \in Ip |-> NoEntry]
    /\ state = [c \in Client |-> "free"]
    /\ ip = [c \in Client |-> CHOOSE i \in Ip : TRUE]
    /\ tries = [i \in Ip |-> 0]
    /\ now = 0

-----------------------------------------------------------------------------
(* IPcheck.c: each operation as a function of the registry.                *)

\* CONNECTED_SINCE
Since(e) == (now - e.last) % TimeMod

\* ++ that sticks at the last value of the field.
Saturated(a) == IF (a + 1) % AttMod = 0 THEN a ELSE a + 1

NewEntry(a) == [conn |-> 1, att |-> a, last |-> now % TimeMod]

LocalConnect(R, i) ==
    LET e == R[i]
        base == IF Since(e) > Period \/ i \in Iline THEN 0 ELSE e.att
    IN  IF e = NoEntry
        THEN [R EXCEPT ![i] = NewEntry(1)]
        ELSE IF (e.conn + 1) % ConnMod = 0
        THEN [R EXCEPT ![i].conn = 0]
        ELSE [R EXCEPT ![i] = [conn |-> e.conn + 1, att |-> Saturated(base),
                               last |-> now % TimeMod]]

\* The answer -1 of IPcheck_local_connect, from the entry it left; nobody is
\* refused when the server has just been started.
Throttled(R, i) ==
    /\ R[i].conn # 0
    /\ R[i].att > Limit
    /\ i \notin Iline
    /\ now > Delay

RemoteConnect(R, i, burst) ==
    LET e == R[i]
        base == IF Since(e) > Period THEN 0 ELSE e.att
    IN  IF e = NoEntry
        THEN [R EXCEPT ![i] = NewEntry(IF burst THEN 1 ELSE 0)]
        ELSE IF (e.conn + 1) % ConnMod = 0
        THEN [R EXCEPT ![i].conn = 0]
        ELSE [R EXCEPT ![i] =
                [conn |-> e.conn + 1,
                 att  |-> IF burst THEN base ELSE Saturated(base),
                 last |-> IF burst THEN e.last ELSE now % TimeMod]]

ConnectFail(R, i) == [R EXCEPT ![i].att = (@ - 1) % AttMod]

\* Mutant: an old entry is dropped though clients are still connected.
Expired_Online(R, i) == {j \in Ip \ {i} : R[j] # NoEntry /\ Since(R[j]) > Expire}

\* IPregistry_find_with_expire: other addresses, idle for long, are dropped.
Expired(R, i) == {j \in Ip \ {i} : R[j].conn = 0 /\ Since(R[j]) > Expire}

Disconnect(R, i) ==
    LET S == [j \in Ip |-> IF j \in Expired(R, i) THEN NoEntry ELSE R[j]]
        e == S[i]
        conn == (e.conn - 1) % ConnMod
    IN  IF conn # 0
        THEN [S EXCEPT ![i].conn = conn]
        ELSE [S EXCEPT ![i] =
                [conn |-> 0,
                 att  |-> IF Since(e) > Limit * Period THEN 0 ELSE e.att,
                 last |-> now % TimeMod]]

\* IPcheck_nr
Nr(i) == IF reg[i] = NoEntry THEN 0 ELSE reg[i].conn

-----------------------------------------------------------------------------
(* The callers.                                                            *)

\* exit_one_client: the structure is freed and the address charged off.
Exit(R, c) ==
    /\ reg' = Disconnect(R, ip[c])
    /\ state' = [state EXCEPT ![c] = "free"]
    /\ UNCHANGED <<ip, tries, now>>

\* add_connection: a throttled client of a user port is let go at once.
Accept(c, i, userPort) ==
    /\ state[c] = "free" /\ tries[i] < MaxIpTries
    /\ tries' = [tries EXCEPT ![i] = @ + 1]
    /\ ip' = [ip EXCEPT ![c] = i]
    /\ LET R == LocalConnect(reg, i) IN
       IF Throttled(R, i) /\ reg[i] # NoEntry /\ userPort
       THEN reg' = Disconnect(R, i) /\ UNCHANGED state
       ELSE reg' = R /\ state' = [state EXCEPT ![c] = "unknown"]
    /\ UNCHANGED now

TooMany_Off(c) == Nr(ip[c]) > MaxClones + 1       \* mutant

\* check_client: more clones than the address may have.
TooMany(c) == Nr(ip[c]) > MaxClones

\* register_user goes through.
Register(c) ==
    /\ state[c] = "unknown"
    /\ ~TooMany(c)
    /\ state' = [state EXCEPT ![c] = "user"]
    /\ UNCHANGED <<reg, ip, tries, now>>

\* register_user, ACR_TOO_MANY_FROM_IP: an address with an I:line record is
\* not charged for the attempt.
RefuseClone(c) ==
    /\ state[c] = "unknown"
    /\ TooMany(c)
    /\ Exit(IF ip[c] \in Iline THEN ConnectFail(reg, ip[c]) ELSE reg, c)

\* The client leaves before it registers through no fault of its own: class
\* full, bad password, or its nick is taken over by a server's user (m_nick).
FailRegister(c) ==
    /\ state[c] = "unknown"
    /\ Exit(ConnectFail(reg, ip[c]), c)

\* Any other end of a client: QUIT, timeout, K:line, KILL, a remote quit.
Quit(c) ==
    /\ state[c] # "free"
    /\ Exit(reg, c)

\* m_server_estab: a server is not charged for connecting.
ServerLink(c) ==
    /\ state[c] = "unknown"
    /\ reg' = ConnectFail(reg, ip[c])
    /\ state' = [state EXCEPT ![c] = "server"]
    /\ UNCHANGED <<ip, tries, now>>

\* A user of another server; with too many connections it is let go.
RemoteJoin(c, i, burst) ==
    /\ state[c] = "free" /\ tries[i] < MaxIpTries
    /\ tries' = [tries EXCEPT ![i] = @ + 1]
    /\ ip' = [ip EXCEPT ![c] = i]
    /\ LET R == RemoteConnect(reg, i, burst) IN
       IF R[i].conn = 0
       THEN reg' = Disconnect(R, i) /\ UNCHANGED state
       ELSE reg' = R /\ state' = [state EXCEPT ![c] = "remote"]
    /\ UNCHANGED now

\* WEBIRC and PROXY: the gateway's address is charged off and the client's
\* charged; the answer about throttling is not looked at.
Moved(R, c, i) == LocalConnect(Disconnect(ConnectFail(R, ip[c]), ip[c]), i)

Webirc(c, i) ==
    /\ state[c] = "unknown" /\ tries[i] < MaxIpTries
    /\ reg' = Moved(reg, c, i)
    /\ ip' = [ip EXCEPT ![c] = i]
    /\ tries' = [tries EXCEPT ![i] = @ + 1]
    /\ UNCHANGED <<state, now>>

\* m_proxy charges the gateway's address off before it looks at the protocol.
Proxy(c, i, proto) ==
    /\ state[c] = "unknown" /\ tries[i] < MaxIpTries
    /\ IF proto = "TCP4"
       THEN /\ reg' = Moved(reg, c, i)
            /\ ip' = [ip EXCEPT ![c] = i]
            /\ tries' = [tries EXCEPT ![i] = @ + 1]
            /\ UNCHANGED <<state, now>>
       ELSE Exit(Disconnect(ConnectFail(reg, ip[c]), ip[c]), c)

Tick ==
    /\ now < MaxNow
    /\ now' = now + 1
    /\ UNCHANGED <<reg, state, ip, tries>>

IpNext ==
    \/ \E c \in Client, i \in Ip, b \in BOOLEAN :
          Accept(c, i, b) \/ RemoteJoin(c, i, b)
    \/ \E c \in Client : Register(c) \/ RefuseClone(c) \/ FailRegister(c)
                         \/ Quit(c) \/ ServerLink(c)
    \/ \E c \in Client, i \in Ip : Webirc(c, i)
    \/ \E c \in Client, i \in Ip, proto \in ProxyProto : Proxy(c, i, proto)
    \/ Tick

IpSpec == IpInit /\ [][IpNext]_ipVars

-----------------------------------------------------------------------------
(* Properties.                                                             *)

\* The fields stay within their widths.
IpTypeOK ==
    /\ reg \in [Ip -> IpEntry \cup {NoEntry}]
    /\ state \in [Client -> IpState]
    /\ ip \in [Client -> Ip]
    /\ tries \in [Ip -> 0..MaxIpTries]
    /\ now \in 0..MaxNow

Online(i) == {c \in Client : state[c] # "free" /\ ip[c] = i}

\* `connected' is the "Number of currently on-line clients with this IP
\* number" (IPcheck.c, struct IPregistry), local and remote, registered or
\* not, over accepts, refusals, moves behind a gateway and expiry; a client
\* always finds the entry of its address, which IPcheck_disconnect uses
\* without a test.
ConnectedCount ==
    \A i \in Ip : /\ reg[i] = NoEntry => Online(i) = {}
                  /\ reg[i] # NoEntry => reg[i].conn = Cardinality(Online(i))

\* At no moment does an address have more registered local users than it
\* may have clones, however they came in.
CloneCap ==
    \A i \in Ip : Cardinality({c \in Online(i) : state[c] = "user"}) <= MaxClones

\* The registry counts who is connected (ConnectedCount) within its bit
\* fields, and the clone limit that rests on the count holds (CloneCap).
ClonesCounted == IpTypeOK /\ ConnectedCount /\ CloneCap
=============================================================================
