-------------------------------- MODULE Tables --------------------------------
(****************************************************************************)
(* How a server finds what a line names (hash.c, numnicks.c, list.c): by    *)
(* name, through chains that a successful search reorders; by numeric,      *)
(* through the client_list of the server the user is on, indexed by the     *)
(* numeric modulo that server's capacity; and, for the operator who asked   *)
(* for a link, through a counted reference to his user block together with  *)
(* his numeric.                                                             *)
(*                                                                          *)
(* One remote server stands for those of the network.  Names that differ in *)
(* case only are one name (strhash and strCasediff agree on that), so a     *)
(* name is a value and its chain a constant.  focus picks the tables that   *)
(* are worked with: they share code, not state.  What a registration or a   *)
(* nick change checks besides is in NickNet and Users; here its guard is    *)
(* that the name is free.                                                   *)
(****************************************************************************)
EXTENDS SequencesExt, Integers

CONSTANTS
  Ids,            \* client structures
  Names,          \* names of clients, channels and watch entries
  Chain,          \* [Names -> chain of the name]
  Blocks,         \* user blocks the allocator hands out
  Tries,          \* links operators ask for
  MyMask,         \* me.serv->nn_mask, capacity - 1
  HisMask,        \* the remote server's nn_mask
  MaxNumeric,     \* NN_MAX_CLIENT_SHORT: numerics wrap here
  Focus           \* tables worked with

None == "none"
Chains == {Chain[n] : n \in Names}
Servers2 == {"me", "him"}
NoTry == [user |-> None, home |-> "me", num |-> -1]
MaskOf(s) == IF s = "me" THEN MyMask ELSE HisMask

VARIABLES
  focus,
  table,          \* [Chains -> sequence]: clientTable, channelTable or watchTable
  cname,          \* [Ids -> name, or None]
  cstat,          \* [Ids -> "free", "unknown" or "user"]
  chome,          \* [Ids -> user->server]
  cyxx,           \* [Ids -> numeric, or -1]
  cuser,          \* [Ids -> user block, or None]
  refcnt,         \* [Blocks -> references]
  client_list,    \* [Servers2 -> [0..mask -> client, or None]]
  last_nn,        \* where the search for a free numeric goes on
  nn_last,        \* the same for a server behind a protocol 9 link
  linked,         \* the remote server is linked
  try,            \* [Tries -> the link asked for: user block, numeric]
  asker,          \* [Tries -> who asked, while he is here] (history)
  addr            \* an address about to be sent: eight segments

tableVars == <<focus, table, cname, cstat, chome, cyxx, cuser, refcnt, client_list,
               last_nn, nn_last, linked, try, asker, addr>>
idVars == <<cname, cstat, chome, cyxx, cuser, refcnt, client_list, last_nn, nn_last, linked, try, asker>>

-----------------------------------------------------------------------------
(* The chains (hash.c).                                                     *)

Pushed(t, n, x) == [t EXCEPT ![Chain[n]] = <<x>> \o @]
Unlisted(t, n, x) ==
  LET at == {i \in DOMAIN t[Chain[n]] : t[Chain[n]][i] = x}
  IN IF at = {} THEN t ELSE [t EXCEPT ![Chain[n]] = RemoveAt(@, Min(at))]
\* A search: the first entry that answers, moved to the front of its chain.
Hit(t, n, Answers(_)) ==
  LET c == t[Chain[n]]
      hits == {i \in DOMAIN c : Answers(c[i])}
  IN IF hits = {} THEN None ELSE c[Min(hits)]
ToFront(t, n, x) == IF x = None THEN t ELSE Pushed(Unlisted(t, n, x), n, x)

hAddClient(t, c, n) == Pushed(t, n, c)
hRemClient(t, c, n) == Unlisted(t, n, c)
\* Mutant: the client already has its new name when its chain is looked for.
hChangeClient_NewName(t, c, old, new) == Pushed(Unlisted(t, new, c), new, c)
\* The chain is found by the name the client still has.
hChangeClient(t, c, old, new) == Pushed(hRemClient(t, c, old), new, c)
hSeekClient(t, n, stats) == Hit(t, n, LAMBDA c : cstat[c] \in stats /\ cname[c] = n)
hAddChannel(t, n) == Pushed(t, n, n)
hRemChannel(t, n) == Unlisted(t, n, n)
hSeekChannel(t, n) == Hit(t, n, LAMBDA x : x = n)
hAddWatch(t, n) == Pushed(t, n, n)
hRemWatch(t, n) == Unlisted(t, n, n)
hSeekWatch(t, n) == Hit(t, n, LAMBDA x : x = n)

-----------------------------------------------------------------------------
(* Numerics (numnicks.c).                                                   *)

Slot(s, num) == num % (MaskOf(s) + 1)
findNUser(s, num) == IF s = "him" /\ ~linked THEN None ELSE client_list[s][Slot(s, num)]

\* SetLocalNumNick: numbers tried from last_nn on until a slot is free; every
\* slot is tried many times over before it gives up.
Tried == {k \in 0..MaxNumeric - 1 : client_list["me"][Slot("me", (last_nn + k) % MaxNumeric)] = None}
NextNumeric == (last_nn + Min(Tried)) % MaxNumeric

\* CreateNNforProtocol9server: a number of his that is free.
TriedFor9 == {k \in 0..HisMask : client_list["him"][(nn_last + k) % (HisMask + 1)] = None}

-----------------------------------------------------------------------------
(* What exit_one_client and remove_client_from_list do to the tables for    *)
(* the clients in gone: numeric, chain, counted reference to the user block.*)

After(f, gone, blank) == [c \in Ids |-> IF c \in gone THEN blank ELSE f[c]]
Unchained(gone) == [h \in Chains |-> SelectSeq(table[h], LAMBDA c : c \notin gone)]
RemoveYXXClient(gone) ==
  [s \in Servers2 |-> [i \in 0..MaskOf(s) |->
     IF \E c \in gone : cyxx[c] # -1 /\ chome[c] = s /\ Slot(s, cyxx[c]) = i
     THEN None ELSE client_list[s][i]]]
free_user(gone) == [b \in Blocks |-> refcnt[b] - Cardinality({c \in gone : cuser[c] = b})]
Forgotten2(gone) == [l \in Tries |-> IF asker[l] \in gone THEN None ELSE asker[l]]

-----------------------------------------------------------------------------

TablesInit ==
  /\ focus \in Focus
  /\ table = [h \in Chains |-> <<>>]
  /\ cname = [c \in Ids |-> None] /\ cstat = [c \in Ids |-> "free"]
  /\ chome = [c \in Ids |-> "me"] /\ cyxx = [c \in Ids |-> -1]
  /\ cuser = [c \in Ids |-> None] /\ refcnt = [b \in Blocks |-> 0]
  /\ client_list = [s \in Servers2 |-> [i \in 0..MaskOf(s) |-> None]]
  /\ last_nn = 0 /\ nn_last = 0 /\ linked = TRUE
  /\ try = [l \in Tries |-> NoTry] /\ asker = [l \in Tries |-> None]
  /\ addr = [i \in 1..8 |-> 0]

\* The nick check of m_nick (SeekClient): no client of any status has the name.
Free(n) == hSeekClient(table, n, {"unknown", "user"}) = None

\* make_client for an accepted connection.
Connects(c) ==
  /\ cstat[c] = "free"
  /\ cstat' = [cstat EXCEPT ![c] = "unknown"]
  /\ chome' = [chome EXCEPT ![c] = "me"]
  /\ UNCHANGED <<focus, table, cname, cyxx, cuser, refcnt, client_list, last_nn, nn_last, linked, try, asker, addr>>

\* m_nick, a local client's first: make_user, SetLocalNumNick, hAddClient.  When
\* every slot is taken the client goes on without a numeric.
FirstNick(c, n, b) ==
  /\ cstat[c] = "unknown" /\ cname[c] = None /\ Free(n)
  /\ refcnt[b] = 0
  /\ cname' = [cname EXCEPT ![c] = n]
  /\ cuser' = [cuser EXCEPT ![c] = b]
  /\ refcnt' = [refcnt EXCEPT ![b] = 1]
  /\ IF Tried = {} THEN /\ last_nn' = (last_nn + MaxNumeric - 1) % MaxNumeric
                        /\ UNCHANGED <<client_list, cyxx>>
     ELSE /\ client_list' = [client_list EXCEPT !["me"][Slot("me", NextNumeric)] = c]
          /\ cyxx' = [cyxx EXCEPT ![c] = NextNumeric]
          /\ last_nn' = (NextNumeric + 1) % MaxNumeric
  /\ table' = hAddClient(table, c, n)
  /\ UNCHANGED <<focus, cstat, chome, nn_last, linked, try, asker, addr>>

\* register_user: the client is a user from here on.
SignsOn(c) ==
  /\ cstat[c] = "unknown" /\ cname[c] # None /\ cyxx[c] # -1
  /\ cstat' = [cstat EXCEPT ![c] = "user"]
  /\ UNCHANGED <<focus, table, cname, chome, cyxx, cuser, refcnt, client_list, last_nn, nn_last, linked, try, asker, addr>>

\* m_nick, a change of nick, local or remote.
ChangesNick(c, n) ==
  /\ cname[c] # None /\ Free(n)
  /\ table' = hChangeClient(table, c, cname[c], n)
  /\ cname' = [cname EXCEPT ![c] = n]
  /\ UNCHANGED <<focus, cstat, chome, cyxx, cuser, refcnt, client_list, last_nn, nn_last, linked, try, asker, addr>>

\* m_nick from the remote server; SetRemoteNumNick first exits the client that
\* is in the slot of the new one's numeric.
NewRemote(c, n, num, b) ==
  LET ghost == {client_list["him"][Slot("him", num)]} \ {None}
  IN /\ linked /\ cstat[c] = "free" /\ Free(n) /\ refcnt[b] = 0
     /\ table' = hAddClient(Unchained(ghost), c, n)
     /\ cname' = [After(cname, ghost, None) EXCEPT ![c] = n]
     /\ cstat' = [After(cstat, ghost, "free") EXCEPT ![c] = "user"]
     /\ cyxx' = [After(cyxx, ghost, -1) EXCEPT ![c] = num]
     /\ cuser' = [After(cuser, ghost, None) EXCEPT ![c] = b]
     /\ refcnt' = [free_user(ghost) EXCEPT ![b] = 1]
     /\ asker' = Forgotten2(ghost)
     /\ client_list' = [client_list EXCEPT !["him"][Slot("him", num)] = c]
     /\ chome' = [After(chome, ghost, "me") EXCEPT ![c] = "him"]

SetRemoteNumNick(c, n, num, b) ==
  /\ NewRemote(c, n, num, b)
  /\ UNCHANGED <<focus, last_nn, nn_last, linked, try, addr>>

\* The same behind a protocol 9 link, where the numeric is made up here; a server
\* with no number left is let go (m_nick's exit_client_msg).
Nick9(c, n, b) ==
  LET num == (nn_last + Min(TriedFor9)) % (HisMask + 1)
  IN /\ TriedFor9 # {}
     /\ NewRemote(c, n, num, b)
     /\ nn_last' = (num + 1) % (HisMask + 1)
     /\ UNCHANGED <<focus, last_nn, linked, try, addr>>

\* exit_client of one client.
Exits(c) ==
  /\ cstat[c] # "free"
  /\ table' = Unchained({c}) /\ client_list' = RemoveYXXClient({c}) /\ refcnt' = free_user({c})
  /\ cname' = After(cname, {c}, None) /\ cstat' = After(cstat, {c}, "free")
  /\ cyxx' = After(cyxx, {c}, -1) /\ cuser' = After(cuser, {c}, None)
  /\ chome' = After(chome, {c}, "me")
  /\ asker' = Forgotten2({c})
  /\ UNCHANGED <<focus, last_nn, nn_last, linked, try, addr>>

\* The remote server splits off with its users, ClearServerYXX.
Splits2 ==
  LET gone == {c \in Ids : cstat[c] # "free" /\ chome[c] = "him"}
  IN /\ linked
     /\ linked' = FALSE
     /\ table' = Unchained(gone) /\ client_list' = RemoveYXXClient(gone) /\ refcnt' = free_user(gone)
     /\ cname' = After(cname, gone, None) /\ cstat' = After(cstat, gone, "free")
     /\ cyxx' = After(cyxx, gone, -1) /\ cuser' = After(cuser, gone, None)
     /\ chome' = After(chome, gone, "me")
     /\ asker' = Forgotten2(gone)
     /\ UNCHANGED <<focus, last_nn, nn_last, try, addr>>

\* SetServerYXX: it is back, with an empty client_list.
SetServerYXX ==
  /\ ~linked
  /\ linked' = TRUE /\ nn_last' = 0
  /\ client_list' = [client_list EXCEPT !["him"] = [i \in 0..HisMask |-> None]]
  /\ UNCHANGED <<focus, table, cname, cstat, chome, cyxx, cuser, refcnt, last_nn, try, asker, addr>>

\* Any search by name: FindUser, FindClient.
SeeksClient(n, stats) ==
  /\ hSeekClient(table, n, stats) # None
  /\ table' = ToFront(table, n, hSeekClient(table, n, stats))
  /\ UNCHANGED <<focus, idVars, addr>>

\* connect_server for an operator: the link remembers his numeric and holds his
\* user block.
AskedFor(c) == [user |-> cuser[c], home |-> chome[c], num |-> cyxx[c]]
\* Mutant: the reference is not counted.
OperAsks_Uncounted(c, l) ==
  /\ cstat[c] = "user" /\ try[l] = NoTry
  /\ try' = [try EXCEPT ![l] = AskedFor(c)]
  /\ asker' = [asker EXCEPT ![l] = c]
  /\ UNCHANGED <<focus, table, cname, cstat, chome, cyxx, cuser, refcnt, client_list, last_nn, nn_last, linked, addr>>
OperAsks(c, l) ==
  /\ cstat[c] = "user" /\ try[l] = NoTry
  /\ try' = [try EXCEPT ![l] = AskedFor(c)]
  /\ refcnt' = [refcnt EXCEPT ![cuser[c]] = @ + 1]
  /\ asker' = [asker EXCEPT ![l] = c]
  /\ UNCHANGED <<focus, table, cname, cstat, chome, cyxx, cuser, client_list, last_nn, nn_last, linked, addr>>

\* The link ends: remove_client_from_list releases the block.
LinkEnds(l) ==
  /\ try[l] # NoTry
  /\ refcnt' = [refcnt EXCEPT ![try[l].user] = @ - 1]
  /\ try' = [try EXCEPT ![l] = NoTry]
  /\ asker' = [asker EXCEPT ![l] = None]
  /\ UNCHANGED <<focus, table, cname, cstat, chome, cyxx, cuser, client_list, last_nn, nn_last, linked, addr>>

\* Whom the notices about the link go to (m_server_estab, exit_client): the user
\* found by the numeric, if his block is the one held.
Told(l) ==
  LET f == findNUser(try[l].home, try[l].num)
  IN IF f # None /\ cuser[f] = try[l].user THEN f ELSE None

-----------------------------------------------------------------------------
(* Channels and watch entries, by their names.                              *)

Entries == UNION {Range(table[h]) : h \in Chains}
Makes(n) ==
  /\ IF focus = "channels" THEN hSeekChannel(table, n) = None ELSE hSeekWatch(table, n) = None
  /\ table' = IF focus = "channels" THEN hAddChannel(table, n) ELSE hAddWatch(table, n)
  /\ UNCHANGED <<focus, idVars, addr>>
Frees(n) ==
  /\ n \in Entries
  /\ table' = IF focus = "channels" THEN hRemChannel(table, n) ELSE hRemWatch(table, n)
  /\ UNCHANGED <<focus, idVars, addr>>
Seeks(n) ==
  /\ LET x == IF focus = "channels" THEN hSeekChannel(table, n) ELSE hSeekWatch(table, n)
     IN x # None /\ table' = ToFront(table, n, x)
  /\ UNCHANGED <<focus, idVars, addr>>

-----------------------------------------------------------------------------
(* Addresses as they are sent with a NICK (numnicks.c): three characters a  *)
(* segment, one run of zero segments as an underscore.  A group of three    *)
(* characters is one symbol here; 65535 is the segment that marks IPv4.     *)

Underscore == -1

irc_in_addr_is_ipv4(a) ==
  /\ \A i \in 1..5 : a[i] = 0
  /\ a[6] = 65535 \/ (a[6] = 0 /\ a[7] # 0)

\* The run that is left out: start and length, as the loop finds them from the
\* first zero segment on.  The count is only reset when a longer run ends.
ZeroRun(a, zero) ==
  LET step(r, i) ==
        CASE i <= zero - 1 -> r
          [] a[i] = 0 -> [r EXCEPT !.curr = @ + 1]
          [] r.curr > r.max -> [start |-> i - r.curr, max |-> r.curr, curr |-> 0]
          [] OTHER -> r
      r == FoldLeft(step, [start |-> zero, max |-> 0, curr |-> 0], [i \in 1..8 |-> i])
  IN IF r.curr > r.max THEN [start |-> 9 - r.curr, max |-> r.curr] ELSE [start |-> r.start, max |-> r.max]

iptobase64(a) ==
  LET zeros == {i \in 1..8 : a[i] = 0}
      zero == IF zeros = {} THEN 9 ELSE Min(zeros)
      run == ZeroRun(a, zero)
  IN IF irc_in_addr_is_ipv4(a) THEN [v4 |-> TRUE, text |-> <<a[7], a[8]>>]
     ELSE [v4 |-> FALSE,
           text |-> SubSeq(a, 1, run.start - 1)
                    \o IF run.max = 0 THEN <<>> ELSE <<Underscore>> \o SubSeq(a, run.start + run.max, 8)]

\* The underscore stands for as many zeros as the rest of the text leaves room for.
base64toip(m) ==
  IF m.v4 THEN IF m.text = <<0, 0>> THEN [i \in 1..8 |-> 0]
               ELSE <<0, 0, 0, 0, 0, 65535>> \o m.text
  ELSE LET u == {i \in DOMAIN m.text : m.text[i] = Underscore}
       IN IF u = {} THEN m.text
          ELSE LET k == Min(u)
               IN SubSeq(m.text, 1, k - 1) \o [i \in 1..9 - Len(m.text) |-> 0]
                  \o SubSeq(m.text, k + 1, Len(m.text))

SetSegment(i, v) ==
  /\ v = 65535 => i = 6
  /\ addr' = [addr EXCEPT ![i] = v]
  /\ UNCHANGED <<focus, table, idVars>>

-----------------------------------------------------------------------------

ClientStep ==
  \/ \E c \in Ids : Connects(c) \/ SignsOn(c) \/ Exits(c)
  \/ \E c \in Ids, n \in Names : ChangesNick(c, n)
  \/ \E c \in Ids, n \in Names, b \in Blocks :
       FirstNick(c, n, b) \/ Nick9(c, n, b) \/ \E num \in 0..2 * HisMask + 1 : SetRemoteNumNick(c, n, num, b)
  \/ Splits2 \/ SetServerYXX
  \/ \E n \in Names, stats \in {{"user"}, {"user", "unknown"}} : SeeksClient(n, stats)
  \/ \E l \in Tries : LinkEnds(l) \/ \E c \in Ids : OperAsks(c, l)

TablesNext ==
  \/ focus = "clients" /\ ClientStep
  \/ focus \in {"channels", "watches"} /\ \E n \in Names : Makes(n) \/ Frees(n) \/ Seeks(n)
  \/ focus = "addresses" /\ \E i \in 1..8, v \in {0, 1, 65535} : SetSegment(i, v)

TablesSpec == TablesInit /\ [][TablesNext]_tableVars

TablesTypeOK ==
  /\ focus \in Focus /\ linked \in BOOLEAN
  /\ cname \in [Ids -> Names \union {None}] /\ cstat \in [Ids -> {"free", "unknown", "user"}]
  /\ chome \in [Ids -> Servers2] /\ cyxx \in [Ids -> -1..MaxNumeric - 1]
  /\ cuser \in [Ids -> Blocks \union {None}] /\ refcnt \in [Blocks -> Nat]
  /\ \A s \in Servers2 : client_list[s] \in [0..MaskOf(s) -> Ids \union {None}]
  /\ last_nn \in 0..MaxNumeric - 1 /\ nn_last \in 0..HisMask

\* Whoever has a name is found by it and whoever has a numeric by that, after any
\* sequence of sign-ons, nick changes, ghosts, splits and searches that reorder the
\* chains (hash.c:310, numnicks.c:345): each chain holds its clients once and no
\* one else; the same for channels and watch entries.  And the notices about a link
\* reach the operator who asked for it while he is here and no one after that, even
\* when his numeric has a new owner (s_serv.c:978, s_misc.c:468).
Findable ==
  /\ focus = "clients" =>
       /\ \A h \in Chains :
            /\ Range(table[h]) = {c \in Ids : cname[c] # None /\ Chain[cname[c]] = h}
            /\ Len(table[h]) = Cardinality(Range(table[h]))
       /\ \A c \in Ids : cyxx[c] # -1 => findNUser(chome[c], cyxx[c]) = c
       /\ \A l \in Tries : try[l] # NoTry => Told(l) = asker[l]
  /\ focus \in {"channels", "watches"} =>
       \A h \in Chains : /\ \A i \in DOMAIN table[h] : Chain[table[h][i]] = h
                         /\ Len(table[h]) = Cardinality(Range(table[h]))

Runs(a) == {i \in 1..8 : a[i] = 0 /\ (i = 1 \/ a[i - 1] # 0)}
SameAddress(a, b) ==
  IF irc_in_addr_is_ipv4(a) THEN irc_in_addr_is_ipv4(b) /\ a[7] = b[7] /\ a[8] = b[8] ELSE a = b

\* An address arrives as it was sent, as long as its zero segments form at most two
\* runs (the mapped form of 0.0.0.0 becomes the address of no one).
AddressKept ==
  (Cardinality(Runs(addr)) <= 2 /\ ~(irc_in_addr_is_ipv4(addr) /\ addr[7] = 0 /\ addr[8] = 0)) =>
    SameAddress(addr, base64toip(iptobase64(addr)))

\* Clients, channels, watch entries and operators' links are found (Findable) and
\* addresses survive the wire (AddressKept).
TablesKept == TablesTypeOK /\ Findable /\ AddressKept

=============================================================================
