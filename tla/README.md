# A verification development of the IRC-Hispano ircd

TLA+ modules that model this server, TLC configurations that check them on small
instances, and TLAPS proofs. `PROJECT.json` maps every definition to the lines of
`src/` it models, and lists runs, mutants, findings, hazards and theorems.

    tlc -workers 2 -config ddb_hubs.cfg MCDdbNet      # any run: <run>.cfg <module>
    tlapm DdbNetProofs.tla                            # the proofs of a module: *Proofs.tla

## 1. The system

An ircd is one process with one thread: libevent tells it which sockets can be
read, a line is taken from a socket, its handler (`m_*`) runs to completion and
queues lines for other sockets. Nothing interleaves inside a handler. What
interleaves is

* lines on different links of the *tree* of servers (a link keeps its order),
* clients that come, register, change and go,
* answers of the resolver and of ident servers, timers and their timeouts,
* loss of links and the bursts of new ones,
* the end of a process between two writes to its files, and its restart.

And inside a handler, loops over lists that the loop's own body shortens, moves
or reorders.

### Inventory

| component | state | operations | hard parts | what makes it correct | modules |
|---|---|---|---|---|---|
| Distributed database, replication (`s_bdd.c`) | `tabla_serie`, `tabla_datos`, the file, "taps" per link | `m_db` J, B, D, records | bursts cut at 1000, D crossing J, two hubs, lost links | no hole below a serial; agreement; convergence | `DdbNet` |
| Distributed database, files (`s_bdd.c`) | `tabla.<c>`, `hashes`, the mmap cache | `db_alta`, `db_pack`, D, `initdb2`, `mmap_cache` | end of the process between two writes; a stale cache | a restart shows all of a table or none of it | `DdbRecord`, `DdbTable`, `DdbStore` |
| Use of the tables (`s_bdd.c`) | settings, users, channels | `db_insertar_registro`, `db_eliminar_registro`, `borrar_db`, start | every kind of record needs its undo | effects follow the table | `Settings`, `Users`, `ChanLocal` |
| Address registry (`IPcheck.c`) | per address counts in bit fields | connect, fail, disconnect, expiry | counted in many places; widths; expiry | the count is the number of clients; the clone limit holds | `IpCheck` |
| Nicks over the network (`s_user.c`, `parse.c`) | name table, numerics, `lastnick` | NICK, QUIT, KILL, GHOST | claims and kills that cross, splits | one holder per nick; the right one killed; agreement | `NickNet` |
| Users of one server (`s_user.c`, `m_watch.c`, `whowas.c`) | modes, privileges, counters, watch lists, ring of nicks | NICK, MODE, OPER, SVSNICK, SVSMODE, WATCH, records | a record changes while its nick is in use | a mode has its ground; watchers know the truth; no pointer to who has gone | `Users` |
| Channels over the network (`channel.c`) | members, flags, modes, bans, `creationtime` | JOIN, CREATE, PART, KICK, MODE, TOPIC, BURST | timestamps, bounces, zombies, splits | both sides of a merge agree | `ChanNet` |
| Channels of one server (`channel.c`, `whocmds.c`) | double lists with counters, ban cache | JOIN, PART, KICK, INVITE, MODE, records, WHO, NAMES | lists changed at two ends, freed in loops | ends agree; caches are right; secrets stay | `ChanLocal` |
| Connections (`s_bsd.c`, `s_auth.c`, `res.c`) | `loc_clients`, flags, events, resolver cache and queries | accept, connect, ident, DNS, timers, close | late answers, moved descriptors | nothing points to what is freed; every connection is settled | `Conn` |
| Server links (`s_serv.c`) | tree of servers, link timestamps | SERVER, CONNECT, SQUIT, loss | two links at once, ghosts, crossing SQUITs | quiet servers know one tree | `LinkNet` |
| Lines and classes (`s_conf.c`, `class.c`) | lines, classes, counts | attach, detach, rehash | lines replaced in use | counts are attachments; nothing freed in use | `ConfLines` |
| Output (`send.c`, `dbuf.c`, `packet.c`) | queues, pool of buffers, `sendbuf` | put, write, LIST, microburst | limits reached inside loops | order; nothing forgotten | `SendQ` |
| Messages (`s_user.c`, `send.c`) | silence lists, targets | PRIVMSG and its kin, SILENCE | fan-out, masks that spread | each listener once | `Messages` |
| G-lines (`opercmds.c`, `list.c`) | the list, with expiry | GLINE, lookup, purge | the list shrinks while it is walked | nobody slips through; none is lost | `Glines` |
| UDP pings (`s_ping.c`) | clients that are pings | UPING, timer, answer, cancel | who asked leaves | a ping has its owner | `Uping` |
| Names, numerics (`hash.c`, `list.c`, `numnicks.c`) | chains, `client_list`, counted blocks | add, change, seek, free; base 64 | chains reorder, wrap-around | found while there, gone when gone | `Tables` |
| Masks (`match.c`), rules (`crule.c`) | none | match, compile; parse, evaluate | backtracking, escapes, half-built trees | equal to a reference definition | `Masks`, `Rules` |
| Queries, statistics, support, allocators | reports, text, memory | | | no protocol state | not modelled |

## 2. What is modelled

### `DdbNet` — replication of one table

The tables are independent, so one is modelled. `log[n]` is the file, as the
*set* of its lines (serials rise along the file, so the set has the order),
`mem[n]` the values in memory, `serie[n]` `tabla_serie`, `tap[n]` the peers
whose `esnet_db` bit is set, `est[n]` the links and `chan` the lines in flight.

| action | code |
|---|---|
| `Connect`, `RecvSERVER` | `completed_connection`, `m_server_estab`: SERVER and the serials |
| `RecvJ` | tap opened, or D to a peer that has lost its table, or a burst of at most `BurstMax` lines followed by B |
| `RecvB` | ask again, if the peer is a hub (H:line) |
| `IgnoreD`, `RecvD` | pass the order on, close the other taps, empty the table, cut the other hubs (`corta_si_multiples_hubs`), ask again |
| `IgnoreRec`, `RecvRec` | a record: refused by serial or by hub; passed through the open taps; `db_alta`, or `db_pack` for a checkpoint |
| `LinkLoss`, `RecvEOF`, `Restart` | `exit_client`, end of file, `initdb2` (which may find the file spoiled and empty it) |
| `ServiceIssue`, `ServiceDrop` | the node that owns the data; it is not in `src/` and is modelled from what `m_db` expects of it: it numbers records, answers J as a hub does, sends D |

A burst is one message holding a set of records; the receiver takes them one at
a time. E, R and Q only report. A line of the queue that has been sent when a
link is lost may arrive before the end of file or be lost with it.

### `DdbRecord`, `DdbTable`, `DdbStore` — the files of one table

`DdbTable` is what a server promises: records are accepted in order of serial,
and a stop loses nothing or the whole table (at serial 0, so that the hub sends
all of it again). `DdbStore` has one step per write to the disk: the append and
the hash of `db_alta`; move, truncation, checkpoint line and hash of `db_pack`;
truncation and hash of D; the version mark, the cache and the file at boot.
`Crash` may come between any two. `PromisedTable` is the refinement mapping: a
record counts from the moment its hash is stored; during a pack it is the table
of the stored hash, and while the process is down it is the table of the file
if the file has the stored hash and else the empty table. The hash of a file is
modelled by the sequence of its lines (no collisions), `portable_stat` by a
counter of modifications (an edit always shows).

### `Settings` — what records do to the server's own variables

The variables of FEATURESDB, CONFIGDB and BOTSDB by kind (flag, number, text,
...), the records that set them and the deletions that put them back, `borrar_db`,
and a start that reads the files again, table by table, or takes the tables from the
cache. Records of OPERDB set none of these variables and are there because their
deletion falls through into the case of BOTSDB. `wiped` and `cut` are histories: keys
whose table was dropped, and bots cleared under a standing record.

### `NickNet` — users and their nicks over the tree

`tab[n][u]` is the nick and `lastnick` of user `u` at server `n`; `known[n]` the
servers it knows; `chan` the lines in flight. Users sign on, change nick, quit,
ghost and kill; servers take NICK (new user or change), QUIT, KILL, SERVER,
SQUIT and end of file. `RecvNick` and `RecvChange` are `m_nick_remoto`: by
`user@host` and timestamps the newcomer gives way, the holder is killed, or both
are. `Sender` and `UnknownPrefix` are the checks of `parse_server`. `claims`,
`killed`, `ousted` and `raced` are histories for the properties. All servers
speak protocol 10; the tree is fixed; a user is its numeric and signs on once.

### `Users` — names, modes and lists of the users of one server

`m_nick_local` with the password, the nick table and the automodes of a record,
`rename_user`, `m_umode`, `m_oper`, SVSMODE, SVSNICK, registration, exit, remote users, the insertion and
deletion of nick and operator records (with the fall-through of the switch in
`db_insertar_registro` and `db_eliminar_registro`), WATCH with the notices each
handler sends, and the ring of `whowas.c` with both of its lists. Histories:
`early` (nicks that WATCH showed on line while their holder was registering),
`extra` (+h and +o that no table gives), `cnt.missed` (+i that nobody counted), `exempt`
and `clash`.

### `ChanNet` and `ChanLocal` — channels

`ChanNet` keeps one channel at every server of a chain: `m_join`, `m_create`,
`m_part`, `m_kick` with zombies, `m_mode` with the timestamp rules and bounces of
`set_mode_remoto`, `m_topic`, `m_burst` with the merge by timestamp, loss and
relink. `crossed` and `torn` are histories: commands of two servers in flight at
once, and lines in flight when a link came or went. `ChanLocal` keeps channels of
one server with their double lists and counters, bans with the cached answers,
invitations, `can_join`, modes imposed by the channel table, services' joins and
parts, and what NAMES, WHO, WHOIS and LIST show.

### `Conn` — connections

From `add_connection` and `connect_server` to `close_connection`: the ident query
and its own descriptor, the resolver's requests and its one-entry cache, the
first lines, registration, `check_ping`, and the loops over `loc_clients` (CLOSE,
rehash, `add_gline`), whose body moves the last connection into the hole.
`dead_client` links, lost answers and a server's SERVER line in two halves are
choices. Time is counted in ping intervals.

### `LinkNet` — the tree of servers

Connections are pairs of queues; both ends send SERVER, the accepting end also
adjusts the clock. `Found`, `SecondYoungest` (with ties by name), L and H lines,
ghosts and the twenty-second rule, SQUIT with its timestamps, end of file. A
server's number is its name, numeric and place in `strcmp`.

### The other components

`ConfLines`: I, C, H, O and Y lines as objects that are made and freed, `rehash`
as the whole of what it does, `attach_conf` and its errors. `SendQ`: queues in
units, the pool of buffers, `sendbuf` as one global value, microbursts of
compressed links, LIST in pieces, write events. `Glines`: the list with the three
loops that walk and shorten it. `Masks`: `match`, `match_case`, `collapse`,
`matchcomp`/`matchexec`, `matchdecomp` and `mmatch` translated with positions for
pointers, against `Means`. `Rules`: tokeniser, recursive descent with its error
returns and half-built trees, evaluator, against the grammar in the comment above
`crule_parse`. `Tables`: chains that a search reorders, numerics modulo a
capacity, reference counts of user blocks, addresses in base 64. `Messages`: every
form of message through `m_message` and the functions of `send.c`, SILENCE, and
`check_target_limit`. `Uping`: pings as clients in `loc_clients`. `IpCheck`: the
registry and each of its callers.

`MCLocal` puts `ChanLocal` and `Users` side by side and `MCParts` eleven
components; they share no state, so a behaviour is one of the part chosen at its
start while the others rest. `Part...` in `MCParts` is the property of that name
of its module, said of the behaviours of its part.

## 3. What the runs show

| run | bounds | properties |
|---|---|---|
| `ddb_hubs` | svc–h–l–g, the last three hubs of each other; 2 records or checkpoints, `BurstMax` 2, 1 loss or restart | `FileEndsAtSerie`, `MemoryIsFile`, `NoHole`, `QuietAgreement`, `Converges` hold |
| `ddb_drop` | h–svc–g, g without an H:line; 3 records, 1 D | `Converges` holds |
| `ddb_store` | 1 key, 3 serials, 2 crashes, 1 stop, 1 edit, 1 D | `IdleAgrees`, `RefinesTable` hold |
| `nick_split` | a–b–c, 2 users with one `user@host`, an operator, an owner, 1 split | `CollisionsSettled`, `SignOnAgreement` hold |
| `nick_cross` | a–b–c, 3 users who differ, 2 nicks, 2 changes | the same hold |
| `chan_net` | a–b–c, 2 users, 4 commands of one of five plans, 3 instants, 1 loss | `NoDouble`, `QuietMembers`, `QuietStatus`, `QuietZombies` hold |
| `local` | 2 channels, 2 local users and 1 remote, 2 bans of which one covers the other; 2 registered and 3 other nicks, ring of 2; 6 commands of one of the plans | `Mirrored`, `Lifetime`, `BanCache`, `Discreet`, `WatchTold`, `HistoryLists`, `Entitled` hold |
| `conn` | 2 clients and 1 link, 2 addresses, 1 cached answer, 2 connections each, 1 operator action | `FdTable`, `NothingFreed`, `NrOf`, `NoneGlined`, `Settles` hold |
| `parts` | see below | the eleven `Part...` properties hold |
| `ddb_lost_delete` | svc–h–l; deletions and checkpoints, 1 loss | `QuietAgreement` **fails** |
| `send_told` | 2 server links, 1 operator | `ServersTold` **fails** |
| `gline_lost` | 3 G-lines | `GlinesKept` **fails** |

What the properties say:

* `NoHole`: below its serial a server lacks no record that is still in force.
  `QuietAgreement`, `Converges`: when nothing is in flight tables agree; once
  faults stop, they come to agree. `IdleAgrees`, `RefinesTable`: between updates
  memory, file and hash agree, and every step of the files is a step of `DdbTable`.
* `CollisionsSettled`: no nick has two holders at a server and no one is killed
  who had the right to stay. `SignOnAgreement`: collisions are settled alike by
  servers that decide apart.
* `NoDouble`: no order of lines links a user to a channel twice. `QuietMembers`,
  `QuietStatus`, `QuietZombies`: agreement of a quiet network on members, on
  timestamp, operators, modes, key, bans and topic, and that no zombie is left.
  The first two except a KICK that crosses other commands (`KickCrossed`; see
  *Channels* below), the last two hold when no commands cross.
* `Mirrored`, `Lifetime`: both ends of memberships and invitations agree, a channel
  lives exactly as long as it should. `BanCache`: no stale answer. `Discreet`:
  no query shows what another hides. `WatchTold`: whoever watches a nick last
  heard the truth, except that WATCH may have shown a client that was still
  registering. `HistoryLists`: an entry overwritten is the last of its lists
  (else the code dumps core). `Entitled`: modes and protected nicks have their
  ground in the tables or are among the `extra`, and `nrof.inv_clients` is right
  up to the `missed`.
* `FdTable`, `NothingFreed`: tables of descriptors agree and nothing a late answer
  would touch has been freed. `NrOf`: the counters. `NoneGlined`: no sweep misses
  anyone. `Settles`: nobody silent stays half open for three intervals, links in
  their handshake left out (*Connections* below).
* `PartQuietTree` (3 servers, 3 connections, 1 cut): quiet servers know exactly the
  tree they are in. `PartLinksAreAttachments` (2 users, 1 link, 2 rehashes of
  three files): classes count attachments and nothing freed is in use.
  `PartOutputKept` (2 links, 1 operator, pool of 3): what is queued and
  what was received is, in order, what was sent, and a queue that is not empty
  waits for an event. `NoneSlips` (2 masks, 3 instants): nobody stays under a
  G-line in force. `PartMatchersAgree` (masks of 4, names of 3 characters, 2 bytes
  behind): all matchers mean the same, but where `match` runs off the name
  (`RunsOff`), and what is dropped as covered was. `PartRuleMeaning` (5 phrases, `&&`
  and `||` being one each, so that both stand in one rule): an accepted rule
  means what the grammar says. `PartTablesKept` (2
  clients, 3 names in shared chains): what is there is found, what is gone is not,
  blocks are freed once. `PartDelivered` (3 servers, users of every kind): each
  listener is told once and nobody else, masks do not outlive their owner's wish,
  new targets are paced. `PingsOwned` (2 operators, 2 pings, 4 descriptors).
  `PartSettingsFollow` (3 writes, starts from the files; also run once with 4): variables
  are what the tables make them, but for dropped tables and bots that a deleted operator took along. `ClonesCounted` (2 clients, 2 addresses, scaled widths):
  the registry counts who is connected and the clone limit holds.

Why these bounds. Two records and `BurstMax` 2 give a burst that fits, one that
is cut, and a record that arrives during either. One loss or restart at every
point covers each step of the handshake and of a burst. Four nodes in a line are
the least with a server between two hubs; two crashes let the second meet the
recovery of the first. Three servers are the least in which a collision, a mode or
a kick is met by a server that is home of neither side, and in which two links
can close a loop. A channel's commands come in plans (sets of commands that touch
one another) of which each behaviour follows one, so that four of them fit; the chain
and its two users are taken up to reflection (`Mirror`). In
`local` a list of one ban makes the second meet the limit, and a ring of two makes
the third nick overwrite. `conn` has two clients and a link, of which two may
be open at once besides the sockets of their ident queries: a close moves the one left. Masks of four characters hold two stars with something between
and behind. `MAXTARGETS`, `MAXSILES`, buffers, pool and `SendLimit` are scaled so
that each limit is reached. Deadlock is not checked: with bounds used up and queues
empty the models may stop, as a quiet network does.

### Disagreements between the code and what is said of it

* **A deletion is lost** (`ddb_lost_delete`, `s_bdd.c:2392`). `db_pack` keeps the
  lines whose value is in memory, so the line of a deletion goes. A server that
  was away keeps the key for ever; `doc/ddb.txt` says that without DB lines in
  flight all servers have the same database.
* **A line to all servers is overwritten** (`send_told`, `send.c:708-728`). The
  notice "Max SendQ limit exceeded" for one server is printed into `sendbuf` in the
  middle of the loop, and the servers after it get the notice.
* **Purging expired G-lines loses another** (`gline_lost`, `opercmds.c:2313-2325`).
  After an expired head is freed the new head is skipped and `a2gline` stays NULL,
  so that freeing the one after it makes the list begin behind it.

### Observations

Met while modelling; the models have these behaviours. Where one would break a property
its exception is part of the property, with six exceptions that the configuration or an assumption leaves
out instead: equal timestamps of links (`SameSecond = FALSE`), masks too long for
`add_silence` after it dropped others (`SilMasks`, `SilLen`), PROXY lines of other protocols
(`ProxyProto`), starts from the cache (`Boots`), a leaf behind a hub whose table is dropped (`ddb_drop`) and classes without
their Y line (`ConfConstants`).

*Database.* A J answered after a D that crossed it fills the emptied hub with a hole
that its leaf keeps (`s_bdd.c:3056`; `ddb_drop` has no such leaf). With `BDD_MMAP` and a valid
cache `initdb` restores only channels, the address key and the clone limit, the
latter two from CONFIGDB instead of FEATURESDB (2797-2826, against the comment at
2787); `borrar_db` leaves settings and modes in effect until a restart and
`clave_de_cifrado_de_ips` dangling; deleting an OPERDB record falls through into
BOTSDB (489-553): a bot of that name loses its entry while its record stands, and loses it
again at every start that reads the deletion, since table b is read before table o (`cut`);
inserting one falls through into NICKDB (1138);
`reload_db` meets `assert(!done)` without `BDD_MMAP` (1780). A pack drops the records that are not
meant for this server (2386-2400), also those that servers behind it still have to ask it for.

*Nicks and users.* A user who quits while its claim is in flight leaves the other
claimant known at one server and killed elsewhere (`s_user.c:6404`). Of three who
claim one nick, two with one `user@host`, a server may keep one the others killed.
`nrof.opers` is not incremented for a remote operator but decremented at its exit
(631); MODE of a nick whose record went counts helpers and operators down twice
(3075-3082, 3194). PROXY with a protocol other than TCP4 or TCP6 charges the address
off twice (1801). `connect_attempts--` at 0 wraps to 15 (`IPcheck.c:461`). The
comment "should *always* be true (?)" at 6367: it is false when both claimants
come from one side.

WATCH asks `FindClient` and so calls a client that is registering on line
(`m_watch.c:136`); if it gives up, `chequea_estado_watch` returns at once (99) and the watcher
is never told. The automodes of a nick record are set by `mask_user_flags` behind the counters
and the privileges (`s_user.c:6068`, 4717; `s_bdd.c:1256`): +i is not counted in `inv_clients`, whose count
then goes one down too often when the mode or the user goes, and +o and +h need no operator record. A client that
changes nick before its registration ends keeps +h and +o of the first nick if the second has an operator record (6054).

SVSNICK to the nick of a client that is still registering leaves two holders of the nick once
that client completes (`s_user.c:4933`); a record that goes takes its modes from one of them.

*Channels.* A KICK that meets its victim as a zombie is dropped and not passed on
(`channel.c:5862`), and a PART is not passed on by a server where only zombies were
left. So crossing KICKs of one victim can leave a zombie for ever, or a member at
servers beyond; and when that victim creates the channel anew, `m_create` (4510) links
it a second time. Five commands of two users are enough, which is why `NoDouble` and
`QuietMembers` except KICKs that cross; in random behaviours of three users with two
losses, nine commands without KICKs and seven with KICKs that cross nothing showed no
other exception. Crossing MODEs and topics of one second need not agree; a
KICK in flight across SQUIT and relink acts on the new membership. `-i` by a member
who is no operator deletes the invitations (1748, before the test at 1801). JOIN
with a key into a channel of magic timestamp sets `creationtime` from the key. A
nick change does not drop a cached ban answer for other masks.

*Connections.* A link whose handshake stops in the middle of a line is never timed
out (`s_bsd.c:1368`, 1837, 1898); a late ident closes a descriptor without its event
(1840-1857). `rehash` and `db_eliminar_registro` walk `loc_clients` upwards and can
skip the connection that `close_connection` moves (`s_conf.c:761`, `s_bdd.c:840`);
`add_gline` walks down and does not.

*Links and lines.* If timestamps of two links can be equal (`SameSecond`),
`QuietTree` fails in 14 steps: both links of a loop are cut, or none. Two servers
that connect to each other at once with equal timestamps close both connections.
A line of a class that vanished keeps a freed class (`class.c:168`); OPER into a full
class leaves the user without a line; an unreadable file at rehash leaves no I
lines.

*Output, messages, G-lines.* `completa_microburst` ignores a failed `dbuf_put`
(`dbuf.c:160`); LIST can list a bucket twice (`hash.c:590`). `add_silence` drops covered
masks before it refuses the new one for its length, without the "-" broadcast
(`s_user.c:3788`); a burst of new targets is `MAXTARGETS` + 1. Operators cannot add
local G-lines (`opercmds.c:2177`); a deactivated G-line hides an active one behind it.

*Algorithms and tables.* `match` and `match_case` step over the end of a name when they look for
a character after a star and the name is used up (`match.c:217`, 297): `*a` matches the empty name if an `a` lies
behind its terminator, against the comment at 154-160. `RunsOff` says when, and `MaskMeaning` that it is
the only wrong answer; `matchexec` has none. A rule may begin with an operator and be
accepted with a missing operand (`crule.c:425`); a single `&` or `|` is swallowed.
`iptobase64` does not reset its count of zeros, so 0:1:0:1:0:0:0:0 is not read back
(`numnicks.c:511`). UPING never ends when no answer comes: `UPINGTIMEOUT` is not used
(`s_ping.c:66`).

### Fairness

`FairSpec` of `DdbNet` assumes weak fairness of each delivery and each connection:
the event loop reads every readable socket (`ircd.c`, main loop), a handler
always ends, and `event_try_connections_callback` tries configured links again
and again. Nothing is assumed of the service, of losses or of restarts; their
bounds make them stop, and `Converges` says what follows then. `Settles` of `Conn`
is the bounded form of such a property: an interval does not pass before the
timers due in it have run, which is what libevent's loop does.

## 4. What is proved

Each theorem is for every value of the constants that satisfies the named
assumptions of its module. Those say no more than the code does: sets of servers,
clients and descriptors are finite, marks such as `NoValue` are no values, the
service is no server and has no hub, a link is dialled from one side (C:line
against N:line) and not to oneself, `BurstMax` is at least 1, the links of `NickNet` make
a tree (`HopIsTree`; that two ways never join is the business of `LinkNet`). Hypotheses
beyond them stand in the theorem itself, with the reason below.

| module | theorem | states |
|---|---|---|
| `DdbNetProofs` | `TypeCorrect` | `Spec => []TypeOK` |
| | `SerieIsEndOfFile` | `Spec => []FileEndsAtSerie`: J's search for a line above the serial of a peer that is behind cannot fail, so the `db_die` there is never reached |
| | `RestartIsTransparent` | `Spec => []MemoryIsFile`: replaying the file gives the memory, also after a pack |
| | `FilesHaveNoHole` | `Spec => []NoHole`: a server at serial *s* holds every live record up to *s* |
| | `QuietServersAgree` | `Spec => []QuietAgreement`: a server at rest is level with its hubs |
| | `QuietServersHoldService` | ... and holds the table of the service if a chain of H:lines leads there |
| `DdbStoreProofs` | `IdleStateAgrees` | `Spec => []IdleAgrees`: file, hashes and table agree between two handlers |
| | `FilesImplementTable` | `Spec => RefinesTable`: the writes to the disk implement `DdbTable` |
| `PartsProofs` | `ClonesAreCounted` | `IpSpec => []ClonesCounted` |
| | `PingsAreOwned` | `UpingSpec => []PingsOwned` |
| `GlinesProofs` | `NobodySlips` | `GlineSpec => []NoneSlips`: nobody is online under a G-line in force that was never switched off, and no mask is listed twice |
| `ConnProofs` | `ConnFdTable` | `Spec => []FdTable`: `loc_clients` and the descriptors of the clients are inverse below `highest_fd`, and each read event is its owner's |
| | `ConnNothingFreed` | `Spec => []NothingFreed`: a request is of a connection that waits for it, and a host entry pointed to is in the cache |
| | `ConnNrOf` | `Spec => []NrOf`: the counts of clients and servers are those of the tables |
| | `ConnNoneGlined` | `Spec => []NoneGlined`: nobody under a G-line is on line |
| | `ConnSettles` | `Spec => []Settles`: nobody silent stays half open for three intervals |
| `ChanLocalProofs` | `ChanMirrored` | `ChanSpec => []Mirrored`: both ends of memberships and invitations, and their counters, agree |
| | `ChanLifetime` | `ChanSpec => []Lifetime`: a channel is there while somebody who is no zombie is on it or the table has it |
| | `ChanBanCache` | `ChanSpec => []BanCache`: no remembered answer of `is_banned` is stale |
| | `ChanDiscreet` | `ChanSpec => []Discreet`: NAMES, WHO, WHOIS and LIST keep secret channels and invisible users from strangers |
| `UsersProofs` | `UsersWatchTold` | `UserSpec => []WatchTold`: whoever watches a nick last heard the truth about it or was shown a client that was registering, and both ends of the lists agree |
| | `UsersHistoryLists` | `UserSpec => []HistoryLists`: the entry of the ring that goes is the last of its lists (the test that dumps core is never met), and `get_history` answers with no client that has gone |
| | `UsersEntitled` | `UserSpec => []Entitled`: modes, privileges and protected nicks have their ground in the tables or are `extra`, and the invisible users are counted right up to the `missed` |
| `NickNetProofs` | `CollisionsAreSettled` | `Spec => []CollisionsSettled`: one holder of a nick at every server, and only users somebody had the better right against are killed for it |
| | `InnocentsAreAgreed` | ... and with nothing in flight all servers agree about everybody else |

*Types and memory of `DdbNet`.* `TypeOK` is not inductive. A burst is one message,
which must not be empty for a record to be taken from it, and that a burst is not
empty follows from the file ending at `tabla_serie`; so `IInv == TypeOK /\
FileEndsAtSerie` is the inductive invariant. `NextRecExists` gives the least serial
of a set of records (from the well-foundedness of `<`). `MemoryIsFile` is then
inductive with `IInv`: `ReplayAppend` says what a record above all serials does to
a replay, `ReplayPacked` that a pack changes no replay, because the lines it keeps
hold the value in memory and the latest line of a live key is among them.

*No hole.* `NoHole` says nothing of lines in flight, and it is they that make holes.
`HoleInv` adds to `IInv` and `MemoryIsFile`
`LinkInv` (SERVER travels first on a link; the question of a link is in one place:
J on its way, B on its way back, or the tap open), `FlowInv` (on a link from a hub no
record overtakes a live one, a J tells a serial its sender has not passed, and behind an
open tap everything the sender has counted has been sent), `FromService` (files hold
records of the service only) and `Full`, the property itself for the records that are
live at the service. Each action is shown to keep each part, queue by queue; the
queues are described by position, and the lemmas `Append...`, `Tail...`, `Cut...` say what
becomes of such a description. Two hypotheses, both needed:

* `MaxDrop = 0`: the service sends no D. A J answered after a D that crossed it makes
  a hole (Observations).
* `DestMask \subseteq {Server}`: records are for all servers. The pack of a hub looks a
  record up in its memory, where one not meant for that hub is not
  (`s_bdd.c:2386-2400`), and drops it from the file before the servers behind have it;
  with masks for some servers TLC finds the hole on a chain of two.

*Agreement.* That nothing is in flight and a tap is open gives level serials by `FlowInv`.
`QuietInv` adds `AskInv`: on every link towards a hub J, B or the open tap is
there at every moment (so in a quiet state it is the tap), and a server with a serial above 0
is `Reached` from the service along H:lines. `Written` and the hypothesis
`~Checkpoints \/ NoValue \notin WriteVal` exclude the case that run
`ddb_lost_delete` refutes: a deletion that a compaction removed before
a server saw it.

*Files.* Neither theorem is inductive: `StoreInv` says what holds after each single write of
`db_alta`, `db_pack`, `borrar_db` and the boot (`AltaInv`, `PackInv`, `DropInv`), of
a cache that may still be used (`CacheKept`) and between handlers (`IdleInv`). It rests on what the
loop of `db_pack` keeps (`Moved`, a recursive function) and on what `initdb2` makes of a file, both
by induction over lines. The induction schemes of the library take a predicate as a
parameter, which the provers do not; `NatSetInduction` says it of a *set* of
numbers, and that they take. For the refinement every step is shown to keep `PromisedTable` or to
do what an action of `DdbTable` does.

*Clones.* Every operation of `IPcheck.c` moves the count of one address by one and
expiry only drops entries that count 0; the callers pair each move with a client that
comes or goes. Hypotheses: `RoomForAll`, the bit field `connected` has room for all client
structures (the code does not test it), and `OnlyTCP4`, no PROXY line of
another protocol, which charges an address off twice (`s_user.c:1801`).

*Pings.* `PingsOwned` needs more to be inductive: the entry of `loc_clients` and the descriptor in the
ping say the same (`close_connection` moves by the first, `end_ping` frees
by the second), no two pings have one asker, and a ping that waits for the resolver
has sent nothing, so no answer can free it while a query names it (`UpingInv`).

*G-lines.* `NoneSlips` speaks of entries that have not expired and is not inductive so. The purge of
`m_gline` goes on behind the new head when it has freed the head, so an expired entry may stay in the list,
and a service may give it a new time. `GlineInv` says it of the expired entries too, and that
is true because `find_gline` frees each expired entry it passes and lets nobody in without a hit before it has passed
all. The two passes are recursive functions of the number of turns; `LoopExists` and `LoopStays` (for any loop
body that is a function on a set of states) give their equations and invariants, `FindTurn` the measure that
makes the search end.

*Collisions.* A user is `Excused` once a user had it killed or it made a claim worse than
somebody else's; `RightOneKilled` says that all who are killed are excused, and the
argument is about the others. They leave a table only by a QUIT, SQUIT or end of file from the side
they came from, so the lines on the way from a neighbour lead, entry by entry, from what
this server has of the user to what the neighbour has (`Flow`, `Path`, `Step`), and on that way nobody
else takes the nick. A server that sees a change by a user it does not know, a user introduced
twice or two holders from one side has therefore met excused users, and in
a collision between two sides the tests of `m_nick_remoto` (`Loses`, `Equal`) compare
just the claims that `Better` compares. `Phase` says what the two queues of a link may hold while it
is called, half open, up or closed at one end, since what the other end has closed is not
read; the burst of `m_server_estab` is one path for all users (`Greets`). `NickInv`
collects this with one holder per nick (`OneEach`), that every entry is a claim
of its user (`Entered`) and that a server knows the hops to what it knows (`Knows`). Nothing is
assumed of hosts, times, owners, operators or the number of losses. `InnocentsAgree` is `Flow`
with empty queues, followed hop by hop. `SignOnAgreement` stays with TLC: it is about excused users too.

*Connections.* All five properties come from one inductive invariant, `ConnInv`. Its parts say how long
a connection that is not registered may have waited, by what is left to be tried (`Fine`,
`Patient`: its look-ups are given up once, and once that is done it is closed), in which tables it is
entered (`Placed`), that the resolver has at most one request for it (`ReqsOK`), and what the counts
and the host entries are (`CountsOK`, `HostsOK`). An operation is followed as the
code writes its tables: `Leads(s, t)` says that the writes from `s` to `t` end clients and do
nothing else, `close_connection` does so, and each loop does so turn by turn (`Sweep` is a recursive function
of the turns). `close_connection` moves the connection with the highest descriptor into the hole; the loop of
`add_gline` goes from the top down, so whoever is moved has been visited, and nobody escapes (`Clear`).
The theorems add to the
assumptions of `Conn` only what makes the tables tables: clients are finitely many, and
the mark `None` is neither client nor address. `Settles` bounds the wait and is a safety property;
that intervals do pass is the event loop's business (Fairness).

*Channels of one server.* The operators of `ChanLocal` lead from one record of the tables to another, so
`ChanInv` says of such a record that it is `Sound`: the list of a user holds each channel it is on once, and no other
(`Members`), the same of invitations (`Calls`), and every channel taken by itself is in order (`Kept`: its counter, its
flags, its being there and the remembered answers about bans, `Answered`) and has more than zombies on it
(`Alive`). `Alive` stands apart because `remove_user_from_channel` breaks it: once the last member who is no
zombie is gone it takes the zombies out one by one, and the channel is freed under the last of them. There is
a lemma for one turn of each of the four loops (leaving all channels, emptying a channel, the
invitations of a channel and those of a user) and one that carries a turn over all turns; that a loop ends
with an empty list is the count of its turns. What `sub1_from_channel` frees is a channel whose members are
gone, so nothing is left that its lists could still point to. `Discreet` follows from the two ends of memberships
agreeing, answer by answer, because the code asks now one end and now the other. Users and
channels are assumed to be finitely many and the limits to be at least 1; a user has two nicks, as in the model.

*Users of one server.* `UserInv` has a part for each list, and none of the three properties is inductive without
its part. `Ring` orders the entries of WHOWAS by age (`Rank`, counted from the one that is next to
go): a list is `Filed` if it holds just the entries of its nick or its client, youngest first, so
the oldest of all is the last wherever it stands, and writing a new one makes every other older by one. `Truthful`
needs that a nick has one holder (`Single`), else the exit of one would be told as the end of
both, that what was shown `early` is over with the first notice (no user who has signed on without a notice waiting is among it), and that only users of other servers keep a notice waiting (`Shaped`). `Based` says of the modes what
`Entitled` says and more: that +h and +o without OPER go with +r, that +S also has its record, that the privileges of a nick with
+r whose record gives them are there, what of it is `extra`, and all this before registration is complete too, since `register_user` changes no mode. The steps of NICK, `rename_user`, MODE and the
records are then shown to leave a user `Earned`, and everybody else as he was; the client that is just
registering with the nick of a record that changes is excepted in the model, as the code does not find him.
The proof corrected the property: SVSNICK may give a user the nick of a client that is still registering, who then
completes his registration with it; of the two, a change of the record finds one
(`s_bdd.c:447`), and the other keeps modes and nick without ground. Nicks that two have held
(`clash`) were excepted for `WatchTold` and now are for `Entitled`, and run `local` has a plan in which it happens. Assumed beyond the limits
being at least 1: clients are finitely many, no nick or client is the mark `None`, and guest names are more than the
clients of the server; records are of names that users choose, never of guest names.

Everything else is model-checked only. `Converges` is about
progress, which is beyond the prover. `Masks`, `Rules` and `Messages` use RECURSIVE
operators, which shut the SMT solver out; `ConfLines` and `SendQ` walk their
lists with folds, about which no lemma is available: written as the passes of `Glines`, `Conn` and `ChanLocal` are, they
come within reach, as are `ChanNet`, `LinkNet` and `Tables` (see the plan).

## 5. What is not modelled

Listed with reasons in `PROJECT.json`. Protocol 9 links; virtual hosts, exceptions and
spam filters (`spam.c` holds stubs); `mmexec` and `matchcompIP`; AWAY, SETTIME,
RPING, RESTART, DIE. Reports (STATS, TRACE, INFO, the text of numerics), parsing of the
configuration file into fields, statistics, formatting and allocation keep no
protocol state. `persistent_malloc` and libevent are vendored.

## 6. Plan

1. *Proofs*: `LinksAreAttachments` and `OutputKept`, with the folds of `ConfLines` and
   `SendQ` as loops (`Repeat` of `ChanLocal`); `NoDouble` and `QuietMembers` of `ChanNet`.
2. *Composition*: `LinkNet` with the bursts of `NickNet` and `ChanNet` over a tree that
   changes shape, in place of the fixed chain.
3. *More of the code*: virtual hosts and exceptions, `mmexec`, SETTIME.
