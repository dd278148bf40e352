------------------------------- MODULE Messages -------------------------------
(****************************************************************************)
(* How a message reaches the people it is for (s_user.c, send.c,            *)
(* opercmds.c).  A server passes a message on over a link when somebody it  *)
(* is for is behind that link, once per link, and never back over the link  *)
(* it came from; the server of the addressee delivers it.  Most tests are   *)
(* made by the sender's server only, some by every server on the way.       *)
(*                                                                          *)
(* talk: messages of every kind in a network whose users, channels and      *)
(* modes (world) stand still.  silence: the SILENCE lists, which travel     *)
(* back along the way of a refused message and are taken back by a          *)
(* broadcast.  targets: the limit on new targets of one local user.         *)
(****************************************************************************)
EXTENDS SequencesExt, Integers

CONSTANTS
  Relays,         \* servers
  Way,            \* [Relays -> [Relays -> next server towards]]
  Folk,           \* users
  HomeOf,         \* [Folk -> Relays]
  Worlds,         \* users, channels and modes that are tried
  Talk,           \* commands that are tried
  SilTalk,        \* private messages that are tried against SILENCE lists
  Silencers,      \* users who give SILENCE commands
  SilMasks,       \* masks
  SilCovers,      \* pairs <<a, b>>: mmatch(a, b) finds b within a
  SilHits,        \* pairs <<mask, user>>
  SilLen,         \* [SilMasks -> length]
  MAXSILES, MAXSILELENGTH,
  MaxTalk,        \* messages per behaviour
  MaxSilCmds,     \* SILENCE commands per behaviour
  Goals,          \* hashes of targets
  MAXTARGETS, RESERVEDTARGETS, STARTTARGETS, TARGET_DELAY,
  MaxPaceClock, MaxPaced,
  Desks           \* what is tried: subset of {"talk", "silence", "targets"}

VARIABLES
  desk,
  world,          \* the users, channels and modes
  mwire,          \* [links -> messages under way]
  asked,          \* the commands given, in order
  got,            \* [1..MaxTalk -> [Folk -> the forms received]]
  barred,         \* messages stopped by a SILENCE mask
  sil,            \* [Relays -> [Folk -> masks, newest first]]: user->silence
  silCmds,
  pace            \* the local user's targets, nexttarget, the clock, new targets

msgVars == <<desk, world, mwire, asked, got, barred, sil, silCmds, pace>>

-----------------------------------------------------------------------------
(* Who is behind what.                                                      *)

Paths == {l \in Relays \X Relays : l[1] # l[2] /\ Way[l[1]][l[2]] = l[2]}
Local(s, p) == HomeOf[p] = s

\* acptr->from: the user himself when he is local, else the link towards him.
FromOf(s, p) == IF Local(s, p) THEN p ELSE Way[s][HomeOf[p]]

\* The links a message for Set goes out on, but the one it came from; with
\* Skip, those still eating a net.burst are left out.
FanOut_NoSkip(s, one, Set) == {FromOf(s, p) : p \in {q \in Set : ~Local(s, q)}}
FanOut(s, one, Set) == {FromOf(s, p) : p \in {q \in Set : ~Local(s, q)}} \ {one}
Awake(s, Links_) == {t \in Links_ : <<s, t>> \notin world.eating}
Mine(s, one, Set) == {p \in Set : Local(s, p) /\ FromOf(s, p) # one}

IsMsgMember(p, c) == p \in world.members[c]
Hears(c) == {p \in world.members[c] : p \notin world.zombies \cup world.deaf}

\* can_send: who is banned is tested by the user's own server only.
CanSend(s, p, c) ==
  LET flag == ~IsMsgMember(p, c) \/ p \notin world.voiced \/ p \in world.zombies IN
  /\ ~(flag /\ Local(s, p) /\ p \in world.banned)
  /\ ~(flag /\ "m" \in world.modes)
  /\ ~(~IsMsgMember(p, c) /\ "n" \in world.modes)

-----------------------------------------------------------------------------
(* SILENCE lists.                                                           *)

SilencedBy(s, p, u) == {i \in DOMAIN sil[s][u] : <<sil[s][u][i], p>> \in SilHits}
is_silenced(s, p, u) == SilencedBy(s, p, u) # {}
FirstSilence(s, p, u) == sil[s][u][CHOOSE i \in SilencedBy(s, p, u) :
                                     \A j \in SilencedBy(s, p, u) : i <= j]

\* A server the sender is not local to sends the mask back towards him.
Upstream(s, p, u) ==
  IF Local(s, p) THEN {}
  ELSE {[to |-> FromOf(s, p),
         msg |-> [kind |-> "sil+", from |-> u, to |-> p, mask |-> FirstSilence(s, p, u)]]}

del_silence(list, m) == SelectSeq(list, LAMBDA k : <<m, k>> \notin SilCovers)

\* Where add_silence stops in the list, or one past its end: the same mask;
\* and, for a local user, the length or the number reached, or a mask that
\* has the new one in it.  Masks the new one covers are dropped up to there.
Kept(list, m, i) == SelectSeq(SubSeq(list, 1, i), LAMBDA k : <<m, k>> \notin SilCovers)
KeptLen(list, m, i) == FoldSeq(LAMBDA k, n : n + SilLen[k], SilLen[m], Kept(list, m, i))
Stops(list, m, i, mine) ==
  \/ list[i] = m
  \/ /\ mine
     /\ <<m, list[i]>> \notin SilCovers
     /\ \/ KeptLen(list, m, i) > MAXSILELENGTH
        \/ Len(Kept(list, m, i)) >= MAXSILES
        \/ <<list[i], m>> \in SilCovers
StopAt(list, m, mine) ==
  LET at == {i \in DOMAIN list : Stops(list, m, i, mine)} IN
  IF at = {} THEN Len(list) + 1 ELSE CHOOSE i \in at : \A j \in at : i <= j
add_silence(list, m, mine) ==
  LET e == StopAt(list, m, mine) IN
  IF e > Len(list) THEN <<m>> \o Kept(list, m, Len(list))
  ELSE Kept(list, m, e - 1) \o SubSeq(list, e, Len(list))

-----------------------------------------------------------------------------
(* Handlers: what server s does with message m that came from one (a link,  *)
(* or the local sender).  hear: [user -> form] for local users, out: the    *)
(* lines that leave.                                                        *)

Onward(m, tos) == {[to |-> t, msg |-> m] : t \in tos}
Nothing == [hear |-> {}, out |-> {}, bar |-> FALSE]
EachHears(P, form) == {[who |-> p, form |-> form] : p \in P}

\* m_message, a channel: sendto_channel_butone, or the two colour variants.
ToChannel(s, one, m) ==
  LET c == m.to
      p == m.from
      me_ == Local(s, p)
      refused == me_ /\ \/ m.ctcp /\ "noctcp" \in world.modes
                        \/ m.notice /\ "nonotice" \in world.modes
      here == Mine(s, one, Hears(c))
  IN IF ~CanSend(s, p, c) \/ refused \/ p \in world.udeaf THEN Nothing
     ELSE [Nothing EXCEPT
             !.hear = IF "nocolour" \in world.modes
                      THEN EachHears(here \ world.strip, "colour") \cup EachHears(here \cap world.strip, "plain")
                      ELSE EachHears(here, "colour"),
             !.out = Onward(m, Awake(s, FanOut(s, one, Hears(c))))]

\* m_wallchops: sendto_lchanops_butone and sendto_chanopsserv_butone.
ToChanops(s, one, m) ==
  IF ~CanSend(s, m.from, m.to) THEN Nothing
  ELSE LET ops == Hears(m.to) \cap world.ops IN
       [Nothing EXCEPT !.hear = EachHears(Mine(s, one, ops), "chops"),
                       !.out = Onward(m, Awake(s, FanOut(s, one, ops)))]

Clone(p, u) == world.ip[p] = world.ip[u]
MsgOnlyReg(p, u) == u \in world.regOnly /\ p \notin world.registered /\ p \notin world.anoper

\* A silenced message stops here and its mask goes back.
Guarded(s, p, u, deliver) ==
  IF is_silenced(s, p, u) THEN [Nothing EXCEPT !.out = Upstream(s, p, u), !.bar = TRUE]
  ELSE deliver

\* m_message, a user: the sender's server makes all tests but SILENCE, which
\* every server on the way makes.
ToUser(s, one, m) ==
  LET p == m.from
      u == m.to
      refused ==
        \/ p \notin world.anoper /\ ~Clone(p, u) /\ u \in world.bitch
        \/ p \in world.bitch /\ ~Clone(p, u) /\ u \notin world.bots
        \/ u \in world.noctcp /\ p \notin world.anoper /\ p # u /\ m.ctcp
        \/ MsgOnlyReg(p, u)
  IN IF Local(s, p) /\ refused THEN Nothing
     ELSE Guarded(s, p, u, IF Local(s, u) THEN [Nothing EXCEPT !.hear = EachHears({u}, "private")]
                           ELSE [Nothing EXCEPT !.out = Onward(m, {FromOf(s, u)})])

\* whisper: a voiced member to a member; it travels on as a private message.
Whisper(s, one, m) ==
  LET p == m.from
      u == m.to
      c == m.chan
  IN IF ~(IsMsgMember(p, c) /\ p \in world.voiced) \/ ~IsMsgMember(u, c) \/ MsgOnlyReg(p, u)
     THEN Nothing
     ELSE Guarded(s, p, u, IF Local(s, u) THEN [Nothing EXCEPT !.hear = EachHears({u}, "private")]
                           ELSE [Nothing EXCEPT !.out =
                                   Onward([m EXCEPT !.kind = "user"], {FromOf(s, u)})])

\* m_message, an operator to a mask of servers or hosts: sendto_match_butone.
ToMatch(s, one, m) ==
  IF m.from \notin world.anoper THEN Nothing
  ELSE LET origin == IF one \in Relays THEN one ELSE "NULL" IN
       [Nothing EXCEPT !.hear = EachHears({p \in m.to : Local(s, p)}, "global"),
                       !.out = Onward(m, FanOut(s, origin, m.to))]

\* m_message, nick@server: passed on to that server, which makes the tests.
ToNickAt(s, one, m) ==
  LET p == m.from
      u == m.to
  IN IF m.server # s THEN [Nothing EXCEPT !.out = Onward(m, {Way[s][m.server]})]
     ELSE IF \/ ~Local(s, u)
             \/ p \notin world.oper /\ ~Clone(p, u) /\ u \in world.bitch
             \/ p \in world.bitch /\ ~Clone(p, u)
             \/ MsgOnlyReg(p, u)
          THEN Nothing
          ELSE Guarded(s, p, u, [Nothing EXCEPT !.hear = EachHears({u}, "private")])

\* m_wallops: sendto_ops_butone.
Wallopers == world.wallops \cap world.anoper
ToWallops(s, one, m) ==
  IF Local(s, m.from) /\ m.from \notin world.anoper THEN Nothing
  ELSE LET origin == IF one \in Relays THEN one ELSE "NULL" IN
       [Nothing EXCEPT !.hear = EachHears({p \in Wallopers : Local(s, p)}, "wallops"),
                       !.out = Onward(m, FanOut(s, origin, Wallopers))]

\* What every server is told of (a nick, a mode): sendto_common_channels or
\* sendto_channel_butserv for those here, sendto_serv_butone for the rest.
Sharing(p) == {q \in Folk : \E c \in DOMAIN world.members : IsMsgMember(p, c) /\ IsMsgMember(q, c)}
ToAllServers(s, one, m) ==
  [Nothing EXCEPT
     !.hear = EachHears({p \in IF m.kind = "nick" THEN Sharing(m.from) \cup {m.from}
                           ELSE world.members[m.to] \ world.zombies : Local(s, p)}, m.kind),
     !.out = Onward(m, {t \in Relays : <<s, t>> \in Paths} \ {one})]

m_message(s, one, m) ==
  CASE m.kind = "chan" -> ToChannel(s, one, m)
    [] m.kind = "chops" -> ToChanops(s, one, m)
    [] m.kind = "user" -> ToUser(s, one, m)
    [] m.kind = "whisper" -> Whisper(s, one, m)
    [] m.kind = "match" -> ToMatch(s, one, m)
    [] m.kind = "at" -> ToNickAt(s, one, m)
    [] m.kind = "wallops" -> ToWallops(s, one, m)
    [] m.kind \in {"nick", "mode"} -> ToAllServers(s, one, m)

\* What leaves s goes to the end of the links' queues.
Wired(w, s, out) ==
  [l \in Paths |-> IF l[1] # s THEN w[l]
                   ELSE w[l] \o SetToSeq({x.msg : x \in {y \in out : y.to = l[2]}})]
Heeded(g, n, hear) ==
  [g EXCEPT ![n] = [p \in Folk |-> @[p] \o SetToSeq({x.form : x \in {y \in hear : y.who = p}})]]

Done(w, s, n, r) ==
  /\ mwire' = Wired(w, s, r.out)
  /\ got' = Heeded(got, n, r.hear)
  /\ barred' = IF r.bar THEN barred \cup {n} ELSE barred

-----------------------------------------------------------------------------
(* Actions.                                                                 *)

\* A local user gives a command; the server handles it at once.
Utters(cmd) ==
  /\ desk \in {"talk", "silence"}
  /\ Len(asked) < (IF desk = "talk" THEN 1 ELSE MaxTalk)   \* messages alone do not meddle
  /\ asked' = Append(asked, cmd)
  /\ LET m == cmd @@ [id |-> Len(asked) + 1] IN
     Done(mwire, HomeOf[cmd.from], m.id, m_message(HomeOf[cmd.from], cmd.from, m))
  /\ UNCHANGED <<desk, world, sil, silCmds, pace>>

\* m_silence of a local user; only a mask taken back is told to the servers.
SilenceCmd(u, sign, mask) ==
  LET s == HomeOf[u]
      old == sil[s][u]
      new == IF sign = "-" THEN del_silence(old, mask) ELSE add_silence(old, mask, TRUE)
      tell == sign = "-" /\ new # old
  IN /\ desk = "silence"
     /\ silCmds < MaxSilCmds
     /\ silCmds' = silCmds + 1
     /\ sil' = [sil EXCEPT ![s][u] = new]
     /\ mwire' = IF tell THEN Wired(mwire, s, Onward([kind |-> "sil-", from |-> u, mask |-> mask],
                                                     {t \in Relays : <<s, t>> \in Paths}))
                 ELSE mwire
     /\ UNCHANGED <<desk, world, asked, got, barred, pace>>

\* m_silence from a server: "-" goes on where something was taken out, "+"
\* goes on towards the user who is silenced.
RemoteSilence_KeptBack(s, t, w, m) ==
  LET old == sil[t][m.from]
      new == IF m.kind = "sil-" THEN del_silence(old, m.mask) ELSE add_silence(old, m.mask, FALSE)
      out == IF m.kind = "sil-" \/ Local(t, m.to) THEN {} ELSE {FromOf(t, m.to)}
  IN /\ sil' = [sil EXCEPT ![t][m.from] = new]
     /\ mwire' = Wired(w, t, Onward(m, out))
     /\ UNCHANGED <<got, barred>>
RemoteSilence(s, t, w, m) ==
  LET old == sil[t][m.from]
      new == IF m.kind = "sil-" THEN del_silence(old, m.mask) ELSE add_silence(old, m.mask, FALSE)
      out == IF m.kind = "sil-"
             THEN IF new = old THEN {} ELSE {r \in Relays : <<t, r>> \in Paths} \ {s}
             ELSE IF Local(t, m.to) THEN {} ELSE {FromOf(t, m.to)}
  IN /\ sil' = [sil EXCEPT ![t][m.from] = new]
     /\ mwire' = Wired(w, t, Onward(m, out))
     /\ UNCHANGED <<got, barred>>

\* Server t reads a line of s.
Receives(s, t) ==
  /\ desk # "targets"
  /\ <<s, t>> \in Paths /\ mwire[<<s, t>>] # <<>>
  /\ LET m == Head(mwire[<<s, t>>])
         w == [mwire EXCEPT ![<<s, t>>] = Tail(@)]
     IN IF m.kind \in {"sil+", "sil-"} THEN RemoteSilence(s, t, w, m)
        ELSE /\ Done(w, t, m.id, m_message(t, s, m))
             /\ UNCHANGED sil
  /\ UNCHANGED <<desk, world, asked, silCmds, pace>>

-----------------------------------------------------------------------------
(* The limit on targets of one local user.                                  *)

InTable(h) == \E i \in 1..MAXTARGETS : pace.targets[i] = h
MovedUp(ts, h) ==
  LET p == CHOOSE i \in 1..MAXTARGETS : ts[i] = h /\ \A j \in 1..(i - 1) : ts[j] # h IN
  <<h>> \o SubSeq(ts, 1, p - 1) \o SubSeq(ts, p + 1, MAXTARGETS)
Shifted(ts, h) == <<h>> \o SubSeq(ts, 1, MAXTARGETS - 1)

Charged(next, clk) ==
  LET floor == clk - TARGET_DELAY * (MAXTARGETS - 1) IN
  IF next + TARGET_DELAY < floor THEN floor ELSE next + TARGET_DELAY

\* check_target_limit for target h; created: a channel just created.
check_target_limit(h, created) ==
  /\ desk = "targets"
  /\ pace' =
       IF InTable(h) THEN [pace EXCEPT !.targets = MovedUp(@, h)]
       ELSE IF created THEN [pace EXCEPT !.targets = Shifted(@, h)]
       ELSE IF pace.clk < pace.next
            THEN [pace EXCEPT !.next = IF @ - pace.clk < TARGET_DELAY + 8 THEN @ + 2 ELSE @]
            ELSE [pace EXCEPT !.targets = Shifted(@, h), !.next = Charged(@, pace.clk),
                              !.fresh = Append(@, pace.clk)]
  /\ Len(pace'.fresh) <= MaxPaced
  /\ UNCHANGED <<desk, world, mwire, asked, got, barred, sil, silCmds>>

\* add_target: whoever wrote to us may be answered.
add_target(h) ==
  /\ desk = "targets"
  /\ ~InTable(h)
  /\ pace' = [pace EXCEPT !.targets =
                SubSeq(@, 1, RESERVEDTARGETS) \o <<h>> \o SubSeq(@, RESERVEDTARGETS + 1, MAXTARGETS - 1)]
  /\ UNCHANGED <<desk, world, mwire, asked, got, barred, sil, silCmds>>

PaceTick(d) ==
  /\ desk = "targets"
  /\ pace.clk + d <= MaxPaceClock
  /\ pace' = [pace EXCEPT !.clk = @ + d]
  /\ UNCHANGED <<desk, world, mwire, asked, got, barred, sil, silCmds>>

-----------------------------------------------------------------------------
MsgInit ==
  /\ desk \in Desks
  /\ world \in IF desk = "talk" THEN Worlds ELSE {CHOOSE w \in Worlds : TRUE}
  /\ mwire = [l \in Paths |-> <<>>]
  /\ asked = <<>>
  /\ got = [n \in 1..MaxTalk |-> [p \in Folk |-> <<>>]]
  /\ barred = {}
  /\ sil = [s \in Relays |-> [p \in Folk |-> <<>>]]
  /\ silCmds = 0
  /\ pace = [targets |-> [i \in 1..MAXTARGETS |-> 0] \o <<>>,
             next |-> -TARGET_DELAY * (STARTTARGETS - 1), clk |-> 0, fresh |-> <<>>]

MsgNext ==
  \/ \E cmd \in IF desk = "talk" THEN Talk ELSE SilTalk : Utters(cmd)
  \/ \E u \in Silencers, sign \in {"+", "-"}, m \in SilMasks : SilenceCmd(u, sign, m)
  \/ \E l \in Paths : Receives(l[1], l[2])
  \/ \E h \in Goals, created \in BOOLEAN : check_target_limit(h, created)
  \/ \E h \in Goals : add_target(h)
  \/ \E d \in {1, TARGET_DELAY * (MAXTARGETS + 1)} : PaceTick(d)

MsgSpec == MsgInit /\ [][MsgNext]_msgVars

-----------------------------------------------------------------------------
(* Properties.                                                              *)

Forms == {"colour", "plain", "chops", "private", "global", "wallops", "nick", "mode"}
MsgTypeOK ==
  /\ desk \in Desks /\ world \in Worlds
  /\ Len(asked) <= MaxTalk
  /\ \A n \in 1..MaxTalk, p \in Folk : Range(got[n][p]) \subseteq Forms
  /\ \A s \in Relays, p \in Folk : Range(sil[s][p]) \subseteq SilMasks /\ IsInjective(sil[s][p])
  /\ Len(pace.targets) = MAXTARGETS

\* The links between the server of p and the server of q all carry channel
\* messages.
RECURSIVE ClearWay(_, _)
ClearWay(s, t) == s = t \/ (<<s, Way[s][t]>> \notin world.eating /\ ClearWay(Way[s][t], t))

\* Whom a command is for and in which form, said of the network as a whole.
Addressed(m) ==
  LET p == m.from
      c == m.to
      reach == {q \in Folk : ClearWay(HomeOf[p], HomeOf[q])}
      says == /\ \/ p \in world.members["c1"] /\ p \in world.voiced /\ p \notin world.zombies
                 \/ p \notin world.banned /\ "m" \notin world.modes
              /\ p \in world.members["c1"] \/ "n" \notin world.modes
      asUser == \/ p \in world.anoper
                \/ /\ Clone(p, m.to) \/ m.to \notin world.bitch
                   /\ m.to \notin world.regOnly \/ p \in world.registered
                   /\ m.kind = "user" => m.to \notin world.noctcp \/ ~m.ctcp \/ p = m.to
      asBitch == p \in world.bitch => Clone(p, m.to) \/ (m.kind = "user" /\ m.to \in world.bots)
  IN CASE m.kind = "chan" ->
            IF ~says \/ p \in world.udeaf \/ (m.ctcp /\ "noctcp" \in world.modes)
                     \/ (m.notice /\ "nonotice" \in world.modes) THEN {}
            ELSE {[who |-> q, form |-> IF "nocolour" \in world.modes /\ q \in world.strip
                                       THEN "plain" ELSE "colour"] : q \in (Hears(c) \cap reach) \ {p}}
       [] m.kind = "chops" ->
            IF says THEN EachHears((Hears(c) \cap world.ops \cap reach) \ {p}, "chops") ELSE {}
       [] m.kind = "user" -> IF asUser /\ asBitch THEN EachHears({m.to}, "private") ELSE {}
       [] m.kind = "whisper" ->
            IF {p, m.to} \subseteq world.members[m.chan] /\ p \in world.voiced
               /\ (m.to \notin world.regOnly \/ p \in world.registered \cup world.anoper)
            THEN EachHears({m.to}, "private") ELSE {}
       [] m.kind = "match" -> IF p \in world.anoper THEN EachHears(m.to, "global") ELSE {}
       [] m.kind = "at" ->
            IF HomeOf[m.to] = m.server /\ asUser /\ asBitch
               /\ (p \in world.oper \/ Clone(p, m.to) \/ m.to \notin world.bitch)
            THEN EachHears({m.to}, "private") ELSE {}
       [] m.kind = "wallops" ->
            IF p \in world.anoper THEN EachHears(world.wallops \cap world.anoper, "wallops") ELSE {}
       [] m.kind = "nick" -> EachHears(Sharing(p) \cup {p}, "nick")
       [] m.kind = "mode" -> EachHears(world.members[c] \ world.zombies, "mode")

Idle == \A l \in Paths : mwire[l] = <<>>

\* Nobody is told twice or in another form than he should be, nobody who was
\* not addressed is told, and once no line is under way everybody addressed
\* has been told, unless a SILENCE mask stopped the message (m_message and
\* the functions of send.c that pass messages on and skip the link a message
\* came from).
ToldOnce ==
  \A n \in DOMAIN asked :
    LET to == Addressed(asked[n]) IN
    /\ \A p \in Folk : /\ Len(got[n][p]) <= 1
                       /\ \A i \in DOMAIN got[n][p] : [who |-> p, form |-> got[n][p][i]] \in to
    /\ Idle /\ n \notin barred => \A x \in to : got[n][x.who] # <<>>

\* A mask another server keeps for a user is within one his own server keeps,
\* once no line is under way (is_silenced spreads masks, m_silence takes them
\* back, add_silence drops the ones a new mask covers).
SilencesLive ==
  Idle => \A s \in Relays, u \in Folk : \A i \in DOMAIN sil[s][u] :
            \E j \in DOMAIN sil[HomeOf[u]][u] : <<sil[HomeOf[u]][u][j], sil[s][u][i]>> \in SilCovers

\* Between any two new targets no more are let through than the table holds,
\* one more, and one per TARGET_DELAY passed; and a user who keeps trying is
\* never put off by more than TARGET_DELAY and ten seconds
\* (check_target_limit).
TargetsPaced ==
  /\ \A i, j \in DOMAIN pace.fresh : i <= j =>
       j - i + 1 <= MAXTARGETS + 1 + (pace.fresh[j] - pace.fresh[i]) \div TARGET_DELAY
  /\ pace.next - pace.clk < TARGET_DELAY + 10

\* Messages reach whom they are for, exactly once (ToldOnce); masks do not
\* outlive their owner's wish (SilencesLive); new targets are paced
\* (TargetsPaced).
Delivered == MsgTypeOK /\ ToldOnce /\ SilencesLive /\ TargetsPaced
=============================================================================
