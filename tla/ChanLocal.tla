----------------------------- MODULE ChanLocal ------------------------------
(***************************************************************************)
(* The channels of one server: who may enter (can_join), who may speak     *)
(* (can_send) with the cached answer of the ban list, invitations, modes   *)
(* set by local users and by services, registered channels (s_bdd.c), and  *)
(* what NAMES, WHO, WHOIS and LIST show.  Other servers appear through     *)
(* remote members, who come, go and stay as zombies after a KICK.  Left    *)
(* out: the owner of a registered channel (CHFL_OWNER), invitations by     *)
(* users of other servers (channel.c:6364-6404) and the pacing of JOINs    *)
(* (3991), which is in Messages.                                           *)
(*                                                                         *)
(* The double lists of the code are kept double: members and user->channel *)
(* with both counters, invites and client->invited.                        *)
(***************************************************************************)
EXTENDS Integers, Sequences, FiniteSets, SequencesExt

CONSTANTS
    Locals, Others, \* users of this server and of others
    Chan, Mode,     \* channels; flags without a parameter
    Ban,            \* masks
    Covers,         \* <<e, b>>: e matches all that b does
    Hit,            \* <<b, u, k>>: mask b matches user u under its nick k
    Nicks,          \* nicks of a user; 2 is registered, 1 is not
    ChanOpers,      \* local users with every privilege
    Hidden,         \* users with mode +i
    MaxJoined,      \* MAXCHANNELSPERUSER
    MaxBans,        \* MAXBANS
    MaxKey, MaxLimit,
    Must, Forbid,   \* the modes of a record of the channel table
    ChanPlans,      \* sets of commands; a behaviour keeps to one of them
    MaxChanTurns    \* bound: commands

User == Locals \cup Others

ASSUME LocalConstants ==
    /\ IsFiniteSet(User) /\ IsFiniteSet(Chan) /\ Locals \cap Others = {} /\ ChanOpers \subseteq Locals
    /\ Covers \subseteq Ban \X Ban /\ Hit \subseteq Ban \X User \X Nicks
    /\ Nicks = {1, 2} /\ Must \subseteq Mode /\ Forbid \subseteq Mode
    /\ MaxJoined \in Nat \ {0} /\ MaxBans \in Nat \ {0}
    /\ MaxKey \in Nat /\ MaxLimit \in Nat /\ MaxChanTurns \in Nat

VARIABLES
    ch,      \* ch[c]: struct Channel
    on,      \* users that are connected
    nick,    \* nick[u]
    list,    \* list[u]: user->channel, newest first
    joined,  \* joined[u]: user->joined
    invited, \* invited[u]: the channels in cptr->invited, oldest first
    chanTurns, chanPlan

chanVars == <<ch, on, nick, list, joined, invited, chanTurns, chanPlan>>

\* struct Channel and the flags of its members.  cached[u] is the nick under
\* which is_banned last looked, 0 if CHFL_BANVALID is not set.
Channel == [there : BOOLEAN, reg : BOOLEAN, must : SUBSET Mode, forbid : SUBSET Mode,
            modes : SUBSET Mode, key : 0..MaxKey, limit : 0..MaxLimit,
            mem : SUBSET User, ops : SUBSET User, voices : SUBSET User,
            zombies : SUBSET User, users : Int, bans : SUBSET Ban,
            cached : [User -> Nicks \cup {0}], banned : SUBSET User,
            invites : SUBSET Locals]

NoChan == [there |-> FALSE, reg |-> FALSE, must |-> {}, forbid |-> {}, modes |-> {},
           key |-> 0, limit |-> 0, mem |-> {}, ops |-> {}, voices |-> {},
           zombies |-> {}, users |-> 0, bans |-> {}, cached |-> [u \in User |-> 0],
           banned |-> {}, invites |-> {}]

ChanInit ==
    /\ ch = [c \in Chan |-> NoChan]
    /\ on = User /\ nick = [u \in User |-> 1]
    /\ list = [u \in User |-> <<>>] /\ joined = [u \in User |-> 0]
    /\ invited = [u \in User |-> <<>>]
    /\ chanTurns = 0 /\ chanPlan \in ChanPlans

-----------------------------------------------------------------------------
(* Members and invitations.  The operators act on the whole state, a record*)
(* of ch, list, joined and invited, since the code changes both ends.      *)

All == [ch |-> ch, list |-> list, joined |-> joined, invited |-> invited]
Becomes(s) == ch' = s.ch /\ list' = s.list /\ joined' = s.joined /\ invited' = s.invited

IsMember(u, c) == u \in ch[c].mem \ ch[c].zombies
is_chan_op(u, c) == IsMember(u, c) /\ u \in ch[c].ops
IsNickRegistered(u) == nick[u] = 2

\* n turns of a loop from s.
Repeat(s, n, Body(_)) ==
    LET Pass[i \in 0..n] == IF i = 0 THEN s ELSE Body(Pass[i - 1])
    IN  Pass[n]

Linked(k, u, op) ==
    [k EXCEPT !.there = TRUE, !.mem = @ \cup {u}, !.users = @ + 1,
              !.ops = IF op THEN @ \cup {u} ELSE @]
add_user_to_channel(s, c, u, op) ==
    [s EXCEPT !.ch[c] = Linked(@, u, op), !.list[u] = <<c>> \o @, !.joined[u] = @ + 1]

del_invite_OneSided(s, u, c) ==                                    \* mutant
    [s EXCEPT !.ch[c].invites = @ \ {u}]

del_invite(s, u, c) ==
    [s EXCEPT !.ch[c].invites = @ \ {u}, !.invited[u] = RemoveFirst(@, c)]

\* The oldest invitation makes room.
add_invite(s, u, c) ==
    LET a == del_invite(s, u, c)
        b == IF Len(a.invited[u]) >= MaxJoined THEN del_invite(a, u, Head(a.invited[u])) ELSE a
    IN  [b EXCEPT !.ch[c].invites = @ \cup {u}, !.invited[u] = Append(@, c)]

\* All invitations to c go, one after the other.
UninviteOne(s, c) == del_invite(s, CHOOSE u \in s.ch[c].invites : TRUE, c)
Uninvited(s, c) == Repeat(s, Cardinality(s.ch[c].invites), LAMBDA t : UninviteOne(t, c))

sub1_from_channel_OffByOne(s, c) ==                                \* mutant
    IF s.ch[c].users > 0 \/ s.ch[c].reg THEN [s EXCEPT !.ch[c].users = @ - 1]
    ELSE [Uninvited(s, c) EXCEPT !.ch[c] = NoChan]

\* One user less; an empty channel is freed unless it is registered.
sub1_from_channel(s, c) ==
    LET left == IF s.ch[c].users = 0 THEN 0 ELSE s.ch[c].users - 1
    IN  IF left > 0 \/ s.ch[c].reg THEN [s EXCEPT !.ch[c].users = left]
        ELSE [Uninvited(s, c) EXCEPT !.ch[c] = NoChan]

LinkFreed(k, u) ==
    [k EXCEPT !.mem = @ \ {u}, !.ops = @ \ {u}, !.voices = @ \ {u}, !.zombies = @ \ {u},
              !.banned = @ \ {u}, !.cached[u] = 0]
Unlinked(s, u, c) ==
    sub1_from_channel(
        [s EXCEPT !.ch[c] = LinkFreed(@, u), !.list[u] = RemoveFirst(@, c), !.joined[u] = @ - 1], c)

\* With the last member that is no zombie the zombies go too.
UnlinkOne(s, c) == Unlinked(s, CHOOSE w \in s.ch[c].mem : TRUE, c)
Emptied(s, c) == Repeat(s, Cardinality(s.ch[c].mem), LAMBDA t : UnlinkOne(t, c))
remove_user_from_channel(s, u, c) ==
    LET t == Unlinked(s, u, c)
    IN  IF s.ch[c].mem \ (s.ch[c].zombies \cup {u}) = {} THEN Emptied(t, c) ELSE t

\* A user leaves every channel it is on, the newest first, and loses its
\* invitations.
LeaveOne(s, u) == remove_user_from_channel(s, u, Head(s.list[u]))
LeaveAll(s, u) == Repeat(s, Len(s.list[u]), LAMBDA t : LeaveOne(t, u))
ForgetOne(s, u) == del_invite(s, u, Head(s.invited[u]))
ForgetAll(s, u) == Repeat(s, Len(s.invited[u]), LAMBDA t : ForgetOne(t, u))

-----------------------------------------------------------------------------
(* Bans.                                                                   *)

Matches(u, c) == \E b \in ch[c].bans : <<b, u, nick[u]>> \in Hit

is_banned(u, c) ==
    IF u \in ch[c].mem /\ ch[c].cached[u] # 0 THEN u \in ch[c].banned ELSE Matches(u, c)

\* add_banid: nothing if a mask covers it already; the masks it covers go,
\* and only then may a full list take it.  All cached answers are dropped.
BanAdded(k, u, b) ==
    LET under == {e \in k.bans : <<b, e>> \in Covers}
        full == u \in Locals /\ under = {} /\ Cardinality(k.bans) >= MaxBans
    IN  IF full \/ \E e \in k.bans : <<e, b>> \in Covers THEN k
        ELSE [k EXCEPT !.bans = (@ \ under) \cup {b}, !.cached = [w \in User |-> 0]]

BanDeleted_KeepsCache(k, b) == [k EXCEPT !.bans = @ \ {b}]         \* mutant

\* del_banid: the cached answers "banned" are dropped.
BanDeleted(k, b) ==
    IF b \notin k.bans THEN k
    ELSE [k EXCEPT !.bans = @ \ {b},
                   !.cached = [w \in User |-> IF w \in k.banned THEN 0 ELSE @[w]]]

\* What can_send asks of the ban list, and remembers for a member.
AsksBans(u, c) == u \in Locals /\ ~(IsMember(u, c) /\ u \in ch[c].ops \cup ch[c].voices)
Remembered(k, u, c) ==
    IF ~(AsksBans(u, c) /\ IsMember(u, c)) \/ k.cached[u] # 0 THEN k
    ELSE [k EXCEPT !.cached[u] = nick[u],
                   !.banned = IF Matches(u, c) THEN @ \cup {u} ELSE @ \ {u}]

can_send(u, c) ==
    LET plain == ~(IsMember(u, c) /\ u \in ch[c].ops \cup ch[c].voices)
    IN  IF AsksBans(u, c) /\ is_banned(u, c) THEN "b"
        ELSE IF AsksBans(u, c) /\ "M" \in ch[c].modes /\ ~IsNickRegistered(u) THEN "M"
        ELSE IF "m" \in ch[c].modes /\ plain THEN "m"
        ELSE IF ~IsMember(u, c) /\ "n" \in ch[c].modes THEN "n"
        ELSE "ok"

-----------------------------------------------------------------------------
(* Entering and leaving.                                                   *)

Turn(k) ==
    /\ k \in chanPlan /\ chanTurns < MaxChanTurns /\ chanTurns' = chanTurns + 1
    /\ UNCHANGED chanPlan

is_invited(u, c) == \E i \in 1..Len(invited[u]) : invited[u][i] = c

\* The numeric can_join answers with; an operator may override all but O.
can_join(u, c, key) ==
    LET k == ch[c]
        full == k.limit # 0 /\ k.users >= k.limit
    IN  IF "O" \in k.modes /\ u \notin ChanOpers THEN "O"
        ELSE IF "R" \in k.modes /\ ~IsNickRegistered(u) THEN "R"
        ELSE IF ("i" \in k.modes \/ Matches(u, c) \/ full) /\ ~is_invited(u, c)
        THEN IF full THEN "l" ELSE IF "i" \in k.modes THEN "i" ELSE "b"
        ELSE IF k.key # 0 /\ k.key # key THEN "k"
        ELSE "ok"

\* m_join by a local user, with a key or, for an operator, OVERRIDE.
Join(u, c, key, override) ==
    LET why == can_join(u, c, key)
    IN  /\ u \in Locals \cap on /\ u \notin ch[c].mem
        /\ joined[u] < MaxJoined \/ u \in ChanOpers
        /\ why = "ok" \/ (override /\ u \in ChanOpers /\ why # "O")
        /\ Turn("join")
        /\ Becomes(del_invite(add_user_to_channel(All, c, u, ~ch[c].there), u, c))
        /\ UNCHANGED <<on, nick>>

\* m_svsjoin: a service moves a user, past every limit or (C) as can_join says.
SvsJoin(u, c, check) ==
    /\ u \in Locals \cap on /\ u \notin ch[c].mem
    /\ check => can_join(u, c, 0) = "ok"
    /\ Turn("svs")
    /\ Becomes(del_invite(add_user_to_channel(All, c, u, ~ch[c].there), u, c))
    /\ UNCHANGED <<on, nick>>

\* JOIN of a user of another server; a zombie is removed first.
RemoteJoin(u, c) ==
    LET s == IF u \in ch[c].zombies THEN remove_user_from_channel(All, u, c) ELSE All
    IN  /\ u \in Others \cap on /\ ~IsMember(u, c)
        /\ Turn("remote")
        /\ Becomes(add_user_to_channel(s, c, u, FALSE))
        /\ UNCHANGED <<on, nick>>

\* m_part (it asks can_send about the comment first), m_svspart.
Part(u, c) ==
    /\ u \in on /\ u \in ch[c].mem
    /\ IF u \in Locals THEN Turn("part") \/ Turn("svs") ELSE Turn("remote")
    /\ Becomes(remove_user_from_channel(All, u, c))
    /\ UNCHANGED <<on, nick>>

\* JOIN 0.
PartAll(u) ==
    /\ u \in Locals \cap on /\ list[u] # <<>>
    /\ Turn("part")
    /\ Becomes(LeaveAll(All, u))
    /\ UNCHANGED <<on, nick>>

\* m_kick by a local operator of the channel.
Kick(u, w, c) ==
    LET z == [All EXCEPT !.ch[c].zombies = @ \cup {w}]
        left == z.ch[c].mem \ z.ch[c].zombies
    IN  /\ u \in Locals \cap on /\ is_chan_op(u, c) /\ IsMember(w, c)
        /\ Turn("kick")
        /\ Becomes(IF w \in Locals \/ left = {} THEN remove_user_from_channel(z, w, c) ELSE z)
        /\ UNCHANGED <<on, nick>>

\* m_invite.
Invite(u, w, c) ==
    /\ u \in Locals \cap on /\ is_chan_op(u, c)
    /\ w \in Locals \cap on /\ ~IsMember(w, c)
    /\ Turn("invite")
    /\ Becomes(add_invite(All, w, c))
    /\ UNCHANGED <<on, nick>>

\* exit_one_client.
Departs(u) ==
    LET out == LeaveAll(All, u)
    IN  /\ u \in on /\ Turn("exit")
        /\ on' = on \ {u}
        /\ Becomes(IF u \in Locals THEN ForgetAll(out, u) ELSE out)
        /\ UNCHANGED nick

-----------------------------------------------------------------------------
(* Modes.                                                                  *)

With(M, x) == (M \ CASE x = "p" -> {"s"} [] x = "s" -> {"p"} [] OTHER -> {}) \cup {x}

\* The modes the channel table wants are put back by every change.
Imposed(k, M) == (M \ k.forbid) \cup k.must

FlagSet(k, u, add, x) ==
    [k EXCEPT !.modes = Imposed(k, IF x = "O" /\ u \notin ChanOpers THEN @
                                   ELSE IF add THEN With(@, x) ELSE @ \ {x})]
KeySet(k, add, x) ==
    IF add /\ k.key = 0 THEN [k EXCEPT !.key = x]
    ELSE IF ~add /\ k.key = x THEN [k EXCEPT !.key = 0] ELSE k
LimitSet(k, add, x) == [k EXCEPT !.limit = IF add THEN x ELSE 0]
BanSet(k, u, add, x) == IF add THEN BanAdded(k, u, x) ELSE BanDeleted(k, x)
StatusSet(k, add, w, x) ==
    IF w = "o" THEN [k EXCEPT !.ops = IF add THEN @ \cup {x} ELSE @ \ {x}]
    ELSE [k EXCEPT !.voices = IF add THEN @ \cup {x} ELSE @ \ {x}]

\* What set_mode_local does for an operator, one change in the line.
ModeSet(k, u, add, w, x) ==
    LET d == CASE w = "m" -> FlagSet(k, u, add, x)
               [] w = "k" -> KeySet(k, add, x)
               [] w = "l" -> LimitSet(k, add, x)
               [] w = "b" -> BanSet(k, u, add, x)
               [] OTHER -> StatusSet(k, add, w, x)
    IN  [d EXCEPT !.modes = Imposed(d, @)]

\* -i ends the invitations while the line is read, before anyone asks
\* whether the member is an operator.
Parsed(s, c, add, w, x) == IF w = "m" /\ x = "i" /\ ~add THEN Uninvited(s, c) ELSE s

\* m_mode and m_opmode by a local user: m_mode lets any member pass, but only an
\* operator of the channel changes it; one with PRIV_OPMODE needs not be a member.
SetMode(u, c, add, w, x, opmode) ==
    LET s == Parsed(All, c, add, w, x)
        may == u \in ch[c].ops \/ (opmode /\ u \in ChanOpers)
        next == IF may THEN [s EXCEPT !.ch[c] = ModeSet(@, u, add, w, x)] ELSE s
    IN  /\ u \in Locals \cap on
        /\ IsMember(u, c) \/ (opmode /\ u \in ChanOpers /\ ch[c].there)
        /\ w \in {"o", "v"} => IsMember(x, c)
        /\ Turn(w) /\ next # All
        /\ Becomes(next)
        /\ UNCHANGED <<on, nick>>

\* m_botmode: a service changes the channel through its server
\* (set_mode_remoto), which the modes of the table do not bind.
BotMode(c, add, x) ==
    LET s == Parsed(All, c, add, "m", x)
    IN  /\ ch[c].there /\ Turn("bot")
        /\ Becomes([s EXCEPT !.ch[c].modes = IF add THEN With(@, x) ELSE @ \ {x}])
        /\ UNCHANGED <<on, nick>>

\* A line of a user to a channel, as far as it changes state: m_private and
\* m_notice ask can_send.
Say(u, c) ==
    /\ u \in Locals \cap on /\ ch[c].there
    /\ Turn("say")
    /\ ch' = [ch EXCEPT ![c] = Remembered(@, u, c)]
    /\ UNCHANGED <<on, nick, list, joined, invited>>

\* m_nick by a local user: refused at the first channel that bans it, after
\* can_send has remembered its answers up to there.
NickChange(u, k) ==
    LET stops == {i \in 1..Len(list[u]) : can_send(u, list[u][i]) = "b"}
        last == IF stops = {} THEN Len(list[u]) ELSE Min(stops)
        seen == {list[u][i] : i \in 1..last}
    IN  /\ u \in Locals \cap on /\ nick[u] # k
        /\ Turn("nick")
        /\ ch' = [c \in Chan |-> IF c \in seen THEN Remembered(ch[c], u, c) ELSE ch[c]]
        /\ nick' = IF stops = {} THEN [nick EXCEPT ![u] = k] ELSE nick
        /\ UNCHANGED <<on, list, joined, invited>>

-----------------------------------------------------------------------------
(* The channel table.                                                      *)

\* crea_canal_persistente; when the table is read at the start (fresh) the
\* modes are set at once.
Recorded(k, fresh) ==
    [k EXCEPT !.there = TRUE, !.reg = TRUE, !.must = Must, !.forbid = Forbid,
              !.modes = IF fresh THEN (@ \ Forbid) \cup Must ELSE @]
Register(c, fresh) ==
    /\ Turn("table")
    /\ ch' = [ch EXCEPT ![c] = Recorded(@, fresh)]
    /\ UNCHANGED <<on, nick, list, joined, invited>>

\* db_eliminar_registro.
Drop(c) ==
    LET s == [All EXCEPT !.ch[c].reg = FALSE, !.ch[c].must = {}, !.ch[c].forbid = {}]
    IN  /\ ch[c].reg /\ Turn("table")
        /\ Becomes(IF ch[c].users = 0 THEN sub1_from_channel(s, c) ELSE s)
        /\ UNCHANGED <<on, nick>>

-----------------------------------------------------------------------------
(* Queries of a local user v.  An answer is a set of <<user, channel>>; a  *)
(* user shown without a channel stands with Nowhere.                       *)

Nowhere == "*"
SecretChannel(c) == "s" \in ch[c].modes
PubChannel(c) == ch[c].modes \cap {"p", "s"} = {}
ShowChannel(v, c) == PubChannel(c) \/ IsMember(v, c)
IsInvisible(u) == u \in Hidden
Live(c) == ch[c].mem \ ch[c].zombies
Privileged(v) == v \in ChanOpers

\* m_names of one channel.
NamesOf(v, c) ==
    {<<u, c>> : u \in {w \in Live(c) \cup ({v} \cap ch[c].mem) :
        ShowChannel(v, c) /\ (w = v \/ ~IsInvisible(w) \/ IsMember(v, c))}}

\* The sweep of m_names over those on no channel that can be shown.
NamesRest(v) ==
    {<<u, Nowhere>> : u \in {w \in on : /\ w = v \/ ~IsInvisible(w)
        /\ \A i \in 1..Len(list[w]) : ~(ShowChannel(v, list[w][i]) \/ SecretChannel(list[w][i]))}}

SEE_CHANNEL_Hidden(v, c, extra) == "p" \notin ch[c].modes            \* mutant

SEE_USER(v, u, extra) == u = v \/ ~IsInvisible(u) \/ (extra /\ Privileged(v))
SEE_CHANNEL(v, c, extra) == ~SecretChannel(c) \/ (extra /\ Privileged(v))

\* do_who without a channel names the first public one; the test for a
\* zombie looks at no channel and lets it pass.
Shown(u) ==
    LET pub == {i \in 1..Len(list[u]) : PubChannel(list[u][i])}
    IN  <<u, IF pub = {} THEN Nowhere ELSE list[u][Min(pub)]>>

WhoChannel(v, c, extra) ==
    {<<u, c>> : u \in {w \in Live(c) \cup ({v} \cap ch[c].mem) :
        IsMember(v, c) \/ (SEE_CHANNEL(v, c, extra) /\ SEE_USER(v, w, extra))}}

\* A mask: first those on v's channels, zombies too, then all the others.
Common(v) == UNION {ch[c].mem : c \in ToSet(list[v])}
WhoMask(v, extra) ==
    {a \in on \X Chan : a[1] \in ch[a[2]].mem /\ a[2] \in ToSet(list[v])}
      \cup {Shown(u) : u \in {w \in on \ Common(v) : SEE_USER(v, w, extra)}}

\* m_whois: the persons a mask shows, the channels it shows of a person.
showperson(v, u) ==
    LET invis == u # v /\ IsInvisible(u)
        seen == {c \in ToSet(list[u]) : u \notin ch[c].zombies /\ (invis => IsMember(v, c))}
    IN  \/ ~invis /\ list[u] = <<>>
        \/ \E c \in seen : IsMember(v, c) \/ (~invis /\ ~SecretChannel(c))
WhoisChannels(v, u) ==
    {<<u, c>> : c \in {d \in ToSet(list[u]) : ShowChannel(v, d) /\ (u = v \/ u \notin ch[d].zombies)}}
WhoisMask(v) == {<<u, Nowhere>> : u \in {w \in on : showperson(v, w)}}

\* m_list and list_next_channels; an operator may ask for all.
ListOf(v, all) == {c \in Chan : ch[c].there /\ (ShowChannel(v, c) \/ (all /\ Privileged(v)))}

-----------------------------------------------------------------------------
Change(u, c) ==
    \E add \in BOOLEAN, opmode \in BOOLEAN :
        \/ \E x \in Mode : SetMode(u, c, add, "m", x, opmode)
        \/ \E x \in 1..MaxKey : SetMode(u, c, add, "k", x, opmode)
        \/ \E x \in 1..MaxLimit : SetMode(u, c, add, "l", x, opmode)
        \/ \E x \in Ban : SetMode(u, c, add, "b", x, opmode)
        \/ \E x \in User : SetMode(u, c, add, "o", x, opmode)
        \/ \E x \in User : SetMode(u, c, add, "v", x, opmode)

ChanNext ==
    \/ \E u \in Locals, c \in Chan :
          \/ \E key \in 0..MaxKey, override \in BOOLEAN : Join(u, c, key, override)
          \/ \E check \in BOOLEAN : SvsJoin(u, c, check)
          \/ Say(u, c) \/ Change(u, c)
          \/ \E w \in User : Kick(u, w, c) \/ Invite(u, w, c)
    \/ \E u \in User, c \in Chan : Part(u, c) \/ RemoteJoin(u, c)
    \/ \E u \in Locals : PartAll(u) \/ \E k \in Nicks : NickChange(u, k)
    \/ \E u \in User : Departs(u)
    \/ \E c \in Chan :
          \/ \E add \in BOOLEAN, x \in Mode : BotMode(c, add, x)
          \/ \E fresh \in BOOLEAN : Register(c, fresh)
          \/ Drop(c)

ChanSpec == ChanInit /\ [][ChanNext]_chanVars

-----------------------------------------------------------------------------
(* Properties.                                                             *)

\* The variables have their types: struct Channel, struct User.
ChanTypeOK ==
    /\ ch \in [Chan -> Channel]
    /\ on \subseteq User /\ nick \in [User -> Nicks]
    /\ \A u \in User : list[u] \in Seq(Chan) /\ invited[u] \in Seq(Chan)
    /\ joined \in [User -> 0..Cardinality(Chan)]
    /\ chanTurns \in 0..MaxChanTurns /\ chanPlan \in ChanPlans

\* Both ends of every membership and of every invitation agree, with their
\* counters (chptr->users, user->joined): what m_join, m_part, m_kick,
\* m_invite, sub1_from_channel and exit_one_client each change in two places.
Mirrored ==
    /\ ChanTypeOK
    /\ \A u \in User :
         /\ ToSet(list[u]) = {c \in Chan : u \in ch[c].mem}
         /\ joined[u] = Len(list[u]) /\ IsInjective(list[u])
         /\ u \in Locals => ToSet(invited[u]) = {c \in Chan : u \in ch[c].invites}
         /\ Len(invited[u]) <= MaxJoined /\ IsInjective(invited[u])
    /\ \A c \in Chan :
         /\ ch[c].users = Cardinality(ch[c].mem)
         /\ ch[c].ops \cup ch[c].voices \cup ch[c].zombies \subseteq ch[c].mem

\* A channel is there exactly while someone who is no zombie is on it or the
\* channel table has it, and nobody who has left the server is on it: what
\* remove_user_from_channel, sub1_from_channel and db_eliminar_registro decide.
Lifetime ==
    \A c \in Chan :
        /\ ch[c].there <=> (Live(c) # {} \/ ch[c].reg)
        /\ ch[c].mem \cup ch[c].invites \subseteq on

\* A cached answer of is_banned is what the list says of the nick it was
\* given for: add_banid and del_banid drop all that may have changed.
BanCache ==
    \A c \in Chan, u \in User :
        LET k == ch[c].cached[u]
        IN  k # 0 => (u \in ch[c].banned <=> \E b \in ch[c].bans : <<b, u, k>> \in Hit)

\* No answer to a user without privileges tells who is on a secret channel
\* he is not on, or shows an invisible user who shares no channel with him
\* and whom he did not name: NAMES, WHO, WHOIS and LIST decide it apart.
Discreet ==
    \A v \in on \cap (Locals \ ChanOpers) :
        LET answers == (UNION {NamesOf(v, c) \cup WhoChannel(v, c, TRUE) : c \in Chan})
                         \cup NamesRest(v) \cup WhoMask(v, TRUE) \cup WhoisMask(v)
            named == UNION {{Shown(u)} \cup WhoisChannels(v, u) : u \in on \ {v}}
        IN  /\ \A a \in answers \cup named :
                 a[2] # Nowhere /\ a[1] # v => ~SecretChannel(a[2]) \/ v \in ch[a[2]].mem
            /\ \A a \in answers : a[1] # v /\ IsInvisible(a[1]) => a[1] \in Common(v)
            /\ \A c \in ListOf(v, TRUE) : SecretChannel(c) => v \in ch[c].mem
=============================================================================
