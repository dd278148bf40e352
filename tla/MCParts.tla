------------------------------ MODULE MCParts -------------------------------
(***************************************************************************)
(* The parts of a server that have a model of their own and share no       *)
(* state: a behaviour is one of the part chosen at the start, and the      *)
(* other parts rest in their first state.                                  *)
(***************************************************************************)
EXTENDS LinkNet, ConfLines, SendQ, Glines, Masks, Rules, Tables, Messages,
        Uping, Settings, IpCheck, TLC

CONSTANTS
    Parts,                    \* the parts to look at
    u1, u2, s1, s2, o1,       \* users, links, an operator
    m1, m2, m3, p1            \* masks of G-lines, a person

VARIABLE part

-----------------------------------------------------------------------------
(* LinkNet: 1 calls 2 and 3, everybody may call everybody back; 3 must not *)
(* bring in 1.  ConfLines: three versions of the file.                     *)
mcAll == [n \in Servers |-> Servers]
mcHPairs == (Servers \X Servers) \ {<<3, 1>>}
mcStart == <<1, 1, 2>>
mcPorts == <<{3}, {}, {2}>>
mcLinked == <<<<1, 2>>>>

L(kind, persons, c, max) == [kind |-> kind, who |-> persons, class |-> c, max |-> max]
mcFiles == {
  [lines |-> <<L("Y", {}, 1, 1), L("I", {u1, u2}, 1, 0), L("C", {s1}, 0, 0), L("H", {s1}, 0, 0), L("O", {u1}, 1, 0)>>, kills |-> {}],
  [lines |-> <<L("I", {u1, u2}, 2, 0), L("Y", {}, 2, 2), L("C", {s1}, 2, 0), L("O", {u1, u2}, 2, 0)>>, kills |-> {}],
  [lines |-> <<L("Y", {}, 1, 2), L("I", {u1}, 1, 0), L("I", {u1, u2}, 0, 0), L("C", {s1}, 1, 0), L("H", {s1}, 0, 0)>>, kills |-> {u2}]}

-----------------------------------------------------------------------------
(* SendQ: two links and an operator.  Glines: m2 covers m1 and both are    *)
(* masks of p1.                                                            *)
mcDown == <<s1, s2>>
mcOpers == <<o1>>

mcHits == [m \in Masks |-> IF m = m3 THEN {} ELSE {p1}]
mcCovers == {<<m, m>> : m \in Masks} \cup {<<m2, m1>>}

-----------------------------------------------------------------------------
(* Masks and Rules: alphabets in which the special characters meet.        *)
mcMaskChars == {"a", "A", "*", "?", "\\"}
mcNameChars == {"A", "|", "*", "\\"}
mcBehind == {<<"a">>, <<"a", "A">>}

mcPhrases == {<<"directop", "(", ")">>, <<"via", "(", "h", ",", "l", ")">>, <<"directcon", "(", "l", ")">>,
  <<"connected", "(", ")">>, <<"|", "|">>, <<"&", "&">>, <<"&">>, <<"bad">>, <<"!">>, <<"(">>, <<")">>}
mcNamed == [h |-> {"hub"}, l |-> {"leaf"}]
mcRuleWorlds == {[servers |-> [hub |-> "hub"], opers |-> TRUE], [servers |-> [hub |-> "hub", leaf |-> "hub"], opers |-> FALSE],
  [servers |-> [hub |-> "hub", leaf |-> "leaf"], opers |-> TRUE]}

\* Tables: the first two names share a chain.
mcChain == [n1 |-> 1, n2 |-> 1, n3 |-> 2]

-----------------------------------------------------------------------------
(* Messages: the chain r1 - r2 - r3.                                       *)
mcWay == [r1 |-> [r1 |-> "r1", r2 |-> "r2", r3 |-> "r2"],
          r2 |-> [r1 |-> "r1", r2 |-> "r2", r3 |-> "r3"],
          r3 |-> [r1 |-> "r2", r2 |-> "r2", r3 |-> "r3"]]
mcHomes == [ann |-> "r1", bob |-> "r1", cid |-> "r2", dan |-> "r3", eve |-> "r3"]
mcFolk == DOMAIN mcHomes
\* Everybody is on c1, ann and dan also on c2.
mcWorld ==
  [members |-> [c1 |-> mcFolk, c2 |-> {"ann", "dan"}], ops |-> {"ann", "dan", "bob"}, voiced |-> {"ann", "dan", "bob"},
   zombies |-> {}, deaf |-> {}, strip |-> {}, banned |-> {}, udeaf |-> {}, bitch |-> {}, bots |-> {},
   noctcp |-> {}, regOnly |-> {}, registered |-> {"ann"}, oper |-> {"ann"}, anoper |-> {"ann", "bob"},
   wallops |-> {"ann", "cid"}, ip |-> [ann |-> 1, bob |-> 2, cid |-> 3, dan |-> 1, eve |-> 2],
   modes |-> {"n"}, eating |-> {}]
mcWorlds ==
  {mcWorld}
  \cup {[mcWorld EXCEPT !.deaf = d, !.zombies = z] : d \in SUBSET {"cid", "eve"}, z \in {{}, {"dan"}, {"bob"}}}
  \cup {[mcWorld EXCEPT !.modes = @ \cup x, !.strip = t] :
          x \in {{"nocolour"}, {"noctcp", "nocolour"}, {"nonotice", "m"}}, t \in {{"bob", "eve"}, {"dan"}}}
  \cup {[mcWorld EXCEPT !.eating = e] : e \in {{<<"r1", "r2">>}, {<<"r2", "r3">>}}}
  \cup {[mcWorld EXCEPT !.members["c1"] = {"bob", "cid", "eve"}, !.modes = x, !.banned = b] :
          x \in {{}, {"n"}, {"m"}}, b \in {{}, {"ann", "dan"}}}
  \cup {[mcWorld EXCEPT !.bitch = b, !.bots = {"eve"}, !.udeaf = d] :
          b \in {{"ann"}, {"dan"}, {"eve", "bob"}}, d \in {{}, {"ann", "dan"}}}
  \cup {[mcWorld EXCEPT !.regOnly = r, !.noctcp = {"ann", "eve"}, !.wallops = w, !.anoper = w] :
          r \in {{"ann", "eve"}, {}}, w \in {{"ann", "bob", "eve"}, {"ann"}}}
mcTalk ==
  {[kind |-> k, from |-> p, to |-> "c1", ctcp |-> x, notice |-> n] :
     k \in {"chan"}, p \in {"ann", "cid", "dan"}, x \in BOOLEAN, n \in BOOLEAN}
  \cup {[kind |-> k, from |-> p, to |-> "c1"] : k \in {"chops", "mode"}, p \in {"ann", "cid", "dan"}}
  \cup {[kind |-> "user", from |-> p, to |-> u, ctcp |-> FALSE, notice |-> FALSE] : p \in mcFolk, u \in {"ann", "eve"}}
  \cup {[kind |-> "user", from |-> p, to |-> "eve", ctcp |-> TRUE, notice |-> FALSE] : p \in {"ann", "dan"}}
  \cup {[kind |-> "whisper", from |-> p, to |-> u, chan |-> c, ctcp |-> FALSE, notice |-> FALSE] :
          p \in {"ann", "cid"}, u \in {"bob", "eve"}, c \in {"c1", "c2"}}
  \cup {[kind |-> "match", from |-> p, to |-> t] :
          p \in {"ann", "eve"}, t \in {{"ann", "bob"}, {"dan", "eve"}, {"bob", "cid", "eve"}}}
  \cup {[kind |-> "at", from |-> p, to |-> u, server |-> s] : p \in {"ann", "dan", "eve"}, u \in {"bob", "eve"}, s \in {"r1", "r3"}}
  \cup {[kind |-> k, from |-> p] : k \in {"wallops", "nick"}, p \in {"ann", "bob", "dan"}}
mcSilTalk == {[kind |-> "user", from |-> p, to |-> "eve", ctcp |-> FALSE, notice |-> FALSE] : p \in {"ann", "cid"}}
mcSilCovers == {<<"*", m>> : m \in {"*", "a*", "c*"}} \cup {<<"a*", "a*">>, <<"c*", "c*">>}
mcSilHits == {<<m, p>> : m \in {"*", "a*"}, p \in {"ann"}} \cup {<<m, "cid">> : m \in {"*", "c*"}}
mcSilLen == ("*" :> 1) @@ ("a*" :> 2) @@ ("c*" :> 2)

-----------------------------------------------------------------------------
(* Settings: a key of each kind.                                           *)
mcKinds == (<<"features", "hide">> :> "flag") @@ (<<"features", "noident">> :> "ident")
           @@ (<<"features", "clones">> :> "number") @@ (<<"features", "nicklen">> :> "nicklen")
           @@ (<<"features", "ipkey">> :> "key") @@ (<<"bots", "nickserv">> :> "text")
           @@ (<<"config", "clones">> :> "nothing") @@ (<<"opers", "nickserv">> :> "oper")
mcSetKeys == DOMAIN mcKinds
mcValuesOf == [k \in mcSetKeys |-> CASE mcKinds[k] \in {"flag", "ident"} -> {"TRUE", "FALSE"}
                                     [] mcKinds[k] = "nicklen" -> {"5", "12", "99"}
                                     [] mcKinds[k] \in {"number", "nothing"} -> {"5", "12"}
                                     [] mcKinds[k] = "oper" -> {"x"}
                                     [] OTHER -> {"x", "y"}]
mcAtoi == ("5" :> 5) @@ ("12" :> 12) @@ ("99" :> 99)

-----------------------------------------------------------------------------
(* One part at a time.  A part that has a single first state rests in it;  *)
(* the variables of the others are 0.                                      *)

PartsInit ==
    /\ part \in Parts
    /\ IF part = "link" THEN LinkInit ELSE
         /\ ends = 0 /\ status = 0 /\ tried = 0 /\ ghosted = 0 /\ srv = 0
         /\ inq = 0 /\ started = 0 /\ offset = 0 /\ clock = 0
         /\ stamps = 0 /\ cuts = 0
    /\ IF part = "conf" THEN ConfInit ELSE
         /\ line = 0 /\ conf = 0 /\ class = 0 /\ classes = 0 /\ confs = 0
         /\ present = 0 /\ rehashes = 0 /\ opers = 0
    /\ IF part = "send" THEN SendInit ELSE
         /\ io = 0 /\ msgs = 0 /\ lists = 0 /\ owed = 0 /\ garbled = 0
         /\ scrapped = 0 /\ untold = 0
    /\ GlineInit
    /\ IF part = "masks" THEN MaskInit ELSE
         /\ mask = 0 /\ name = 0 /\ behind = 0 /\ other = 0
    /\ IF part = "rules" THEN RuleInit ELSE
         /\ rule = 0 /\ pieces = 0
    /\ IF part = "tables" THEN TablesInit ELSE
         /\ focus = 0 /\ table = 0 /\ cname = 0 /\ cstat = 0 /\ chome = 0
         /\ cyxx = 0 /\ cuser = 0 /\ refcnt = 0 /\ client_list = 0
         /\ last_nn = 0 /\ nn_last = 0 /\ linked = 0 /\ try = 0
         /\ asker = 0 /\ addr = 0
    /\ IF part = "messages" THEN MsgInit ELSE
         /\ desk = 0 /\ world = 0 /\ mwire = 0 /\ asked = 0 /\ got = 0
         /\ barred = 0 /\ sil = 0 /\ silCmds = 0 /\ pace = 0
    /\ UpingInit
    /\ IF part = "settings" THEN SettingsInit ELSE
         /\ rec = 0 /\ writes = 0 /\ journal = 0 /\ conf_ = 0 /\ wiped = 0 /\ cut = 0
    /\ IpInit

\* All parts but p rest.
Only(p) ==
    /\ part = p /\ UNCHANGED part
    /\ IF p = "link" THEN TRUE ELSE UNCHANGED linkVars
    /\ IF p = "conf" THEN TRUE ELSE UNCHANGED confVars
    /\ IF p = "send" THEN TRUE ELSE UNCHANGED sendVars
    /\ IF p = "glines" THEN TRUE ELSE UNCHANGED glineVars
    /\ IF p = "masks" THEN TRUE ELSE UNCHANGED maskVars
    /\ IF p = "rules" THEN TRUE ELSE UNCHANGED ruleVars
    /\ IF p = "tables" THEN TRUE ELSE UNCHANGED tableVars
    /\ IF p = "messages" THEN TRUE ELSE UNCHANGED msgVars
    /\ IF p = "uping" THEN TRUE ELSE UNCHANGED upingVars
    /\ IF p = "settings" THEN TRUE ELSE UNCHANGED settingsVars
    /\ IF p = "ipcheck" THEN TRUE ELSE UNCHANGED ipVars

PartsNext ==
    \/ Only("link") /\ LinkNext
    \/ Only("conf") /\ ConfNext
    \/ Only("send") /\ SendNext
    \/ Only("glines") /\ GlineNext
    \/ Only("masks") /\ MaskNext
    \/ Only("rules") /\ RuleNext
    \/ Only("tables") /\ TablesNext
    \/ Only("messages") /\ MsgNext
    \/ Only("uping") /\ UpingNext
    \/ Only("settings") /\ SettingsNext
    \/ Only("ipcheck") /\ IpNext

PartsSpec == PartsInit /\ [][PartsNext]_<<part, linkVars, confVars, sendVars, glineVars, maskVars,
    ruleVars, tableVars, msgVars, upingVars, settingsVars, ipVars>>

-----------------------------------------------------------------------------
(* The properties of the parts; those of Glines, Uping and IpCheck,        *)
(* NoneSlips, PingsOwned and ClonesCounted, also hold of a part that rests.*)

\* When no connection is being made, what every server knows of the network
\* is the tree of its links (m_server, m_squit, exit_client: LinkNet).
PartQuietTree == part = "link" => QuietTree

\* A class counts the clients attached to its lines, and nobody keeps a line
\* or a class that a rehash freed (attach_conf, detach_conf, rehash: ConfLines).
PartLinksAreAttachments == part = "conf" => LinksAreAttachments

\* A live connection with something to send waits for its write event, and
\* its peer gets all that was queued, in order (send_queued, dbuf.c: SendQ).
PartOutputKept == part = "send" => OutputKept

\* Text and compiled masks match what a mask means, and a mask that overrides
\* another matches all that one does (match.c: Masks).
PartMatchersAgree == part = "masks" => MatchersAgree

\* A connect rule is evaluated as the grammar reads it (crule.c: Rules).
PartRuleMeaning == part = "rules" => RuleMeaning

\* Clients, channels and watch entries are found by name and numeric, and
\* addresses survive the wire (hash.c, numnicks.c: Tables).
PartTablesKept == part = "tables" => TablesKept

\* Messages reach whom they are for, once; silences do not outlive their
\* owner's wish; new targets are paced (m_message, send.c, m_silence,
\* check_target_limit: Messages).
PartDelivered == part = "messages" => Delivered

\* The settings in effect are those of the records of the tables, whatever
\* the order of writes, deletions, drops and restarts (s_bdd.c: Settings).
PartSettingsFollow == part = "settings" => SettingsFollow
=============================================================================
