------------------------------ MODULE Glines ------------------------------
(***************************************************************************)
(* The network bans of one server: the list gline (list.c), the commands   *)
(* that change it (opercmds.c: services and bursts through ms_gline,       *)
(* operators through mo_gline), the expiry of its entries, and the users   *)
(* they keep out.  The list of bad channels, badchan, is handled alike.    *)
(*                                                                         *)
(* Masks are names; Hits and Covers say what they match.  The list is a    *)
(* sequence, its head first.                                               *)
(***************************************************************************)
EXTENDS Integers, Sequences, FiniteSets, SequencesExt

CONSTANTS
    Masks, Persons,
    Hits,           \* Hits[m]: the persons that mask m matches
    Covers,         \* pairs <<m, n>>: mmatch says that m covers n
    Spans,          \* the times a G-line may be given
    LastMods,       \* the times of last modification a server may give; 0 is none
    MaxGTime, MaxGlines     \* bounds: the clock, the entries of the list

ASSUME GlineConstants ==
    /\ Hits \in [Masks -> SUBSET Persons]
    /\ Covers \subseteq Masks \X Masks /\ \A m \in Masks : <<m, m>> \in Covers
    /\ Spans \subseteq Nat \ {0} /\ LastMods \subseteq Nat /\ MaxGTime \in Nat \ {0} /\ MaxGlines \in Nat

VARIABLES
    gline,      \* the list
    gclock,     \* TStime()
    online,     \* the local persons
    \* History: masks whose entry was taken out of the list before its time and by
    \* nobody's command; persons let in under an inactive G-line.
    lost, shaded

glineVars == <<gline, gclock, online, lost, shaded>>

\* wasOff is history: the entry has been inactive.
GlineEntry(m, expire, lastmod) ==
    [mask |-> m, expire |-> expire, lastmod |-> lastmod, active |-> TRUE, wasOff |-> FALSE]

IsExpired(g) == g.expire <= gclock

\* free_gline(agline, pgline): without a predecessor the list starts after agline.
free_gline(list, at, prev) ==
    IF prev # 0 THEN RemoveAt(list, at) ELSE SubSeq(list, at + 1, Len(list))

\* The pass of m_gline over the list: agline at at, a2gline at prev; 0 is NULL.  Pass is what
\* n turns of the loop make of it.
PurgeStep(s) ==
    IF s.at > Len(s.list) THEN s
    ELSE IF ~IsExpired(s.list[s.at]) THEN [s EXCEPT !.prev = s.at, !.at = @ + 1]
    ELSE [s EXCEPT !.list = free_gline(@, s.at, s.prev), !.at = IF s.prev = 0 THEN 2 ELSE s.prev + 1]
PurgePass(list) ==
    LET Pass[n \in 0..Len(list)] ==
          IF n = 0 THEN [list |-> list, at |-> 1, prev |-> 0] ELSE PurgeStep(Pass[n - 1])
    IN  Pass
Purged(list) == PurgePass(list)[Len(list)].list

\* The pass of find_gline for u: expired entries go until one matches.
FindStep_SkipsOne(u, s) ==
    IF s.at > Len(s.list) \/ s.found # 0 THEN s
    ELSE IF IsExpired(s.list[s.at])
    THEN [s EXCEPT !.list = free_gline(@, s.at, s.prev), !.at = IF s.prev = 0 THEN 2 ELSE s.prev + 1]
    ELSE IF u \in Hits[s.list[s.at].mask] THEN [s EXCEPT !.found = s.at]
    ELSE [s EXCEPT !.prev = s.at, !.at = @ + 1]
FindStep(u, s) ==
    IF s.at > Len(s.list) \/ s.found # 0 THEN s
    ELSE IF IsExpired(s.list[s.at])
    THEN [s EXCEPT !.list = free_gline(@, s.at, s.prev), !.at = s.prev + 1]
    ELSE IF u \in Hits[s.list[s.at].mask] THEN [s EXCEPT !.found = s.at]
    ELSE [s EXCEPT !.prev = s.at, !.at = @ + 1]
FindPass(list, u) ==
    LET Pass[n \in 0..(Len(list) + 1)] ==
          IF n = 0 THEN [list |-> list, at |-> 1, prev |-> 0, found |-> 0] ELSE FindStep(u, Pass[n - 1])
    IN  Pass
find_gline(list, u) == FindPass(list, u)[Len(list) + 1]

\* The entry of mask m, or of the first mask that covers it; 0 for none.
Exactly(list, m) == SelectInSeq(list, LAMBDA g : g.mask = m)
Covering(list, m) == SelectInSeq(list, LAMBDA g : <<g.mask, m>> \in Covers)

\* add_gline: at the head of the list; whom it hits is let go.  The sender, whom
\* it spares (opercmds.c:2281), is a server or a user of another one, never a
\* client of this server: an operator's own call returns at 2177.
Added(list, g) == <<g>> \o list
KilledBy(m) == online \cap Hits[m]

-----------------------------------------------------------------------------
GlineInit ==
    gline = <<>> /\ gclock = 1 /\ online = {} /\ lost = {} /\ shaded = {}

\* The list is left as list by a command that starts with the purge.
GlinesBecome(list, gone) ==
    /\ gline' = list
    /\ online' = online \ gone /\ shaded' = shaded \ gone
    /\ lost' = {g.mask : g \in {x \in ToSet(gline) : ~IsExpired(x) /\ ~Contains(Purged(gline), x)}}
    /\ UNCHANGED gclock

\* ms_gline: a service with a U line adds, changes or removes m.  modifica_gline of such a one
\* needs no newer lastmod; add_gline without lastmod wants a hub.
ServiceAdds(m, span, lastmod, hub) ==
    LET list == Purged(gline)
        at   == Exactly(list, m)
        mod  == IF lastmod = 0 THEN gclock ELSE lastmod
    IN /\ at # 0 \/ Len(list) < MaxGlines
       /\ IF at # 0
          THEN GlinesBecome([list EXCEPT ![at] = [@ EXCEPT !.expire = gclock + span, !.lastmod = mod]], {})
          ELSE IF lastmod = 0 /\ ~hub THEN GlinesBecome(list, {})
          ELSE GlinesBecome(Added(list, GlineEntry(m, gclock + span, mod)), KilledBy(m))
ServiceRemoves(m) ==
    LET list == Purged(gline)
        at   == Exactly(list, m)
    IN GlinesBecome(IF at = 0 THEN list ELSE RemoveAt(list, at), {})

\* ms_gline from a hub in its burst: only what is new, or newer than ours.
BurstAdds(m, span, lastmod) ==
    LET list == Purged(gline)
        at   == Exactly(list, m)
    IN /\ lastmod > 0
       /\ at # 0 \/ Len(list) < MaxGlines
       /\ IF at = 0
          THEN GlinesBecome(Added(list, GlineEntry(m, gclock + span, lastmod)), KilledBy(m))
          ELSE IF list[at].lastmod >= lastmod THEN GlinesBecome(list, {})
          ELSE GlinesBecome([list EXCEPT ![at] = [@ EXCEPT !.expire = gclock + span, !.lastmod = lastmod]], {})

\* mo_gline: +, - or neither, with an expiry time or without (span 0).  add_gline refuses the
\* local G-line of an operator, who is no hub and gives no lastmod: there are no local ones.
OperGline(m, act, span) ==
    LET list   == Purged(gline)
        at     == Covering(list, m)
        expire == IF span = 0 THEN 0 ELSE gclock + span
        g      == list[at]
        longer == IF expire <= g.expire THEN 0 ELSE expire
        moved  == IF longer = 0 THEN g ELSE [g EXCEPT !.expire = longer]
        change == act # "" /\ (act = "+") # g.active
    IN IF at = 0
       THEN GlinesBecome(list, {})
       ELSE GlinesBecome([list EXCEPT ![at] =
                IF change THEN [moved EXCEPT !.active = act = "+", !.wasOff = TRUE] ELSE moved], {})

\* spam_gline: the server's own, of the address of u.  modifica_gline refuses a lastmod of 0.
SpamGline(u, m, span) ==
    LET at == Exactly(gline, m) IN
    /\ u \in online /\ u \in Hits[m]
    /\ at # 0 \/ Len(gline) < MaxGlines
    /\ IF at # 0 THEN UNCHANGED <<gline, online, shaded>>
       ELSE /\ gline' = Added(gline, GlineEntry(m, gclock + span, gclock))
            /\ online' = online \ KilledBy(m) /\ shaded' = shaded \ KilledBy(m)
    /\ lost' = {} /\ UNCHANGED gclock

\* find_kill of one who registers.
Registers(u) ==
    LET f == find_gline(gline, u) IN
    /\ u \notin online
    /\ gline' = f.list
    /\ online' = IF f.found # 0 /\ f.list[f.found].active THEN online ELSE online \cup {u}
    /\ shaded' = IF f.found # 0 /\ ~f.list[f.found].active THEN shaded \cup {u} ELSE shaded
    /\ lost' = {} /\ UNCHANGED gclock

\* find_kill of rehash, for one who is online.
Rechecked(u) ==
    LET f == find_gline(gline, u)
        gone == IF f.found # 0 /\ f.list[f.found].active THEN {u} ELSE {}
    IN /\ u \in online /\ gline' = f.list
       /\ online' = online \ gone /\ shaded' = shaded \ gone
       /\ lost' = {} /\ UNCHANGED gclock

Quits(u) ==
    /\ u \in online /\ online' = online \ {u} /\ shaded' = shaded \ {u}
    /\ lost' = {} /\ UNCHANGED <<gline, gclock>>

GTick ==
    /\ gclock < MaxGTime /\ gclock' = gclock + 1
    /\ lost' = {} /\ UNCHANGED <<gline, online, shaded>>

GlineNext ==
    \/ \E m \in Masks, span \in Spans :
         \/ \E lastmod \in LastMods :
              \/ \E hub \in BOOLEAN : ServiceAdds(m, span, lastmod, hub)
              \/ BurstAdds(m, span, lastmod)
         \/ \E u \in Persons : SpamGline(u, m, span)
    \/ \E m \in Masks : ServiceRemoves(m)
    \/ \E m \in Masks, act \in {"+", "-", ""}, span \in Spans \cup {0} : OperGline(m, act, span)
    \/ \E u \in Persons : Registers(u) \/ Rechecked(u) \/ Quits(u)
    \/ GTick

GlineSpec == GlineInit /\ [][GlineNext]_glineVars

-----------------------------------------------------------------------------
GlineTypeOK ==
    /\ \A i \in DOMAIN gline : gline[i].mask \in Masks /\ gline[i].expire \in Nat
    /\ Len(gline) <= MaxGlines /\ gclock \in 1..MaxGTime
    /\ online \subseteq Persons /\ shaded \subseteq online /\ lost \subseteq Masks

(* No mask is in the list twice, and nobody stays online under a G-line in *)
(* force: whoever was online when it came was let go, and whoever came     *)
(* later was refused - unless the G-line was switched off by an operator   *)
(* for a time, or he came in under one that was.                           *)
NoneSlips ==
    /\ GlineTypeOK
    /\ \A i, j \in DOMAIN gline : gline[i].mask = gline[j].mask => i = j
    /\ \A i \in DOMAIN gline : ~IsExpired(gline[i]) /\ gline[i].active /\ ~gline[i].wasOff =>
         online \cap Hits[gline[i].mask] \subseteq shaded

(* A G-line that has not expired stays until somebody removes it: the pass *)
(* at the start of m_gline is to "Remove expired G-lines" (opercmds.c).    *)
GlinesKept == lost = {}

=============================================================================
