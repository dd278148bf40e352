------------------------------- MODULE MCLocal ------------------------------
(***************************************************************************)
(* Channels (ChanLocal) and users (Users) of one server.  A behaviour is   *)
(* one of the channels or one of the users, whose tables they do not share *)
(* in these models; the other module's state rests.                        *)
(***************************************************************************)
EXTENDS ChanLocal, Users

CONSTANTS l1, l2, r1, wide, slim

VARIABLE scene
localVars == <<scene, chanVars, userVars>>

\* Two users of ours, one of them an operator, and one elsewhere; the bans
\* are a mask of everyone and one that only the first nick of l1 meets.
MCCovers == {<<m, m>> : m \in Ban} \cup {<<wide, slim>>}
MCHit == {<<wide, u, k>> : u \in User, k \in Nicks} \cup {<<slim, l1, 1>>}

\* Who comes and goes; invitations and limits; bans and their cache; the
\* channel table and services; what queries show.
MCChanPlans == {{"join", "remote", "kick", "part", "exit"},
                {"join", "invite", "m", "l", "exit", "part"},
                {"join", "b", "v", "say", "nick", "remote"},
                {"join", "table", "svs", "bot", "part"},
                {"join", "k", "o", "m", "remote", "kick"}}

\* Names and who hears of them; names and services; modes and OPER with
\* the table of nicks; both tables; records that change under their users
\* and under watchers, and under two users whom services gave the same nick.
MCPlans == {{"nick", "quit", "watch", "remote"},
            {"nick", "svs", "watch", "quit"},
            {"nick", "umode", "oper", "table"},
            {"nick", "table", "status"},
            {"nick", "table", "watch", "drop"},
            {"nick", "svs", "table"}}

\* One nick's records have automodes, those that are counted elsewhere.
MCAutos == [n \in Name |-> IF n \in Vip THEN {{"h", "i", "o"}} ELSE {{}}]

Init ==
    /\ scene \in {"channels", "users"}
    /\ ChanInit /\ (scene = "users" => chanPlan = CHOOSE p \in ChanPlans : TRUE)
    /\ UserInit /\ (scene = "channels" => plan = CHOOSE p \in Plans : TRUE)

Next ==
    \/ scene = "channels" /\ ChanNext /\ UNCHANGED <<scene, userVars>>
    \/ scene = "users" /\ UserNext /\ UNCHANGED <<scene, chanVars>>

Spec == Init /\ [][Next]_localVars
=============================================================================
