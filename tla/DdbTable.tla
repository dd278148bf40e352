------------------------------ MODULE DdbTable ------------------------------
(***************************************************************************)
(* What a server promises about one table of the distributed database, in  *)
(* terms of the table alone: records are accepted one at a time and in     *)
(* order of serial, and a stop of the server, planned or not, loses either *)
(* nothing or the whole table.  A table that was lost is empty at serial   *)
(* 0, which is what makes the server ask its hub for all of it again.      *)
(***************************************************************************)
EXTENDS DdbRecord

VARIABLES tab, up

TableInit == tab = Empty /\ up = FALSE

Accept(r) ==
    /\ up
    /\ r.serie > tab.serie
    /\ tab' = After(tab, r)
    /\ UNCHANGED up

Clear == up /\ tab' = Empty /\ UNCHANGED up

Stop == up' = FALSE /\ tab' \in {tab, Empty}

Start == ~up /\ up' = TRUE /\ UNCHANGED tab

TableNext == (\E r \in Record : Accept(r)) \/ Clear \/ Stop \/ Start

TableSpec == TableInit /\ [][TableNext]_<<tab, up>>
=============================================================================
