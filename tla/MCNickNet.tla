----------------------------- MODULE MCNickNet ------------------------------
(***************************************************************************)
(* NickNet on the chain sa -- sb -- sc.                                    *)
(***************************************************************************)
EXTENDS NickNet, TLC

CONSTANTS sa, sb, sc, x, y, z, n1, n2

ChainHop == sa :> (sa :> sa @@ sb :> sb @@ sc :> sb)
         @@ sb :> (sa :> sa @@ sb :> sb @@ sc :> sc)
         @@ sc :> (sa :> sb @@ sb :> sb @@ sc :> sc)
ChainDials == {<<sa, sb>>, <<sc, sb>>}

HomeXY == x :> sa @@ y :> sc
HomeXYZ == x :> sa @@ y :> sc @@ z :> sb

AllDiffer == [u \in User |-> u]
XIsY == [u \in User |-> IF u = y THEN x ELSE u]

\* Without owners nothing tells the nicks apart.
NickSymmetry == Permutations(Nick)

NoOwner == [k \in Nick |-> {}]
XOwns == [k \in Nick |-> IF k = n1 THEN {x} ELSE {}]
=============================================================================
