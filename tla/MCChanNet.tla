----------------------------- MODULE MCChanNet ------------------------------
(***************************************************************************)
(* ChanNet on the chain sa -- sb -- sc.                                    *)
(***************************************************************************)
EXTENDS ChanNet, TLC

CONSTANTS sa, sb, sc, x, y, z, wide, narrow

ChainHop == sa :> (sa :> sa @@ sb :> sb @@ sc :> sb)
         @@ sb :> (sa :> sa @@ sb :> sb @@ sc :> sc)
         @@ sc :> (sa :> sb @@ sb :> sb @@ sc :> sc)
ChainDials == {<<sa, sb>>, <<sc, sb>>}
HomeXYZ == [u \in User |-> IF u = x THEN sa ELSE IF u = y THEN sc ELSE sb]

\* The chain and its users x and y read the same from either end.
Mirror == {f \in Permutations({sa, sc, x, y}) :
              {f[sa], f[sc]} = {sa, sc} /\ (f[sa] = sa <=> f[x] = x)}

WideCovers == {<<e, b>> \in Ban \X Ban : e = b \/ (e = wide /\ b = narrow)}
=============================================================================
