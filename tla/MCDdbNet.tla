------------------------------ MODULE MCDdbNet ------------------------------
(***************************************************************************)
(* Small networks for DdbNet.                                              *)
(***************************************************************************)
EXTENDS DdbNet, TLC

CONSTANTS svc, h, l, g

\* h -- svc -- g: g is linked to the service without an H:line for it.
StarPeer == {<<h, svc>>, <<g, svc>>}
StarHub  == svc :> {} @@ h :> {svc} @@ g :> {}

\* svc -- h -- l: the hub listens to the service and the leaf to the hub.
ChainPeer == {<<h, svc>>, <<l, h>>}
ChainHub  == svc :> {} @@ h :> {svc} @@ l :> {h}

\* svc -- h -- l -- g: l has two hubs, and h, l, g listen to each other, so
\* that after a split l may catch up from either side.
HubsPeer == {<<h, svc>>, <<l, h>>, <<l, g>>}
HubsHub  == svc :> {} @@ h :> {svc, l} @@ l :> {h, g} @@ g :> {l}

ToAll == {Server}
=============================================================================
