------------------------------- MODULE MCConn -------------------------------
(* Two callers at different addresses, one link we open.                    *)
EXTENDS Conn
CONSTANTS c1, c2, k1, a1, a2
MCHome == (c1 :> a1) @@ (c2 :> a2) @@ (k1 :> a1)
=============================================================================
