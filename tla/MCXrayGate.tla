----------------------------- MODULE MCXrayGate -----------------------------
(* XrayGate for TLC: two connections.  *)
EXTENDS XrayGate, TLC

CONSTANTS c1, c2

MCConn == {c1, c2}
=============================================================================
