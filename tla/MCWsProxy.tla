----------------------------- MODULE MCWsProxy ------------------------------
(* WsProxy on small instances.                                             *)
EXTENDS WsProxy

CONSTANTS c1, c2

OneConn  == {c1}
TwoConns == {c1, c2}
=============================================================================
