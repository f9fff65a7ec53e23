----------------------------- MODULE MCWsServer -----------------------------
EXTENDS WsServer, TLC

CONSTANTS c1, c2, c3, i1, i2
SecondUse == (c1 :> i1) @@ (c2 :> i1) @@ (c3 :> i2)
=============================================================================
