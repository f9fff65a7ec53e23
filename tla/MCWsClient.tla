----------------------------- MODULE MCWsClient -----------------------------
EXTENDS WsClient
=============================================================================
