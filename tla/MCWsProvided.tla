---------------------------- MODULE MCWsProvided ----------------------------
EXTENDS WsProvided
=============================================================================
