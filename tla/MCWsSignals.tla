---------------------------- MODULE MCWsSignals -----------------------------
EXTENDS WsSignals

\* Everything on the first signal; a second one shares its mark; the third is
\* one the provider refuses.
MCAsks == ({"subscribe", "unsubscribe", "read"} \X {1})
          \cup ({"subscribe", "unsubscribe"} \X {2})
          \cup {<<"subscribe", 3>>}
=============================================================================
