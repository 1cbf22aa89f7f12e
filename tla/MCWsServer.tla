----------------------------- MODULE MCWsServer -----------------------------
EXTENDS WsServerSession

\* One member of each shape the session treats apart.
MCShape == [up    |-> [kind |-> "command", reply |-> FALSE, params |-> 2, bounded |-> FALSE],
            upq   |-> [kind |-> "query", reply |-> FALSE, params |-> 1, bounded |-> TRUE],
            dup   |-> [kind |-> "query", reply |-> TRUE, params |-> 1, bounded |-> FALSE]]

\* What each of the session's checks tells apart, on the first call, and a
\* second request of each kind.
MCFrames ==
    LET Req(s, m, big)        == [form |-> "request", seq |-> s, member |-> m, big |-> big]
        Chunk(m, k, n, big)   == [form |-> "chunk", seq |-> 1, member |-> m, stream |-> k,
                                  n |-> n, big |-> big]
        End(m, k, n, outcome) == [form |-> "end", seq |-> 1, member |-> m, stream |-> k,
                                  n |-> n, outcome |-> outcome]
    IN  {Req(1, m, FALSE) : m \in {"up", "upq", "dup"}}
        \cup {Req(2, "up", FALSE), Req(2, "upq", TRUE), Req(2, "foreign", FALSE)}
        \cup {Chunk(m, 1, n, FALSE) : m \in {"up", "dup"}, n \in 1..2}
        \cup {Chunk("up", 1, 1, TRUE), Chunk("dup", 0, 1, FALSE), Chunk("dup", 2, 1, FALSE)}
        \cup {End(m, 1, n, "end") : m \in {"up", "upq", "dup"}, n \in 1..2}
        \cup {End("up", 2, 1, o) : o \in {"interrupted", "refused"}}
        \cup {End("dup", 0, 1, o) : o \in {"interrupted", "busy"}}
        \cup {[form |-> "credit", seq |-> 1, member |-> "dup", stream |-> 0, credit |-> 1]}
=============================================================================
