----------------------------- MODULE MCWsCalls ------------------------------
EXTENDS WsCalls

\* One member for each call of the client: command, query, stream,
\* commandUpload, queryUpload and duplex; the plain query has a bound.
MCShape ==
    LET M(kind, reply, params) ==
            [kind |-> kind, reply |-> reply, params |-> params, bounded |-> FALSE]
    IN  [cmd |-> M("command", FALSE, 0),
         qry |-> [M("query", FALSE, 0) EXCEPT !.bounded = TRUE],
         str |-> M("query", TRUE, 0),    upc |-> M("command", FALSE, 1),
         upq |-> M("query", FALSE, 1),   dup |-> M("query", TRUE, 1)]
=============================================================================
