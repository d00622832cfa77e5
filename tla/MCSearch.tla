------------------------------- MODULE MCSearch -------------------------------
(* A small instance of Search for TLC. *)
EXTENDS Search

CONSTANTS search_task, context_task, d, e, x, y

OneDocument == d :> <<y, x>>

TwoDocuments == (d :> <<y, x>>) @@ (e :> <<>>)

\* y is a long chunk: with its optional fields it takes more than half of a
\* budget of 6.
TextBytes == (x :> [full |-> 3, reduced |-> 1]) @@ (y :> [full |-> 4, reduced |-> 2])
                 @@ (1 :> [full |-> 2, reduced |-> 1])

V4(mode, semantic, lexical, limit, aggregate) ==
    [api |-> "v4", mode |-> mode, semantic |-> semantic, lexical |-> lexical,
     limit |-> limit, aggregate |-> aggregate]

SmallRequests ==
    {V4("hybrid", FALSE, TRUE, 2, TRUE),
     V4("documents", TRUE, TRUE, 2, FALSE),
     [V4("documents", FALSE, TRUE, 1, FALSE) EXCEPT !.api = "v3"]}
=============================================================================
