--------------------------- MODULE MCRateLimiter ---------------------------
(* The Discord client for TLC: senders that share a webhook's limiter, and   *)
(* the messages they send, with limits that keep their order: an embed at    *)
(* every field's limit is over the total, and the description can make up    *)
(* for the rest.                                                             *)
EXTENDS RateLimiter

SmallLimit == [f \in Fields |->
    CASE f = "description" -> 4 [] f = "footer" -> 2 [] f \in {"title", "author"} -> 1
      [] OTHER -> 2]

SmallMessages ==
    {[content |-> c, username |-> u, title |-> t, description |-> d,
      author |-> a, footer |-> f, thread |-> n] :
        c \in {0, 2, 3}, u \in {0, 2, 3}, t \in 0..3, d \in 0..6,
        a \in 0..3, f \in 0..4, n \in {0, 2, 3}}
=============================================================================
