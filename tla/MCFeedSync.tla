----------------------------- MODULE MCFeedSync -----------------------------
(* FeedSync for TLC: a few entries, each with one key or, as those that are  *)
(* known by a unique link, with two.  The keys sort opposite to the dates,   *)
(* so that a tie between timestamps drops the newer entry's first.           *)
EXTENDS FeedSync

Three == 1..3

OneKey == [e \in Entries |-> {10 - e}]
TwoKeys == [e \in Entries |-> {20 - 2 * e, 21 - 2 * e}]
=============================================================================
