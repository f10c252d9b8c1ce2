-------------------------- MODULE MCSubscriptions --------------------------
(* Small instances of Subscriptions for TLC. *)
EXTENDS Subscriptions

CONSTANTS e1, e2, p1, p2   \* model values: exact and pattern requests

MCNone == {}
MCOneExact == {e1}
MCTwoExact == {e1, e2}
MCTwoPatterns == {p1, p2}
MCMalformed == {e2}
MCStalled == {p2}
=============================================================================
