--------------------------- MODULE MCCommandChannel ---------------------------
(* CommandChannel for TLC: two ducks, both of the cast.                       *)
EXTENDS CommandChannel

CONSTANTS d1, d2

Pair == {d1, d2}
=============================================================================
