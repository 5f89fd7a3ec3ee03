---- MODULE MCShowClock ----
(* ShowClock for TLC: two ducks, and the operator's scripts.                  *)
EXTENDS ShowClock, TLC

Symmetry == Permutations(Ducks)

(* Every operation, each in company that no parked instant of another kind    *)
(* can cancel.                                                                *)
PlainScripts ==
  {<<"play", "pause", "resume", "stop">>, <<"play", "seek", "seek">>,
   <<"play", "play", "pause">>, <<"play", "pause", "seek">>,
   <<"play", "pause", "pause">>}

(* What the theorems about the cast suppose of an operator.                   *)
ASSUME PlainAssumption == \A s \in PlainScripts : Careful(s) /\ Unfrozen(s)

HeldScripts == {<<"play", "pause", "resume">>}

HeldAgainScripts == {<<"play", "pause", "resume", "pause">>}
====
