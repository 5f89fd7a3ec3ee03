---- MODULE MCDuckAgent ----
(* DuckAgent for TLC: the sets of commands that bring the interesting cases   *)
(* together, each small enough for every interleaving to be looked at.        *)
EXTENDS DuckAgent

(* Whatever starts, holds and ends a performance.                             *)
MotionCmds == {"load", "play", "pause", "resume", "stop", "panic"}

(* Whatever may meet a relax.                                                 *)
TorqueCmds == {"load", "play", "seek", "pause", "resume", "relax", "stop"}

(* The least that holds a show and makes a duck limp.                         *)
FewCmds == {"load", "play", "pause", "relax"}
====
