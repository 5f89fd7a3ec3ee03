---------------------------- MODULE MCRobotdClient ----------------------------
(* RobotdClient for TLC: one caller beside the handshake and the tick thread. *)
EXTENDS RobotdClient

CONSTANT stopper

OneCaller == {stopper}
=============================================================================
