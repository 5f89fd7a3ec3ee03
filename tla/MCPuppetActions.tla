--------------------------- MODULE MCPuppetActions ---------------------------
(* PuppetActions for TLC: a stick that is held, a button with every packet.   *)
EXTENDS PuppetActions

StickAndButton == {{"move", "do"}}
=============================================================================
