---------------------------- MODULE MCEditorServer ----------------------------
(* EditorServer for TLC: a show that is there and a setlist that is not.      *)
EXTENDS EditorServer

CONSTANTS h1, h2

TwoHandlers == {h1, h2}
TwoTexts == <<"a", "b">>
TwoDocs == {"show", "setlist"}
Shows == {"show"}
=============================================================================
