---------------------------- MODULE AgentProtocol ----------------------------
(***************************************************************************)
(* What a master may rely on about one duck: the state diagram of          *)
(* docs/swarmlink-protocol.md section 5, as the module comment of          *)
(* python/duck_agent/agent.py completes it.  DuckAgent implements it.      *)
(***************************************************************************)

VARIABLES
  state,    (* DuckAgent.state                     *)
  hasShow   (* a show is loaded (DuckAgent.show)   *)

vars == <<state, hasShow>>

Init == state = "idle" /\ hasShow = FALSE

Load == state' = "loaded" /\ hasShow' = TRUE

Play ==
  /\ hasShow /\ state # "fault"
  /\ state' = "armed" /\ UNCHANGED hasShow

Start == state = "armed" /\ state' = "playing" /\ UNCHANGED hasShow

Pause == state = "playing" /\ state' = "paused" /\ UNCHANGED hasShow

Resume == state = "paused" /\ state' = "playing" /\ UNCHANGED hasShow

(* The end of the show, a stop, or a start missed by 2 s.                     *)
End ==
  /\ state \in {"armed", "playing", "paused"}
  /\ state' = "loaded" /\ UNCHANGED hasShow

Panic == state' = "idle" /\ hasShow' = FALSE

(* A robotd error, from any state; only Load and Panic lead out of it.        *)
Fault == state' = "fault" /\ UNCHANGED hasShow

Next == Load \/ Play \/ Start \/ Pause \/ Resume \/ End \/ Panic \/ Fault

Spec == Init /\ [][Next]_vars

=============================================================================
