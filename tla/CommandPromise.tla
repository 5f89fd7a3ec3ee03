---------------------------- MODULE CommandPromise ----------------------------
(***************************************************************************)
(* What the command path promises whoever calls it                         *)
(* (docs/swarmlink-protocol.md section 3), with no retries, no answers and *)
(* no network: a duck carries a command out when it will, but not one it   *)
(* remembers; a call returns when it will, and what it reports as accepted *)
(* has been carried out and accepted.                                      *)
(***************************************************************************)
EXTENDS Naturals, Sequences, Functions

CONSTANTS
  Ducks,      (* the ducks of the roster                                     *)
  Remembers   (* how many commands a duck remembers                          *)

VARIABLES
  issued,     (* the number of calls made so far, and of the last one        *)
  calling,    (* that call has not returned                                  *)
  reported,   (* ducks the last call that returned has reported as accepting *)
  known,      (* per duck: what it remembers, oldest first                   *)
  accepted    (* per duck: the commands it has accepted                      *)

vars == <<issued, calling, reported, known, accepted>>

Init ==
  /\ issued = 0 /\ calling = FALSE /\ reported = {}
  /\ known = [d \in Ducks |-> <<>>]
  /\ accepted = [d \in Ducks |-> {}]

Recent(ids) ==
  IF Len(ids) > Remembers THEN Tail(ids) ELSE ids

Call ==
  /\ ~calling
  /\ calling' = TRUE /\ issued' = issued + 1
  /\ UNCHANGED <<reported, known, accepted>>

CarryOut(d) ==
  \E id \in 1..issued :
    /\ id \notin Range(known[d])
    /\ known' = [known EXCEPT ![d] = Recent(Append(@, id))]
    /\ accepted' \in {accepted, [accepted EXCEPT ![d] = @ \cup {id}]}
    /\ UNCHANGED <<issued, calling, reported>>

Return ==
  /\ calling /\ calling' = FALSE
  /\ reported' \in SUBSET {d \in Ducks : issued \in accepted[d]}
  /\ UNCHANGED <<issued, known, accepted>>

(* The caller is gone, and its report with it.                               *)
Abandon ==
  /\ calling' = FALSE /\ reported' = {}
  /\ UNCHANGED <<issued, known, accepted>>

Forget(d) ==
  /\ known' = [known EXCEPT ![d] = <<>>]
  /\ UNCHANGED <<issued, calling, reported, accepted>>

Next ==
  \/ Call \/ Return \/ Abandon
  \/ \E d \in Ducks : CarryOut(d) \/ Forget(d)

Spec == Init /\ [][Next]_vars

=============================================================================
