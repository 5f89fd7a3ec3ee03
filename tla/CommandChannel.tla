---------------------------- MODULE CommandChannel ----------------------------
(***************************************************************************)
(* Commands from the Python master to its ducks: calls that fan out to a   *)
(* worker per duck, each sending its datagram again until an answer comes  *)
(* or its tries are spent (python/tools/showmaster.py), over a network     *)
(* that loses, doubles, delays and reorders both ways, to agents that      *)
(* remember the answers they gave (python/duck_agent/agent.py).            *)
(*                                                                         *)
(* What a command does to a duck is DuckAgent's and ShowClock's; here a    *)
(* duck accepts it or does not.                                            *)
(***************************************************************************)
EXTENDS Naturals, Sequences

CONSTANTS
  Ducks,        (* SwarmMaster.roster                                        *)
  Cast,         (* target_ducks: those with a role                           *)
  Kinds,        (* the commands that are called                              *)
  Tries,        (* cmd_retries                                               *)
  Remembers,    (* _MAX_CMD_CACHE                                            *)
  MaxCalls,     (* bound: calls                                              *)
  MaxRestarts   (* bound: times an agent or the master is started again      *)

AllKinds == {"load", "play", "seek", "pause", "resume", "stop", "relax", "panic"}

ASSUME CommandAssumption ==
  /\ Cast \subseteq Ducks /\ Kinds \subseteq AllKinds
  /\ {Tries, Remembers} \subseteq Nat \ {0}
  /\ {MaxCalls, MaxRestarts} \subseteq Nat

VARIABLES
  transport,    (* SwarmMaster.transport                                     *)
  comes,        (* its state thread has found an armed show's start time     *)
                (* come, and is about to write that                          *)
  frozen,       (* SwarmMaster.paused_show_time is not None                  *)
  kinds,        (* the calls made so far; a call's number is its cmd_id      *)
  calling,      (* the last of them has not returned                         *)
  tries,        (* per duck: tries its worker thread has left; 0: it is done *)
  answer,       (* per duck: what the worker has been answered               *)
  report,       (* ducks the last call that returned reports as accepting    *)
  acks,         (* per duck: acks it has ever sent                           *)
  cache,        (* per duck: DuckAgent._cmd_results, oldest first            *)
  restarts,
  last,         (* history: the command each duck carried out last           *)
  recent,       (* history: the commands it carried out lately               *)
  gaveUp        (* history: commands the master stopped sending unanswered   *)

callVars == <<transport, comes, frozen, kinds, calling, report>>
masterVars == <<callVars, tries, answer>>
history == <<last, recent, gaveUp>>
agentVars == <<acks, cache, restarts>>
vars == <<masterVars, agentVars, history>>

Ids == 1..MaxCalls
Id == Len(kinds)
Answers == [id : Ids, ok : BOOLEAN]

CommandTypeOK ==
  /\ transport \in {"stopped", "armed", "playing", "paused"}
  /\ comes \in BOOLEAN /\ frozen \in BOOLEAN
  /\ kinds \in Seq(AllKinds) /\ Len(kinds) <= MaxCalls
  /\ calling \in BOOLEAN /\ report \in SUBSET Ducks
  /\ tries \in [Ducks -> 0..Tries]
  /\ answer \in [Ducks -> {"none", "ok", "refused"}]
  /\ acks \in [Ducks -> SUBSET Answers]
  /\ cache \in [Ducks -> Seq(Answers)]
  /\ \A d \in Ducks : Len(cache[d]) <= Remembers
  /\ restarts \in 0..MaxRestarts
  /\ last \in [Ducks -> 0..MaxCalls]
  /\ recent \in [Ducks -> Seq(Ids)]
  /\ gaveUp \in [Ducks -> SUBSET Ids]

Idle == [d \in Ducks |-> 0]

Init ==
  /\ transport = "stopped" /\ comes = FALSE /\ frozen = FALSE
  /\ kinds = <<>> /\ calling = FALSE /\ report = {}
  /\ tries = Idle /\ answer = [d \in Ducks |-> "none"]
  /\ acks = [d \in Ducks |-> {}]
  /\ cache = [d \in Ducks |-> <<>>] /\ restarts = 0
  /\ last = [d \in Ducks |-> 0] /\ recent = [d \in Ducks |-> <<>>]
  /\ gaveUp = [d \in Ducks |-> {}]

-----------------------------------------------------------------------------
(* The calls of SwarmMaster.                                                  *)

(* A panic goes to the whole roster, whatever the cast.                       *)
Targets(kind) == IF kind = "panic" THEN Ducks ELSE Cast

(* What the master itself refuses.                                            *)
Allowed(kind) ==
  CASE kind = "pause" -> transport = "playing" /\ ~frozen
    [] kind = "resume" -> frozen
    [] kind = "relax" -> transport = "stopped"
    [] OTHER -> TRUE

(* The transport after a call of the kind to which every duck said ok.        *)
Becomes(kind) ==
  CASE kind \in {"play", "seek"} -> "armed"
    [] kind = "pause" -> "paused"
    [] kind = "resume" -> "playing"
    [] kind \in {"stop", "panic"} -> "stopped"
    [] OTHER -> transport

(* A play or a seek leaves a frozen show time behind.                         *)
Freezes(kind) ==
  CASE kind = "pause" -> TRUE
    [] kind \in {"resume", "stop", "panic"} -> FALSE
    [] OTHER -> frozen

Call ==
  /\ ~calling /\ Len(kinds) < MaxCalls
  /\ \E kind \in Kinds :
       /\ Allowed(kind)
       /\ kinds' = Append(kinds, kind)
       /\ tries' = [d \in Ducks |-> IF d \in Targets(kind) THEN Tries ELSE 0]
  /\ calling' = TRUE
  /\ answer' = [d \in Ducks |-> "none"]
  /\ UNCHANGED <<transport, comes, frozen, report, agentVars, history>>

(* _maybe_advance_armed_to_playing, on a thread of its own and without a      *)
(* lock: the start time of the play has come, and that is written whatever    *)
(* call has returned in between.                                              *)
StartTimeComes ==
  /\ transport = "armed" /\ ~comes /\ comes' = TRUE
  /\ UNCHANGED <<transport, frozen, kinds, calling, report, tries, answer,
                 agentVars, history>>

StateAdvances ==
  /\ comes /\ comes' = FALSE
  /\ transport' = "playing"
  /\ UNCHANGED <<frozen, kinds, calling, report, tries, answer, agentVars, history>>

-----------------------------------------------------------------------------
(* _send_and_wait, one worker thread per duck.                                *)

(* event.wait has timed out: once more, or no more.  The variant does not     *)
(* count, and tries for ever.                                                 *)
TimeOutMutant(d) ==
  /\ tries[d] > 0
  /\ UNCHANGED vars

TimeOut(d) ==
  /\ tries[d] > 0
  /\ tries' = [tries EXCEPT ![d] = @ - 1]
  /\ gaveUp' = IF tries[d] > 1 THEN gaveUp
               ELSE [gaveUp EXCEPT ![d] = @ \cup {Id}]
  /\ UNCHANGED <<callVars, answer, agentVars, last, recent>>

(* An ack comes, _handle_ack, and the worker takes it up; of two that differ  *)
(* either may stand.  One that nobody waits for is dropped.                   *)
Answered(d) ==
  /\ tries[d] > 0
  /\ \E a \in acks[d] :
       /\ a.id = Id
       /\ answer' = [answer EXCEPT ![d] = IF a.ok THEN "ok" ELSE "refused"]
  /\ tries' = [tries EXCEPT ![d] = 0]
  /\ UNCHANGED <<callVars, agentVars, history>>

(* The result of a worker; one that gave up has no answer.                    *)
Accepting == {d \in Targets(kinds[Id]) : answer[d] = "ok"}

(* What a call does with the results.                                         *)
Conclude(done) ==
  /\ calling /\ calling' = FALSE
  /\ report' = Accepting
  /\ transport' = IF done THEN Becomes(kinds[Id]) ELSE transport
  /\ frozen' = IF done THEN Freezes(kinds[Id]) ELSE frozen
  /\ answer' = [d \in Ducks |-> "none"]
  /\ UNCHANGED <<comes, kinds, tries, agentVars, history>>

(* A panic stops the transport whoever answered.                              *)
AllAccept == kinds[Id] = "panic" \/ Accepting = Targets(kinds[Id])

(* The joins of send_command.  The variants do not wait for every worker, and *)
(* are content with one duck.                                                 *)
ReturnEarlyMutant ==
  /\ calling /\ \E d \in Targets(kinds[Id]) : tries[d] = 0
  /\ Conclude(AllAccept)

ReturnMutant ==
  /\ \A d \in Ducks : tries[d] = 0
  /\ Conclude(kinds[Id] = "panic" \/ Accepting # {})

Return ==
  /\ \A d \in Ducks : tries[d] = 0
  /\ Conclude(AllAccept)

(* The master is left and started again: the CLI is, for every command.       *)
MasterRestarts ==
  /\ restarts < MaxRestarts /\ kinds # <<>>
  /\ restarts' = restarts + 1
  /\ transport' = "stopped" /\ comes' = FALSE /\ frozen' = FALSE
  /\ calling' = FALSE /\ report' = {}
  /\ tries' = Idle /\ answer' = [d \in Ducks |-> "none"]
  /\ gaveUp' = [d \in Ducks |-> gaveUp[d] \cup
                  IF tries[d] > 0 THEN {Id} ELSE {}]
  /\ UNCHANGED <<kinds, acks, cache, last, recent>>

-----------------------------------------------------------------------------
(* The agent's receive thread, _handle_cmd_message.                           *)

Remembered(d, id) == {i \in DOMAIN cache[d] : cache[d][i].id = id}

(* The datagrams that may reach a duck: a worker sends its first as soon as    *)
(* the call is made, the others are copies of it; each may come at any time,  *)
(* several times or never.                                                    *)
Sent(d) == {i \in DOMAIN kinds : d \in Targets(kinds[i])}

(* Oldest out.  The variants never forget, and forget what was refused.       *)
RememberAllMutant(answers, a) == Append(answers, a)

RememberMutant(answers, a) ==
  LET all == IF a.ok THEN Append(answers, a) ELSE answers
  IN  IF Len(all) > Remembers THEN Tail(all) ELSE all

Remember(answers, a) ==
  LET all == Append(answers, a)
  IN  IF Len(all) > Remembers THEN Tail(all) ELSE all

(* A copy of what was answered is answered again and not carried out.         *)
Repeat(d) ==
  \E id \in Sent(d) : \E i \in Remembered(d, id) :
    /\ acks' = [acks EXCEPT ![d] = @ \cup {cache[d][i]}]
    /\ UNCHANGED <<masterVars, cache, restarts, history>>

(* The handler runs: accepted, refused, or raised, which is a refusal.  A     *)
(* panic is never refused.                                                    *)
Handle(d) ==
  \E id \in Sent(d), ok \in BOOLEAN :
    LET a == [id |-> id, ok |-> ok]
        ids == Append(recent[d], id)
    IN  /\ Remembered(d, id) = {}
        /\ kinds[id] = "panic" => ok
        /\ cache' = [cache EXCEPT ![d] = Remember(@, a)]
        /\ acks' = [acks EXCEPT ![d] = @ \cup {a}]
        /\ last' = [last EXCEPT ![d] = id]
        /\ recent' = [recent EXCEPT ![d] =
                        IF Len(ids) > Remembers THEN Tail(ids) ELSE ids]
        /\ UNCHANGED <<masterVars, restarts, gaveUp>>

(* systemd starts an agent that died.                                         *)
AgentRestarts(d) ==
  /\ restarts < MaxRestarts /\ cache[d] # <<>>
  /\ restarts' = restarts + 1
  /\ cache' = [cache EXCEPT ![d] = <<>>]
  /\ recent' = [recent EXCEPT ![d] = <<>>]
  /\ UNCHANGED <<masterVars, acks, last, gaveUp>>

-----------------------------------------------------------------------------
Worker(d) == TimeOut(d) \/ Answered(d)
Agent(d) == Repeat(d) \/ Handle(d) \/ AgentRestarts(d)

Next ==
  \/ Call \/ StartTimeComes \/ StateAdvances \/ Return \/ MasterRestarts
  \/ \E d \in Ducks : Worker(d) \/ Agent(d)

(* The master's threads run, and event.wait has a timeout; nothing is asked   *)
(* of the network or of the ducks.                                            *)
Fairness ==
  /\ WF_vars(Return)
  /\ \A d \in Ducks : WF_vars(Worker(d))

Spec == Init /\ [][Next]_vars /\ Fairness

-----------------------------------------------------------------------------
(* Every call returns, whatever the network and the ducks do: five tries per  *)
(* duck and no more (_send_and_wait).                                         *)
EveryCallReturns == calling ~> ~calling

(* Commands take effect in the order they were called: a duck carries one out *)
(* for the first time after a later one only when the master had given it up  *)
(* (a straggler; nothing in the protocol tells a duck that it is late).       *)
InOrder ==
  [][\A d \in Ducks :
       last'[d] < last[d]
         => \/ last'[d] \in gaveUp[d]
            \/ \E a \in acks[d] : a.id = last'[d]]_vars

(* The master only says that a show is on when there was a play or a seek     *)
(* that the whole cast accepted.                                              *)
ShowIsOn ==
  transport # "stopped"
    => \E id \in 1..Id :
         /\ kinds[id] \in {"play", "seek"}
         /\ \A d \in Cast : [id |-> id, ok |-> TRUE] \in acks[d]

(* The path as a whole keeps its promise: at most once while a duck           *)
(* remembers, and what is reported as accepted was (swarmlink-protocol.md     *)
(* section 3: "re-ACK, don't re-execute").                                    *)
Promise == INSTANCE CommandPromise WITH
  issued <- Len(kinds),
  reported <- report,
  known <- recent,
  accepted <- [d \in Ducks |-> {a.id : a \in {b \in acks[d] : b.ok}}]

PromiseSpec == Promise!Spec

=============================================================================
