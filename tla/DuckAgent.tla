------------------------------ MODULE DuckAgent ------------------------------
(***************************************************************************)
(* One duck-agent (python/duck_agent/agent.py) and the robotd it drives,   *)
(* seen as far as motion and torque go: the state machine of the agent,    *)
(* the steps its threads take between two holds of _playback_lock, the     *)
(* robotd link with its losses and reconnections, and the stop that must   *)
(* reach robotd on every way out of a performance.                         *)
(*                                                                         *)
(* One action is one hold of _playback_lock, or one robotd write made      *)
(* outside it.  Time is abstracted: a parked instant may be due at any     *)
(* tick (module ShowClock gives instants their values).  Head, pose and    *)
(* mouth, held sounds and which discrete call is made are abstracted: no   *)
(* property here tells them apart.                                         *)
(***************************************************************************)
EXTENDS FiniteSets

CONSTANTS
  Cmds,          (* the commands the master may send                         *)
  PanicThreads,  (* ids for _execute_panic threads alive at once (a bound)   *)
  Puppet         (* whether a puppet sender streams to this duck             *)

ASSUME DuckAgentAssumption ==
  /\ Cmds \subseteq {"load", "play", "seek", "pause", "resume", "relax",
                     "stop", "panic"}
  /\ PanicThreads \cap {"rx", "tick", "link"} = {}
  /\ Puppet \in BOOLEAN

(* rx: UDP receive loop.  tick: 50 Hz loop.  link: RobotdClient's connector, *)
(* which runs the state-change callbacks.                                    *)
Threads == {"rx", "tick", "link"} \cup PanicThreads

States == {"idle", "loaded", "armed", "playing", "paused", "fault"}

VARIABLES
  duck,       (* what _playback_lock protects, and what robotd holds for us  *)
  pc,         (* where each thread is between two holds of the lock          *)
  ended,      (* tick thread's local end_of_show                             *)
  fresh,      (* the puppet move channel is fresh (PuppetChannel._move)      *)
  muted,      (* PuppetChannel._muted                                        *)
  sock,       (* the socket: "up" robotd reads it, "dead" nobody reads it    *)
              (* and the agent has not noticed, "closed" the agent closed it *)
  connected   (* RobotdClient._connected                                     *)

vars == <<duck, pc, ended, fresh, muted, sock, connected>>

(* duck.moving and duck.torque are robotd's: the last velocity it holds is   *)
(* not zero; the servos are torqued.  duck.landed and duck.gap are history:  *)
(* the threads whose robot.stop was answered with nothing owed since, and    *)
(* the first of the three known ways a stop can get lost (StopCovered).      *)
DuckType ==
  [state : States, hasShow : BOOLEAN, pend : SUBSET {"seek", "pause", "resume"},
   frozen : BOOLEAN, relaxed : BOOLEAN, owed : BOOLEAN, applied : BOOLEAN,
   moving : BOOLEAN, torque : BOOLEAN, landed : SUBSET Threads,
   gap : {"none", "heldFrozen", "zeroLost", "owedErased"}]

PCs == {"none", "ready", "enable", "arm", "relax", "limp", "unrelax", "fire",
        "sent", "eos", "down", "up", "clear", "fault", "stop", "halt",
        "answered", "failed", "owe"}

TypeOK ==
  /\ duck \in DuckType
  /\ pc \in [Threads -> PCs]
  /\ ended \in BOOLEAN /\ fresh \in BOOLEAN /\ muted \in BOOLEAN
  /\ sock \in {"up", "dead", "closed"}
  /\ connected \in BOOLEAN

Init ==
  /\ duck = [state |-> "idle", hasShow |-> FALSE, pend |-> {}, frozen |-> FALSE,
             relaxed |-> FALSE, owed |-> FALSE, applied |-> FALSE,
             moving |-> FALSE, torque |-> TRUE, landed |-> {}, gap |-> "none"]
  /\ pc = [t \in Threads |-> IF t \in PanicThreads THEN "none" ELSE "ready"]
  /\ ended = FALSE /\ fresh = FALSE /\ muted = FALSE
  /\ sock = "closed" /\ connected = FALSE

Goto(t, l) == pc' = [pc EXCEPT ![t] = l]

-----------------------------------------------------------------------------
(* What the methods of DuckAgent do to its fields.  An operator that robotd   *)
(* may answer in several ways is the set of the results.                      *)

(* A request can succeed: RobotdClient.request refuses while not connected.   *)
Answers == sock = "up" /\ connected

WithGap(d, g) == [d EXCEPT !.gap = IF @ = "none" THEN g ELSE @]

Owe(d) == [d EXCEPT !.owed = TRUE, !.landed = {}]

(* Variants named ...Mutant are bugs this code could have had; each breaks a   *)
(* property below.  _cancel_scheduled that forgets what is parked:            *)
CancelMutant(d) == [d EXCEPT !.frozen = FALSE]

Cancel(d) == [d EXCEPT !.pend = {}, !.frozen = FALSE]

(* The zero move is a notification: it takes effect whenever robotd reads.    *)
Zeroed(d) == [d EXCEPT !.applied = FALSE, !.moving = @ /\ sock # "up"]

(* A stop that fails and is not remembered.                                   *)
StopFailsMutant(d) == Zeroed(d)

(* _send_stop_sequence called with _playback_lock held.                       *)
StopFails(d) == Owe(Zeroed(d))
StopLands(d) == [Zeroed(d) EXCEPT !.owed = FALSE]

(* A state the protocol does not know.                                        *)
FaultLockedMutant(d) == [Cancel(d) EXCEPT !.state = "error"]

FaultLocked(d) == [Cancel(d) EXCEPT !.state = "fault"]

(* Leaving for `then` behind a stop sequence; a failed stop is a fault.       *)
StopThen(d, then) ==
  {FaultLocked(StopFails(d))} \cup IF Answers THEN {then} ELSE {}

(* _enter_fault from a step that already holds the (reentrant) lock.          *)
EnterFault(d) ==
  IF d.state \notin {"armed", "playing"} THEN {d}
  ELSE IF ~connected THEN {Owe(FaultLocked(d))}
  ELSE {StopFails(FaultLocked(d))}
         \cup IF Answers THEN {StopLands(FaultLocked(d))} ELSE {}

(* The mode is already right or setMode succeeds, or setMode fails.           *)
ApplyMode(d) == {d} \cup EnterFault(d)

StartPlaying(d) ==
  ApplyMode([Cancel(d) EXCEPT !.state = "playing"])

-----------------------------------------------------------------------------
(* Commands: the receive thread.                                              *)

Load ==
  /\ "load" \in Cmds /\ pc["rx"] = "ready"
  /\ LET d == Cancel(duck)
         loaded(x) == [x EXCEPT !.state = "loaded", !.hasShow = TRUE]
     IN  duck' \in IF d.state \in {"armed", "playing"}
                   THEN StopThen(d, loaded(StopLands(d)))
                   ELSE IF d.state = "paused" /\ d.moving
                   THEN {WithGap(loaded(d), "heldFrozen")}
                   ELSE {loaded(d)}
  /\ UNCHANGED <<pc, ended, fresh, muted, sock, connected>>

(* _reenable_if_relaxed comes first, before anything is validated.            *)
Play ==
  /\ "play" \in Cmds /\ pc["rx"] = "ready"
  /\ Goto("rx", IF duck.relaxed THEN "enable" ELSE "arm")
  /\ UNCHANGED <<duck, ended, fresh, muted, sock, connected>>

(* _enable_torque: robot.enable and, if it is answered, the flag.  robotd may *)
(* have carried out a request that the agent holds for failed.                *)
TorqueOn(d) == [d EXCEPT !.torque = TRUE, !.relaxed = FALSE]

EnableTorque(d) ==
  {d} \cup IF Answers THEN {TorqueOn(d), [d EXCEPT !.torque = TRUE]} ELSE {}

PlayEnable ==
  /\ pc["rx"] = "enable"
  /\ duck' \in EnableTorque(duck)           \* a failure is logged, play goes on
  /\ Goto("rx", "arm")
  /\ UNCHANGED <<ended, fresh, muted, sock, connected>>

(* The rest of _handle_play.  No show, another show, no time sync or 2 s late *)
(* refuse it and leave the duck as it is.                                     *)
PlayArm ==
  /\ pc["rx"] = "arm"
  /\ Goto("rx", "ready")
  /\ \/ UNCHANGED duck
     \/ /\ duck.state # "fault" /\ connected /\ duck.hasShow
        /\ LET d == Cancel(duck)
               armed(x) == [x EXCEPT !.state = "armed"]
           IN  duck' \in IF d.state \in {"armed", "playing"}
                         THEN StopThen(d, armed(StopLands(d)))
                         ELSE IF d.state = "paused" /\ d.moving
                         THEN {WithGap(armed(d), "heldFrozen")}
                         ELSE {armed(d)}
  /\ UNCHANGED <<ended, fresh, muted, sock, connected>>

(* While armed a seek re-arms; otherwise it is parked for the tick loop.      *)
Seek ==
  /\ "seek" \in Cmds /\ pc["rx"] = "ready"
  /\ connected /\ duck.state \in {"armed", "playing", "paused"}
  /\ duck' = [duck EXCEPT !.pend = IF duck.state = "armed" THEN @ \ {"seek"}
                                   ELSE @ \cup {"seek"}]
  /\ UNCHANGED <<pc, ended, fresh, muted, sock, connected>>

Pause ==
  /\ "pause" \in Cmds /\ pc["rx"] = "ready"
  /\ duck.state = "playing" /\ ~duck.frozen /\ "pause" \notin duck.pend
  /\ duck' = [duck EXCEPT !.pend = @ \cup {"pause"}]
  /\ UNCHANGED <<pc, ended, fresh, muted, sock, connected>>

Resume ==
  /\ "resume" \in Cmds /\ pc["rx"] = "ready"
  /\ duck.state # "fault" /\ (duck.frozen \/ "pause" \in duck.pend)
  /\ duck' = [duck EXCEPT !.pend = @ \cup {"resume"}]
  /\ UNCHANGED <<pc, ended, fresh, muted, sock, connected>>

(* A relax that a paused duck takes.                                          *)
RelaxMutant ==
  /\ "relax" \in Cmds /\ pc["rx"] = "ready"
  /\ duck.state \notin {"fault", "armed", "playing"} /\ connected
  /\ Goto("rx", IF duck.relaxed THEN "unrelax" ELSE "relax")
  /\ UNCHANGED <<duck, ended, fresh, muted, sock, connected>>

(* A relaxed flag and its request are apart: the check and the request hold   *)
(* no lock, and the flag is set after the answer.                             *)
Relax ==
  /\ "relax" \in Cmds /\ pc["rx"] = "ready"
  /\ duck.state \notin {"fault", "armed", "playing", "paused"} /\ connected
  /\ Goto("rx", IF duck.relaxed THEN "unrelax" ELSE "relax")
  /\ UNCHANGED <<duck, ended, fresh, muted, sock, connected>>

RelaxRequest ==
  /\ pc["rx"] = "relax"
  /\ \/ /\ Answers
        /\ duck' = [duck EXCEPT !.torque = FALSE, !.moving = FALSE]
        /\ Goto("rx", "limp") \/ Goto("rx", "ready")
     \/ UNCHANGED duck /\ Goto("rx", "ready")
  /\ UNCHANGED <<ended, fresh, muted, sock, connected>>

RelaxFlag ==
  /\ pc["rx"] = "limp"
  /\ duck' = [duck EXCEPT !.relaxed = TRUE]
  /\ Goto("rx", "ready")
  /\ UNCHANGED <<ended, fresh, muted, sock, connected>>

Unrelax ==
  /\ pc["rx"] = "unrelax"
  /\ duck' \in EnableTorque(duck)
  /\ Goto("rx", "ready")
  /\ UNCHANGED <<ended, fresh, muted, sock, connected>>

(* A mute that leaves the channel what it holds.                              *)
MuteMutant == muted' = TRUE /\ UNCHANGED fresh

(* PuppetChannel.mute drops what the channel holds.                           *)
Mute == muted' = TRUE /\ fresh' = FALSE

Stop ==
  /\ "stop" \in Cmds /\ pc["rx"] = "ready" /\ duck.state # "fault"
  /\ Mute
  /\ LET d == Cancel(duck)
         rest == IF d.hasShow THEN "loaded" ELSE "idle"
         performing == d.state \in {"armed", "playing", "paused"}
         stopped == [StopLands(d) EXCEPT !.state = IF performing THEN rest ELSE @]
     IN  duck' \in IF performing \/ d.applied THEN StopThen(d, stopped) ELSE {d}
  /\ UNCHANGED <<pc, ended, sock, connected>>

(* Panic resets the machine at once; its robot.stop is another thread's.      *)
Panic ==
  /\ "panic" \in Cmds /\ pc["rx"] = "ready"
  /\ Mute
  /\ duck' = [Cancel(duck) EXCEPT !.state = "idle", !.hasShow = FALSE,
                                  !.applied = FALSE]
  /\ \E p \in PanicThreads : pc[p] = "none" /\ Goto(p, "stop")
  /\ UNCHANGED <<ended, sock, connected>>

(* _on_puppet_msg: dropped while relaxed; a muted channel opens again only to *)
(* a packet that follows a quiet period.                                      *)
PuppetPacket ==
  /\ Puppet /\ pc["rx"] = "ready" /\ ~duck.relaxed
  /\ fresh' = TRUE /\ muted' = FALSE
  /\ UNCHANGED <<duck, pc, ended, sock, connected>>

PuppetStale ==
  /\ fresh /\ fresh' = FALSE
  /\ UNCHANGED <<duck, pc, ended, muted, sock, connected>>

-----------------------------------------------------------------------------
(* The 50 Hz tick, one hold of the lock: _maybe_start_from_armed, then        *)
(* _play_tick or _puppet_tick.  `due` is the set of parked instants that have *)
(* come.                                                                      *)

(* Not due yet, too late (the duck sits it out), or started.                  *)
MaybeStart(d) ==
  IF d.state # "armed" THEN {d}
  ELSE {d, [Cancel(d) EXCEPT !.state = "loaded"]} \cup StartPlaying(d)

(* robot.move notified: it takes effect if robotd reads it.                   *)
Moved(d, v, byPuppet) ==
  [d EXCEPT !.moving = IF sock = "up" THEN v ELSE @, !.applied = byPuppet]

Moves(d, byPuppet) == {Moved(d, v, byPuppet) : v \in BOOLEAN}

(* The intents of a playing or frozen tick.  A write to a closed socket is a  *)
(* fault, which a paused duck does not take.                                  *)
Emit(d) ==
  LET silent == IF d.frozen \/ d.applied THEN {} ELSE {d}
  IN  silent \cup
      IF sock = "closed" THEN EnterFault(d)
      ELSE IF d.frozen THEN {Moved(d, FALSE, FALSE)}
      ELSE Moves(d, FALSE) \cup IF fresh THEN Moves(d, TRUE) ELSE {}

PausePhase(d, due) ==
  IF "pause" \in due
  THEN [d EXCEPT !.pend = @ \ {"pause"}, !.frozen = TRUE, !.state = "paused"]
  ELSE d

ResumePhase(d, due) ==
  IF "resume" \notin due THEN {d}
  ELSE IF d.frozen THEN StartPlaying(d)
  ELSE {[d EXCEPT !.pend = @ \ {"resume"}]}

(* A seek while frozen moves the frozen point and emits nothing this tick.    *)
SeekPhase(d, due) ==
  LET sought == [d EXCEPT !.pend = @ \ {"seek"}]
  IN  IF d.state = "fault" THEN {d}
      ELSE IF "seek" \notin due \cap d.pend THEN Emit(d)
      ELSE IF d.frozen THEN ApplyMode(sought)
      ELSE UNION {IF x.state = "playing" THEN Emit(x) ELSE {x} :
                    x \in StartPlaying(sought)}

PlayTick(d, due) ==
  UNION {SeekPhase(x, due) : x \in ResumePhase(PausePhase(d, due), due)}

(* Puppet mode forwards; in every other state here the motion a puppet was    *)
(* driving is zeroed once, by a notification nobody confirms.                 *)
PuppetTick(d) ==
  LET driven == fresh /\ d.state \in {"idle", "loaded"}
  IN  IF ~driven /\ ~d.applied THEN {d}
      ELSE IF sock = "closed" THEN {[Owe(d) EXCEPT !.applied = FALSE]}
      ELSE IF driven THEN Moves(d, TRUE)
      ELSE LET z == Moved(d, FALSE, FALSE)
           IN  {IF z.moving THEN WithGap(z, "zeroLost") ELSE z}

(* Events and the end of the show are handled after the lock is released.     *)
Tick ==
  /\ pc["tick"] = "ready"
  /\ \E d \in MaybeStart(duck) : \E due \in SUBSET d.pend :
       LET plays == d.state \in {"playing", "paused"}
       IN  /\ duck' \in IF plays THEN PlayTick(d, due) ELSE PuppetTick(d)
           /\ \/ Goto("tick", "ready") /\ ended' = FALSE
              \/ /\ plays /\ duck'.state = "playing"
                 /\ \/ Goto("tick", "fire") /\ ended' \in BOOLEAN
                    \/ Goto("tick", "eos") /\ ended' = TRUE
  /\ UNCHANGED <<fresh, muted, sock, connected>>

AfterEvents == IF ended THEN "eos" ELSE "ready"

(* _fire_event looks at the state, lets the lock go, and only then asks.      *)
FireEvent ==
  /\ pc["tick"] = "fire"
  /\ Goto("tick", IF duck.state = "playing" THEN "sent" ELSE AfterEvents)
  /\ UNCHANGED <<duck, ended, fresh, muted, sock, connected>>

(* The answer: done, or a failure that faults whatever the duck does by now.  *)
(* The tick may have found another event.                                     *)
EventAnswered ==
  /\ pc["tick"] = "sent"
  /\ \/ /\ Answers \/ duck.state \notin {"armed", "playing"}
        /\ \E l \in {"fire", AfterEvents} : Goto("tick", l)
        /\ UNCHANGED duck
     \/ /\ duck.state \in {"armed", "playing"}
        /\ Goto("tick", "fault") /\ duck' = FaultLocked(duck)
  /\ UNCHANGED <<ended, fresh, muted, sock, connected>>

(* The end of a show that does not look at the state again.                   *)
EndOfShowMutant ==
  /\ pc["tick"] = "eos"
  /\ Goto("tick", "ready")
  /\ duck' \in StopThen(duck, [StopLands(duck) EXCEPT !.state = "loaded"])
  /\ UNCHANGED <<ended, fresh, muted, sock, connected>>

EndOfShow ==
  /\ pc["tick"] = "eos"
  /\ Goto("tick", "ready")
  /\ duck' \in IF duck.state # "playing" THEN {duck}
               ELSE StopThen(duck, [StopLands(duck) EXCEPT !.state = "loaded"])
  /\ UNCHANGED <<ended, fresh, muted, sock, connected>>

-----------------------------------------------------------------------------
(* _enter_fault and _send_stop_sequence outside the lock, on any thread.      *)

AfterStop(t) ==
  IF t = "tick" THEN AfterEvents
  ELSE IF t = "link" THEN "clear"
  ELSE "none"

AfterOwe(t) == IF t = "tick" THEN AfterEvents ELSE "ready"

(* "if not self.robotd.connected" after the lock of _enter_fault is released. *)
FaultStop(t) ==
  /\ pc[t] = "fault"
  /\ Goto(t, IF connected THEN "stop" ELSE "owe")
  /\ UNCHANGED <<duck, ended, fresh, muted, sock, connected>>

FaultOwe(t) ==
  /\ pc[t] = "owe"
  /\ duck' = Owe(duck)
  /\ Goto(t, AfterOwe(t))
  /\ UNCHANGED <<ended, fresh, muted, sock, connected>>

StopBegin(t) ==
  /\ pc[t] = "stop"
  /\ duck' = [duck EXCEPT !.applied = FALSE]
  /\ Goto(t, "halt")
  /\ UNCHANGED <<ended, fresh, muted, sock, connected>>

(* The zero move and robot.stop go out; no lock is held.                      *)
StopRequest(t) ==
  /\ pc[t] = "halt"
  /\ LET d == [duck EXCEPT !.moving = @ /\ sock # "up"]
     IN  \/ /\ Answers /\ Goto(t, "answered")
            /\ duck' = [d EXCEPT !.landed = @ \cup {t}]
         \/ duck' = d /\ Goto(t, "failed")
  /\ UNCHANGED <<ended, fresh, muted, sock, connected>>

(* "self._stop_owed = False", whatever was owed in the meantime.              *)
StopSettled(t) ==
  /\ pc[t] = "answered"
  /\ LET d == [duck EXCEPT !.owed = FALSE, !.landed = @ \ {t}]
     IN  duck' = IF duck.owed /\ t \notin duck.landed
                 THEN WithGap(d, "owedErased") ELSE d
  /\ Goto(t, AfterStop(t))
  /\ UNCHANGED <<ended, fresh, muted, sock, connected>>

StopOwed(t) ==
  /\ pc[t] = "failed"
  /\ duck' = Owe(duck)
  /\ Goto(t, AfterStop(t))
  /\ UNCHANGED <<ended, fresh, muted, sock, connected>>

StopSteps(t) ==
  FaultStop(t) \/ FaultOwe(t) \/ StopBegin(t) \/ StopRequest(t)
    \/ StopSettled(t) \/ StopOwed(t)

Steps == \E t \in Threads : StopSteps(t)

-----------------------------------------------------------------------------
(* The robotd link.  The connector thread changes _connected and then runs    *)
(* the callback; it changes nothing again until the callback returns.         *)

(* robotd's end goes away: what is written from now on is lost.               *)
LinkBreaks ==
  /\ sock = "up" /\ sock' = "dead"
  /\ UNCHANGED <<duck, pc, ended, fresh, muted, connected>>

(* The reader sees EOF, or a write times out: _close_socket.                  *)
SocketClosed ==
  /\ sock = "dead" /\ sock' = "closed"
  /\ UNCHANGED <<duck, pc, ended, fresh, muted, connected>>

LinkDown ==
  /\ pc["link"] = "ready" /\ sock = "closed" /\ connected
  /\ connected' = FALSE
  /\ Goto("link", "down")
  /\ UNCHANGED <<duck, ended, fresh, muted, sock>>

(* A loss of robotd that an armed duck does not take.                         *)
LinkDownFaultMutant ==
  /\ pc["link"] = "down"
  /\ IF duck.state = "playing"
     THEN duck' = FaultLocked(duck) /\ Goto("link", "fault")
     ELSE UNCHANGED duck /\ Goto("link", "ready")
  /\ UNCHANGED <<ended, fresh, muted, sock, connected>>

(* _on_robotd_state_change(False): _enter_fault.                              *)
LinkDownFault ==
  /\ pc["link"] = "down"
  /\ IF duck.state \in {"armed", "playing"}
     THEN duck' = FaultLocked(duck) /\ Goto("link", "fault")
     ELSE UNCHANGED duck /\ Goto("link", "ready")
  /\ UNCHANGED <<ended, fresh, muted, sock, connected>>

(* A new socket; the hello handshake is under way.  robotd is the daemon that *)
(* was there, or a fresh one: standing, torqued.                              *)
SocketOpened ==
  /\ pc["link"] = "ready" /\ sock = "closed" /\ ~connected
  /\ sock' = "up"
  /\ \/ UNCHANGED duck
     \/ duck' = [duck EXCEPT !.moving = FALSE, !.torque = TRUE]
  /\ UNCHANGED <<pc, ended, fresh, muted, connected>>

LinkUp ==
  /\ pc["link"] = "ready" /\ sock = "up" /\ ~connected
  /\ connected' = TRUE
  /\ Goto("link", "up")
  /\ UNCHANGED <<duck, ended, fresh, muted, sock>>

(* _on_robotd_state_change(True): is a stop owed?                             *)
LinkUpOwed ==
  /\ pc["link"] = "up"
  /\ Goto("link", IF duck.owed \/ duck.state = "fault" THEN "stop" ELSE "clear")
  /\ UNCHANGED <<duck, ended, fresh, muted, sock, connected>>

LinkUpClear ==
  /\ pc["link"] = "clear"
  /\ duck' = [duck EXCEPT !.relaxed = FALSE]
  /\ Goto("link", "ready")
  /\ UNCHANGED <<ended, fresh, muted, sock, connected>>

-----------------------------------------------------------------------------
Commands ==
  \/ Load \/ Play \/ PlayEnable \/ PlayArm \/ Seek \/ Pause \/ Resume
  \/ Relax \/ RelaxRequest \/ RelaxFlag \/ Unrelax \/ Stop \/ Panic

Link ==
  \/ LinkBreaks \/ SocketClosed \/ LinkDown \/ LinkDownFault \/ SocketOpened
  \/ LinkUp \/ LinkUpOwed \/ LinkUpClear

Next ==
  \/ Commands
  \/ PuppetPacket \/ PuppetStale
  \/ Tick \/ FireEvent \/ EventAnswered \/ EndOfShow
  \/ Steps
  \/ Link

Spec == Init /\ [][Next]_vars

-----------------------------------------------------------------------------
(* A thread that will still send a stop, or record one as owed.               *)
StopPending == \E t \in Threads : pc[t] \in {"fault", "stop", "halt", "failed", "owe"}

AtRest == {"idle", "loaded", "armed", "fault"}

(* A duck that performs nothing is not left walking: if robotd still holds a  *)
(* velocity, a stop is owed for the next connection, or the tick loop knows   *)
(* that a puppet drives it, or a thread is about to stop it.  Every way out   *)
(* of a performance, every failed stop and every reconnection keeps this up,  *)
(* interleaved in any order, but for three lapses, which duck.gap records:    *)
(*   heldFrozen   _handle_load and _handle_play send no stop to a paused duck *)
(*                whose zero move was lost with the link;                     *)
(*   zeroLost     _puppet_tick zeroes by a notification written to a socket   *)
(*                robotd no longer reads;                                     *)
(*   owedErased   _send_stop_sequence clears _stop_owed after another         *)
(*                thread's later stop failed and set it.                      *)
StopCovered ==
  duck.gap = "none" /\ duck.moving /\ duck.state \in AtRest
    => duck.owed \/ duck.applied \/ StopPending

(* Once the agent has handled the loss of robotd it is not waiting to start a *)
(* show: _handle_play looks at `connected` under the lock, the connector      *)
(* changes it without the lock and takes the lock afterwards.                 *)
NotArmedWithoutRobotd ==
  ~connected /\ pc["link"] = "ready" => duck.state # "armed"

(* _play_tick's assertion that a sampler is there, and a show that starts     *)
(* clean: a pause, a resume or a seek parked in an earlier performance never  *)
(* reaches an armed one, and only a paused duck has a frozen show time.       *)
PerformanceClean ==
  /\ duck.state \in {"loaded", "armed", "playing", "paused"} => duck.hasShow
  /\ duck.frozen <=> duck.state = "paused"
  /\ duck.state \in {"idle", "armed", "fault"} => duck.pend = {}

(* A panic or a stop silences the puppet until its stream has been quiet:     *)
(* nothing a muted channel held is forwarded or still counted as driving.     *)
MutedSilent == muted => ~fresh /\ ~duck.applied

(* robot.relax takes the torque only from a duck that is neither armed nor    *)
(* performing, although _handle_relax checks the state, lets the lock go and  *)
(* waits for robotd.                                                          *)
TorqueKept ==
  [][duck.torque /\ ~duck'.torque => duck.state \in {"idle", "loaded"}]_vars

(* DuckAgent implements the protocol's state diagram.                         *)
Protocol == INSTANCE AgentProtocol WITH state <- duck.state, hasShow <- duck.hasShow
ProtocolSpec == Protocol!Spec

(* "A relaxed duck handed a play would try to perform limp": a duck that      *)
(* knows it is relaxed does not play with its torque off while robotd is      *)
(* there.  _reenable_if_relaxed only logs that robot.enable failed.           *)
NeverPerformsLimp ==
  duck.state = "playing" /\ duck.relaxed /\ Answers => duck.torque

(* "Any robotd error -> FAULT": a duck whose loss of robotd has been handled  *)
(* is not in a performance, held or running.  _enter_fault ignores a pause.   *)
LossFaults ==
  ~connected /\ pc["link"] = "ready"
    => duck.state \notin {"armed", "playing", "paused"}

=============================================================================
