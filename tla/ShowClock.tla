------------------------------ MODULE ShowClock ------------------------------
(***************************************************************************)
(* Show time on a cast: one master (python/tools/showmaster.py, class      *)
(* SwarmMaster) schedules play, seek, pause and resume at instants of its  *)
(* clock, and every duck (python/duck_agent/agent.py) parks the instant,   *)
(* and applies it at whichever 50 Hz tick notices that it has come.  Ticks *)
(* are late by any amount: a robotd request may hold the tick thread.      *)
(*                                                                         *)
(* Times are whole units; a unit is longer than a tick and no longer than  *)
(* a command call (0.5 s).  The clocks are in sync, so an instant of the   *)
(* master is the same number on a duck.  robotd always answers: what       *)
(* happens when it does not is module DuckAgent's subject.                 *)
(***************************************************************************)
EXTENDS Integers, Sequences

CONSTANTS
  Ducks,     (* the cast                                                     *)
  None,      (* Python's None                                                *)
  Scripts,   (* the sequences of operations the operator may go through      *)
  Lead,      (* lead_ms                                                      *)
  OnTime,    (* LATE_JOIN_IMMEDIATE_S                                        *)
  MaxLate,   (* LATE_JOIN_MAX_S                                              *)
  CallTime,  (* the longest a command call takes: retries times timeout      *)
  Duration,  (* meta.duration                                                *)
  Events,    (* show times of the discrete events                            *)
  SeekTo,    (* the show times a seek may go to                              *)
  MaxTime    (* bound on the clock                                           *)

Ops == {"play", "seek", "pause", "resume", "stop"}

(* A command on its way to the cast: what it says, the show time the master   *)
(* reported as it was issued, when that was, which ducks have not answered    *)
(* yet, and whether those that have accepted it.                              *)
Calls ==
  [op : Ops, at : Int, to : Int, frozen : Int, begun : Int,
   waiting : SUBSET Ducks, ok : BOOLEAN]

(* The last: a play is given up (0.5 s after it was sent) before it would be  *)
(* refused for its lateness (2 s after its instant).                          *)
ASSUME ShowClockAssumption ==
  /\ None \notin Int /\ None \notin Calls
  /\ Scripts \subseteq Seq(Ops)
  /\ {Lead, OnTime, MaxLate, CallTime, Duration, MaxTime} \subseteq Nat
  /\ Events \subseteq Nat /\ SeekTo \subseteq Nat
  /\ CallTime < Lead + MaxLate

VARIABLES
  now,     (* the common clock                                               *)
  script,  (* what the operator still does                                   *)
  call,    (* the command under way (SwarmMaster.send_command), or None      *)
  master,  (* transport, play_epoch_ns, from_show_time, paused_show_time;    *)
           (* `comes`: its state thread has found an armed show's instant    *)
           (* come, and is about to write that                               *)
  duck,    (* each agent's schedule and show clock                           *)
  whole    (* history: every duck has accepted every command                 *)

vars == <<now, script, call, master, duck, whole>>

(* at, from: _scheduled_at_master_ns and _scheduled_from_show_time.  epoch,  *)
(* base: _play_epoch_local_ns and _play_epoch_show_time.  last:              *)
(* _last_processed_show_time.  frozen: _paused_show_time.  pause, resume,    *)
(* seek: what is parked.  due, ended: what the tick thread found and has not *)
(* handled.  The rest is history: wish, the last command accepted; start,    *)
(* where this pass of the show began; fired, how often each event fired in   *)
(* it; held, whether it was paused.                                          *)
Idle ==
  [state |-> "loaded", at |-> None, from |-> 0, epoch |-> None, base |-> 0,
   last |-> 0, frozen |-> None, pause |-> None, resume |-> None, seek |-> None,
   seekTo |-> 0, due |-> {}, ended |-> FALSE,
   wish |-> "none", start |-> 0, fired |-> [e \in Events |-> 0],
   held |-> FALSE]

Times == Int \cup {None}

TypeOK ==
  /\ now \in 0..MaxTime
  /\ master.transport \in {"stopped", "armed", "playing", "paused"}
  /\ {master.epoch, master.paused} \subseteq Times /\ master.from \in Int
  /\ master.comes \in BOOLEAN
  /\ \A d \in Ducks :
       /\ duck[d].state \in {"loaded", "armed", "playing", "paused"}
       /\ {duck[d].at, duck[d].epoch, duck[d].frozen, duck[d].pause,
           duck[d].resume, duck[d].seek} \subseteq Times
       /\ {duck[d].base, duck[d].last, duck[d].from} \subseteq Int
       /\ duck[d].due \subseteq Events /\ duck[d].ended \in BOOLEAN
  /\ whole \in BOOLEAN

Init ==
  /\ now = 0
  /\ script \in Scripts
  /\ call = None
  /\ master = [transport |-> "stopped", epoch |-> None, from |-> 0, paused |-> None,
               comes |-> FALSE]
  /\ duck = [d \in Ducks |-> Idle]
  /\ whole = TRUE

-----------------------------------------------------------------------------
(* What the methods of DuckAgent do to a duck x.                              *)

(* _cancel_scheduled.                                                         *)
Cancel(x) ==
  [x EXCEPT !.at = None, !.seek = None, !.frozen = None,
            !.pause = None, !.resume = None]

(* Variants named ...Mutant are bugs this code could have had; each breaks a   *)
(* property below.  An _arm that forgets the show time it is given:           *)
ArmMutant(x, at, from) ==
  [x EXCEPT !.state = "armed", !.at = at, !.from = 0, !.seek = None,
            !.epoch = None, !.base = 0]

(* _arm.                                                                      *)
Arm(x, at, from) ==
  [x EXCEPT !.state = "armed", !.at = at, !.from = from, !.seek = None,
            !.epoch = None, !.base = from]

(* An event at the very start of the window is lost.                          *)
StartPlayingMutant(x, s, t) ==
  [Cancel(x) EXCEPT !.state = "playing", !.epoch = t, !.base = s, !.last = s]

(* _start_playing_now: show time `s` at the instant `t`.  Nothing parked      *)
(* survives.  An event at s itself is still to fire.                          *)
StartPlaying(x, s, t) ==
  [Cancel(x) EXCEPT !.state = "playing", !.epoch = t, !.base = s, !.last = s - 1]

(* _current_show_time at the instant t.                                       *)
ShowTime(x, t) ==
  IF x.frozen # None THEN x.frozen
  ELSE IF x.epoch = None THEN x.base
  ELSE x.base + (t - x.epoch)

NewPass(x, s) ==
  [x EXCEPT !.start = s, !.fired = [e \in Events |-> 0], !.held = FALSE]

(* A start whose clock runs from the tick that noticed it.                    *)
BeginMutant(x, s, t) == NewPass(StartPlaying(x, s, now), s)

(* _begin_playback: past OnTime the duck joins in progress.                   *)
Begin(x, s, t) ==
  LET late == now - t
  IN  IF late <= OnTime THEN NewPass(StartPlaying(x, s, t), s)
      ELSE NewPass(StartPlaying(x, s + late, now), s + late)

(* The handlers: what a command does to a duck, and whether it is ACKed.      *)
Accepts(x, c) ==
  CASE c.op = "play"   -> now - c.at < MaxLate
    [] c.op = "seek"   -> x.state # "loaded"
    [] c.op = "pause"  ->
         x.state = "playing" \/ x.frozen # None \/ x.pause # None
    [] c.op = "resume" -> TRUE
    [] c.op = "stop"   -> TRUE

Obey(x, c) ==
  CASE c.op = "play" -> Arm(Cancel(x), c.at, c.to)
    [] c.op = "seek" ->
         IF x.state = "armed" THEN Arm(x, c.at, c.to)
         ELSE [x EXCEPT !.seek = c.at, !.seekTo = c.to]
    [] c.op = "pause" ->
         IF x.frozen # None \/ x.pause # None THEN x
         ELSE [x EXCEPT !.pause = c.at]
    [] c.op = "resume" ->
         IF x.frozen = None /\ x.pause = None THEN x
         ELSE [x EXCEPT !.resume = c.at]
    [] c.op = "stop" ->
         [Cancel(x) EXCEPT !.state = "loaded", !.epoch = None, !.base = 0]

Handle(x, c) ==
  IF Accepts(x, c) THEN [Obey(x, c) EXCEPT !.wish = c.op] ELSE x

-----------------------------------------------------------------------------
(* One tick of a duck.                                                        *)

Come(t) == t # None /\ now >= t

(* A duck that sits the number out and forgets its show.                      *)
StartedMutant(x) ==
  IF ~Come(x.at) THEN x
  ELSE IF now - x.at >= MaxLate
  THEN [Cancel(x) EXCEPT !.state = "idle", !.base = 0]
  ELSE Begin(x, x.from, x.at)

(* _maybe_start_from_armed: 2 s late or more, the duck sits the number out.   *)
Started(x) ==
  IF ~Come(x.at) THEN x
  ELSE IF now - x.at >= MaxLate
  THEN [Cancel(x) EXCEPT !.state = "loaded", !.base = 0]
  ELSE Begin(x, x.from, x.at)

(* A pause noticed late is dropped, as a late play is.                        *)
PausedMutant(x) ==
  IF ~Come(x.pause) THEN x
  ELSE IF now - x.pause > OnTime THEN [x EXCEPT !.pause = None]
  ELSE [x EXCEPT !.frozen = ShowTime(x, x.pause), !.pause = None,
                 !.state = "paused", !.held = TRUE]

(* The phases of _play_tick.  A pause freezes the show at its instant.        *)
Paused(x) ==
  IF ~Come(x.pause) THEN x
  ELSE [x EXCEPT !.frozen = ShowTime(x, x.pause), !.pause = None,
                 !.state = "paused", !.held = TRUE]

Resumed(x) ==
  IF ~Come(x.resume) THEN x
  ELSE IF x.frozen = None THEN [x EXCEPT !.resume = None]
  ELSE StartPlaying(x, x.frozen, x.resume)

SoughtFrozen(x) ==
  [NewPass(x, x.seekTo) EXCEPT !.seek = None, !.frozen = x.seekTo,
                               !.last = x.seekTo - 1, !.held = TRUE]

(* The discrete events in the window, and the end of the show.                *)
Framed(x) ==
  LET show == ShowTime(x, now)
  IN  [x EXCEPT !.due = {e \in Events : x.last < e /\ e <= show},
                !.last = show, !.ended = show >= Duration]

PlayTick(x) ==
  LET y == Resumed(Paused(x))
  IN  IF ~Come(y.seek) THEN Framed(y)
      ELSE IF y.frozen # None THEN SoughtFrozen(y)
      ELSE Framed(Begin(y, y.seekTo, y.seek))

Tick(d) ==
  /\ duck[d].due = {} /\ ~duck[d].ended
  /\ LET x == IF duck[d].state = "armed" THEN Started(duck[d]) ELSE duck[d]
         y == IF x.state \in {"playing", "paused"} THEN PlayTick(x) ELSE x
     IN  duck' = [duck EXCEPT ![d] = y]
  /\ UNCHANGED <<now, script, call, master, whole>>

(* _fire_event for each event due, then _end_of_show: the lock was released,  *)
(* and a duck that is not playing by now does neither.                        *)
Fire(d) ==
  /\ duck[d].due # {} \/ duck[d].ended
  /\ LET x == duck[d]
         y == [x EXCEPT !.fired =
                 [e \in Events |-> @[e] + IF e \in x.due THEN 1 ELSE 0]]
         z == IF x.ended THEN [y EXCEPT !.state = "loaded", !.epoch = None, !.base = 0]
              ELSE y
         w == IF x.state = "playing" THEN z ELSE x
     IN  duck' = [duck EXCEPT ![d] = [w EXCEPT !.due = {}, !.ended = FALSE]]
  /\ UNCHANGED <<now, script, call, master, whole>>

-----------------------------------------------------------------------------
(* The master.  A method blocks its caller until every duck has answered or   *)
(* run out of retries.                                                        *)

(* _current_show_time.                                                        *)
MasterShowTime ==
  IF master.paused # None THEN master.paused
  ELSE IF master.transport = "playing" /\ master.epoch # None /\ now > master.epoch
  THEN master.from + (now - master.epoch)
  ELSE master.from

Refused(op) ==
  \/ op = "pause" /\ (master.transport # "playing" \/ master.paused # None)
  \/ op = "resume" /\ master.paused = None

Issue ==
  /\ call = None /\ script # <<>>
  /\ LET op == Head(script)
     IN  \E to \in IF op = "seek" THEN SeekTo ELSE {0} :
           call' = IF Refused(op) THEN None
                   ELSE [op |-> op, at |-> IF op = "stop" THEN now ELSE now + Lead,
                         to |-> to, frozen |-> MasterShowTime, begun |-> now,
                         waiting |-> Ducks, ok |-> TRUE]
  /\ script' = Tail(script)
  /\ UNCHANGED <<now, master, duck, whole>>

(* One of the retries gets through, and so does the answer.                   *)
Deliver(d) ==
  /\ call # None /\ d \in call.waiting
  /\ duck' = [duck EXCEPT ![d] = Handle(@, call)]
  /\ LET ok == Accepts(duck[d], call)
     IN  /\ call' = [call EXCEPT !.waiting = @ \ {d}, !.ok = @ /\ ok]
         /\ whole' = (whole /\ ok)
  /\ UNCHANGED <<now, script, master>>

(* The last lines of play, seek, pause, resume and stop.                      *)
Return ==
  /\ call # None /\ call.waiting = {}
  /\ master' =
       IF ~call.ok THEN master
       ELSE CASE call.op \in {"play", "seek"} ->
                   [master EXCEPT !.transport = "armed", !.epoch = call.at,
                                  !.from = call.to]
              [] call.op = "pause" ->
                   [master EXCEPT !.transport = "paused", !.paused = call.frozen]
              [] call.op = "resume" ->
                   [master EXCEPT !.transport = "playing", !.epoch = call.at,
                                  !.from = master.paused, !.paused = None]
              [] call.op = "stop" ->
                   [master EXCEPT !.transport = "stopped", !.epoch = None,
                                  !.paused = None]
  /\ call' = None
  /\ UNCHANGED <<now, script, duck, whole>>

(* _maybe_advance_armed_to_playing, run by the 5 Hz state thread without a    *)
(* lock: a method may return between what it has found and what it writes.    *)
StateLoopLooks ==
  /\ master.transport = "armed" /\ Come(master.epoch) /\ ~master.comes
  /\ master' = [master EXCEPT !.comes = TRUE]
  /\ UNCHANGED <<now, script, call, duck, whole>>

StateLoop ==
  /\ master.comes
  /\ master' = [master EXCEPT !.transport = "playing", !.comes = FALSE]
  /\ UNCHANGED <<now, script, call, duck, whole>>

Pass ==
  /\ now < MaxTime
  /\ call # None => now < call.begun + CallTime
  /\ now' = now + 1
  /\ UNCHANGED <<script, call, master, duck, whole>>

Next ==
  \/ Issue \/ Return \/ StateLoopLooks \/ StateLoop \/ Pass
  \/ \E d \in Ducks : Deliver(d) \/ Tick(d) \/ Fire(d)

Spec == Init /\ [][Next]_vars

-----------------------------------------------------------------------------
(* What an operator must keep to for a cast to be told anything by its        *)
(* commands.  The first tick to apply a parked resume, or a parked seek of a  *)
(* running show, drops whatever else is parked, and a paused duck drops a     *)
(* pause: an operation of such a pair, given before the other is applied, is  *)
(* obeyed or dropped as the ticks fall.                                       *)
Clashes ==
  {<<"seek", "pause">>, <<"seek", "resume">>,
   <<"resume", "pause">>, <<"resume", "seek">>}

Careful(s) == \A i \in 1 .. Len(s) - 1 : <<s[i], s[i + 1]>> \notin Clashes

(* A paused show is resumed or stopped before the next play: play() and seek()*)
(* leave paused_show_time as it is, and the master would refuse a pause and   *)
(* let a resume through from then on.                                         *)
Unfrozen(s) ==
  \A i \in 1 .. Len(s) :
    s[i] = "pause" => \A j \in i + 1 .. Len(s) :
      s[j] = "play" => \E k \in i + 1 .. j : s[k] \in {"resume", "stop"}

-----------------------------------------------------------------------------
(* A duck with nothing left to apply, and the show clock it follows: stopped  *)
(* at a show time, or running with show time minus instant constant.          *)
Settled(d) ==
  /\ duck[d].state \in {"playing", "paused"}
  /\ duck[d].pause = None /\ duck[d].resume = None /\ duck[d].seek = None

Line(d) ==
  IF duck[d].frozen # None THEN <<"paused", duck[d].frozen>>
  ELSE <<"playing", duck[d].base - duck[d].epoch>>

(* "Every duck stops at the same show-time": two ducks that carried out the   *)
(* same commands follow the same show clock once both have applied them,      *)
(* however late each one's ticks were and whether it joined in progress.      *)
CastTogether ==
  whole /\ call = None =>
    \A d, e \in Ducks : Settled(d) /\ Settled(e) => Line(d) = Line(e)

(* A parked pause is applied: a duck that accepted a pause and was told       *)
(* nothing since does not play on with no pause parked any more.              *)
PauseHolds ==
  \A d \in Ducks :
    duck[d].wish = "pause" /\ duck[d].pause = None => duck[d].state # "playing"

(* "Events fire once, at the first 50 Hz tick >= t": in one pass of the show  *)
(* from where it started or was sought to, no event fires twice and none that *)
(* the clock has passed was left out.                                         *)
FiredOnce(d) ==
  duck[d].state = "playing" /\ duck[d].due = {} =>
    \A e \in Events :
      /\ duck[d].fired[e] <= 1
      /\ duck[d].start <= e /\ e <= duck[d].last => duck[d].fired[e] = 1

EventsOnce == \A d \in Ducks : FiredOnce(d)

(* A pass that was never paused keeps it, late joins and seeks included.      *)
EventsOnceUnpaused == \A d \in Ducks : ~duck[d].held => FiredOnce(d)

(* "Continue from exactly where pause() stopped": a master whose commands all *)
(* succeeded reports the show time its cast is at.                            *)
InStep(d) ==
  whole /\ call = None /\ Settled(d) /\ master.transport = "playing"
    => duck[d].frozen = None
         /\ duck[d].base - duck[d].epoch = master.from - master.epoch

MasterInStep == \A d \in Ducks : InStep(d)

(* Of a cast that was never paused it does.                                   *)
MasterInStepUnpaused == \A d \in Ducks : ~duck[d].held => InStep(d)

=============================================================================
