---------------------------- MODULE PuppetActions ----------------------------
(***************************************************************************)
(* A puppet stream from its sender to robotd: datagrams that are lost,     *)
(* doubled and overtaken on their way, the receive thread that offers them *)
(* to the PuppetChannel, the tick that forwards what is fresh and hands    *)
(* each do and sound to the puppet-action thread, and the stop, panic and  *)
(* relax that must win over all of it (python/duck_agent/agent.py).        *)
(*                                                                         *)
(* The state machine is the one of AgentProtocol, which DuckAgent          *)
(* implements; the robotd link stays up (DuckAgent has its losses).        *)
(***************************************************************************)
EXTENDS PuppetChannel, FiniteSets

CONSTANTS
  Carries,      (* what packets assert: subsets of Channels \cup {"do"}      *)
  QueueMax,     (* PUPPET_ACTION_QUEUE_MAX                                   *)
  Life,         (* how long the network keeps a datagram                     *)
  RestartGap,   (* how long a sender is away before it is started again      *)
  MaxSeq,       (* bound: packets of one run of the sender                   *)
  MaxRuns,      (* bound: runs of the sender                                 *)
  MaxSent,      (* bound: packets of all runs                                *)
  MaxOrders,    (* bound: commands                                           *)
  MaxMutes,     (* bound: stops and panics                                   *)
  MaxNet,       (* bound: datagrams in flight                                *)
  MaxInbox      (* bound: datagrams in the agent's socket buffer             *)

ASSUME PuppetActionsAssumption ==
  /\ Carries \subseteq (SUBSET (Channels \cup {"do"})) \ {{}}
  /\ "move" \in Channels
  /\ {QueueMax, MaxSeq, MaxRuns} \subseteq Nat \ {0}
  /\ {Life, RestartGap, MaxSent, MaxOrders, MaxMutes, MaxNet, MaxInbox} \subseteq Nat
  /\ SeqReset <= RestartGap

VARIABLES
  state, hasShow,  (* DuckAgent.state; a show is loaded                      *)
  relaxed,         (* DuckAgent.relaxed                                      *)
  channel,         (* DuckAgent._puppet                                      *)
  driven,          (* robotd holds a velocity with puppet influence:         *)
                   (* DuckAgent._puppet_move_applied                         *)
  sender,          (* the sender: its run, its seq, how long it has paused;  *)
                   (* `sent` counts for the bound, as `orders` does commands *)
  net, inbox,      (* datagrams on their way, and in the socket's buffer     *)
  orders, rx,      (* receive thread: where it is in the handler of a command*)
  tick,            (* tick thread: where it is in a hold of the lock         *)
  hand,            (* tick thread: actions taken from the channel to enqueue *)
  queue,           (* DuckAgent._puppet_actions                              *)
  act,             (* puppet-action thread                                   *)
  seen             (* history                                                *)

agentVars == <<state, hasShow, relaxed>>
wire == <<sender, net, inbox>>
receiver == <<orders, rx>>
threads == <<hand, queue, act>>
vars == <<agentVars, channel, driven, wire, receiver, tick, threads, seen>>

Runs == 1..MaxRuns
Seqs == 1..MaxSeq
Epochs == 0..MaxMutes

(* A do is known by its packet; `born` is the history of the epoch it was     *)
(* accepted in.                                                               *)
Ids == Runs \X Seqs
Acts == [id : Ids, born : Epochs]
Stamped == [id : Ids, born : Epochs, epoch : Epochs]

(* `age`: how long ago it was sent.  The greatest also stands for longer.     *)
Datagram == [run : Runs, seq : Seqs, carries : Carries, age : 0..RestartGap]

Later(p) == [p EXCEPT !.age = Older(@, RestartGap)]

(* What a restart of the sender leaves, beyond SEQ_RESET, for what it sent    *)
(* before to be read: a datagram offered later than that is a straggler.      *)
Prompt == RestartGap - SeqReset

NoAct == [id |-> <<1, 1>>, born |-> 0, epoch |-> 0]
NoTick == [at |-> "idle", move |-> FALSE]

(* A command is taken up before its handler has the lock.  robot.stop is      *)
(* asked for with the lock held; the torque is changed and sounds are         *)
(* released, one by one, without it; "arm" is a play whose torque has been    *)
(* asked for.                                                                 *)
Commands == {"stop", "panic", "load", "play", "relax"}
StopUnderLock == {"stopping", "reloading", "rearming"}
Unlocked == {"limp", "enable", "retorque", "release"}
RxStates == {"ready", "arm"} \cup Commands \cup StopUnderLock \cup Unlocked

(* seen.run: the run the last accepted packet is of.  seen.gap: how long ago  *)
(* the last packet came to the socket; seen.hush: it was a deadman when the   *)
(* stop or panic at hand was read, or since.  seen.away: since the last       *)
(* packet offered, a relaxed duck has dropped one, or one has waited in the   *)
(* socket.  seen.stays: there was no such pause before or since the last      *)
(* mute, and it has not ended while `away`.  seen.strayed: a straggler has    *)
(* been offered since the last silence of SEQ_RESET; seen.stale: the dos of   *)
(* packets accepted SEQ_RESET or more after they were sent.                   *)
SeenType ==
  [run : Runs, gap : 0..Fresh, hush : BOOLEAN, away : BOOLEAN, stays : BOOLEAN,
   strayed : BOOLEAN, stale : SUBSET Ids, fired : SUBSET Ids]

PuppetTypeOK ==
  /\ state \in {"idle", "loaded", "armed", "playing", "paused", "fault"}
  /\ hasShow \in BOOLEAN /\ relaxed \in BOOLEAN /\ driven \in BOOLEAN
  /\ channel \in ChannelType(Seqs, Epochs, Acts)
  /\ sender \in [run : Runs, seq : 0..MaxSeq, sent : 0..MaxSent,
                pause : 0..RestartGap]
  /\ net \in SUBSET Datagram /\ inbox \in Seq(Datagram)
  /\ orders \in 0..MaxOrders /\ rx \in RxStates
  /\ tick \in [at : {"idle", "mode", "end"}, move : BOOLEAN]
  /\ hand \in Seq(Stamped) /\ queue \in Seq(Stamped)
  /\ Len(queue) <= QueueMax
  /\ act \in [at : {"get", "check", "sent"}, item : Stamped]
  /\ seen \in SeenType

Protocol == INSTANCE AgentProtocol

Init ==
  /\ Protocol!Init
  /\ relaxed = FALSE /\ driven = FALSE
  /\ channel = Silent
  /\ sender = [run |-> 1, seq |-> 0, sent |-> 0, pause |-> 0]
  /\ net = {} /\ inbox = <<>>
  /\ orders = 0 /\ rx = "ready" /\ tick = NoTick /\ hand = <<>> /\ queue = <<>>
  /\ act = [at |-> "get", item |-> NoAct]
  /\ seen = [run |-> 1, gap |-> Fresh, hush |-> FALSE, away |-> FALSE,
             stays |-> FALSE, strayed |-> FALSE, stale |-> {}, fired |-> {}]

(* _playback_lock, which is kept while robotd is asked to stop for a stop, a  *)
(* load, a play or the end of the show, and to change its mode for a tick.    *)
LockFree == rx \notin StopUnderLock /\ tick.at = "idle"

(* What keeps the receive thread from the socket: robotd, a show to hash,     *)
(* parse and validate, or the tick thread, which has the lock.                *)
Kept ==
  rx \in {"load"} \cup StopUnderLock \cup Unlocked \/ tick.at # "idle"

-----------------------------------------------------------------------------
(* The sender and the network.                                                *)

SendPacket ==
  /\ sender.seq < MaxSeq /\ sender.sent < MaxSent /\ Cardinality(net) < MaxNet
  /\ sender' = [sender EXCEPT !.seq = @ + 1, !.sent = @ + 1, !.pause = 0]
  /\ \E c \in Carries :
       net' = net \cup {[run |-> sender.run, seq |-> sender.seq + 1,
                         carries |-> c, age |-> 0]}
  /\ UNCHANGED <<agentVars, channel, driven, inbox, receiver, tick, threads, seen>>

(* A sender started again counts from where its clock says: further back, if  *)
(* that was set.                                                              *)
MayRestart == sender.run < MaxRuns /\ sender.sent \in 1..(MaxSent - 1)

RestartSender ==
  /\ MayRestart /\ sender.pause = RestartGap
  /\ \E before \in 0..(MaxSeq - 1) :
       sender' = [sender EXCEPT !.run = @ + 1, !.seq = before, !.pause = 0]
  /\ UNCHANGED <<agentVars, channel, driven, net, inbox, receiver, tick, threads, seen>>

(* A datagram reaches the socket; a copy of it may still be under way.        *)
Arrive ==
  \E p \in net :
    /\ Len(inbox) < MaxInbox
    /\ inbox' = Append(inbox, p)
    /\ \E copy \in BOOLEAN : net' = IF copy THEN net ELSE net \ {p}
    /\ seen' = [seen EXCEPT !.gap = 0]
    /\ UNCHANGED <<agentVars, channel, driven, sender, receiver, tick, threads>>

(* Time.  What is older than the network keeps is lost; a receive thread that *)
(* nothing keeps has read what there was.  A pause is counted where a restart *)
(* asks for it.                                                               *)
Advance ==
  /\ Kept \/ (rx = "ready" /\ inbox = <<>>)
  /\ channel' = Aged(channel)
  /\ sender' = IF MayRestart THEN [sender EXCEPT !.pause = Older(@, RestartGap)]
               ELSE sender
  /\ net' = {Later(p) : p \in {q \in net : q.age < Life}}
  /\ inbox' = [i \in DOMAIN inbox |-> Later(inbox[i])]
  /\ LET gap == Older(seen.gap, Fresh)
     IN  seen' = [seen EXCEPT
                    !.gap = gap,
                    !.hush = @ \/ (rx \in {"stop", "panic"} /\ gap = Fresh),
                    !.stays = @ /\ gap < Fresh,
                    !.away = @ \/ inbox # <<>>]
  /\ UNCHANGED <<agentVars, driven, receiver, tick, threads>>

-----------------------------------------------------------------------------
(* The receive thread.                                                        *)

(* _on_puppet_msg: a relaxed duck drops the packet before the channel sees it.*)
OnPuppetMsg ==
  /\ rx = "ready" /\ inbox # <<>> /\ LockFree
  /\ inbox' = Tail(inbox)
  /\ LET p == Head(inbox)
         do == [id |-> <<p.run, p.seq>>, born |-> channel.epoch]
     IN  IF relaxed
         THEN seen' = [seen EXCEPT !.away = TRUE] /\ UNCHANGED channel
         ELSE /\ channel' = Offer(channel, p, do)
              /\ seen' =
                   [seen EXCEPT
                      !.run = IF Accepts(channel, p) THEN p.run ELSE @,
                      !.away = FALSE,
                      !.stays = @ /\ ~(channel.muted /\ ~channel'.muted /\ seen.away),
                      !.strayed = p.age > Prompt
                                    \/ (@ /\ channel.seen < SeqReset),
                      !.stale = IF Accepts(channel, p) /\ p.age >= SeqReset
                                THEN @ \cup {do.id} ELSE @]
  /\ UNCHANGED <<agentVars, driven, sender, net, receiver, tick, threads>>

(* Commands come through the same socket as packets: one is read once the     *)
(* packets before it are, and those that come after it wait.                  *)
TakeUp ==
  /\ rx = "ready" /\ inbox = <<>>
  /\ orders < MaxOrders /\ orders' = orders + 1
  /\ rx' \in Commands /\ (channel.epoch < MaxMutes \/ rx' \notin {"stop", "panic"})
  /\ seen' = [seen EXCEPT !.hush = rx' \in {"stop", "panic"} /\ seen.gap = Fresh]
  /\ UNCHANGED <<agentVars, channel, driven, wire, tick, threads>>

(* A play has robotd change the torque of a relaxed duck before it is armed.  *)
Arming == rx = "arm" \/ (rx = "play" /\ ~relaxed)

(* What makes a handler answer no before it has changed anything.  A show may *)
(* be refused before the lock is asked for.                                   *)
Refuse ==
  /\ \/ rx = "load"
     \/ LockFree /\ (rx = "relax" \/ Arming \/ (rx = "stop" /\ state = "fault"))
  /\ rx' = "ready"
  /\ seen' = [seen EXCEPT !.hush = FALSE]
  /\ UNCHANGED <<agentVars, channel, driven, wire, orders, tick, threads>>

(* _release_held_sounds, after the lock, if a performance has left any.       *)
Sounds == IF state \in {"playing", "paused"} THEN {"ready", "release"} ELSE {"ready"}

Muted ==
  /\ channel.epoch < MaxMutes
  /\ channel' = Mute(channel)
  /\ seen' = [seen EXCEPT !.stays = ~seen.hush, !.hush = FALSE]

(* _handle_stop.  A duck at rest that no puppet drives is not stopped, and    *)
(* holds no sounds.                                                           *)
Stop ==
  /\ rx = "stop" /\ LockFree /\ state # "fault"
  /\ Muted
  /\ rx' = IF state \in {"armed", "playing", "paused"} \/ driven
           THEN "stopping" ELSE "ready"
  /\ driven' = FALSE
  /\ UNCHANGED <<agentVars, wire, orders, tick, threads>>

(* _handle_panic, whose robotd calls are on a thread of their own.  _execute_panic *)
(* zeroes what a puppet was driving; `driven` is what the agent has recorded. *)
Panic ==
  /\ rx = "panic" /\ LockFree
  /\ Muted
  /\ Protocol!Panic
  /\ rx' = "ready" /\ driven' = FALSE
  /\ UNCHANGED <<relaxed, wire, orders, tick, threads>>

(* _handle_load and _handle_play, once they have the lock: a duck in motion   *)
(* is stopped first.                                                          *)
LoadOrPlay ==
  /\ LockFree /\ (rx = "load" \/ (Arming /\ hasShow /\ state # "fault"))
  /\ IF state \in {"armed", "playing"}
     THEN /\ rx' = IF rx = "load" THEN "reloading" ELSE "rearming"
          /\ driven' = FALSE
          /\ UNCHANGED <<state, hasShow>>
     ELSE /\ IF rx = "load" THEN Protocol!Load ELSE Protocol!Play
          /\ rx' \in Sounds
          /\ UNCHANGED driven
  /\ UNCHANGED <<relaxed, channel, wire, orders, tick, threads, seen>>

(* _send_stop_sequence has robotd's answer, or none.                          *)
StopAnswered ==
  /\ rx \in StopUnderLock /\ rx' \in Sounds
  /\ \/ Protocol!Fault
     \/ rx = "reloading" /\ Protocol!Load
     \/ rx = "rearming" /\ Protocol!Play
     \/ /\ rx = "stopping"
        /\ Protocol!End \/ (state \in {"idle", "loaded"} /\ UNCHANGED <<state, hasShow>>)
  /\ UNCHANGED <<relaxed, channel, driven, wire, orders, tick, threads, seen>>

SoundsReleased ==
  /\ rx = "release" /\ rx' = "ready"
  /\ UNCHANGED <<agentVars, channel, driven, wire, orders, tick, threads, seen>>

(* _handle_relax, either way, and _reenable_if_relaxed.                       *)
AskTorque ==
  /\ LockFree
  /\ \/ rx = "play" /\ relaxed /\ rx' = "retorque"
     \/ /\ rx = "relax" /\ state \in {"idle", "loaded"}
        /\ rx' = IF relaxed THEN "enable" ELSE "limp"
  /\ UNCHANGED <<agentVars, channel, driven, wire, orders, tick, threads, seen>>

TorqueAnswered ==
  /\ rx \in {"limp", "enable", "retorque"}
  /\ rx' = IF rx = "retorque" THEN "arm" ELSE "ready"
  /\ UNCHANGED relaxed \/ (LockFree /\ relaxed' = (rx = "limp"))
  /\ UNCHANGED <<state, hasShow, channel, driven, wire, orders, tick, threads, seen>>

-----------------------------------------------------------------------------
(* The tick thread.                                                           *)

(* _enter_fault, which leaves every other state alone.                        *)
EnterFault == state \in {"armed", "playing"} /\ Protocol!Fault

Forwards(s) == s \in {"idle", "loaded", "playing"}

(* The actions of this tick, stamped under the lock with the epoch they were  *)
(* accepted in.                                                               *)
Stamp(actions, epoch) ==
  [i \in DOMAIN actions |->
     [id |-> actions[i].id, born |-> actions[i].born, epoch |-> epoch]]

(* The end of a hold of the lock: what state s makes of a move that was       *)
(* asserted when the tick began, and of the actions.  A servo hold freezes a  *)
(* playing duck whatever the puppet says; a seek ends a paused duck's tick    *)
(* before its move.                                                           *)
Emit(s, move) ==
  /\ \/ driven' = (move /\ Forwards(s))
     \/ s = "playing" /\ driven' = FALSE
     \/ s = "paused" /\ UNCHANGED driven
  /\ hand' = IF Forwards(s) THEN Stamp(channel.actions, channel.epoch) ELSE <<>>
  /\ channel' = Taken(channel)

(* _tick_loop: a start, in time or missed, a pause, a resume, or none.        *)
Turn ==
  \/ UNCHANGED <<state, hasShow>>
  \/ Protocol!Start \/ Protocol!Pause \/ Protocol!Resume
  \/ state = "armed" /\ Protocol!End

(* The mode that a start, a resume or a seek calls for is asked of robotd     *)
(* under the lock.                                                            *)
Tick ==
  /\ hand = <<>> /\ LockFree
  /\ Turn
  /\ LET move == "move" \in Asserted(channel)
     IN  \/ Emit(state', move) /\ UNCHANGED tick
         \/ /\ state' \in {"playing", "paused"}
            /\ tick' = [at |-> "mode", move |-> move]
            /\ UNCHANGED <<channel, driven, hand>>
  /\ UNCHANGED <<relaxed, wire, receiver, queue, act, seen>>

ModeAnswered ==
  /\ tick.at = "mode" /\ tick' = NoTick
  /\ UNCHANGED <<state, hasShow>> \/ EnterFault
  /\ Emit(state', tick.move)
  /\ UNCHANGED <<relaxed, wire, receiver, queue, act, seen>>

(* _fire_event, after the lock is let go, gets no for an answer or none.      *)
EventFails ==
  /\ LockFree /\ EnterFault
  /\ driven' = FALSE
  /\ UNCHANGED <<relaxed, channel, wire, receiver, tick, threads, seen>>

(* put_nowait, after the lock is let go; the variants stamp the action only   *)
(* then, or queue it whatever is queued already.                              *)
EnqueueMutant ==
  /\ hand # <<>>
  /\ hand' = Tail(hand)
  /\ queue' = IF Len(queue) < QueueMax
              THEN Append(queue, [Head(hand) EXCEPT !.epoch = channel.epoch])
              ELSE queue
  /\ UNCHANGED <<agentVars, channel, driven, wire, receiver, tick, act, seen>>

EnqueueAllMutant ==
  /\ hand # <<>>
  /\ hand' = Tail(hand)
  /\ queue' = Append(queue, Head(hand))
  /\ UNCHANGED <<agentVars, channel, driven, wire, receiver, tick, act, seen>>

Enqueue ==
  /\ hand # <<>>
  /\ hand' = Tail(hand)
  /\ queue' = IF Len(queue) < QueueMax THEN Append(queue, Head(hand)) ELSE queue
  /\ UNCHANGED <<agentVars, channel, driven, wire, receiver, tick, act, seen>>

(* _end_of_show                                                               *)
EndOfShow ==
  /\ hand = <<>> /\ LockFree /\ state = "playing"
  /\ tick' = [at |-> "end", move |-> FALSE]
  /\ driven' = FALSE
  /\ UNCHANGED <<agentVars, channel, wire, receiver, threads, seen>>

EndAnswered ==
  /\ tick.at = "end" /\ tick' = NoTick
  /\ Protocol!End \/ Protocol!Fault
  /\ UNCHANGED <<relaxed, channel, driven, wire, receiver, threads, seen>>

-----------------------------------------------------------------------------
(* The puppet-action thread.                                                  *)

GetAction ==
  /\ act.at = "get" /\ queue # <<>>
  /\ queue' = Tail(queue)
  /\ act' = [at |-> "check", item |-> Head(queue)]
  /\ UNCHANGED <<agentVars, channel, driven, wire, receiver, tick, hand, seen>>

(* _fire_puppet_action: the state and the epoch are looked at under the lock. *)
StillWanted(item) == Forwards(state) /\ channel.epoch = item.epoch

CheckAction ==
  /\ act.at = "check" /\ LockFree
  /\ IF StillWanted(act.item)
     THEN /\ act' = [at |-> "sent", item |-> NoAct]
          /\ seen' = [seen EXCEPT !.fired = @ \cup {act.item.id}]
     ELSE act' = [at |-> "get", item |-> NoAct] /\ UNCHANGED seen
  /\ UNCHANGED <<agentVars, channel, driven, wire, receiver, tick, hand, queue>>

(* Done, refused, or failed: no answer is a fault, a refusal is not.          *)
ActionAnswered ==
  /\ act.at = "sent"
  /\ act' = [at |-> "get", item |-> NoAct]
  /\ \/ UNCHANGED <<state, hasShow, driven>>
     \/ LockFree /\ EnterFault /\ driven' = FALSE
  /\ UNCHANGED <<relaxed, channel, wire, receiver, tick, hand, queue, seen>>

-----------------------------------------------------------------------------
Network == SendPacket \/ RestartSender \/ Arrive \/ Advance
Receive ==
  \/ OnPuppetMsg \/ TakeUp \/ Refuse \/ Stop \/ Panic \/ LoadOrPlay
  \/ StopAnswered \/ SoundsReleased \/ AskTorque \/ TorqueAnswered
TickThread ==
  Tick \/ ModeAnswered \/ EventFails \/ Enqueue \/ EndOfShow \/ EndAnswered
ActionThread == GetAction \/ CheckAction \/ ActionAnswered

Next == Network \/ Receive \/ TickThread \/ ActionThread

Spec == Init /\ [][Next]_vars

-----------------------------------------------------------------------------
(* A do or sound fires at most once, however often the network doubles its    *)
(* packet and however late copies are read behind a slow handler: the         *)
(* sequence numbers drop them, and what opens the numbers for a restarted     *)
(* sender does not let copies in.  A copy first read SEQ_RESET or more after  *)
(* it was sent, while nothing else was, may pass: `stale` leaves those out.   *)
ActionsOnce ==
  [][act.at = "check" /\ act'.at = "sent"
       => act.item.id \notin seen.fired \ seen.stale]_vars

(* "A do drained one tick before a panic must never land after the panic's    *)
(* robot.stop": an action accepted before a stop or panic, wherever it waits, *)
(* is not begun after it.  (One that _fire_puppet_action has already let      *)
(* through may still reach robotd after the stop.)                            *)
NoActionAcrossMute ==
  [][act.at = "check" /\ act'.at = "sent"
       => act.item.born = channel.epoch]_vars

(* "After a panic or stop the agent ignores the stream until it has been      *)
(* quiet for one deadman period": nothing of a stream that never paused is    *)
(* held or queued, or drives the duck.  The quiet is measured where packets   *)
(* are offered, so it also seems quiet while packets wait behind a slow       *)
(* handler or a tick that has the lock, as the stop's own round trip may make *)
(* them, or while a relaxed duck drops them.  Nothing else ends a mute.       *)
MuteHolds ==
  seen.stays
    => /\ ~driven
       /\ Asserted(channel) = {} /\ ~IsFresh(channel) /\ channel.actions = <<>>

(* "Forget the last seq after 2 s of silence so a restarted sender is never   *)
(* locked out": what a new run of the sender sends is not dropped for the     *)
(* numbers of the run before, unless a straggler has renewed them.            *)
RestartHeard ==
  [][(inbox # <<>> /\ inbox' = Tail(inbox) /\ ~relaxed)
       => (~channel'.muted /\ ~seen'.strayed /\ Head(inbox).run > seen.run
             => channel'.accepted = 0 /\ channel'.lastSeq = Head(inbox).seq)]_vars

=============================================================================
