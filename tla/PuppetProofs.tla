----------------------------- MODULE PuppetProofs -----------------------------
(***************************************************************************)
(* Theorems about PuppetActions, for any deadman, any network and any      *)
(* number of packets, senders and mutes.                                   *)
(***************************************************************************)
EXTENDS PuppetActions, TLAPS

ChannelTypes == ChannelType(Seqs, Epochs, Acts)

LEMMA Bounds ==
  /\ Fresh \in Nat /\ Fresh > 0 /\ SeqReset \in Nat /\ Fresh < SeqReset
  /\ MaxSeq \in Nat /\ MaxSeq > 0 /\ MaxRuns \in Nat /\ MaxRuns > 0
  /\ QueueMax \in Nat /\ QueueMax > 0 /\ Life \in Nat /\ RestartGap \in Nat
  /\ MaxMutes \in Nat /\ MaxSent \in Nat /\ MaxOrders \in Nat
  /\ SeqReset <= RestartGap /\ Prompt \in Nat /\ Prompt + SeqReset = RestartGap
BY PuppetChannelAssumption, PuppetActionsAssumption DEF Prompt

-----------------------------------------------------------------------------
(* The channel's methods, one at a time.                                      *)

LEMMA AgesGrow ==
  ASSUME NEW most \in Nat, NEW age \in 0..most
  PROVE  Older(age, most) \in 0..most
BY DEF Older

LEMMA SilentType == Silent \in ChannelTypes
<1>1. <<>> \in Seq(Acts)
  OBVIOUS
<1> QED
  BY <1>1, Bounds DEF Silent, ChannelTypes, ChannelType, Epochs

LEMMA HeardType ==
  ASSUME NEW ch \in ChannelTypes
  PROVE  Heard(ch) \in ChannelTypes
<1>1. PICK lastSeq \in Seqs \cup {0}, muted \in BOOLEAN :
        /\ lastSeq = IF ch.seen >= SeqReset THEN 0 ELSE ch.lastSeq
        /\ muted = (ch.muted /\ ch.seen < Fresh)
  BY DEF ChannelTypes, ChannelType
<1>2. Heard(ch) = [ch EXCEPT !.seen = 0, !.lastSeq = lastSeq, !.muted = muted]
  BY <1>1 DEF Heard
<1>3. 0 \in 0..SeqReset
  BY Bounds
<1> QED
  BY <1>1, <1>2, <1>3 DEF ChannelTypes, ChannelType

LEMMA OfferType ==
  ASSUME NEW ch \in ChannelTypes, NEW p \in Datagram, NEW a \in Acts
  PROVE  Offer(ch, p, a) \in ChannelTypes
<1> DEFINE h == Heard(ch)
<1>1. h \in ChannelTypes
  BY HeardType
<1>2. CASE ~Accepts(ch, p)
  BY <1>1, <1>2 DEF Offer
<1>3. CASE Accepts(ch, p)
  <2> HIDE DEF h
  <2>1. p.seq \in Seqs
    BY DEF Datagram
  <2>2. [c \in Channels |-> IF c \in p.carries THEN 0 ELSE h.value[c]]
          \in [Channels -> 0..Fresh]
    BY <1>1, Bounds DEF ChannelTypes, ChannelType
  <2>3. (IF "do" \in p.carries THEN Append(h.actions, a) ELSE h.actions) \in Seq(Acts)
    <3>1. h.actions \in Seq(Acts)
      BY <1>1 DEF ChannelTypes, ChannelType
    <3> QED
      BY <3>1
  <2>4. Offer(ch, p, a) =
          [h EXCEPT
             !.lastSeq = p.seq, !.accepted = 0,
             !.value = [c \in Channels |-> IF c \in p.carries THEN 0 ELSE @[c]],
             !.actions = IF "do" \in p.carries THEN Append(@, a) ELSE @]
    BY <1>3 DEF Offer, h
  <2>5. 0 \in 0..Fresh
    BY Bounds
  <2> QED
    BY <1>1, <2>1, <2>2, <2>3, <2>4, <2>5 DEF ChannelTypes, ChannelType
<1> QED
  BY <1>2, <1>3

LEMMA MuteType ==
  ASSUME NEW ch \in ChannelTypes, ch.epoch < MaxMutes
  PROVE  Mute(ch) \in ChannelTypes
<1>1. <<>> \in Seq(Acts)
  OBVIOUS
<1>2. ch.epoch + 1 \in Epochs
  BY Bounds DEF ChannelTypes, ChannelType, Epochs
<1>3. [c \in Channels |-> Fresh] \in [Channels -> 0..Fresh] /\ Fresh \in 0..Fresh
  BY Bounds
<1> QED
  BY <1>1, <1>2, <1>3 DEF Mute, ChannelTypes, ChannelType

LEMMA TakenType ==
  ASSUME NEW ch \in ChannelTypes
  PROVE  Taken(ch) \in ChannelTypes
<1>1. <<>> \in Seq(Acts)
  OBVIOUS
<1> QED
  BY <1>1 DEF Taken, ChannelTypes, ChannelType

LEMMA AgedType ==
  ASSUME NEW ch \in ChannelTypes
  PROVE  Aged(ch) \in ChannelTypes
<1>1. /\ ch.seen \in 0..SeqReset /\ ch.accepted \in 0..Fresh
      /\ ch.value \in [Channels -> 0..Fresh]
  BY DEF ChannelTypes, ChannelType
<1>2. Older(ch.seen, SeqReset) \in 0..SeqReset /\ Older(ch.accepted, Fresh) \in 0..Fresh
  BY <1>1, Bounds, AgesGrow
<1>3. [c \in Channels |-> Older(ch.value[c], Fresh)] \in [Channels -> 0..Fresh]
  BY <1>1, Bounds, AgesGrow
<1> QED
  BY <1>2, <1>3 DEF Aged, ChannelTypes, ChannelType

-----------------------------------------------------------------------------
(* Types.                                                                     *)

States == {"idle", "loaded", "armed", "playing", "paused", "fault"}

LEMMA Fields ==
  ASSUME PuppetTypeOK
  PROVE  /\ channel \in ChannelTypes
         /\ \A i \in DOMAIN inbox : inbox[i] \in Datagram
         /\ \A i \in DOMAIN hand : hand[i] \in Stamped
         /\ \A i \in DOMAIN queue : queue[i] \in Stamped
         /\ inbox # <<>> => Head(inbox) \in Datagram /\ Tail(inbox) \in Seq(Datagram)
         /\ hand # <<>> => Head(hand) \in Stamped /\ Tail(hand) \in Seq(Stamped)
         /\ queue # <<>> => /\ Head(queue) \in Stamped /\ Tail(queue) \in Seq(Stamped)
                            /\ Len(Tail(queue)) < Len(queue)
BY DEF PuppetTypeOK, ChannelTypes

SenderType == [run : Runs, seq : 0..MaxSeq, sent : 0..MaxSent, pause : 0..RestartGap]

LEMMA LaterType ==
  ASSUME NEW p \in Datagram
  PROVE  /\ Later(p) \in Datagram /\ Later(p).age = Older(p.age, RestartGap)
         /\ Later(p).run = p.run /\ Later(p).seq = p.seq
<1>1. p.age \in 0..RestartGap /\ Older(p.age, RestartGap) \in 0..RestartGap
  BY Bounds, AgesGrow DEF Datagram
<1> QED
  BY <1>1 DEF Later, Datagram

LEMMA NetworkTypes ==
  ASSUME PuppetTypeOK, Network
  PROVE  PuppetTypeOK'
<1>0. sender \in SenderType
  BY DEF PuppetTypeOK, SenderType
<1>1. CASE SendPacket
  <2>1. /\ sender.seq + 1 \in Seqs /\ sender.seq + 1 \in 0..MaxSeq
        /\ sender.sent + 1 \in 0..MaxSent
        /\ sender.run \in Runs /\ 0 \in 0..RestartGap
    BY <1>0, <1>1, Bounds DEF SendPacket, SenderType, Seqs
  <2>2. sender' \in SenderType
    BY <1>0, <1>1, <2>1 DEF SendPacket, SenderType
  <2>3. net' \in SUBSET Datagram
    BY <1>1, <2>1 DEF SendPacket, PuppetTypeOK, Datagram
  <2> QED
    BY <1>1, <2>2, <2>3 DEF SendPacket, PuppetTypeOK, SenderType, agentVars, receiver, threads
<1>2. CASE RestartSender
  <2>1. PICK before \in 0..(MaxSeq - 1) :
          sender' = [sender EXCEPT !.run = @ + 1, !.seq = before, !.pause = 0]
    BY <1>2 DEF RestartSender
  <2>2. sender.run + 1 \in Runs /\ before \in 0..MaxSeq /\ 0 \in 0..RestartGap
    BY <1>0, <1>2, Bounds DEF RestartSender, MayRestart, SenderType, Runs
  <2>3. sender' \in SenderType
    BY <1>0, <2>1, <2>2 DEF SenderType
  <2> QED
    BY <1>2, <2>3 DEF RestartSender, PuppetTypeOK, SenderType, agentVars, receiver, threads
<1>3. CASE Arrive
  <2>1. PICK p \in net :
          /\ inbox' = Append(inbox, p)
          /\ net' \in {net, net \ {p}}
          /\ seen' = [seen EXCEPT !.gap = 0]
          /\ UNCHANGED <<agentVars, channel, driven, sender, receiver, tick, threads>>
    BY <1>3 DEF Arrive
  <2>2. inbox' \in Seq(Datagram) /\ net' \in SUBSET Datagram
    BY <2>1 DEF PuppetTypeOK
  <2>3. seen' \in SeenType
    <3>1. 0 \in 0..Fresh
      BY Bounds
    <3> QED
      BY <2>1, <3>1 DEF PuppetTypeOK, SeenType
  <2> QED
    BY <2>1, <2>2, <2>3 DEF PuppetTypeOK, agentVars, receiver, threads
<1>4. CASE Advance
  <2>1. channel' \in ChannelTypes
    BY <1>4, Fields, AgedType DEF Advance
  <2>2. sender' \in SenderType
    <3>1. Older(sender.pause, RestartGap) \in 0..RestartGap
      BY <1>0, Bounds, AgesGrow DEF SenderType
    <3> QED
      BY <1>0, <1>4, <3>1 DEF Advance, SenderType
  <2>3. net' \in SUBSET Datagram
    BY <1>4, LaterType DEF Advance, PuppetTypeOK
  <2>4. inbox' \in Seq(Datagram)
    <3>1. inbox \in [1..Len(inbox) -> Datagram] /\ Len(inbox) \in Nat
      BY DEF PuppetTypeOK
    <3>2. inbox' \in [1..Len(inbox) -> Datagram]
      BY <1>4, <3>1, LaterType DEF Advance
    <3> QED
      BY <3>1, <3>2
  <2>5. seen' \in SeenType
    <3>1. Older(seen.gap, Fresh) \in 0..Fresh
      BY Bounds, AgesGrow DEF PuppetTypeOK, SeenType
    <3>2. PICK hush \in BOOLEAN, stays \in BOOLEAN, away \in BOOLEAN :
            /\ hush = (seen.hush \/ (rx \in {"stop", "panic"}
                                     /\ Older(seen.gap, Fresh) = Fresh))
            /\ stays = (seen.stays /\ Older(seen.gap, Fresh) < Fresh)
            /\ away = (seen.away \/ inbox # <<>>)
      BY DEF PuppetTypeOK, SeenType
    <3>3. seen' = [seen EXCEPT !.gap = Older(seen.gap, Fresh), !.hush = hush,
                               !.stays = stays, !.away = away]
      BY <1>4, <3>2 DEF Advance
    <3> QED
      BY <3>1, <3>2, <3>3 DEF PuppetTypeOK, SeenType
  <2> QED
    BY <1>4, <2>1, <2>2, <2>3, <2>4, <2>5
    DEF Advance, PuppetTypeOK, ChannelTypes, SenderType, agentVars, receiver, threads
<1> QED
  BY <1>1, <1>2, <1>3, <1>4 DEF Network

LEMMA OnPuppetMsgTypes ==
  ASSUME PuppetTypeOK, OnPuppetMsg
  PROVE  PuppetTypeOK'
<1> DEFINE p == Head(inbox)
           do == [id |-> <<p.run, p.seq>>, born |-> channel.epoch]
<1>1. p \in Datagram /\ inbox' = Tail(inbox) /\ Tail(inbox) \in Seq(Datagram)
  BY Fields DEF OnPuppetMsg
<1>2. p.run \in Runs /\ p.seq \in Seqs /\ channel.epoch \in Epochs
  BY <1>1 DEF Datagram, PuppetTypeOK, ChannelType
<1>3. do \in Acts /\ do.id \in Ids
  BY <1>2 DEF Acts, Ids
<1>4. channel' \in ChannelTypes
  BY <1>1, <1>3, Fields, OfferType DEF OnPuppetMsg
<1>5. seen' \in SeenType
  <2>1. PICK run \in Runs, stays \in BOOLEAN, strayed \in BOOLEAN, stale \in SUBSET Ids :
          /\ run = IF Accepts(channel, p) THEN p.run ELSE seen.run
          /\ stays = (seen.stays /\ ~(channel.muted /\ ~channel'.muted /\ seen.away))
          /\ strayed = (p.age > Prompt \/ (seen.strayed /\ channel.seen < SeqReset))
          /\ stale = IF Accepts(channel, p) /\ p.age >= SeqReset
                     THEN seen.stale \cup {do.id} ELSE seen.stale
    BY <1>2, <1>3 DEF PuppetTypeOK, SeenType
  <2>2. \/ seen' = [seen EXCEPT !.away = TRUE]
        \/ seen' = [seen EXCEPT !.run = run, !.away = FALSE, !.stays = stays,
                                !.strayed = strayed, !.stale = stale]
    BY <2>1 DEF OnPuppetMsg
  <2> QED
    BY <2>1, <2>2 DEF PuppetTypeOK, SeenType
<1> QED
  BY <1>1, <1>4, <1>5
  DEF OnPuppetMsg, PuppetTypeOK, ChannelTypes, agentVars, receiver, threads

LEMMA MutedTypes ==
  ASSUME PuppetTypeOK, Muted
  PROVE  channel' \in ChannelTypes /\ seen' \in SeenType
<1>1. channel' \in ChannelTypes
  BY Fields, MuteType DEF Muted
<1>2. PICK stays \in BOOLEAN : stays = ~seen.hush
  OBVIOUS
<1>3. seen' = [seen EXCEPT !.stays = stays, !.hush = FALSE]
  BY <1>2 DEF Muted
<1> QED
  BY <1>1, <1>3 DEF PuppetTypeOK, SeenType

(* What the receive thread does with a command.                               *)
Handles ==
  \/ TakeUp \/ Refuse \/ Stop \/ Panic \/ LoadOrPlay
  \/ StopAnswered \/ SoundsReleased \/ AskTorque \/ TorqueAnswered

LEMMA Handlers ==
  ASSUME PuppetTypeOK, Handles
  PROVE  rx' \in RxStates /\ orders' \in 0..MaxOrders
<1>1. rx' \in RxStates
  BY DEF Handles, TakeUp, Refuse, Stop, Panic, LoadOrPlay, StopAnswered, SoundsReleased,
     AskTorque, TorqueAnswered, Sounds, RxStates, Commands, StopUnderLock, Unlocked
<1>2. orders' = orders \/ (orders < MaxOrders /\ orders' = orders + 1)
  BY DEF Handles, TakeUp, Refuse, Stop, Panic, LoadOrPlay, StopAnswered, SoundsReleased,
     AskTorque, TorqueAnswered
<1>3. orders' \in 0..MaxOrders
  BY <1>2, Bounds DEF PuppetTypeOK
<1> QED
  BY <1>1, <1>3

LEMMA CommandTypes ==
  ASSUME PuppetTypeOK, Handles
  PROVE  PuppetTypeOK'
<1>0. rx' \in RxStates /\ orders' \in 0..MaxOrders
  BY Handlers
<1>1. CASE Stop
  BY <1>0, <1>1, MutedTypes DEF Stop, PuppetTypeOK, ChannelTypes, agentVars, wire, threads
<1>2. CASE Panic
  BY <1>0, <1>2, MutedTypes
  DEF Panic, Protocol!Panic, PuppetTypeOK, ChannelTypes, wire, threads
<1>3. CASE TakeUp \/ Refuse
  <2>1. PICK hush \in BOOLEAN : seen' = [seen EXCEPT !.hush = hush]
    <3>1. CASE TakeUp
      <4>1. PICK hush \in BOOLEAN : hush = (rx' \in {"stop", "panic"} /\ seen.gap = Fresh)
        OBVIOUS
      <4> QED
        BY <3>1, <4>1 DEF TakeUp
    <3>2. CASE Refuse
      BY <3>2 DEF Refuse
    <3> QED
      BY <1>3, <3>1, <3>2
  <2>2. seen' \in SeenType
    BY <2>1 DEF PuppetTypeOK, SeenType
  <2> QED
    BY <1>0, <1>3, <2>2 DEF TakeUp, Refuse, PuppetTypeOK, agentVars, wire, threads
<1>4. CASE LoadOrPlay
  BY <1>0, <1>4 DEF LoadOrPlay, Protocol!Load, Protocol!Play, PuppetTypeOK, wire, threads
<1>5. CASE StopAnswered
  BY <1>0, <1>5
  DEF StopAnswered, Protocol!End, Protocol!Fault, Protocol!Load, Protocol!Play,
      PuppetTypeOK, wire, threads
<1>6. CASE SoundsReleased \/ AskTorque
  BY <1>0, <1>6 DEF SoundsReleased, AskTorque, PuppetTypeOK, agentVars, wire, threads
<1>7. CASE TorqueAnswered
  <2>1. relaxed' \in BOOLEAN
    BY <1>7 DEF TorqueAnswered, PuppetTypeOK
  <2> QED
    BY <1>0, <1>7, <2>1 DEF TorqueAnswered, PuppetTypeOK, wire, threads
<1> QED
  BY <1>1, <1>2, <1>3, <1>4, <1>5, <1>6, <1>7 DEF Handles

LEMMA StampType ==
  ASSUME NEW actions \in Seq(Acts), NEW epoch \in Epochs
  PROVE  /\ Stamp(actions, epoch) \in Seq(Stamped)
         /\ DOMAIN Stamp(actions, epoch) = DOMAIN actions
<1>1. Len(actions) \in Nat /\ DOMAIN actions = 1..Len(actions)
  OBVIOUS
<1>2. \A i \in 1..Len(actions) : actions[i] \in Acts
  OBVIOUS
<1>3. \A i \in 1..Len(actions) :
        [id |-> actions[i].id, born |-> actions[i].born, epoch |-> epoch] \in Stamped
  BY <1>2 DEF Acts, Stamped
<1>4. Stamp(actions, epoch) \in [1..Len(actions) -> Stamped]
  BY <1>1, <1>3 DEF Stamp
<1> QED
  BY <1>1, <1>4

TickType == [at : {"idle", "mode", "end"}, move : BOOLEAN]

LEMMA EmitTypes ==
  ASSUME PuppetTypeOK, NEW s, NEW move \in BOOLEAN, Emit(s, move)
  PROVE  driven' \in BOOLEAN /\ hand' \in Seq(Stamped) /\ channel' \in ChannelTypes
<1>1. driven' \in BOOLEAN
  BY DEF Emit, Forwards, PuppetTypeOK
<1>2. channel' \in ChannelTypes
  BY Fields, TakenType DEF Emit
<1>3. hand' \in Seq(Stamped)
  <2>1. channel.actions \in Seq(Acts) /\ channel.epoch \in Epochs
    BY DEF PuppetTypeOK, ChannelType
  <2>2. Stamp(channel.actions, channel.epoch) \in Seq(Stamped)
    BY <2>1, StampType
  <2>3. <<>> \in Seq(Stamped)
    OBVIOUS
  <2> QED
    BY <2>2, <2>3 DEF Emit
<1> QED
  BY <1>1, <1>2, <1>3

LEMMA TickTypes ==
  ASSUME PuppetTypeOK, TickThread
  PROVE  PuppetTypeOK'
<1>0. tick \in TickType /\ NoTick \in TickType
  BY DEF PuppetTypeOK, TickType, NoTick
<1>1. CASE Tick
  <2>1. state' \in States /\ hasShow' \in BOOLEAN
    <3>1. Turn
      BY <1>1 DEF Tick
    <3> QED
      BY <3>1 DEF Turn, Protocol!Start, Protocol!Pause, Protocol!Resume, Protocol!End,
         PuppetTypeOK, States
  <2>2. PICK move \in BOOLEAN : move = ("move" \in Asserted(channel))
    <3>1. ("move" \in Asserted(channel)) \in BOOLEAN
      OBVIOUS
    <3> QED
      BY <3>1
  <2>3. \/ Emit(state', move) /\ tick' = tick
        \/ tick' = [at |-> "mode", move |-> move] /\ UNCHANGED <<channel, driven, hand>>
    BY <1>1, <2>2 DEF Tick
  <2>4. /\ driven' \in BOOLEAN /\ hand' \in Seq(Stamped) /\ channel' \in ChannelTypes
        /\ tick' \in TickType
    BY <1>0, <2>3, EmitTypes DEF PuppetTypeOK, ChannelTypes, TickType
  <2> QED
    BY <1>1, <2>1, <2>4
    DEF Tick, PuppetTypeOK, ChannelTypes, TickType, States, wire, receiver
<1>2. CASE ModeAnswered
  <2>1. state' \in States /\ hasShow' \in BOOLEAN
    BY <1>2 DEF ModeAnswered, EnterFault, Protocol!Fault, PuppetTypeOK, States
  <2>2. tick.move \in BOOLEAN /\ Emit(state', tick.move)
    BY <1>0, <1>2 DEF ModeAnswered, TickType
  <2>3. driven' \in BOOLEAN /\ hand' \in Seq(Stamped) /\ channel' \in ChannelTypes
    BY <2>2, EmitTypes
  <2> QED
    BY <1>0, <1>2, <2>1, <2>3
    DEF ModeAnswered, PuppetTypeOK, ChannelTypes, TickType, States, wire, receiver
<1>3. CASE Enqueue
  <2>1. queue \in Seq(Stamped) /\ Len(queue) \in Nat
    BY DEF PuppetTypeOK
  <2>2. queue' \in Seq(Stamped) /\ Len(queue') <= QueueMax
    BY <1>3, <2>1, Fields, Bounds DEF Enqueue, PuppetTypeOK
  <2> QED
    BY <1>3, <2>2, Fields DEF Enqueue, PuppetTypeOK, agentVars, wire, receiver
<1>4. CASE EventFails
  BY <1>4 DEF EventFails, EnterFault, Protocol!Fault, PuppetTypeOK, wire, receiver, threads
<1>5. CASE EndOfShow
  BY <1>5 DEF EndOfShow, PuppetTypeOK, agentVars, wire, receiver, threads
<1>6. CASE EndAnswered
  BY <1>0, <1>6 DEF EndAnswered, Protocol!End, Protocol!Fault, PuppetTypeOK, TickType,
     wire, receiver, threads
<1> QED
  BY <1>1, <1>2, <1>3, <1>4, <1>5, <1>6 DEF TickThread

LEMMA ActionTypes ==
  ASSUME PuppetTypeOK, ActionThread
  PROVE  PuppetTypeOK'
<1>0. NoAct \in Stamped
  BY Bounds DEF NoAct, Stamped, Ids, Runs, Seqs, Epochs
<1>1. CASE GetAction
  <2>1. queue' \in Seq(Stamped) /\ Len(queue') <= QueueMax
    <3>1. queue \in Seq(Stamped) /\ Len(queue) <= QueueMax /\ queue # <<>>
      BY <1>1 DEF GetAction, PuppetTypeOK
    <3> QED
      BY <1>1, <3>1, Bounds DEF GetAction
  <2> QED
    BY <1>1, <2>1, Fields DEF GetAction, PuppetTypeOK, agentVars, wire, receiver
<1>2. CASE CheckAction
  <2>1. act.item.id \in Ids
    BY DEF PuppetTypeOK, Stamped
  <2>2. act' \in [at : {"get", "check", "sent"}, item : Stamped]
    BY <1>0, <1>2 DEF CheckAction, PuppetTypeOK
  <2>3. seen' \in SeenType
    BY <1>2, <2>1 DEF CheckAction, PuppetTypeOK, SeenType
  <2> QED
    BY <1>2, <2>2, <2>3 DEF CheckAction, PuppetTypeOK, agentVars, wire, receiver
<1>3. CASE ActionAnswered
  BY <1>0, <1>3
  DEF ActionAnswered, EnterFault, Protocol!Fault, PuppetTypeOK, wire, receiver
<1> QED
  BY <1>1, <1>2, <1>3 DEF ActionThread

LEMMA StepTypes ==
  ASSUME PuppetTypeOK, [Next]_vars
  PROVE  PuppetTypeOK'
<1>1. CASE UNCHANGED vars
  BY <1>1 DEF vars, agentVars, wire, receiver, threads, PuppetTypeOK
<1> QED
  BY <1>1, NetworkTypes, OnPuppetMsgTypes, CommandTypes, TickTypes, ActionTypes
  DEF Next, Receive, Handles

LEMMA InitTypes == Init => PuppetTypeOK
<1> SUFFICES ASSUME Init PROVE PuppetTypeOK
  OBVIOUS
<1>1. NoAct \in Stamped
  BY Bounds DEF NoAct, Stamped, Ids, Runs, Seqs, Epochs
<1>2. channel \in ChannelTypes
  BY SilentType DEF Init
<1>3. /\ sender \in [run : Runs, seq : 0..MaxSeq, sent : 0..MaxSent,
                     pause : 0..RestartGap]
      /\ orders \in 0..MaxOrders
  BY Bounds DEF Init, Runs
<1>4. /\ inbox \in Seq(Datagram) /\ hand \in Seq(Stamped) /\ queue \in Seq(Stamped)
      /\ Len(queue) <= QueueMax
  <2>1. \A S : <<>> \in Seq(S) /\ Len(<<>>) = 0
    OBVIOUS
  <2> QED
    BY <2>1, Bounds DEF Init
<1>5. seen \in SeenType
  BY Bounds DEF Init, SeenType, Runs
<1>6. rx \in RxStates /\ tick \in [at : {"idle", "mode", "end"}, move : BOOLEAN]
  BY DEF Init, RxStates, NoTick
<1> QED
  BY <1>1, <1>2, <1>3, <1>4, <1>5, <1>6
  DEF Init, Protocol!Init, PuppetTypeOK, ChannelTypes

(* The channel, the queues and the threads of the agent, the sender and the   *)
(* network keep their ranges; the queue of actions never exceeds its size.    *)
THEOREM PuppetTypes == Spec => []PuppetTypeOK
<1>1. PuppetTypeOK /\ [Next]_vars => PuppetTypeOK'
  BY StepTypes
<1> QED
  BY <1>1, InitTypes, PTL DEF Spec

-----------------------------------------------------------------------------
(* The epoch an action is stamped with is the one it was accepted in.         *)
Born ==
  /\ \A i \in DOMAIN channel.actions : channel.actions[i].born = channel.epoch
  /\ \A i \in DOMAIN hand : hand[i].born = hand[i].epoch
  /\ \A i \in DOMAIN queue : queue[i].born = queue[i].epoch
  /\ act.item.born = act.item.epoch

(* A packet that came has been offered, unless one has been dropped or kept   *)
(* waiting: so the silence the channel has measured is one of the socket.     *)
SilenceTrue ==
  ~seen.away /\ inbox = <<>> => channel.seen <= seen.gap \/ seen.gap = Fresh

SilenceHushed ==
  rx \in {"stop", "panic"} /\ ~seen.away /\ channel.seen >= Fresh => seen.hush

SilenceSeen == ~seen.away /\ channel.seen >= Fresh => ~seen.stays

(* A move is carried over a round trip only by the tick that waits for it.    *)
MoveHeld == tick.at # "mode" => ~tick.move

Silenced ==
  seen.stays
    => /\ channel.muted /\ ~driven /\ ~tick.move
       /\ Asserted(channel) = {} /\ ~IsFresh(channel) /\ channel.actions = <<>>

Latched ==
  /\ PuppetTypeOK /\ Born
  /\ SilenceTrue /\ SilenceHushed /\ SilenceSeen
  /\ MoveHeld /\ Silenced

LEMMA Sizes ==
  ASSUME PuppetTypeOK
  PROVE  /\ channel.seen \in 0..SeqReset /\ channel.accepted \in 0..Fresh
         /\ channel.value \in [Channels -> 0..Fresh]
         /\ channel.actions \in Seq(Acts) /\ seen.gap \in 0..Fresh
         /\ seen.hush \in BOOLEAN /\ seen.away \in BOOLEAN /\ seen.stays \in BOOLEAN
         /\ channel.muted \in BOOLEAN
BY DEF PuppetTypeOK, ChannelType, SeenType

LEMMA AgedKeeps ==
  ASSUME PuppetTypeOK
  PROVE  /\ Asserted(Aged(channel)) \subseteq Asserted(channel)
         /\ IsFresh(Aged(channel)) => IsFresh(channel)
         /\ Aged(channel).actions = channel.actions
         /\ Aged(channel).muted = channel.muted
         /\ Aged(channel).epoch = channel.epoch
         /\ Aged(channel).seen = Older(channel.seen, SeqReset)
<1>1. /\ Aged(channel).accepted = Older(channel.accepted, Fresh)
      /\ \A c \in Channels : Aged(channel).value[c] = Older(channel.value[c], Fresh)
      /\ Aged(channel).actions = channel.actions
      /\ Aged(channel).muted = channel.muted
      /\ Aged(channel).epoch = channel.epoch
      /\ Aged(channel).seen = Older(channel.seen, SeqReset)
  BY DEF Aged, PuppetTypeOK, ChannelType
<1>2. \A age \in 0..Fresh : Older(age, Fresh) < Fresh => age < Fresh
  BY Bounds DEF Older
<1> QED
  BY <1>1, <1>2, Sizes DEF Asserted, IsFresh

LEMMA AdvanceLatched ==
  ASSUME Latched, Advance
  PROVE  Latched'
<1>0. PuppetTypeOK /\ PuppetTypeOK'
  BY NetworkTypes DEF Latched, Network
<1>1. /\ channel' = Aged(channel)
      /\ UNCHANGED <<driven, rx, tick, hand, queue, act>>
      /\ seen'.gap = Older(seen.gap, Fresh)
      /\ seen'.stays => seen.stays /\ seen'.gap < Fresh
      /\ seen.hush \/ (rx \in {"stop", "panic"} /\ seen'.gap = Fresh) => seen'.hush
      /\ seen.away \/ inbox # <<>> => seen'.away
  BY <1>0 DEF Advance, threads, receiver, PuppetTypeOK, SeenType
<1>2. Born'
  BY <1>0, <1>1, AgedKeeps DEF Latched, Born
<1>3. ~seen'.away => channel'.seen <= seen'.gap \/ seen'.gap = Fresh
  <2> SUFFICES ASSUME ~seen'.away PROVE channel'.seen <= seen'.gap \/ seen'.gap = Fresh
    OBVIOUS
  <2>1. channel.seen <= seen.gap \/ seen.gap = Fresh
    BY <1>1 DEF Latched, SilenceTrue
  <2>2. channel'.seen = Older(channel.seen, SeqReset)
    BY <1>0, <1>1, AgedKeeps
  <2> QED
    BY <1>0, <1>1, <2>1, <2>2, Sizes, Bounds DEF Older
<1>4. SilenceTrue' /\ SilenceHushed' /\ SilenceSeen'
  <2>1. seen'.gap \in 0..Fresh /\ channel'.seen \in 0..SeqReset
    BY <1>0 DEF PuppetTypeOK, SeenType, ChannelType
  <2>2. ~seen'.away /\ channel'.seen >= Fresh => seen'.gap = Fresh
    BY <1>3, <2>1, Bounds
  <2>3. seen'.gap = Fresh => ~seen'.stays
    BY <1>1, Bounds
  <2>4. seen'.gap = Fresh /\ rx \in {"stop", "panic"} => seen'.hush
    BY <1>1
  <2> QED
    BY <1>1, <1>3, <2>2, <2>3, <2>4 DEF SilenceTrue, SilenceHushed, SilenceSeen
<1>5. MoveHeld' /\ Silenced'
  BY <1>0, <1>1, AgedKeeps DEF Latched, MoveHeld, Silenced
<1> QED
  BY <1>0, <1>2, <1>4, <1>5 DEF Latched

LEMMA SenderLatched ==
  ASSUME Latched, SendPacket \/ RestartSender \/ Arrive
  PROVE  Latched'
<1>0. PuppetTypeOK /\ PuppetTypeOK'
  BY NetworkTypes DEF Latched, Network
<1>1. UNCHANGED <<channel, driven, rx, tick, hand, queue, act>>
  BY DEF SendPacket, RestartSender, Arrive, threads, receiver
<1>2. /\ seen'.stays = seen.stays /\ seen'.away = seen.away /\ seen'.hush = seen.hush
      /\ inbox' = inbox => seen'.gap = seen.gap
      /\ inbox' = inbox \/ inbox' # <<>>
  <2>1. CASE SendPacket \/ RestartSender
    BY <2>1 DEF SendPacket, RestartSender
  <2>2. CASE Arrive
    <3>1. PICK p \in net : inbox' = Append(inbox, p)
      BY <2>2 DEF Arrive
    <3>2. inbox' # inbox /\ inbox' # <<>>
      <4>1. Len(inbox) \in Nat /\ Len(inbox') = Len(inbox) + 1
        BY <1>0, <3>1 DEF PuppetTypeOK
      <4>2. Len(inbox') # Len(inbox) /\ Len(inbox') # 0
        BY <4>1
      <4>3. Len(<<>>) = 0
        OBVIOUS
      <4> QED
        BY <4>2, <4>3
    <3>3. seen' = [seen EXCEPT !.gap = 0]
      BY <2>2 DEF Arrive
    <3> QED
      BY <1>0, <3>2, <3>3 DEF PuppetTypeOK, SeenType
  <2> QED
    BY <2>1, <2>2
<1>3. Born'
  BY <1>1 DEF Latched, Born
<1> QED
  BY <1>0, <1>1, <1>2, <1>3
  DEF Latched, SilenceTrue, SilenceHushed, SilenceSeen, MoveHeld, Silenced

LEMMA MutedLatched ==
  ASSUME Latched, Muted, rx \in {"stop", "panic"}, rx' \notin {"stop", "panic"}, LockFree,
         driven' = FALSE, UNCHANGED <<inbox, tick, hand, queue, act>>, PuppetTypeOK'
  PROVE  Latched'
<1>0. PuppetTypeOK
  BY DEF Latched
<1>1. /\ channel' = Mute(channel) /\ seen'.stays = ~seen.hush
      /\ seen'.gap = seen.gap /\ seen'.away = seen.away
  BY <1>0 DEF Muted, PuppetTypeOK, SeenType
<1>2. /\ channel'.seen = channel.seen /\ channel'.muted = TRUE
      /\ channel'.accepted = Fresh /\ channel'.actions = <<>>
      /\ \A c \in Channels : channel'.value[c] = Fresh
  BY <1>0, <1>1 DEF Mute, PuppetTypeOK, ChannelType
<1>3. Born'
  BY <1>2 DEF Latched, Born
<1>4. SilenceTrue' /\ SilenceHushed'
  BY <1>1, <1>2 DEF Latched, SilenceTrue, SilenceHushed
<1>5. SilenceSeen'
  BY <1>1, <1>2 DEF Latched, SilenceHushed, SilenceSeen
<1>6. MoveHeld' /\ ~tick'.move
  BY DEF Latched, MoveHeld, LockFree
<1>7. Silenced'
  BY <1>2, <1>6, Bounds DEF Silenced, Asserted, IsFresh
<1> QED
  BY <1>3, <1>4, <1>5, <1>6, <1>7 DEF Latched

(* What offer does to a muted channel, and when it ends the mute.             *)
LEMMA OfferMuted ==
  ASSUME PuppetTypeOK, NEW p \in Datagram, NEW a
  PROVE  LET after == Offer(channel, p, a)
         IN  /\ after.seen = 0 /\ after.epoch = channel.epoch
             /\ after.muted = (channel.muted /\ channel.seen < Fresh)
             /\ after.muted => /\ after.value = channel.value
                               /\ after.accepted = channel.accepted
                               /\ after.actions = channel.actions
             /\ after.actions \in {channel.actions, Append(channel.actions, a)}
<1> DEFINE h == Heard(channel)
<1>1. /\ h \in ChannelTypes /\ h.seen = 0 /\ h.epoch = channel.epoch
      /\ h.muted = (channel.muted /\ channel.seen < Fresh)
      /\ h.value = channel.value /\ h.accepted = channel.accepted
      /\ h.actions = channel.actions
  <2>1. channel \in ChannelTypes
    BY Fields
  <2> QED
    BY <2>1, HeardType DEF Heard, ChannelTypes, ChannelType
<1>2. CASE ~Accepts(channel, p)
  BY <1>1, <1>2 DEF Offer
<1>3. CASE Accepts(channel, p)
  <2>1. ~h.muted
    BY <1>3 DEF Accepts
  <2> HIDE DEF h
  <2>2. Offer(channel, p, a) =
          [h EXCEPT
             !.lastSeq = p.seq, !.accepted = 0,
             !.value = [c \in Channels |-> IF c \in p.carries THEN 0 ELSE @[c]],
             !.actions = IF "do" \in p.carries THEN Append(@, a) ELSE @]
    BY <1>3 DEF Offer, h
  <2>3. /\ Offer(channel, p, a).seen = h.seen /\ Offer(channel, p, a).epoch = h.epoch
        /\ Offer(channel, p, a).muted = h.muted
        /\ Offer(channel, p, a).actions \in {h.actions, Append(h.actions, a)}
    BY <1>1, <2>2 DEF ChannelTypes, ChannelType
  <2> QED
    BY <1>1, <2>1, <2>3
<1> QED
  BY <1>2, <1>3

LEMMA OnPuppetMsgLatched ==
  ASSUME Latched, OnPuppetMsg
  PROVE  Latched'
<1>0. PuppetTypeOK /\ PuppetTypeOK'
  BY OnPuppetMsgTypes DEF Latched
<1> DEFINE p == Head(inbox)
           do == [id |-> <<p.run, p.seq>>, born |-> channel.epoch]
<1>1. p \in Datagram /\ rx' = "ready" /\ UNCHANGED <<driven, tick, hand, queue, act>>
  BY <1>0, Fields DEF OnPuppetMsg, threads, receiver
<1>2. SilenceHushed' /\ MoveHeld'
  BY <1>1 DEF Latched, SilenceHushed, MoveHeld
<1>3. CASE relaxed
  <2>1. channel' = channel /\ seen'.away = TRUE /\ seen'.stays = seen.stays
    BY <1>0, <1>3 DEF OnPuppetMsg, PuppetTypeOK, SeenType
  <2> QED
    BY <1>0, <1>1, <1>2, <2>1 DEF Latched, Born, SilenceTrue, SilenceSeen, Silenced
<1>4. CASE ~relaxed
  <2>1. /\ channel' = Offer(channel, p, do) /\ seen'.gap = seen.gap
        /\ seen'.stays = (seen.stays /\ ~(channel.muted /\ ~channel'.muted /\ seen.away))
    BY <1>0, <1>4 DEF OnPuppetMsg, PuppetTypeOK, SeenType
  <2>2. /\ channel'.seen = 0 /\ channel'.epoch = channel.epoch
        /\ channel'.muted = (channel.muted /\ channel.seen < Fresh)
        /\ channel'.muted => /\ channel'.value = channel.value
                             /\ channel'.accepted = channel.accepted
                             /\ channel'.actions = channel.actions
        /\ channel'.actions \in {channel.actions, Append(channel.actions, do)}
    BY <1>0, <1>1, <2>1, OfferMuted
  <2>3. \A i \in DOMAIN channel'.actions : channel'.actions[i].born = channel'.epoch
    <3>1. channel.actions \in Seq(Acts)
      BY <1>0, Sizes
    <3>2. do.born = channel.epoch
      OBVIOUS
    <3> HIDE DEF do
    <3>3. \A i \in DOMAIN Append(channel.actions, do) :
            \/ i \in DOMAIN channel.actions
                 /\ Append(channel.actions, do)[i] = channel.actions[i]
            \/ Append(channel.actions, do)[i] = do
      BY <3>1
    <3>4. \A i \in DOMAIN channel.actions : channel.actions[i].born = channel.epoch
      BY DEF Latched, Born
    <3> QED
      BY <2>2, <3>2, <3>3, <3>4
  <2>4. Born'
    BY <1>1, <2>3 DEF Latched, Born
  <2>5. SilenceTrue' /\ SilenceSeen'
    <3>1. seen'.gap \in 0..Fresh
      BY <1>0 DEF PuppetTypeOK, SeenType
    <3>2. channel'.seen <= seen'.gap /\ ~(channel'.seen >= Fresh)
      BY <2>2, <3>1, Bounds
    <3> QED
      BY <3>2 DEF SilenceTrue, SilenceSeen
  <2>6. Silenced'
    <3> SUFFICES ASSUME seen'.stays PROVE Silenced'
      BY DEF Silenced
    <3>1. seen.stays /\ channel.muted
      BY <2>1 DEF Latched, Silenced
    <3>2. channel'.muted
      <4> SUFFICES ASSUME ~channel'.muted PROVE FALSE
        OBVIOUS
      <4>1. ~seen.away /\ ~(channel.seen < Fresh)
        BY <2>1, <2>2, <3>1
      <4>2. channel.seen >= Fresh
        BY <1>0, <4>1, Sizes, Bounds
      <4> QED
        BY <3>1, <4>1, <4>2 DEF Latched, SilenceSeen
    <3> QED
      BY <1>1, <2>2, <3>1, <3>2 DEF Latched, Silenced, Asserted, IsFresh
  <2> QED
    BY <1>0, <1>2, <2>4, <2>5, <2>6 DEF Latched
<1> QED
  BY <1>3, <1>4

(* A step that takes nothing new from the wire, and drives the duck with what *)
(* was asserted or not at all.                                                *)
Restful ==
  /\ channel'.seen = channel.seen /\ channel'.muted = channel.muted
  /\ channel'.value = channel.value /\ channel'.accepted = channel.accepted
  /\ channel'.actions \in {channel.actions, <<>>}
  /\ inbox' = inbox
  /\ driven' => driven \/ tick.move \/ Asserted(channel) # {}
  /\ tick'.move => tick.move \/ Asserted(channel) # {}
  /\ seen'.gap = seen.gap /\ seen'.away = seen.away /\ seen'.stays = seen.stays

LEMMA RestfulLatched ==
  ASSUME Latched, Restful, PuppetTypeOK', Born', SilenceHushed', MoveHeld'
  PROVE  Latched'
<1>1. SilenceTrue' /\ SilenceSeen'
  BY DEF Restful, Latched, SilenceTrue, SilenceSeen
<1>2. Silenced'
  BY DEF Restful, Latched, Silenced, Asserted, IsFresh
<1> QED
  BY <1>1, <1>2 DEF Latched

LEMMA CommandsLatched ==
  ASSUME Latched, Handles
  PROVE  Latched'
<1>0. PuppetTypeOK /\ PuppetTypeOK'
  BY CommandTypes DEF Latched
<1>1. CASE Stop \/ Panic
  <2>1. /\ Muted /\ rx \in {"stop", "panic"} /\ rx' \in {"stopping", "ready"} /\ LockFree
        /\ driven' = FALSE /\ UNCHANGED <<inbox, tick, hand, queue, act>>
    BY <1>1 DEF Stop, Panic, wire, threads
  <2> QED
    BY <1>0, <2>1, MutedLatched
<1>2. CASE TakeUp
  <2>1. /\ UNCHANGED <<channel, driven, inbox, tick, hand, queue, act>> /\ inbox = <<>>
        /\ seen'.stays = seen.stays /\ seen'.away = seen.away /\ seen'.gap = seen.gap
        /\ rx' \in {"stop", "panic"} /\ seen.gap = Fresh => seen'.hush
    BY <1>0, <1>2 DEF TakeUp, wire, threads, PuppetTypeOK, SeenType
  <2>2. ~seen.away /\ channel.seen >= Fresh => seen.gap = Fresh
    BY <1>0, <2>1, Sizes, Bounds DEF Latched, SilenceTrue
  <2>3. SilenceHushed'
    BY <2>1, <2>2 DEF SilenceHushed
  <2>4. Born' /\ MoveHeld' /\ Restful
    BY <2>1 DEF Latched, Born, MoveHeld, Restful
  <2> QED
    BY <1>0, <2>3, <2>4, RestfulLatched
<1>3. CASE Refuse \/ LoadOrPlay \/ StopAnswered \/ SoundsReleased \/ AskTorque
             \/ TorqueAnswered
  <2>1. /\ UNCHANGED <<channel, inbox, tick, hand, queue, act>>
        /\ driven' = driven \/ driven' = FALSE
        /\ seen' = seen \/ seen' = [seen EXCEPT !.hush = FALSE]
    BY <1>3 DEF Refuse, LoadOrPlay, StopAnswered, SoundsReleased, AskTorque,
       TorqueAnswered, wire, threads
  <2>2. seen'.stays = seen.stays /\ seen'.away = seen.away /\ seen'.gap = seen.gap
    BY <1>0, <2>1 DEF PuppetTypeOK, SeenType
  <2>3. rx' \notin {"stop", "panic"}
    BY <1>3 DEF Refuse, LoadOrPlay, StopAnswered, SoundsReleased, AskTorque,
       TorqueAnswered, Sounds
  <2>4. Born' /\ MoveHeld' /\ SilenceHushed' /\ Restful
    BY <2>1, <2>2, <2>3 DEF Latched, Born, MoveHeld, SilenceHushed, Restful
  <2> QED
    BY <1>0, <2>4, RestfulLatched
<1> QED
  BY <1>1, <1>2, <1>3 DEF Handles

(* What a tick takes from the channel keeps the epoch it was accepted in.     *)
LEMMA EmitBorn ==
  ASSUME Latched, NEW s, NEW move, Emit(s, move), UNCHANGED <<queue, act>>
  PROVE  /\ Born' /\ channel'.actions = <<>> /\ channel'.seen = channel.seen
         /\ channel'.muted = channel.muted /\ channel'.value = channel.value
         /\ channel'.accepted = channel.accepted
         /\ driven' => driven \/ move
<1>0. PuppetTypeOK
  BY DEF Latched
<1>1. /\ channel' = Taken(channel)
      /\ hand' \in {Stamp(channel.actions, channel.epoch), <<>>}
  BY DEF Emit
<1>2. /\ channel'.actions = <<>> /\ channel'.seen = channel.seen
      /\ channel'.muted = channel.muted /\ channel'.value = channel.value
      /\ channel'.accepted = channel.accepted
  BY <1>0, <1>1 DEF Taken, PuppetTypeOK, ChannelType
<1>3. \A i \in DOMAIN hand' : hand'[i].born = hand'[i].epoch
  <2>1. \A i \in DOMAIN channel.actions :
          /\ Stamp(channel.actions, channel.epoch)[i].born = channel.actions[i].born
          /\ Stamp(channel.actions, channel.epoch)[i].epoch = channel.epoch
    BY DEF Stamp
  <2>2. DOMAIN Stamp(channel.actions, channel.epoch) = DOMAIN channel.actions
    BY DEF Stamp
  <2> QED
    BY <1>1, <2>1, <2>2 DEF Latched, Born
<1>4. Born'
  BY <1>2, <1>3 DEF Latched, Born
<1>5. driven' => driven \/ move
  <2>1. driven' = (move /\ Forwards(s)) \/ driven' = FALSE \/ driven' = driven
    BY DEF Emit
  <2>2. CASE driven' = (move /\ Forwards(s))
    BY <2>2
  <2>3. CASE driven' = FALSE
    BY <2>3
  <2>4. CASE driven' = driven
    BY <2>4
  <2> QED
    BY <2>1, <2>2, <2>3, <2>4
<1> QED
  BY <1>2, <1>4, <1>5

LEMMA TickLatched ==
  ASSUME Latched, TickThread
  PROVE  Latched'
<1>0. PuppetTypeOK /\ PuppetTypeOK'
  BY TickTypes DEF Latched
<1>1. UNCHANGED <<inbox, rx, act, seen>>
  BY DEF TickThread, Tick, ModeAnswered, EventFails, Enqueue, EndOfShow, EndAnswered,
     wire, receiver, threads
<1>2. SilenceHushed'
  <2>1. channel'.seen = channel.seen
    <3>1. channel' = channel \/ channel' = Taken(channel)
      BY DEF TickThread, Tick, ModeAnswered, EventFails, Enqueue, EndOfShow, EndAnswered,
         Emit, threads
    <3> QED
      BY <1>0, <3>1 DEF Taken, PuppetTypeOK, ChannelType
  <2> QED
    BY <1>1, <2>1 DEF Latched, SilenceHushed
<1>3. CASE Tick
  <2> DEFINE move == "move" \in Asserted(channel)
  <2>1. /\ queue' = queue
        /\ \/ Emit(state', move) /\ tick' = tick
           \/ /\ tick' = [at |-> "mode", move |-> move]
              /\ UNCHANGED <<channel, driven, hand>>
    BY <1>3 DEF Tick
  <2>2. move => Asserted(channel) # {}
    OBVIOUS
  <2> HIDE DEF move
  <2>3. CASE Emit(state', move) /\ tick' = tick
    <3>1. Born' /\ Restful
      BY <1>1, <2>1, <2>2, <2>3, EmitBorn DEF Restful
    <3>2. MoveHeld'
      BY <2>3 DEF Latched, MoveHeld
    <3> QED
      BY <1>0, <1>2, <3>1, <3>2, RestfulLatched
  <2>4. CASE tick' = [at |-> "mode", move |-> move] /\ UNCHANGED <<channel, driven, hand>>
    <3>1. Born' /\ Restful
      BY <1>1, <2>1, <2>2, <2>4 DEF Latched, Born, Restful
    <3>2. MoveHeld'
      BY <2>4 DEF MoveHeld
    <3> QED
      BY <1>0, <1>2, <3>1, <3>2, RestfulLatched
  <2> QED
    BY <2>1, <2>3, <2>4
<1>4. CASE ModeAnswered
  <2>1. queue' = queue /\ tick' = NoTick /\ Emit(state', tick.move)
    BY <1>4 DEF ModeAnswered
  <2>2. Born' /\ Restful
    BY <1>1, <2>1, EmitBorn DEF Restful, NoTick
  <2>3. MoveHeld'
    BY <2>1 DEF MoveHeld, NoTick
  <2> QED
    BY <1>0, <1>2, <2>2, <2>3, RestfulLatched
<1>5. CASE Enqueue
  <2>1. /\ hand # <<>> /\ hand' = Tail(hand)
        /\ queue' \in {queue, Append(queue, Head(hand))}
        /\ UNCHANGED <<channel, driven, tick>>
    BY <1>5 DEF Enqueue
  <2>2. hand \in Seq(Stamped) /\ queue \in Seq(Stamped)
    BY <1>0 DEF PuppetTypeOK
  <2>3. /\ \A i \in DOMAIN hand : hand[i].born = hand[i].epoch
        /\ \A i \in DOMAIN queue : queue[i].born = queue[i].epoch
    BY DEF Latched, Born
  <2>4. \A i \in DOMAIN hand' : hand'[i].born = hand'[i].epoch
    <3>1. \A i \in DOMAIN Tail(hand) : i + 1 \in DOMAIN hand /\ Tail(hand)[i] = hand[i + 1]
      BY <2>1, <2>2
    <3> QED
      BY <2>1, <2>3, <3>1
  <2>5. \A i \in DOMAIN queue' : queue'[i].born = queue'[i].epoch
    <3> DEFINE first == Head(hand)
    <3>1. first \in Stamped /\ first.born = first.epoch
      <4>1. 1 \in DOMAIN hand /\ first = hand[1] /\ first \in Stamped
        BY <2>1, <2>2
      <4> QED
        BY <2>3, <4>1
    <3> HIDE DEF first
    <3>2. \A i \in DOMAIN Append(queue, first) :
            \/ i \in DOMAIN queue /\ Append(queue, first)[i] = queue[i]
            \/ Append(queue, first)[i] = first
      BY <2>2, <3>1
    <3>3. queue' \in {queue, Append(queue, first)}
      BY <2>1 DEF first
    <3> QED
      BY <2>3, <3>1, <3>2, <3>3
  <2>6. Born' /\ MoveHeld' /\ Restful
    BY <1>1, <2>1, <2>4, <2>5 DEF Latched, Born, MoveHeld, Restful
  <2> QED
    BY <1>0, <1>2, <2>6, RestfulLatched
<1>6. CASE EventFails \/ EndOfShow \/ EndAnswered
  <2>1. /\ UNCHANGED <<channel, hand, queue>> /\ (driven' = driven \/ driven' = FALSE)
        /\ tick' = tick \/ (tick'.move = FALSE)
    BY <1>6 DEF EventFails, EndOfShow, EndAnswered, NoTick, threads
  <2>2. Born' /\ MoveHeld' /\ Restful
    BY <1>1, <2>1 DEF Latched, Born, MoveHeld, Restful
  <2> QED
    BY <1>0, <1>2, <2>2, RestfulLatched
<1> QED
  BY <1>3, <1>4, <1>5, <1>6 DEF TickThread

LEMMA ActionLatched ==
  ASSUME Latched, ActionThread
  PROVE  Latched'
<1>0. PuppetTypeOK /\ PuppetTypeOK'
  BY ActionTypes DEF Latched
<1>1. /\ UNCHANGED <<channel, inbox, rx, tick, hand>> /\ (driven' = driven \/ driven' = FALSE)
      /\ seen'.gap = seen.gap /\ seen'.away = seen.away /\ seen'.stays = seen.stays
      /\ seen'.hush = seen.hush
  <2>1. \/ seen' = seen
        \/ \E id : seen' = [seen EXCEPT !.fired = @ \cup {id}]
    BY DEF ActionThread, GetAction, CheckAction, ActionAnswered
  <2>2. UNCHANGED <<channel, inbox, rx, tick, hand>> /\ (driven' = driven \/ driven' = FALSE)
    BY DEF ActionThread, GetAction, CheckAction, ActionAnswered, wire, receiver
  <2> QED
    BY <1>0, <2>1, <2>2 DEF PuppetTypeOK, SeenType
<1>2. SilenceHushed' /\ MoveHeld' /\ Restful
  BY <1>1 DEF Latched, SilenceHushed, MoveHeld, Restful
<1>3. NoAct.born = NoAct.epoch
  BY DEF NoAct
<1>4. (\A i \in DOMAIN queue' : queue'[i].born = queue'[i].epoch)
        /\ act'.item.born = act'.item.epoch
  <2>1. CASE GetAction
    <3>1. queue # <<>> /\ queue' = Tail(queue) /\ act'.item = Head(queue)
      BY <2>1 DEF GetAction
    <3>2. queue \in Seq(Stamped) /\ \A i \in DOMAIN queue : queue[i].born = queue[i].epoch
      BY <1>0 DEF PuppetTypeOK, Latched, Born
    <3>3. /\ 1 \in DOMAIN queue /\ Head(queue) = queue[1]
          /\ \A i \in DOMAIN Tail(queue) :
               i + 1 \in DOMAIN queue /\ Tail(queue)[i] = queue[i + 1]
      BY <3>1, <3>2
    <3> QED
      BY <3>1, <3>2, <3>3
  <2>2. CASE CheckAction \/ ActionAnswered
    <3>1. queue' = queue /\ act'.item = NoAct
      BY <2>2 DEF CheckAction, ActionAnswered
    <3> QED
      BY <1>3, <3>1 DEF Latched, Born
  <2> QED
    BY <2>1, <2>2 DEF ActionThread
<1>5. Born'
  BY <1>1, <1>4 DEF Latched, Born
<1> QED
  BY <1>0, <1>2, <1>5, RestfulLatched

LEMMA StepLatched ==
  ASSUME Latched, [Next]_vars
  PROVE  Latched'
<1>1. CASE UNCHANGED vars
  <2>1. PuppetTypeOK'
    BY <1>1, StepTypes DEF Latched
  <2>2. Born' /\ SilenceHushed' /\ MoveHeld' /\ Restful
    BY <1>1 DEF vars, wire, receiver, threads, Latched, Born, SilenceHushed, MoveHeld, Restful
  <2> QED
    BY <2>1, <2>2, RestfulLatched
<1> QED
  BY <1>1, AdvanceLatched, SenderLatched, OnPuppetMsgLatched, CommandsLatched,
     TickLatched, ActionLatched
  DEF Next, Network, Receive, Handles

LEMMA InitLatched == Init => Latched
<1> SUFFICES ASSUME Init PROVE Latched
  OBVIOUS
<1>1. PuppetTypeOK
  BY InitTypes
<1>2. DOMAIN channel.actions = {}
  BY DEF Init, Silent
<1>3. Born
  BY <1>2 DEF Init, Born, NoAct
<1>4. SilenceTrue /\ SilenceHushed /\ SilenceSeen /\ MoveHeld /\ Silenced
  BY DEF Init, NoTick, SilenceTrue, SilenceHushed, SilenceSeen, MoveHeld, Silenced
<1> QED
  BY <1>1, <1>3, <1>4 DEF Latched

(* The invariant of the two theorems below: a move that outlives the tick it  *)
(* was asserted in is known, and the silence that ends a mute is one of the   *)
(* socket unless a packet was dropped or has waited.                          *)
THEOREM StaysLatched == Spec => []Latched
<1>1. Latched /\ [Next]_vars => Latched'
  BY StepLatched
<1> QED
  BY <1>1, InitLatched, PTL DEF Spec

(* A stream that never paused holds, queues and drives nothing after a mute   *)
(* until packets of it have waited or been dropped for a deadman, whatever    *)
(* the deadman and the network (PuppetChannel.mute and offer).                *)
THEOREM MutesHold == Spec => []MuteHolds
<1>1. Latched => MuteHolds
  BY DEF Latched, Silenced, MuteHolds
<1> QED
  BY <1>1, StaysLatched, PTL

(* No do or sound accepted before a stop or panic is begun after it, however  *)
(* many wait and wherever: _fire_puppet_action compares epochs.               *)
THEOREM ActionsDieWithTheMute == Spec => NoActionAcrossMute
<1>1. Latched /\ [Next]_vars =>
        [act.at = "check" /\ act'.at = "sent" => act.item.born = channel.epoch]_vars
  <2> SUFFICES ASSUME Latched, Next, act.at = "check", act'.at = "sent"
               PROVE  act.item.born = channel.epoch
    OBVIOUS
  <2>1. CASE CheckAction
    BY <2>1 DEF CheckAction, StillWanted, Latched, Born
  <2>2. CASE ~CheckAction
    <3>1. act' = act \/ act'.at # "sent"
      <4>1. CASE Network \/ OnPuppetMsg
        BY <4>1 DEF Network, SendPacket, RestartSender, Arrive, Advance, OnPuppetMsg, threads
      <4>2. CASE Handles
        BY <4>2 DEF Handles, TakeUp, Refuse, Stop, Panic, LoadOrPlay, StopAnswered,
           SoundsReleased, AskTorque, TorqueAnswered, threads
      <4>3. CASE TickThread
        BY <4>3 DEF TickThread, Tick, ModeAnswered, EventFails, Enqueue, EndOfShow,
           EndAnswered, threads
      <4>4. CASE ActionThread
        BY <2>2, <4>4 DEF ActionThread, GetAction, ActionAnswered
      <4> QED
        BY <4>1, <4>2, <4>3, <4>4 DEF Next, Receive, Handles
    <3> QED
      BY <3>1
  <2> QED
    BY <2>1, <2>2
<1> QED
  BY <1>1, StaysLatched, PTL DEF Spec, NoActionAcrossMute

-----------------------------------------------------------------------------
(* Runs of the sender.  What is left of a former one by the time the sender   *)
(* is started again is old, and shows when it is read; without such a         *)
(* straggler the channel has been silent long enough to forget its numbers.   *)

Behind(p, s) ==
  /\ p.run <= s.run
  /\ p.run = s.run => p.seq <= s.seq /\ s.pause <= p.age
  /\ p.run < s.run => p.age = RestartGap

Succession ==
  /\ \A p \in net : Behind(p, sender)
  /\ \A i \in DOMAIN inbox : Behind(inbox[i], sender)
  /\ ~seen.strayed /\ channel.seen < SeqReset => sender.pause <= Prompt + channel.seen
  /\ seen.run <= sender.run
  /\ ~seen.strayed /\ seen.run < sender.run => channel.seen = SeqReset

LEMMA WireTypes ==
  ASSUME PuppetTypeOK
  PROVE  /\ sender.run \in Nat /\ sender.run \in Runs
         /\ sender.seq \in Nat /\ sender.pause \in 0..RestartGap
         /\ channel.seen \in 0..SeqReset /\ channel.lastSeq \in Nat
         /\ channel.muted \in BOOLEAN /\ seen.run \in Nat
         /\ inbox \in Seq(Datagram)
         /\ \A p \in net : p \in Datagram
         /\ \A i \in DOMAIN inbox : inbox[i] \in Datagram
         /\ \A p \in Datagram : /\ p.run \in Nat /\ p.run \in Runs /\ p.seq \in Nat
                                /\ p.seq > 0 /\ p.seq \in Seqs /\ p.age \in 0..RestartGap
<1>1. /\ sender.run \in Runs /\ sender.seq \in 0..MaxSeq /\ sender.pause \in 0..RestartGap
      /\ channel.seen \in 0..SeqReset
      /\ channel.lastSeq \in Seqs \cup {0} /\ channel.muted \in BOOLEAN
      /\ seen.run \in Runs /\ inbox \in Seq(Datagram)
      /\ \A p \in net : p \in Datagram
  BY DEF PuppetTypeOK, ChannelType, SeenType
<1>2. \A p \in Datagram : p.run \in Runs /\ p.seq \in Seqs /\ p.age \in 0..RestartGap
  BY DEF Datagram
<1>3. /\ \A r \in Runs : r \in Nat
      /\ \A q \in Seqs : q \in Nat /\ q > 0
      /\ \A q \in 0..MaxSeq : q \in Nat
  BY Bounds DEF Runs, Seqs
<1>4. channel.lastSeq \in Nat
  BY <1>1, <1>3
<1>5. \A i \in DOMAIN inbox : inbox[i] \in Datagram
  BY Fields
<1> QED
  BY <1>1, <1>2, <1>3, <1>4, <1>5

(* What a command, the ticks and the action thread leave alone: the wire, and *)
(* what the channel remembers of it.                                          *)
WireKept ==
  /\ UNCHANGED wire
  /\ channel'.seen = channel.seen /\ channel'.lastSeq = channel.lastSeq
  /\ seen'.run = seen.run /\ seen'.strayed = seen.strayed /\ seen'.stale = seen.stale

LEMMA MutedKeeps ==
  ASSUME PuppetTypeOK, Muted
  PROVE  /\ channel'.seen = channel.seen /\ channel'.lastSeq = channel.lastSeq
         /\ channel'.actions = <<>>
         /\ seen'.run = seen.run /\ seen'.strayed = seen.strayed
         /\ seen'.stale = seen.stale /\ seen'.fired = seen.fired
BY DEF Muted, Mute, PuppetTypeOK, ChannelType, SeenType

LEMMA CommandKeepsWire ==
  ASSUME PuppetTypeOK, Handles
  PROVE  WireKept
<1>1. CASE Stop \/ Panic
  <2>1. Muted /\ UNCHANGED wire
    BY <1>1 DEF Stop, Panic
  <2> QED
    BY <2>1, MutedKeeps DEF WireKept
<1>2. CASE TakeUp \/ Refuse \/ LoadOrPlay \/ StopAnswered \/ SoundsReleased
             \/ AskTorque \/ TorqueAnswered
  <2>1. UNCHANGED <<wire, channel>>
    BY <1>2 DEF TakeUp, Refuse, LoadOrPlay, StopAnswered, SoundsReleased, AskTorque,
       TorqueAnswered
  <2>2. seen' = seen \/ \E hush : seen' = [seen EXCEPT !.hush = hush]
    BY <1>2 DEF TakeUp, Refuse, LoadOrPlay, StopAnswered, SoundsReleased, AskTorque,
       TorqueAnswered
  <2>3. seen'.run = seen.run /\ seen'.strayed = seen.strayed /\ seen'.stale = seen.stale
    BY <2>2 DEF PuppetTypeOK, SeenType
  <2> QED
    BY <2>1, <2>3 DEF WireKept
<1> QED
  BY <1>1, <1>2 DEF Handles

LEMMA ThreadsKeepWire ==
  ASSUME PuppetTypeOK, TickThread \/ ActionThread
  PROVE  WireKept
<1>1. UNCHANGED wire
  BY DEF TickThread, Tick, ModeAnswered, EventFails, Enqueue, EndOfShow, EndAnswered,
     ActionThread, GetAction, CheckAction, ActionAnswered
<1>2. channel' \in {channel, Taken(channel)}
  BY DEF TickThread, Tick, ModeAnswered, EventFails, Enqueue, EndOfShow, EndAnswered,
     Emit, ActionThread, GetAction, CheckAction, ActionAnswered
<1>3. channel'.seen = channel.seen /\ channel'.lastSeq = channel.lastSeq
  BY <1>2 DEF Taken, PuppetTypeOK, ChannelType
<1>4. seen' = seen \/ seen' = [seen EXCEPT !.fired = @ \cup {act.item.id}]
  BY DEF TickThread, Tick, ModeAnswered, EventFails, Enqueue, EndOfShow, EndAnswered,
     ActionThread, GetAction, CheckAction, ActionAnswered
<1>5. seen'.run = seen.run /\ seen'.strayed = seen.strayed /\ seen'.stale = seen.stale
  BY <1>4 DEF PuppetTypeOK, SeenType
<1> QED
  BY <1>1, <1>3, <1>5 DEF WireKept

LEMMA WireKeptSuccession ==
  ASSUME Succession, WireKept
  PROVE  Succession'
BY DEF Succession, Behind, WireKept, wire

LEMMA SendSuccession ==
  ASSUME PuppetTypeOK, Succession, SendPacket
  PROVE  Succession'
<1>1. PICK c \in Carries :
        net' = net \cup {[run |-> sender.run, seq |-> sender.seq + 1,
                          carries |-> c, age |-> 0]}
  BY DEF SendPacket
<1>2. /\ sender'.run = sender.run /\ sender'.seq = sender.seq + 1 /\ sender'.pause = 0
      /\ UNCHANGED <<channel, inbox, seen>>
  BY DEF SendPacket, PuppetTypeOK
<1>3. \A p \in Datagram : Behind(p, sender) => Behind(p, sender')
  BY <1>2, WireTypes DEF Behind
<1>4. \A p \in net' : Behind(p, sender')
  <2>1. ASSUME NEW p \in net PROVE Behind(p, sender')
    BY <1>3, <2>1, WireTypes DEF Succession
  <2>2. \A c1 : Behind([run |-> sender.run, seq |-> sender.seq + 1,
                        carries |-> c1, age |-> 0], sender')
    BY <1>2, WireTypes DEF Behind
  <2> QED
    BY <1>1, <2>1, <2>2
<1>5. \A i \in DOMAIN inbox' : Behind(inbox'[i], sender')
  <2>1. ASSUME NEW i \in DOMAIN inbox PROVE Behind(inbox[i], sender')
    BY <1>3, <2>1, WireTypes DEF Succession
  <2> QED
    BY <1>2, <2>1 DEF Behind
<1>6. sender'.pause <= Prompt + channel.seen
  BY <1>2, WireTypes, Bounds
<1> QED
  BY <1>2, <1>4, <1>5, <1>6 DEF Succession, Behind

(* The silence that a restart asks for is silence at the channel, too.        *)
LEMMA RestartSuccession ==
  ASSUME PuppetTypeOK, Succession, RestartSender
  PROVE  Succession'
<1>1. /\ sender.pause = RestartGap /\ sender'.run = sender.run + 1 /\ sender'.pause = 0
      /\ UNCHANGED <<channel, net, inbox, seen>>
  BY DEF RestartSender, PuppetTypeOK
<1>2. \A p \in Datagram : Behind(p, sender) => Behind(p, sender')
  <2> SUFFICES ASSUME NEW p \in Datagram, Behind(p, sender) PROVE Behind(p, sender')
    OBVIOUS
  <2>1. p.run \in Nat /\ p.age \in 0..RestartGap /\ sender.run \in Nat /\ p.run <= sender.run
    BY WireTypes DEF Behind
  <2>2. p.age = RestartGap
    BY <1>1, <2>1, Bounds DEF Behind
  <2>3. p.run <= sender'.run /\ p.run # sender'.run
    BY <1>1, <2>1
  <2> QED
    BY <2>2, <2>3 DEF Behind
<1>3. (\A p \in net' : Behind(p, sender')) /\ \A i \in DOMAIN inbox' : Behind(inbox'[i], sender')
  <2>1. ASSUME NEW p \in net PROVE Behind(p, sender')
    BY <1>2, <2>1, WireTypes DEF Succession
  <2>2. ASSUME NEW i \in DOMAIN inbox PROVE Behind(inbox[i], sender')
    BY <1>2, <2>2, WireTypes DEF Succession
  <2> QED
    BY <1>1, <2>1, <2>2 DEF Behind
<1>4. ~seen.strayed => channel.seen = SeqReset
  <2>1. channel.seen \in 0..SeqReset /\ sender.pause = Prompt + SeqReset
    BY <1>1, WireTypes, Bounds
  <2> QED
    BY <2>1, Bounds DEF Succession
<1>5. sender'.pause <= Prompt + channel.seen /\ seen.run <= sender'.run
  BY <1>1, WireTypes, Bounds DEF Succession
<1> QED
  BY <1>1, <1>3, <1>4, <1>5 DEF Succession, Behind

LEMMA ArriveIs ==
  ASSUME PuppetTypeOK, Arrive
  PROVE  \E p \in net :
           /\ p \in Datagram /\ inbox' = Append(inbox, p)
           /\ net' \subseteq net
           /\ \A i \in DOMAIN inbox' :
                 (i \in DOMAIN inbox /\ inbox'[i] = inbox[i]) \/ inbox'[i] = p
           /\ seen'.run = seen.run /\ seen'.fired = seen.fired
           /\ seen'.strayed = seen.strayed /\ seen'.stale = seen.stale
           /\ UNCHANGED <<channel, sender, hand, queue, act>>
<1>1. PICK p \in net :
        /\ inbox' = Append(inbox, p) /\ net' \in {net, net \ {p}}
        /\ seen' = [seen EXCEPT !.gap = 0]
        /\ UNCHANGED <<agentVars, channel, driven, sender, receiver, tick, threads>>
  BY DEF Arrive
<1>2. p \in Datagram /\ inbox \in Seq(Datagram)
  BY WireTypes
<1>3. \A i \in DOMAIN inbox' :
        (i \in DOMAIN inbox /\ inbox'[i] = inbox[i]) \/ inbox'[i] = p
  BY <1>1, <1>2
<1>4. /\ seen'.run = seen.run /\ seen'.fired = seen.fired
      /\ seen'.strayed = seen.strayed /\ seen'.stale = seen.stale
  BY <1>1 DEF PuppetTypeOK, SeenType
<1> QED
  BY <1>1, <1>2, <1>3, <1>4 DEF threads

LEMMA ArriveSuccession ==
  ASSUME PuppetTypeOK, Succession, Arrive
  PROVE  Succession'
<1>1. PICK p \in net :
        /\ net' \subseteq net
        /\ \A i \in DOMAIN inbox' :
              (i \in DOMAIN inbox /\ inbox'[i] = inbox[i]) \/ inbox'[i] = p
        /\ seen'.run = seen.run /\ seen'.strayed = seen.strayed
        /\ UNCHANGED <<channel, sender>>
  BY ArriveIs
<1>2. (\A q \in net' : Behind(q, sender)) /\ \A i \in DOMAIN inbox' : Behind(inbox'[i], sender)
  BY <1>1 DEF Succession
<1> QED
  BY <1>1, <1>2 DEF Succession, Behind

LEMMA AdvanceIs ==
  ASSUME PuppetTypeOK, Advance
  PROVE  /\ channel'.seen = Older(channel.seen, SeqReset)
         /\ channel'.lastSeq = channel.lastSeq /\ channel'.actions = channel.actions
         /\ sender'.run = sender.run /\ sender'.seq = sender.seq
         /\ sender'.pause <= sender.pause + 1 /\ sender'.pause \in 0..RestartGap
         /\ \A p \in net' : \E q \in net : p = Later(q)
         /\ DOMAIN inbox' = DOMAIN inbox /\ Len(inbox') = Len(inbox)
         /\ \A i \in DOMAIN inbox : inbox'[i] = Later(inbox[i])
         /\ seen'.run = seen.run /\ seen'.fired = seen.fired
         /\ seen'.strayed = seen.strayed /\ seen'.stale = seen.stale
         /\ UNCHANGED <<hand, queue, act>>
<1>1. /\ channel' = Aged(channel) /\ UNCHANGED threads
      /\ sender' \in {sender, [sender EXCEPT !.pause = Older(@, RestartGap)]}
      /\ net' = {Later(p) : p \in {q \in net : q.age < Life}}
      /\ inbox' = [i \in DOMAIN inbox |-> Later(inbox[i])]
  BY DEF Advance
<1>2. /\ channel'.seen = Older(channel.seen, SeqReset)
      /\ channel'.lastSeq = channel.lastSeq /\ channel'.actions = channel.actions
  BY <1>1 DEF Aged, PuppetTypeOK, ChannelType
<1>3. /\ sender'.run = sender.run /\ sender'.seq = sender.seq
      /\ sender'.pause \in {sender.pause, Older(sender.pause, RestartGap)}
  BY <1>1 DEF PuppetTypeOK
<1>4. sender'.pause <= sender.pause + 1 /\ sender'.pause \in 0..RestartGap
  BY <1>3, WireTypes, Bounds DEF Older
<1>5. \A p \in net' : \E q \in net : p = Later(q)
  BY <1>1
<1>6. /\ DOMAIN inbox' = DOMAIN inbox /\ Len(inbox') = Len(inbox)
      /\ \A i \in DOMAIN inbox : inbox'[i] = Later(inbox[i])
  <2>1. inbox \in [1..Len(inbox) -> Datagram] /\ Len(inbox) \in Nat
    BY WireTypes
  <2>2. DOMAIN inbox' = 1..Len(inbox)
    BY <1>1, <2>1
  <2>3. Len(inbox') = Len(inbox)
    BY <2>1, <2>2
  <2> QED
    BY <1>1, <2>3
<1>7. /\ seen'.run = seen.run /\ seen'.fired = seen.fired
      /\ seen'.strayed = seen.strayed /\ seen'.stale = seen.stale
  BY DEF Advance, PuppetTypeOK, SeenType
<1> QED
  BY <1>1, <1>2, <1>3, <1>4, <1>5, <1>6, <1>7 DEF threads

LEMMA AdvanceSuccession ==
  ASSUME PuppetTypeOK, Succession, Advance
  PROVE  Succession'
<1>1. \A p \in Datagram : Behind(p, sender) => Behind(Later(p), sender')
  <2> SUFFICES ASSUME NEW p \in Datagram, Behind(p, sender) PROVE Behind(Later(p), sender')
    OBVIOUS
  <2> DEFINE q == Later(p)
  <2>1. /\ q.run = p.run /\ q.seq = p.seq /\ q.age = Older(p.age, RestartGap)
        /\ p.age \in 0..RestartGap
    BY LaterType, WireTypes
  <2>2. sender.pause <= p.age => sender'.pause <= q.age
    BY <2>1, AdvanceIs, WireTypes, Bounds DEF Older
  <2>3. p.age = RestartGap => q.age = RestartGap
    BY <2>1, Bounds DEF Older
  <2> HIDE DEF q
  <2>4. Behind(q, sender')
    BY <2>1, <2>2, <2>3, AdvanceIs DEF Behind
  <2> QED
    BY <2>4 DEF q
<1>2. (\A p \in net' : Behind(p, sender')) /\ \A i \in DOMAIN inbox' : Behind(inbox'[i], sender')
  <2>1. ASSUME NEW p \in net' PROVE Behind(p, sender')
    <3>1. PICK q \in net : p = Later(q)
      BY AdvanceIs
    <3>2. q \in Datagram /\ Behind(q, sender)
      BY WireTypes DEF Succession
    <3> QED
      BY <1>1, <3>1, <3>2
  <2>2. ASSUME NEW i \in DOMAIN inbox' PROVE Behind(inbox'[i], sender')
    <3>1. i \in DOMAIN inbox /\ inbox'[i] = Later(inbox[i])
      BY AdvanceIs
    <3>2. inbox[i] \in Datagram /\ Behind(inbox[i], sender)
      BY <3>1, WireTypes DEF Succession
    <3>3. Behind(Later(inbox[i]), sender')
      BY <1>1, <3>2
    <3> QED
      BY <3>1, <3>3 DEF Behind
  <2> QED
    BY <2>1, <2>2
<1>3. ~seen.strayed /\ channel'.seen < SeqReset => sender'.pause <= Prompt + channel'.seen
  <2> SUFFICES ASSUME ~seen.strayed, channel'.seen < SeqReset
               PROVE  sender'.pause <= Prompt + channel'.seen
    OBVIOUS
  <2>1. channel'.seen = Older(channel.seen, SeqReset) /\ channel.seen \in 0..SeqReset
    BY AdvanceIs, WireTypes
  <2>2. channel.seen < SeqReset /\ channel'.seen = channel.seen + 1
    BY <2>1, Bounds DEF Older
  <2>3. sender.pause <= Prompt + channel.seen
    BY <2>2 DEF Succession
  <2>4. /\ sender'.pause <= sender.pause + 1 /\ sender'.pause \in Nat
        /\ sender.pause \in Nat /\ channel.seen \in Nat /\ Prompt \in Nat
    BY <2>1, AdvanceIs, WireTypes, Bounds
  <2> QED
    BY <2>2, <2>3, <2>4
<1>4. channel.seen = SeqReset => channel'.seen = SeqReset
  BY AdvanceIs, Bounds DEF Older
<1> QED
  BY <1>2, <1>3, <1>4, AdvanceIs DEF Succession

(* What is remembered of a packet that is offered.                            *)
LEMMA OfferSeen ==
  ASSUME PuppetTypeOK, OnPuppetMsg, ~relaxed
  PROVE  LET p == Head(inbox)
         IN  /\ seen'.run = IF Accepts(channel, p) THEN p.run ELSE seen.run
             /\ seen'.stale = IF Accepts(channel, p) /\ p.age >= SeqReset
                              THEN seen.stale \cup {<<p.run, p.seq>>} ELSE seen.stale
             /\ seen'.fired = seen.fired
<1> DEFINE p == Head(inbox)
           run == IF Accepts(channel, p) THEN p.run ELSE seen.run
           stale == IF Accepts(channel, p) /\ p.age >= SeqReset
                    THEN seen.stale \cup {<<p.run, p.seq>>} ELSE seen.stale
<1>1. PICK stays, strayed :
        seen' = [seen EXCEPT !.run = run, !.away = FALSE, !.stays = stays,
                             !.strayed = strayed, !.stale = stale]
  BY DEF OnPuppetMsg
<1> HIDE DEF run, stale
<1>2. seen'.run = run /\ seen'.stale = stale /\ seen'.fired = seen.fired
  BY <1>1 DEF PuppetTypeOK, SeenType
<1> QED
  BY <1>2 DEF run, stale

(* What the channel makes of a packet it is offered.                          *)
LEMMA OfferIs ==
  ASSUME PuppetTypeOK, OnPuppetMsg, ~relaxed
  PROVE  LET p == Head(inbox)
             do == [id |-> <<p.run, p.seq>>, born |-> channel.epoch]
         IN  /\ channel'.seen = 0
             /\ IF Accepts(channel, p)
                THEN /\ channel'.lastSeq = p.seq /\ channel'.accepted = 0
                     /\ seen'.run = p.run
                     /\ channel'.actions \in {channel.actions, Append(channel.actions, do)}
                ELSE /\ channel'.lastSeq = Heard(channel).lastSeq
                     /\ seen'.run = seen.run /\ channel'.actions = channel.actions
             /\ Heard(channel).lastSeq = IF channel.seen = SeqReset THEN 0 ELSE channel.lastSeq
             /\ channel'.muted = Heard(channel).muted
             /\ Heard(channel).muted = (channel.muted /\ channel.seen < Fresh)
<1> DEFINE p == Head(inbox)
           do == [id |-> <<p.run, p.seq>>, born |-> channel.epoch]
<1>1. /\ channel' = Offer(channel, p, do)
      /\ seen'.run = IF Accepts(channel, p) THEN p.run ELSE seen.run
  BY OfferSeen DEF OnPuppetMsg
<1>2. channel \in ChannelTypes /\ Heard(channel) \in ChannelTypes
  BY Fields, HeardType
<1>3. /\ Heard(channel).seen = 0 /\ Heard(channel).actions = channel.actions
      /\ Heard(channel).muted = (channel.muted /\ channel.seen < Fresh)
      /\ Heard(channel).lastSeq = IF channel.seen >= SeqReset THEN 0 ELSE channel.lastSeq
  BY <1>2 DEF Heard, ChannelTypes, ChannelType
<1>4. channel.seen >= SeqReset <=> channel.seen = SeqReset
  <2>1. channel.seen \in 0..SeqReset /\ SeqReset \in Nat
    BY Sizes, Bounds
  <2> QED
    BY <2>1
<1> HIDE DEF do, p
<1>5. CASE ~Accepts(channel, p)
  <2>1. channel' = Heard(channel)
    BY <1>1, <1>5 DEF Offer
  <2> QED
    BY <1>1, <1>3, <1>4, <1>5, <2>1 DEF p, do
<1>6. CASE Accepts(channel, p)
  <2> DEFINE h == Heard(channel)
  <2>1. channel' = [h EXCEPT
          !.lastSeq = p.seq,
          !.accepted = 0,
          !.value = [c \in Channels |-> IF c \in p.carries THEN 0 ELSE @[c]],
          !.actions = IF "do" \in p.carries THEN Append(@, do) ELSE @]
    BY <1>1, <1>6 DEF Offer
  <2>2. h \in ChannelTypes
    BY <1>2
  <2> HIDE DEF h
  <2>3. /\ channel'.lastSeq = p.seq /\ channel'.accepted = 0 /\ channel'.seen = h.seen
        /\ channel'.actions \in {h.actions, Append(h.actions, do)}
        /\ channel'.muted = h.muted
    BY <2>1, <2>2 DEF ChannelTypes, ChannelType
  <2> QED
    BY <1>1, <1>3, <1>4, <1>6, <2>3 DEF p, do, h
<1> QED
  BY <1>5, <1>6

(* A packet that is no straggler is of the latest run; one of a newer run     *)
(* than the last accepted is accepted, unless it is muted.                    *)
LEMMA NewRunAccepted ==
  ASSUME PuppetTypeOK, Succession, OnPuppetMsg, ~relaxed, ~seen'.strayed
  PROVE  /\ Head(inbox).run = sender.run /\ Head(inbox).age <= Prompt
         /\ seen.run < sender.run
              => channel.seen = SeqReset /\ Accepts(channel, Head(inbox))
<1>1. 1 \in DOMAIN inbox /\ Head(inbox) = inbox[1] /\ inbox[1] \in Datagram
  BY WireTypes DEF OnPuppetMsg
<1>2. ~(inbox[1].age > Prompt) /\ (~seen.strayed \/ ~(channel.seen < SeqReset))
  BY <1>1 DEF OnPuppetMsg, PuppetTypeOK, SeenType
<1>3. /\ inbox[1].run \in Nat /\ sender.run \in Nat /\ inbox[1].seq \in Nat
      /\ inbox[1].seq > 0 /\ inbox[1].age \in Nat /\ channel.seen \in 0..SeqReset
      /\ Prompt \in Nat /\ Prompt < RestartGap
  BY <1>1, WireTypes, Bounds
<1>4. inbox[1].age <= Prompt /\ inbox[1].run = sender.run
  BY <1>1, <1>2, <1>3, Bounds DEF Succession, Behind
<1>5. seen.run < sender.run => channel.seen = SeqReset
  BY <1>2, <1>3, Bounds DEF Succession
<1>6. ASSUME channel.seen = SeqReset PROVE Accepts(channel, Head(inbox))
  <2>1. /\ Heard(channel).lastSeq = IF channel.seen = SeqReset THEN 0 ELSE channel.lastSeq
        /\ Heard(channel).muted = (channel.muted /\ channel.seen < Fresh)
    BY OfferIs
  <2>2. ~(channel.seen < Fresh)
    BY <1>6, Bounds
  <2>3. ~Heard(channel).muted /\ Heard(channel).lastSeq = 0
    BY <1>6, <2>1, <2>2
  <2> QED
    BY <1>1, <1>3, <2>3 DEF Accepts
<1> QED
  BY <1>1, <1>4, <1>5, <1>6

LEMMA OnPuppetMsgSuccession ==
  ASSUME PuppetTypeOK, PuppetTypeOK', Succession, OnPuppetMsg
  PROVE  Succession'
<1>1. inbox # <<>> /\ inbox' = Tail(inbox) /\ UNCHANGED <<sender, net>>
  BY DEF OnPuppetMsg
<1>2. \A i \in DOMAIN inbox' : i + 1 \in DOMAIN inbox /\ inbox'[i] = inbox[i + 1]
  BY <1>1, WireTypes
<1>3. (\A p \in net' : Behind(p, sender)) /\ \A i \in DOMAIN inbox' : Behind(inbox'[i], sender)
  BY <1>1, <1>2 DEF Succession
<1>4. CASE relaxed
  <2>1. channel' = channel /\ seen'.run = seen.run /\ seen'.strayed = seen.strayed
    BY <1>4 DEF OnPuppetMsg, PuppetTypeOK, SeenType
  <2> QED
    BY <1>1, <1>3, <2>1 DEF Succession, Behind
<1>5. CASE ~relaxed
  <2>1. 1 \in DOMAIN inbox /\ Head(inbox) = inbox[1] /\ inbox[1] \in Datagram
    BY <1>1, WireTypes
  <2>2. Behind(Head(inbox), sender)
    BY <2>1 DEF Succession
  <2>3. /\ channel'.seen = 0
        /\ seen'.run = IF Accepts(channel, Head(inbox)) THEN Head(inbox).run ELSE seen.run
    BY <1>5, OfferIs
  <2>4. seen'.run <= sender'.run
    BY <1>1, <2>2, <2>3 DEF Behind, Succession
  <2>5. ASSUME ~seen'.strayed
        PROVE  sender'.pause <= Prompt + channel'.seen /\ ~(seen'.run < sender'.run)
    <3>1. /\ Head(inbox).run = sender.run /\ Head(inbox).age <= Prompt
          /\ seen.run < sender.run => Accepts(channel, Head(inbox))
      BY <1>5, <2>5, NewRunAccepted
    <3>2. sender.pause <= Head(inbox).age
      BY <2>2, <3>1 DEF Behind
    <3>3. /\ sender.pause \in Nat /\ Head(inbox).age \in Nat /\ Prompt \in Nat
          /\ sender.run \in Nat
      BY <2>1, WireTypes, Bounds
    <3> QED
      BY <1>1, <2>3, <3>1, <3>2, <3>3
  <2> QED
    BY <1>1, <1>3, <2>4, <2>5 DEF Succession, Behind
<1> QED
  BY <1>4, <1>5

LEMMA StepSuccession ==
  ASSUME PuppetTypeOK, PuppetTypeOK', Succession, [Next]_vars
  PROVE  Succession'
<1>1. CASE UNCHANGED vars
  BY <1>1 DEF vars, wire, Succession, Behind
<1>2. CASE Network
  BY <1>2, SendSuccession, RestartSuccession, ArriveSuccession, AdvanceSuccession DEF Network
<1>3. CASE Receive
  BY <1>3, OnPuppetMsgSuccession, CommandKeepsWire, WireKeptSuccession DEF Receive, Handles
<1>4. CASE TickThread \/ ActionThread
  BY <1>4, ThreadsKeepWire, WireKeptSuccession
<1> QED
  BY <1>1, <1>2, <1>3, <1>4 DEF Next

LEMMA InitSuccession == Init => Succession
<1> SUFFICES ASSUME Init PROVE Succession
  OBVIOUS
<1>1. net = {} /\ inbox = <<>> /\ DOMAIN inbox = {}
  BY DEF Init
<1>2. sender.run = 1 /\ seen.run = 1 /\ channel.seen = SeqReset
  BY DEF Init, Silent
<1> QED
  BY <1>1, <1>2, Bounds DEF Succession

(* What is about of a former run of the sender is a straggler, and but for    *)
(* one the channel has forgotten that run's numbers: the invariant of         *)
(* RestartsAreHeard.                                                          *)
THEOREM RunsSucceed == Spec => []Succession
<1>1. PuppetTypeOK /\ PuppetTypeOK' /\ Succession /\ [Next]_vars => Succession'
  BY StepSuccession
<1> QED
  BY <1>1, InitSuccession, PuppetTypes, PTL DEF Spec

(* Only the channel's reader takes a datagram out of the socket's buffer.     *)
LEMMA OnlyReaderTakes ==
  ASSUME PuppetTypeOK, Next, inbox # <<>>, inbox' = Tail(inbox)
  PROVE  OnPuppetMsg
<1>1. inbox \in Seq(Datagram) /\ Len(inbox) \in Nat
  BY WireTypes
<1>2. Len(inbox') < Len(inbox)
  BY <1>1
<1>3. inbox' = inbox => Len(inbox') = Len(inbox)
  OBVIOUS
<1>4. ~Arrive
  <2> SUFFICES ASSUME Arrive PROVE FALSE
    OBVIOUS
  <2>1. PICK p \in net : p \in Datagram /\ inbox' = Append(inbox, p)
    BY ArriveIs
  <2>2. Len(inbox') > Len(inbox)
    BY <1>1, <2>1
  <2> QED
    BY <1>1, <1>2, <2>2
<1>5. SendPacket \/ RestartSender => inbox' = inbox
  BY DEF SendPacket, RestartSender
<1>6. Advance => Len(inbox') = Len(inbox)
  BY AdvanceIs
<1>7. WireKept => inbox' = inbox
  BY DEF WireKept, wire
<1>8. Len(inbox') # Len(inbox)
  BY <1>1, <1>2
<1> QED
  BY <1>3, <1>4, <1>5, <1>6, <1>7, <1>8, CommandKeepsWire, ThreadsKeepWire
  DEF Next, Network, Receive, Handles

(* A sender that was started again is not locked out by the numbers of its    *)
(* former run, however low it counts from, unless a packet of that run was    *)
(* read after it had been silent for so long (PuppetChannel.offer).           *)
THEOREM RestartsAreHeard == Spec => RestartHeard
<1>1. PuppetTypeOK /\ Succession /\ [Next]_vars =>
        [(inbox # <<>> /\ inbox' = Tail(inbox) /\ ~relaxed)
           => (~channel'.muted /\ ~seen'.strayed /\ Head(inbox).run > seen.run
                 => channel'.accepted = 0 /\ channel'.lastSeq = Head(inbox).seq)]_vars
  <2> SUFFICES ASSUME PuppetTypeOK, Succession, Next, inbox # <<>>, inbox' = Tail(inbox),
                      ~relaxed, ~seen'.strayed, Head(inbox).run > seen.run
               PROVE  channel'.accepted = 0 /\ channel'.lastSeq = Head(inbox).seq
    OBVIOUS
  <2>1. OnPuppetMsg
    BY OnlyReaderTakes
  <2>2. Head(inbox).run = sender.run
    BY <2>1, NewRunAccepted
  <2>3. seen.run < sender.run
    BY <2>2, WireTypes
  <2>4. Accepts(channel, Head(inbox))
    BY <2>1, <2>3, NewRunAccepted
  <2> QED
    BY <2>1, <2>4, OfferIs
<1> QED
  BY <1>1, RunsSucceed, PuppetTypes, PTL DEF Spec, RestartHeard

-----------------------------------------------------------------------------
(* A do is in one place at a time: the channel, the tick's hand, the queue,   *)
(* under the action thread's check, or begun.  A copy of its packet that is   *)
(* still about meets the number the channel remembers, or is read so late     *)
(* that its do is known as stale.                                             *)

IdsIn(s) == {s[i].id : i \in DOMAIN s}
Once(s, stale) ==
  \A i, j \in DOMAIN s : s[i].id = s[j].id => i = j \/ s[i].id \in stale

Checking == IF act.at = "check" THEN {act.item.id} ELSE {}

Apart ==
  /\ Once(channel.actions, seen.stale) /\ Once(hand, seen.stale) /\ Once(queue, seen.stale)
  /\ IdsIn(channel.actions) \cap (IdsIn(hand) \cup IdsIn(queue) \cup Checking \cup seen.fired)
       \subseteq seen.stale
  /\ IdsIn(hand) \cap (IdsIn(queue) \cup Checking \cup seen.fired) \subseteq seen.stale
  /\ IdsIn(queue) \cap (Checking \cup seen.fired) \subseteq seen.stale
  /\ Checking \cap seen.fired \subseteq seen.stale

Used ==
  IdsIn(channel.actions) \cup IdsIn(hand) \cup IdsIn(queue) \cup Checking \cup seen.fired

Passed(p) ==
  <<p.run, p.seq>> \in Used
    => p.age >= SeqReset \/ (channel.seen <= p.age /\ p.seq <= channel.lastSeq)

Spent ==
  /\ \A id \in Used : id[1] < sender.run \/ (id[1] = sender.run /\ id[2] <= sender.seq)
  /\ \A p \in net : Passed(p)
  /\ \A i \in DOMAIN inbox : Passed(inbox[i])

(* Taking the first of a sequence, adding one to it, stamping it.             *)
LEMMA TailOnce ==
  ASSUME NEW S, NEW s \in Seq(S), s # <<>>, NEW stale, Once(s, stale)
  PROVE  /\ Once(Tail(s), stale) /\ IdsIn(s) = IdsIn(Tail(s)) \cup {Head(s).id}
         /\ Head(s).id \in IdsIn(Tail(s)) => Head(s).id \in stale
<1>1. /\ 1 \in DOMAIN s /\ Head(s) = s[1]
      /\ \A i \in DOMAIN Tail(s) : i \in Nat /\ i # 0 /\ i + 1 \in DOMAIN s /\ Tail(s)[i] = s[i + 1]
      /\ \A i \in DOMAIN s : i \in Nat /\ (i = 1 \/ i - 1 \in DOMAIN Tail(s))
  OBVIOUS
<1>2. Once(Tail(s), stale)
  <2> SUFFICES ASSUME NEW i \in DOMAIN Tail(s), NEW j \in DOMAIN Tail(s),
                      Tail(s)[i].id = Tail(s)[j].id, Tail(s)[i].id \notin stale
               PROVE  i = j
    BY DEF Once
  <2>1. i + 1 = j + 1
    BY <1>1 DEF Once
  <2> QED
    BY <1>1, <2>1
<1>3. Head(s).id \in IdsIn(Tail(s)) => Head(s).id \in stale
  <2> SUFFICES ASSUME NEW i \in DOMAIN Tail(s), s[1].id = Tail(s)[i].id, s[1].id \notin stale
               PROVE  FALSE
    BY <1>1 DEF IdsIn
  <2>1. i + 1 = 1
    BY <1>1 DEF Once
  <2> QED
    BY <1>1, <2>1
<1>4. IdsIn(s) = IdsIn(Tail(s)) \cup {Head(s).id}
  <2>1. ASSUME NEW i \in DOMAIN s PROVE s[i].id \in IdsIn(Tail(s)) \cup {Head(s).id}
    <3>1. CASE i = 1
      BY <1>1, <3>1
    <3>2. CASE i - 1 \in DOMAIN Tail(s)
      <4>1. Tail(s)[i - 1] = s[i]
        <5>1. Tail(s)[i - 1] = s[(i - 1) + 1] /\ i \in Nat
          BY <1>1, <3>2
        <5>2. (i - 1) + 1 = i
          BY <5>1
        <5> QED
          BY <5>1, <5>2
      <4> QED
        BY <3>2, <4>1 DEF IdsIn
    <3> QED
      BY <1>1, <3>1, <3>2
  <2>2. \A i \in DOMAIN Tail(s) : Tail(s)[i].id \in IdsIn(s)
    BY <1>1 DEF IdsIn
  <2> QED
    BY <1>1, <2>1, <2>2 DEF IdsIn
<1> QED
  BY <1>2, <1>3, <1>4

LEMMA AppendOnce ==
  ASSUME NEW S, NEW s \in Seq(S), NEW x \in S, NEW stale, Once(s, stale),
         x.id \in IdsIn(s) => x.id \in stale
  PROVE  Once(Append(s, x), stale) /\ IdsIn(Append(s, x)) = IdsIn(s) \cup {x.id}
<1> DEFINE t == Append(s, x)
           last == Len(s) + 1
<1>1. /\ last \in DOMAIN t /\ t[last] = x
      /\ \A i \in DOMAIN t : i = last \/ (i \in DOMAIN s /\ t[i] = s[i])
      /\ \A i \in DOMAIN s : i \in DOMAIN t /\ t[i] = s[i]
  OBVIOUS
<1> HIDE DEF t, last
<1>2. \A i \in DOMAIN s : s[i].id = x.id => x.id \in stale
  BY DEF IdsIn
<1>3. Once(t, stale)
  BY <1>1, <1>2 DEF Once
<1>4. IdsIn(t) = IdsIn(s) \cup {x.id}
  BY <1>1 DEF IdsIn
<1> QED
  BY <1>3, <1>4 DEF t

LEMMA StampOnce ==
  ASSUME NEW s, NEW epoch, NEW stale
  PROVE  /\ IdsIn(Stamp(s, epoch)) = IdsIn(s)
         /\ Once(s, stale) => Once(Stamp(s, epoch), stale)
<1>1. DOMAIN Stamp(s, epoch) = DOMAIN s /\ \A i \in DOMAIN s : Stamp(s, epoch)[i].id = s[i].id
  BY DEF Stamp
<1> QED
  BY <1>1 DEF IdsIn, Once

LEMMA EmptyOnce == IdsIn(<<>>) = {} /\ \A stale : Once(<<>>, stale)
<1>1. DOMAIN <<>> = {}
  OBVIOUS
<1> QED
  BY <1>1 DEF IdsIn, Once

(* The steps of the ticks, of the action thread and of the commands hand a do *)
(* on or drop it.                                                             *)
LEMMA DroppedApart ==
  ASSUME Apart, channel'.actions \in {channel.actions, <<>>}, seen'.fired = seen.fired,
         seen.stale \subseteq seen'.stale, UNCHANGED <<hand, queue, act>>
  PROVE  Apart' /\ Used' \subseteq Used
<1>1. /\ Once(channel'.actions, seen'.stale) /\ Once(hand, seen'.stale)
      /\ Once(queue, seen'.stale)
      /\ IdsIn(channel'.actions) \subseteq IdsIn(channel.actions)
  <2>1. \A s : Once(s, seen.stale) => Once(s, seen'.stale)
    BY DEF Once
  <2> QED
    BY <2>1, EmptyOnce DEF Apart
<1>2. Checking' = Checking
  BY DEF Checking
<1> QED
  BY <1>1, <1>2 DEF Apart, Used

LEMMA EmitApart ==
  ASSUME PuppetTypeOK, Apart, NEW s, NEW move, Emit(s, move), hand = <<>>,
         UNCHANGED <<queue, act, seen>>
  PROVE  Apart' /\ Used' \subseteq Used
<1>1. /\ channel'.actions = <<>>
      /\ hand' \in {Stamp(channel.actions, channel.epoch), <<>>}
  BY DEF Emit, Taken, PuppetTypeOK, ChannelType
<1>2. Once(hand', seen.stale) /\ IdsIn(hand') \subseteq IdsIn(channel.actions)
  BY <1>1, StampOnce, EmptyOnce DEF Apart
<1>3. Once(channel'.actions, seen.stale) /\ IdsIn(channel'.actions) = {}
  BY <1>1, EmptyOnce
<1>4. Checking' = Checking
  BY DEF Checking
<1> QED
  BY <1>2, <1>3, <1>4 DEF Apart, Used

(* The tick has nothing in hand while it waits for robotd.                    *)
HandFree == tick.at # "idle" => hand = <<>>

LEMMA TickApart ==
  ASSUME PuppetTypeOK, Apart, HandFree, TickThread
  PROVE  Apart' /\ Used' \subseteq Used
<1>0. seen' = seen /\ act' = act
  BY DEF TickThread, Tick, ModeAnswered, EventFails, Enqueue, EndOfShow, EndAnswered, threads
<1>1. CASE Tick
  <2> DEFINE move == "move" \in Asserted(channel)
  <2>1. /\ hand = <<>> /\ queue' = queue
        /\ Emit(state', move) \/ UNCHANGED <<channel, hand>>
    BY <1>1 DEF Tick
  <2> HIDE DEF move
  <2> QED
    BY <1>0, <2>1, EmitApart, DroppedApart
<1>2. CASE ModeAnswered
  <2>1. hand = <<>> /\ queue' = queue /\ Emit(state', tick.move)
    BY <1>2 DEF ModeAnswered, HandFree
  <2> QED
    BY <1>0, <2>1, EmitApart
<1>3. CASE Enqueue
  <2> DEFINE first == Head(hand)
  <2>1. /\ hand # <<>> /\ hand' = Tail(hand) /\ channel' = channel
        /\ queue' \in {queue, Append(queue, first)}
    BY <1>3 DEF Enqueue
  <2>2. hand \in Seq(Stamped) /\ queue \in Seq(Stamped) /\ first \in Stamped
    BY <2>1, Fields DEF PuppetTypeOK
  <2> HIDE DEF first
  <2>3. /\ Once(hand', seen.stale) /\ IdsIn(hand) = IdsIn(hand') \cup {first.id}
        /\ first.id \in IdsIn(hand') => first.id \in seen.stale
    BY <2>1, <2>2, TailOnce DEF Apart, first
  <2>4. first.id \in IdsIn(queue) => first.id \in seen.stale
    BY <2>3 DEF Apart
  <2>5. Once(queue', seen.stale) /\ IdsIn(queue') \subseteq IdsIn(queue) \cup {first.id}
    <3>1. Once(queue, seen.stale)
      BY DEF Apart
    <3>2. /\ Once(Append(queue, first), seen.stale)
          /\ IdsIn(Append(queue, first)) = IdsIn(queue) \cup {first.id}
      BY <2>2, <2>4, <3>1, AppendOnce
    <3> QED
      BY <2>1, <3>1, <3>2
  <2>6. Checking' = Checking
    BY <1>0 DEF Checking
  <2> QED
    BY <1>0, <2>1, <2>3, <2>5, <2>6 DEF Apart, Used
<1>4. CASE EventFails \/ EndOfShow \/ EndAnswered
  <2>1. UNCHANGED <<channel, hand, queue>>
    BY <1>4 DEF EventFails, EndOfShow, EndAnswered, threads
  <2> QED
    BY <1>0, <2>1, DroppedApart
<1> QED
  BY <1>1, <1>2, <1>3, <1>4 DEF TickThread

LEMMA ActionApart ==
  ASSUME PuppetTypeOK, Apart, ActionThread
  PROVE  Apart' /\ Used' \subseteq Used
<1>0. channel' = channel /\ hand' = hand
  BY DEF ActionThread, GetAction, CheckAction, ActionAnswered
<1>1. CASE GetAction
  <2>1. /\ queue # <<>> /\ queue' = Tail(queue) /\ seen' = seen
        /\ act.at = "get" /\ act' = [at |-> "check", item |-> Head(queue)]
    BY <1>1 DEF GetAction
  <2>2. /\ Once(queue', seen.stale) /\ IdsIn(queue) = IdsIn(queue') \cup {Head(queue).id}
        /\ Head(queue).id \in IdsIn(queue') => Head(queue).id \in seen.stale
    BY <2>1, TailOnce DEF Apart, PuppetTypeOK
  <2>3. Checking' = {Head(queue).id}
    BY <2>1 DEF Checking
  <2> QED
    BY <1>0, <2>1, <2>2, <2>3 DEF Apart, Used
<1>2. CASE CheckAction
  <2>1. queue' = queue /\ act.at = "check" /\ Checking = {act.item.id}
    BY <1>2 DEF CheckAction, Checking
  <2>2. /\ act'.at # "check" /\ seen'.stale = seen.stale
        /\ seen'.fired \in {seen.fired, seen.fired \cup {act.item.id}}
    BY <1>2 DEF CheckAction, PuppetTypeOK, SeenType
  <2>3. Checking' = {}
    BY <2>2 DEF Checking
  <2> QED
    BY <1>0, <2>1, <2>2, <2>3 DEF Apart, Used
<1>3. CASE ActionAnswered
  <2>1. queue' = queue /\ seen' = seen /\ act'.at = "get"
    BY <1>3 DEF ActionAnswered
  <2>2. Checking' = {}
    BY <2>1 DEF Checking
  <2> QED
    BY <1>0, <2>1, <2>2 DEF Apart, Used
<1> QED
  BY <1>1, <1>2, <1>3 DEF ActionThread

LEMMA CommandApart ==
  ASSUME PuppetTypeOK, Apart, Handles
  PROVE  Apart' /\ Used' \subseteq Used
<1>1. UNCHANGED <<hand, queue, act>>
  BY DEF Handles, TakeUp, Refuse, Stop, Panic, LoadOrPlay, StopAnswered, SoundsReleased,
     AskTorque, TorqueAnswered, threads
<1>2. \/ Muted
      \/ channel' = channel /\ (seen' = seen \/ \E hush : seen' = [seen EXCEPT !.hush = hush])
  BY DEF Handles, TakeUp, Refuse, Stop, Panic, LoadOrPlay, StopAnswered, SoundsReleased,
     AskTorque, TorqueAnswered
<1>3. /\ channel'.actions \in {channel.actions, <<>>} /\ seen'.fired = seen.fired
      /\ seen'.stale = seen.stale
  BY <1>2, MutedKeeps DEF PuppetTypeOK, SeenType
<1> QED
  BY <1>1, <1>3, DroppedApart

LEMMA NetworkApart ==
  ASSUME PuppetTypeOK, Apart, Network
  PROVE  Apart' /\ Used' \subseteq Used
<1>1. CASE SendPacket \/ RestartSender
  BY <1>1, DroppedApart DEF SendPacket, RestartSender, threads
<1>2. CASE Arrive
  BY <1>2, ArriveIs, DroppedApart
<1>3. CASE Advance
  BY <1>3, AdvanceIs, DroppedApart
<1> QED
  BY <1>1, <1>2, <1>3 DEF Network

-----------------------------------------------------------------------------
(* The numbers of a do are those of a packet of this run or a former one.     *)

LEMMA UsedIds ==
  ASSUME PuppetTypeOK
  PROVE  \A id \in Used : id[1] \in Nat /\ id[2] \in Nat
<1>1. \A a \in Acts \cup Stamped : a.id \in Ids
  BY DEF Acts, Stamped
<1>2. /\ \A i \in DOMAIN channel.actions : channel.actions[i] \in Acts
      /\ \A i \in DOMAIN hand : hand[i] \in Stamped
      /\ \A i \in DOMAIN queue : queue[i] \in Stamped
      /\ act.item \in Stamped /\ seen.fired \subseteq Ids
  <2>1. channel.actions \in Seq(Acts) /\ act.item \in Stamped /\ seen.fired \subseteq Ids
    BY DEF PuppetTypeOK, ChannelType, SeenType
  <2> QED
    BY <2>1, Fields
<1>3. Used \subseteq Ids
  <2>1. IdsIn(channel.actions) \subseteq Ids
    BY <1>1, <1>2 DEF IdsIn
  <2>2. IdsIn(hand) \subseteq Ids /\ IdsIn(queue) \subseteq Ids
    BY <1>1, <1>2 DEF IdsIn
  <2>3. Checking \subseteq Ids
    BY <1>1, <1>2 DEF Checking
  <2> QED
    BY <1>2, <2>1, <2>2, <2>3 DEF Used
<1>4. \A id \in Ids : id[1] \in Nat /\ id[2] \in Nat
  BY Bounds DEF Ids, Runs, Seqs
<1> QED
  BY <1>3, <1>4

LEMMA WireKeptSpent ==
  ASSUME Spent, WireKept, Used' \subseteq Used
  PROVE  Spent'
BY DEF Spent, Passed, WireKept, wire

LEMMA SendSpent ==
  ASSUME PuppetTypeOK, Spent, SendPacket, Used' \subseteq Used
  PROVE  Spent'
<1>1. PICK c \in Carries :
        net' = net \cup {[run |-> sender.run, seq |-> sender.seq + 1,
                          carries |-> c, age |-> 0]}
  BY DEF SendPacket
<1>2. /\ sender'.run = sender.run /\ sender'.seq = sender.seq + 1
      /\ UNCHANGED <<channel, inbox>>
  BY DEF SendPacket, PuppetTypeOK
<1>3. <<sender.run, sender.seq + 1>> \notin Used
  <2> SUFFICES ASSUME <<sender.run, sender.seq + 1>> \in Used PROVE FALSE
    OBVIOUS
  <2>1. sender.run < sender.run \/ sender.seq + 1 <= sender.seq
    BY DEF Spent
  <2> QED
    BY <2>1, WireTypes
<1>4. \A id \in Used' : id[1] < sender'.run \/ (id[1] = sender'.run /\ id[2] <= sender'.seq)
  BY <1>2, UsedIds, WireTypes DEF Spent
<1>5. \A p \in net' : <<p.run, p.seq>> \in Used => p \in net
  BY <1>1, <1>3
<1> QED
  BY <1>2, <1>4, <1>5 DEF Spent, Passed

LEMMA RestartSpent ==
  ASSUME PuppetTypeOK, Spent, RestartSender, Used' \subseteq Used
  PROVE  Spent'
<1>1. sender'.run = sender.run + 1 /\ UNCHANGED <<channel, net, inbox>>
  BY DEF RestartSender, PuppetTypeOK
<1>2. \A id \in Used' : id[1] < sender'.run
  BY <1>1, UsedIds, WireTypes DEF Spent
<1> QED
  BY <1>1, <1>2 DEF Spent, Passed

LEMMA ArriveSpent ==
  ASSUME PuppetTypeOK, Spent, Arrive, Used' \subseteq Used
  PROVE  Spent'
<1>1. PICK p \in net :
        /\ net' \subseteq net
        /\ \A i \in DOMAIN inbox' :
              (i \in DOMAIN inbox /\ inbox'[i] = inbox[i]) \/ inbox'[i] = p
        /\ UNCHANGED <<channel, sender>>
  BY ArriveIs
<1>2. (\A q \in net' : Passed(q)) /\ \A i \in DOMAIN inbox' : Passed(inbox'[i])
  BY <1>1 DEF Spent
<1> QED
  BY <1>1, <1>2 DEF Spent, Passed

LEMMA AdvanceSpent ==
  ASSUME PuppetTypeOK, Spent, Advance, Used' \subseteq Used
  PROVE  Spent'
<1> DEFINE Still(p) ==
      <<p.run, p.seq>> \in Used
        => p.age >= SeqReset \/ (channel'.seen <= p.age /\ p.seq <= channel'.lastSeq)
<1>1. channel.seen \in Nat /\ channel'.seen \in Nat /\ channel'.seen <= channel.seen + 1
  <2>1. channel'.seen = Older(channel.seen, SeqReset) /\ channel.seen \in 0..SeqReset
    BY AdvanceIs, WireTypes
  <2> QED
    BY <2>1, Bounds DEF Older
<1>2. \A p \in Datagram : Passed(p) => Still(Later(p))
  <2> SUFFICES ASSUME NEW p \in Datagram, Passed(p), <<p.run, p.seq>> \in Used
               PROVE  \/ Later(p).age >= SeqReset
                      \/ channel'.seen <= Later(p).age /\ p.seq <= channel'.lastSeq
    BY LaterType
  <2>1. p.age \in Nat /\ Later(p).age = IF p.age < RestartGap THEN p.age + 1 ELSE RestartGap
    BY LaterType, WireTypes DEF Older
  <2>2. p.age >= SeqReset \/ (channel.seen <= p.age /\ p.seq <= channel'.lastSeq)
    BY AdvanceIs DEF Passed
  <2> QED
    BY <1>1, <2>1, <2>2, Bounds
<1> HIDE DEF Still
<1>3. \A p \in net' : Still(p)
  <2> SUFFICES ASSUME NEW p \in net' PROVE Still(p)
    OBVIOUS
  <2>1. PICK q \in net : p = Later(q)
    BY AdvanceIs
  <2>2. q \in Datagram /\ Passed(q)
    BY WireTypes DEF Spent
  <2> QED
    BY <1>2, <2>1, <2>2
<1>4. \A i \in DOMAIN inbox' : Still(inbox'[i])
  <2> SUFFICES ASSUME NEW i \in DOMAIN inbox' PROVE Still(inbox'[i])
    OBVIOUS
  <2>1. i \in DOMAIN inbox /\ inbox'[i] = Later(inbox[i])
    BY AdvanceIs
  <2>2. inbox[i] \in Datagram /\ Passed(inbox[i])
    BY <2>1, WireTypes DEF Spent
  <2> QED
    BY <1>2, <2>1, <2>2
<1>5. \A id \in Used' : id[1] < sender'.run \/ (id[1] = sender'.run /\ id[2] <= sender'.seq)
  BY AdvanceIs DEF Spent
<1> QED
  BY <1>3, <1>4, <1>5 DEF Spent, Passed, Still

(* A packet that is read: if it is accepted though its do is in use, it is a  *)
(* late copy and known as one.                                                *)
LEMMA AcceptedIsNew ==
  ASSUME PuppetTypeOK, Spent, OnPuppetMsg, ~relaxed, Accepts(channel, Head(inbox)),
         <<Head(inbox).run, Head(inbox).seq>> \in Used
  PROVE  <<Head(inbox).run, Head(inbox).seq>> \in seen'.stale
<1>1. 1 \in DOMAIN inbox /\ Head(inbox) = inbox[1] /\ inbox[1] \in Datagram
  BY WireTypes DEF OnPuppetMsg
<1>2. ASSUME inbox[1].age < SeqReset PROVE FALSE
  <2>1. channel.seen <= inbox[1].age /\ inbox[1].seq <= channel.lastSeq
    BY <1>1, <1>2, WireTypes, Bounds DEF Spent, Passed
  <2>2. channel.seen # SeqReset
    BY <1>1, <1>2, <2>1, WireTypes, Bounds
  <2>3. Heard(channel).lastSeq = channel.lastSeq
    BY <2>2, OfferIs
  <2>4. inbox[1].seq > channel.lastSeq
    BY <1>1, <2>3 DEF Accepts
  <2> QED
    BY <1>1, <2>1, <2>4, WireTypes
<1>3. inbox[1].age >= SeqReset
  BY <1>1, <1>2, WireTypes, Bounds
<1> QED
  BY <1>1, <1>3, OfferSeen

LEMMA OnPuppetMsgApart ==
  ASSUME PuppetTypeOK, Apart, Spent, OnPuppetMsg
  PROVE  /\ Apart'
         /\ \/ Used' \subseteq Used
            \/ /\ ~relaxed /\ Accepts(channel, Head(inbox))
               /\ Used' \subseteq Used \cup {<<Head(inbox).run, Head(inbox).seq>>}
<1> DEFINE p == Head(inbox)
           do == [id |-> <<p.run, p.seq>>, born |-> channel.epoch]
<1>1. UNCHANGED <<hand, queue, act>> /\ p \in Datagram
  BY Fields DEF OnPuppetMsg, threads
<1>2. seen'.fired = seen.fired /\ seen.stale \subseteq seen'.stale
  <2>1. CASE relaxed
    BY <2>1 DEF OnPuppetMsg, PuppetTypeOK, SeenType
  <2>2. CASE ~relaxed
    BY <2>2, OfferSeen
  <2> QED
    BY <2>1, <2>2
<1>3. CASE channel'.actions = channel.actions
  BY <1>1, <1>2, <1>3, DroppedApart
<1>4. CASE channel'.actions # channel.actions
  <2>1. ~relaxed
    BY <1>4 DEF OnPuppetMsg
  <2>2. Accepts(channel, p) /\ channel'.actions = Append(channel.actions, do)
    BY <1>4, <2>1, OfferIs
  <2>3. do.id \in Used => do.id \in seen'.stale
    BY <2>1, <2>2, AcceptedIsNew
  <2>4. channel.actions \in Seq(Acts) /\ do \in Acts
    BY <1>1 DEF PuppetTypeOK, ChannelType, Acts, Ids, Datagram
  <2>5. do.id = <<p.run, p.seq>>
    OBVIOUS
  <2> HIDE DEF do
  <2>6. /\ \A s : Once(s, seen.stale) => Once(s, seen'.stale)
        /\ do.id \in IdsIn(channel.actions) => do.id \in seen'.stale
    BY <1>2, <2>3 DEF Once, Used
  <2>7. /\ Once(channel'.actions, seen'.stale)
        /\ IdsIn(channel'.actions) = IdsIn(channel.actions) \cup {do.id}
    <3>1. Once(channel.actions, seen'.stale)
      BY <2>6 DEF Apart
    <3> QED
      BY <2>2, <2>4, <2>6, <3>1, AppendOnce
  <2>8. Checking' = Checking
    BY <1>1 DEF Checking
  <2>9. Apart'
    <3>1. Once(hand', seen'.stale) /\ Once(queue', seen'.stale)
      BY <1>1, <2>6 DEF Apart
    <3>2. IdsIn(channel'.actions) \cap (IdsIn(hand) \cup IdsIn(queue) \cup Checking
                                          \cup seen.fired) \subseteq seen'.stale
      BY <1>2, <2>3, <2>7 DEF Apart, Used
    <3> QED
      BY <1>1, <1>2, <2>7, <2>8, <3>1, <3>2 DEF Apart
  <2> QED
    BY <1>1, <1>2, <2>1, <2>2, <2>5, <2>7, <2>8, <2>9 DEF Used
<1> QED
  BY <1>3, <1>4

LEMMA OnPuppetMsgSpent ==
  ASSUME PuppetTypeOK, Succession, Apart, Spent, OnPuppetMsg
  PROVE  Spent'
<1> DEFINE p == Head(inbox)
           new == <<p.run, p.seq>>
           accepted == ~relaxed /\ Accepts(channel, p)
           Still(q) == q.age >= SeqReset \/ (channel'.seen <= q.age /\ q.seq <= channel'.lastSeq)
<1>1. inbox # <<>> /\ inbox' = Tail(inbox) /\ UNCHANGED <<sender, net>>
  BY DEF OnPuppetMsg
<1>2. /\ \A i \in DOMAIN inbox' : i + 1 \in DOMAIN inbox /\ inbox'[i] = inbox[i + 1]
      /\ 1 \in DOMAIN inbox /\ p = inbox[1] /\ p \in Datagram
  BY <1>1, WireTypes
<1>3. p.run < sender.run \/ (p.run = sender.run /\ p.seq <= sender.seq)
  <2>1. Behind(p, sender) /\ p.run \in Nat /\ sender.run \in Nat
    BY <1>2, WireTypes DEF Succession
  <2> QED
    BY <2>1 DEF Behind
<1>4. Used' \subseteq Used \/ (accepted /\ Used' \subseteq Used \cup {new})
  BY OnPuppetMsgApart
<1>5. /\ p.seq \in Nat /\ channel.lastSeq \in Nat /\ channel.seen \in Nat
      /\ SeqReset \in Nat
  BY <1>2, WireTypes, Bounds
(* Unless they are forgotten the numbers only grow.                           *)
<1>6. /\ relaxed => channel' = channel
      /\ ~relaxed => channel'.seen = 0
      /\ channel.seen < SeqReset => channel.lastSeq <= channel'.lastSeq
      /\ accepted => channel'.lastSeq = p.seq
      /\ channel'.lastSeq \in Nat
  <2>1. CASE relaxed
    BY <1>5, <2>1 DEF OnPuppetMsg
  <2>2. CASE ~relaxed
    <3>1. /\ channel'.seen = 0
          /\ Heard(channel).lastSeq = IF channel.seen = SeqReset THEN 0 ELSE channel.lastSeq
      BY <2>2, OfferIs
    <3>2. CASE Accepts(channel, p)
      <4>1. channel'.lastSeq = p.seq /\ p.seq > Heard(channel).lastSeq
        BY <2>2, <3>2, OfferIs DEF Accepts
      <4> QED
        BY <1>5, <2>2, <3>1, <4>1
    <3>3. CASE ~Accepts(channel, p)
      <4>1. channel'.lastSeq = Heard(channel).lastSeq
        BY <2>2, <3>3, OfferIs
      <4> QED
        BY <1>5, <2>2, <3>1, <3>3, <4>1
    <3> QED
      BY <3>2, <3>3
  <2> QED
    BY <2>1, <2>2
<1> HIDE DEF new, accepted, p
<1>7. \A q \in Datagram : Passed(q) /\ <<q.run, q.seq>> \in Used' => Still(q)
  <2> SUFFICES ASSUME NEW q \in Datagram, Passed(q), <<q.run, q.seq>> \in Used',
                      q.age < SeqReset
               PROVE  channel'.seen <= q.age /\ q.seq <= channel'.lastSeq
    <3>1. \A q \in Datagram : q.age \in Nat
      BY WireTypes
    <3> QED
      BY <1>5, <3>1
  <2>1. q.age \in Nat /\ q.seq \in Nat
    BY WireTypes
  <2>2. CASE <<q.run, q.seq>> \in Used
    <3>1. channel.seen <= q.age /\ q.seq <= channel.lastSeq
      BY <1>5, <2>1, <2>2 DEF Passed
    <3>2. channel.lastSeq <= channel'.lastSeq
      BY <1>5, <1>6, <2>1, <3>1
    <3>3. channel'.seen <= q.age
      BY <1>6, <2>1, <3>1
    <3> QED
      BY <1>5, <1>6, <2>1, <3>1, <3>2, <3>3
  <2>3. CASE accepted /\ <<q.run, q.seq>> = new
    <3>1. q.seq = p.seq /\ channel'.lastSeq = p.seq /\ channel'.seen = 0
      BY <1>6, <2>3 DEF new, accepted
    <3> QED
      BY <1>5, <2>1, <3>1
  <2> QED
    BY <1>4, <2>2, <2>3
<1> HIDE DEF Still
<1>8. \A q \in net' : <<q.run, q.seq>> \in Used' => Still(q)
  BY <1>1, <1>7, WireTypes DEF Spent
<1>9. \A i \in DOMAIN inbox' : <<inbox'[i].run, inbox'[i].seq>> \in Used' => Still(inbox'[i])
  <2>1. \A i \in DOMAIN inbox : inbox[i] \in Datagram /\ Passed(inbox[i])
    BY WireTypes DEF Spent
  <2> QED
    BY <1>2, <1>7, <2>1
<1>10. \A id \in Used' : id[1] < sender'.run \/ (id[1] = sender'.run /\ id[2] <= sender'.seq)
  <2>1. new[1] = p.run /\ new[2] = p.seq
    BY DEF new
  <2> QED
    BY <1>1, <1>3, <1>4, <2>1 DEF Spent
<1> QED
  BY <1>8, <1>9, <1>10 DEF Spent, Passed, Still

LEMMA StepApart ==
  ASSUME PuppetTypeOK, PuppetTypeOK', HandFree, Succession, Apart, Spent, [Next]_vars
  PROVE  Apart' /\ Spent'
<1>1. CASE UNCHANGED vars
  BY <1>1 DEF vars, wire, threads, Apart, Spent, Passed, Used, Checking
<1>2. CASE Network
  BY <1>2, NetworkApart, SendSpent, RestartSpent, ArriveSpent, AdvanceSpent DEF Network
<1>3. CASE Receive
  BY <1>3, CommandApart, CommandKeepsWire, WireKeptSpent, OnPuppetMsgApart,
     OnPuppetMsgSpent
  DEF Receive, Handles
<1>4. CASE TickThread \/ ActionThread
  BY <1>4, TickApart, ActionApart, ThreadsKeepWire, WireKeptSpent
<1> QED
  BY <1>1, <1>2, <1>3, <1>4 DEF Next

LEMMA StepHandFree ==
  ASSUME PuppetTypeOK, HandFree, [Next]_vars
  PROVE  HandFree'
<1>1. CASE UNCHANGED vars
  BY <1>1 DEF vars, threads, HandFree
<1>2. CASE Network \/ OnPuppetMsg \/ ActionThread
  BY <1>2 DEF Network, SendPacket, RestartSender, Arrive, Advance, OnPuppetMsg,
     ActionThread, GetAction, CheckAction, ActionAnswered, threads, HandFree
<1>3. CASE Handles
  BY <1>3 DEF Handles, TakeUp, Refuse, Stop, Panic, LoadOrPlay, StopAnswered,
     SoundsReleased, AskTorque, TorqueAnswered, threads, HandFree
<1>4. CASE Tick
  BY <1>4 DEF Tick, LockFree, HandFree
<1>5. CASE ModeAnswered \/ EndAnswered
  BY <1>5 DEF ModeAnswered, EndAnswered, NoTick, HandFree
<1>6. CASE EventFails \/ EndOfShow
  BY <1>6 DEF EventFails, EndOfShow, threads, HandFree
<1>7. CASE Enqueue
  <2>1. tick.at = "idle" /\ tick' = tick
    BY <1>7 DEF Enqueue, HandFree
  <2> QED
    BY <2>1 DEF HandFree
<1> QED
  BY <1>1, <1>2, <1>3, <1>4, <1>5, <1>6, <1>7 DEF Next, Receive, Handles, TickThread

LEMMA InitApart == Init => Apart /\ Spent /\ HandFree
<1> SUFFICES ASSUME Init PROVE Apart /\ Spent /\ HandFree
  OBVIOUS
<1>1. /\ hand = <<>> /\ queue = <<>> /\ channel.actions = <<>> /\ act.at = "get"
      /\ seen.fired = {} /\ net = {} /\ inbox = <<>> /\ DOMAIN inbox = {}
  BY DEF Init, Silent
<1>2. Checking = {}
  BY <1>1 DEF Checking
<1>3. Apart /\ Used = {}
  BY <1>1, <1>2, EmptyOnce DEF Apart, Used
<1> QED
  BY <1>1, <1>3 DEF Spent, HandFree

(* No do is in two places, and copies of its packet meet a number that is at  *)
(* least theirs or come SEQ_RESET late: the invariant of DosFireOnce.         *)
THEOREM StaysApart == Spec => [](Apart /\ Spent)
<1>1. PuppetTypeOK /\ PuppetTypeOK' /\ Succession /\ (Apart /\ Spent /\ HandFree) /\ [Next]_vars
        => (Apart /\ Spent /\ HandFree)'
  BY StepApart, StepHandFree
<1> QED
  BY <1>1, InitApart, RunsSucceed, PuppetTypes, PTL DEF Spec

(* However the network doubles packets, whatever handler they wait behind and *)
(* however often the sender is started again, no do or sound is begun twice   *)
(* but one whose packet is accepted SEQ_RESET or more after it was sent.      *)
THEOREM DosFireOnce == Spec => ActionsOnce
<1>1. Apart /\ [Next]_vars =>
        [act.at = "check" /\ act'.at = "sent"
           => act.item.id \notin seen.fired \ seen.stale]_vars
  <2> SUFFICES ASSUME Apart, act.at = "check"
               PROVE  act.item.id \notin seen.fired \ seen.stale
    OBVIOUS
  <2>1. Checking = {act.item.id}
    BY DEF Checking
  <2> QED
    BY <2>1 DEF Apart
<1> QED
  BY <1>1, StaysApart, PTL DEF Spec, ActionsOnce

=============================================================================
