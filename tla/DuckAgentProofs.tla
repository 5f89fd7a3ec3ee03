--------------------------- MODULE DuckAgentProofs ---------------------------
(***************************************************************************)
(* Theorems about DuckAgent, for every set of commands, any number of      *)
(* panic threads, with or without a puppet sender.                         *)
(***************************************************************************)
EXTENDS DuckAgent, TLAPS

-----------------------------------------------------------------------------
(* Types.  What each helper returns stays a duck.                             *)

LEMMA HelperTypes ==
  ASSUME NEW d \in DuckType
  PROVE  /\ Owe(d) \in DuckType /\ Cancel(d) \in DuckType
         /\ Zeroed(d) \in DuckType /\ StopFails(d) \in DuckType
         /\ StopLands(d) \in DuckType /\ FaultLocked(d) \in DuckType
         /\ EnableTorque(d) \subseteq DuckType
<1>1. TorqueOn(d) \in DuckType /\ [d EXCEPT !.torque = TRUE] \in DuckType
  BY DEF DuckType, TorqueOn
<1>2. EnableTorque(d) \subseteq DuckType
  BY <1>1 DEF EnableTorque
<1> QED
  BY <1>2 DEF DuckType, States, Owe, Cancel, Zeroed, StopFails, StopLands,
     FaultLocked

LEMMA GapType ==
  ASSUME NEW d \in DuckType,
         NEW g \in {"none", "heldFrozen", "zeroLost", "owedErased"}
  PROVE  WithGap(d, g) \in DuckType
BY DEF DuckType, WithGap

LEMMA FaultType ==
  ASSUME NEW d \in DuckType
  PROVE  EnterFault(d) \subseteq DuckType /\ ApplyMode(d) \subseteq DuckType
BY HelperTypes DEF EnterFault, ApplyMode

LEMMA StartType ==
  ASSUME NEW d \in DuckType
  PROVE  StartPlaying(d) \subseteq DuckType /\ MaybeStart(d) \subseteq DuckType
<1>1. /\ [Cancel(d) EXCEPT !.state = "playing"] \in DuckType
      /\ [Cancel(d) EXCEPT !.state = "loaded"] \in DuckType
  BY HelperTypes DEF DuckType, States
<1>2. StartPlaying(d) \subseteq DuckType
  BY <1>1, FaultType DEF StartPlaying
<1> QED
  BY <1>1, <1>2 DEF MaybeStart

LEMMA MovedType ==
  ASSUME NEW d \in DuckType, NEW p \in BOOLEAN
  PROVE  Moved(d, FALSE, p) \in DuckType /\ Moves(d, p) \subseteq DuckType
<1>1. \A v \in BOOLEAN : Moved(d, v, p) \in DuckType
  BY DEF Moved, DuckType
<1> QED
  BY <1>1 DEF Moves

LEMMA EmitType ==
  ASSUME NEW d \in DuckType
  PROVE  Emit(d) \subseteq DuckType
BY MovedType, FaultType DEF Emit

LEMMA PlayTickType ==
  ASSUME NEW d \in DuckType, NEW due \in SUBSET d.pend
  PROVE  PlayTick(d, due) \subseteq DuckType
<1>1. PausePhase(d, due) \in DuckType
  BY DEF PausePhase, DuckType, States
<1>2. ASSUME NEW x \in DuckType PROVE ResumePhase(x, due) \subseteq DuckType
  <2>1. [x EXCEPT !.pend = @ \ {"resume"}] \in DuckType
    BY DEF DuckType
  <2> QED
    BY <2>1, StartType DEF ResumePhase
<1>3. ASSUME NEW x \in DuckType PROVE SeekPhase(x, due) \subseteq DuckType
  <2>1. [x EXCEPT !.pend = @ \ {"seek"}] \in DuckType
    BY DEF DuckType
  <2>2. ApplyMode([x EXCEPT !.pend = @ \ {"seek"}]) \subseteq DuckType
    BY <2>1, FaultType
  <2>3. ASSUME NEW y \in StartPlaying([x EXCEPT !.pend = @ \ {"seek"}])
        PROVE  {y} \subseteq DuckType /\ Emit(y) \subseteq DuckType
    BY <2>1, StartType, EmitType
  <2> QED
    BY <2>2, <2>3, EmitType DEF SeekPhase
<1> QED
  BY <1>1, <1>2, <1>3 DEF PlayTick

LEMMA PuppetTickType ==
  ASSUME NEW d \in DuckType
  PROVE  PuppetTick(d) \subseteq DuckType
<1>1. [Owe(d) EXCEPT !.applied = FALSE] \in DuckType
  BY DEF Owe, DuckType
<1> QED
  BY <1>1, MovedType, GapType DEF PuppetTick

LEMMA TypeInit == Init => TypeOK
<1> SUFFICES ASSUME Init PROVE TypeOK
  OBVIOUS
<1>1. duck \in DuckType
  BY DEF Init, DuckType, States
<1>2. pc \in [Threads -> PCs]
  BY DEF Init, PCs
<1> QED
  BY <1>1, <1>2 DEF Init, TypeOK

(* The type invariant holds throughout: no interleaving of the commands, the  *)
(* tick, the robotd callbacks and the panic threads takes a variable out of   *)
(* its range.                                                                 *)
THEOREM TypeCorrect == Spec => []TypeOK
<1>1. Init => TypeOK
  BY TypeInit
<1>2. TypeOK /\ [Next]_vars => TypeOK'
  <2> SUFFICES ASSUME TypeOK, [Next]_vars PROVE TypeOK'
    OBVIOUS
  <2> USE DEF TypeOK
  <2>0. /\ \A t, l : pc' = [pc EXCEPT ![t] = l] /\ t \in Threads /\ l \in PCs
                 => pc' \in [Threads -> PCs]
        /\ {"rx", "tick", "link"} \cup PanicThreads = Threads
        /\ AfterEvents \in PCs
        /\ \A t \in Threads : AfterStop(t) \in PCs /\ AfterOwe(t) \in PCs
    BY DEF Threads, PCs, AfterEvents, AfterStop, AfterOwe
  <2>1. CASE Load
    <3>1. ASSUME NEW x \in DuckType
          PROVE  [x EXCEPT !.state = "loaded", !.hasShow = TRUE] \in DuckType
      BY DEF DuckType, States
    <3> QED
      BY <2>1, <3>1, HelperTypes, GapType DEF Load, StopThen
  <2>2. CASE Play \/ PlayEnable \/ Unrelax
    BY <2>2, <2>0, HelperTypes DEF Play, PlayEnable, Unrelax, Goto, PCs
  <2>3. CASE PlayArm
    <3>1. ASSUME NEW x \in DuckType
          PROVE  [x EXCEPT !.state = "armed"] \in DuckType
      BY DEF DuckType, States
    <3>2. duck' \in DuckType
      BY <2>3, <3>1, HelperTypes, GapType DEF PlayArm, StopThen
    <3> QED
      BY <2>3, <2>0, <3>2 DEF PlayArm, Goto, PCs
  <2>4. CASE Seek \/ Pause \/ Resume
    BY <2>4 DEF Seek, Pause, Resume, DuckType
  <2>5. CASE Relax \/ RelaxRequest \/ RelaxFlag
    <3>1. /\ [duck EXCEPT !.torque = FALSE, !.moving = FALSE] \in DuckType
          /\ [duck EXCEPT !.relaxed = TRUE] \in DuckType
      BY DEF DuckType
    <3> QED
      BY <2>5, <2>0, <3>1 DEF Relax, RelaxRequest, RelaxFlag, Goto, PCs
  <2>6. CASE Stop
    <3> DEFINE d == Cancel(duck)
               rest == IF d.hasShow THEN "loaded" ELSE "idle"
    <3>1. /\ d \in DuckType /\ StopLands(d) \in DuckType
          /\ FaultLocked(StopFails(d)) \in DuckType
      BY HelperTypes
    <3>2. ASSUME NEW s \in States
          PROVE  [StopLands(d) EXCEPT !.state = s] \in DuckType
      BY <3>1 DEF DuckType
    <3>3. /\ [StopLands(d) EXCEPT !.state = rest] \in DuckType
          /\ [StopLands(d) EXCEPT !.state = @] \in DuckType
      BY <3>1, <3>2 DEF DuckType, States
    <3>4. duck' \in DuckType
      BY <2>6, <3>1, <3>3 DEF Stop, StopThen
    <3> QED
      BY <2>6, <3>4 DEF Stop, Mute
  <2>7. CASE Panic
    <3>1. ASSUME NEW x \in DuckType
          PROVE  [x EXCEPT !.state = "idle", !.hasShow = FALSE,
                           !.applied = FALSE] \in DuckType
      BY DEF DuckType, States
    <3> QED
      BY <2>7, <2>0, <3>1, HelperTypes DEF Panic, Mute, Goto, PCs
  <2>8. CASE PuppetPacket \/ PuppetStale
    BY <2>8 DEF PuppetPacket, PuppetStale
  <2>9. CASE Tick
    <3>1. PICK d \in MaybeStart(duck) : \E due \in SUBSET d.pend :
            duck' \in IF d.state \in {"playing", "paused"}
                      THEN PlayTick(d, due) ELSE PuppetTick(d)
      BY <2>9 DEF Tick
    <3>2. d \in DuckType
      BY StartType
    <3>3. duck' \in DuckType
      BY <3>1, <3>2, PlayTickType, PuppetTickType
    <3> QED
      BY <2>9, <2>0, <3>3 DEF Tick, Goto, PCs
  <2>10. CASE FireEvent \/ EventAnswered \/ EndOfShow
    <3>1. [StopLands(duck) EXCEPT !.state = "loaded"] \in DuckType
      BY HelperTypes DEF DuckType, States
    <3> QED
      BY <2>10, <2>0, <3>1, HelperTypes
         DEF FireEvent, EventAnswered, EndOfShow, StopThen, Goto, PCs
  <2>11. CASE Steps
    <3>1. PICK t \in Threads : StopSteps(t)
      BY <2>11 DEF Steps
    <3>2. CASE FaultStop(t) \/ FaultOwe(t) \/ StopOwed(t)
      BY <3>2, <2>0, HelperTypes DEF FaultStop, FaultOwe, StopOwed, Goto, PCs
    <3>3. CASE StopBegin(t)
      <4>1. [duck EXCEPT !.applied = FALSE] \in DuckType
        BY DEF DuckType
      <4> QED
        BY <3>3, <2>0, <4>1 DEF StopBegin, Goto, PCs
    <3>4. CASE StopRequest(t)
      <4> DEFINE d == [duck EXCEPT !.moving = @ /\ sock # "up"]
      <4>1. d \in DuckType
        BY DEF DuckType
      <4>2. ASSUME NEW x \in DuckType
            PROVE  [x EXCEPT !.landed = @ \cup {t}] \in DuckType
        BY DEF DuckType
      <4> QED
        BY <3>4, <2>0, <4>1, <4>2 DEF StopRequest, Goto, PCs
    <3>5. CASE StopSettled(t)
      <4>1. [duck EXCEPT !.owed = FALSE, !.landed = @ \ {t}] \in DuckType
        BY DEF DuckType
      <4> QED
        BY <3>5, <2>0, <4>1, GapType DEF StopSettled, Goto
    <3> QED
      BY <3>1, <3>2, <3>3, <3>4, <3>5 DEF StopSteps
  <2>12. CASE Link
    <3>1. /\ [duck EXCEPT !.moving = FALSE, !.torque = TRUE] \in DuckType
          /\ [duck EXCEPT !.relaxed = FALSE] \in DuckType
      BY DEF DuckType
    <3>2. CASE LinkBreaks \/ SocketClosed \/ SocketOpened
      BY <3>2, <3>1 DEF LinkBreaks, SocketClosed, SocketOpened
    <3>3. CASE LinkDown \/ LinkDownFault \/ LinkUp \/ LinkUpOwed \/ LinkUpClear
      BY <3>3, <2>0, <3>1, HelperTypes
         DEF LinkDown, LinkDownFault, LinkUp, LinkUpOwed, LinkUpClear, Goto, PCs
    <3> QED
      BY <2>12, <3>2, <3>3 DEF Link
  <2>13. CASE UNCHANGED vars
    BY <2>13 DEF vars
  <2> QED
    BY <2>1, <2>2, <2>3, <2>4, <2>5, <2>6, <2>7, <2>8, <2>9, <2>10,
       <2>11, <2>12, <2>13 DEF Next, Commands
<1> QED
  BY <1>1, <1>2, PTL DEF Spec

-----------------------------------------------------------------------------
(* A stop that is not lost.  StopCovered is not inductive: a thread whose     *)
(* robot.stop was answered clears what is owed, so while there is one and     *)
(* nothing was owed since, the duck must be covered without the debt.         *)

Held(d) == d.gap = "none" /\ d.moving /\ d.state \in AtRest

Covered(d, pending) ==
  /\ Held(d) => d.owed \/ d.applied \/ pending
  /\ Held(d) /\ d.landed # {} => d.applied \/ pending

StopInv == TypeOK /\ Covered(duck, StopPending)

(* What a step that leaves a duck performing, or stops it, must show.         *)
LEMMA CoveredWhen ==
  ASSUME NEW d, NEW p
  PROVE  /\ d.owed /\ d.landed = {} => Covered(d, p)
         /\ ~Held(d) => Covered(d, p)
         /\ d.applied \/ p => Covered(d, p)
BY DEF Covered

LEMMA StopThenCovered ==
  ASSUME NEW d \in DuckType, NEW then, NEW p, Answers => ~Held(then),
         NEW x \in StopThen(d, then)
  PROVE  Covered(x, p)
<1>1. FaultLocked(StopFails(d)).owed /\ FaultLocked(StopFails(d)).landed = {}
  BY DEF FaultLocked, StopFails, Owe, Cancel, Zeroed, DuckType
<1> QED
  BY <1>1, CoveredWhen DEF StopThen

LEMMA ZeroedStops ==
  ASSUME NEW d \in DuckType, Answers
  PROVE  ~Zeroed(d).moving /\ ~StopLands(d).moving
BY DEF Answers, Zeroed, StopLands, DuckType

(* A fault taken while performing.                                            *)
LEMMA FaultCovered ==
  ASSUME NEW d \in DuckType, d.state \in {"playing", "paused"},
         NEW p, NEW x \in ApplyMode(d)
  PROVE  Covered(x, p) /\ x.state \in {"playing", "paused", "fault"}
<1>1. CASE x = d
  BY <1>1, CoveredWhen DEF Held, AtRest
<1>2. CASE x = Owe(FaultLocked(d)) \/ x = StopFails(FaultLocked(d))
  <2>1. x.owed /\ x.landed = {} /\ x.state = "fault"
    BY <1>2 DEF Owe, StopFails, FaultLocked, Cancel, Zeroed, DuckType
  <2> QED
    BY <2>1, CoveredWhen
<1>3. CASE Answers /\ x = StopLands(FaultLocked(d))
  <2>1. FaultLocked(d) \in DuckType /\ FaultLocked(d).state = "fault"
    BY DEF FaultLocked, Cancel, DuckType, States
  <2>2. ~x.moving
    BY <1>3, <2>1, ZeroedStops
  <2>3. x.state = "fault"
    BY <1>3, <2>1 DEF StopLands, Zeroed, DuckType
  <2> QED
    BY <2>2, <2>3, CoveredWhen DEF Held
<1> QED
  BY <1>1, <1>2, <1>3 DEF ApplyMode, EnterFault

LEMMA StartCovered ==
  ASSUME NEW d \in DuckType, NEW p, NEW x \in StartPlaying(d)
  PROVE  Covered(x, p) /\ x.state \in {"playing", "paused", "fault"}
<1>1. /\ [Cancel(d) EXCEPT !.state = "playing"] \in DuckType
      /\ [Cancel(d) EXCEPT !.state = "playing"].state = "playing"
  BY DEF Cancel, DuckType, States
<1> QED
  BY <1>1, FaultCovered DEF StartPlaying

LEMMA EmitCovered ==
  ASSUME NEW d \in DuckType, d.state \in {"playing", "paused"},
         NEW p, NEW x \in Emit(d)
  PROVE  Covered(x, p)
<1>1. CASE x = d
  BY <1>1, CoveredWhen DEF Held, AtRest
<1>2. CASE x \in EnterFault(d)
  BY <1>2, FaultCovered DEF ApplyMode
<1>3. ASSUME NEW v, NEW q PROVE Moved(d, v, q).state \notin AtRest
  BY DEF Moved, DuckType, AtRest
<1> QED
  BY <1>1, <1>2, <1>3, CoveredWhen DEF Emit, Moves, Held

LEMMA PlayTickCovered ==
  ASSUME NEW d \in DuckType, d.state \in {"playing", "paused"},
         NEW due \in SUBSET d.pend, NEW p, NEW x \in PlayTick(d, due)
  PROVE  Covered(x, p)
<1> DEFINE Running(y) == /\ y \in DuckType /\ Covered(y, p)
                         /\ y.state \in {"playing", "paused", "fault"}
<1>1. Running(PausePhase(d, due)) /\ PausePhase(d, due).state # "fault"
  <2>1. /\ PausePhase(d, due) \in DuckType
        /\ PausePhase(d, due).state \in {"playing", "paused"}
    BY DEF PausePhase, DuckType, States
  <2> QED
    BY <2>1, CoveredWhen DEF Held, AtRest
<1>2. ASSUME NEW y \in DuckType, Running(y), y.state # "fault",
             NEW z \in ResumePhase(y, due)
      PROVE  Running(z)
  <2>1. CASE z = y
    BY <1>2, <2>1
  <2>2. CASE z \in StartPlaying(y)
    BY <2>2, StartCovered, StartType
  <2>3. CASE z = [y EXCEPT !.pend = @ \ {"resume"}]
    <3>1. z \in DuckType /\ z.state = y.state
      BY <2>3 DEF DuckType
    <3> QED
      BY <1>2, <3>1, CoveredWhen DEF Held, AtRest
  <2> QED
    BY <1>2, <2>1, <2>2, <2>3 DEF ResumePhase
<1>3. ASSUME NEW y, Running(y), NEW z \in SeekPhase(y, due)
      PROVE  Covered(z, p)
  <2> DEFINE sought == [y EXCEPT !.pend = @ \ {"seek"}]
  <2>1. sought \in DuckType /\ sought.state = y.state
    BY <1>3 DEF DuckType
  <2>2. CASE z = y
    BY <1>3, <2>2
  <2>3. CASE y.state # "fault" /\ z \in Emit(y)
    BY <1>3, <2>3, EmitCovered
  <2>4. CASE y.state # "fault" /\ z \in ApplyMode(sought)
    BY <1>3, <2>1, <2>4, FaultCovered
  <2>5. ASSUME NEW w \in StartPlaying(sought),
               z \in IF w.state = "playing" THEN Emit(w) ELSE {w}
        PROVE  Covered(z, p)
    BY <2>1, <2>5, StartCovered, StartType, EmitCovered
  <2> QED
    BY <1>3, <2>2, <2>3, <2>4, <2>5 DEF SeekPhase
<1> QED
  BY <1>1, <1>2, <1>3 DEF PlayTick

LEMMA CoveredKept ==
  ASSUME NEW d, NEW x, NEW p, NEW q, Covered(d, p), p => q,
         Held(x) => /\ Held(d) /\ (d.owed => x.owed) /\ (d.applied => x.applied)
                    /\ (x.landed # {} => d.landed # {})
  PROVE  Covered(x, q)
BY DEF Covered

LEMMA PuppetTickCovered ==
  ASSUME NEW d \in DuckType, NEW p, Covered(d, p), NEW x \in PuppetTick(d)
  PROVE  Covered(x, p)
<1>1. CASE x = [Owe(d) EXCEPT !.applied = FALSE]
  <2>1. x.owed /\ x.landed = {}
    BY <1>1 DEF Owe, DuckType
  <2> QED
    BY <2>1, CoveredWhen
<1>2. CASE x \in Moves(d, TRUE)
  <2>1. PICK v \in BOOLEAN : x = Moved(d, v, TRUE)
    BY <1>2 DEF Moves
  <2>2. x.applied
    BY <2>1 DEF Moved, DuckType
  <2> QED
    BY <2>2, CoveredWhen
<1>3. CASE x = LET z == Moved(d, FALSE, FALSE)
               IN  IF z.moving THEN WithGap(z, "zeroLost") ELSE z
  <2> DEFINE z == Moved(d, FALSE, FALSE)
  <2>1. z \in DuckType
    BY MovedType
  <2>2. ~Held(x)
    BY <1>3, <2>1 DEF Held, WithGap, DuckType
  <2> QED
    BY <2>2, CoveredWhen
<1> QED
  BY <1>1, <1>2, <1>3 DEF PuppetTick

(* Who will send a stop: a thread keeps its promise or hands it on.           *)
Pending == {"fault", "stop", "halt", "failed", "owe"}

LEMMA PendingGoto ==
  ASSUME TypeOK, NEW t \in Threads, NEW l \in PCs, Goto(t, l)
  PROVE  /\ l \in Pending => StopPending'
         /\ pc[t] \notin Pending => (StopPending => StopPending')
BY DEF TypeOK, Goto, Pending, StopPending

LEMMA PendingSame ==
  ASSUME UNCHANGED pc
  PROVE  StopPending => StopPending'
BY DEF StopPending

(* Going for `target` from whatever state: a performing duck is stopped.      *)
LEMMA LeaveCovered ==
  ASSUME TypeOK, Covered(duck, StopPending), NEW s \in States, NEW h \in BOOLEAN,
         NEW q, StopPending => q, NEW x,
         LET d == Cancel(duck)
             to(y) == [y EXCEPT !.state = s, !.hasShow = h]
         IN  x \in IF d.state \in {"armed", "playing"}
                   THEN StopThen(d, to(StopLands(d)))
                   ELSE IF d.state = "paused" /\ d.moving
                   THEN {WithGap(to(d), "heldFrozen")}
                   ELSE {to(d)}
  PROVE  Covered(x, q)
<1> DEFINE d == Cancel(duck)
           to(y) == [y EXCEPT !.state = s, !.hasShow = h]
<1>1. d \in DuckType
  BY HelperTypes DEF TypeOK
<1>2. ASSUME NEW y \in DuckType
      PROVE  to(y) \in DuckType /\ to(y).moving = y.moving
  BY DEF DuckType
<1>3. CASE x \in StopThen(d, to(StopLands(d)))
  <2>1. Answers => ~Held(to(StopLands(d)))
    BY <1>1, <1>2, ZeroedStops, HelperTypes DEF Held
  <2> QED
    BY <1>1, <1>3, <2>1, StopThenCovered
<1>4. CASE x = WithGap(to(d), "heldFrozen")
  <2>1. x.gap # "none"
    BY <1>1, <1>2, <1>4 DEF WithGap, DuckType
  <2> QED
    BY <2>1, CoveredWhen DEF Held
<1>5. CASE /\ d.state \notin {"armed", "playing"}
           /\ ~(d.state = "paused" /\ d.moving)
           /\ x = to(d)
  <2>1. /\ duck \in DuckType
        /\ x.moving = duck.moving /\ x.gap = duck.gap /\ x.owed = duck.owed
        /\ x.applied = duck.applied /\ x.landed = duck.landed
        /\ duck.state \notin {"armed", "playing"}
        /\ ~(duck.state = "paused" /\ duck.moving)
    BY <1>5 DEF TypeOK, DuckType, Cancel
  <2>2. Held(x) => Held(duck)
    BY <2>1 DEF Held, AtRest, DuckType, States
  <2> QED
    BY <2>1, <2>2, CoveredKept
<1> QED
  BY <1>3, <1>4, <1>5

LEMMA StopInvStep == StopInv /\ TypeOK' /\ [Next]_vars => StopInv'
<1> SUFFICES ASSUME TypeOK, Covered(duck, StopPending), TypeOK', [Next]_vars
             PROVE  Covered(duck', StopPending')
  BY DEF StopInv
<1>0. /\ duck \in DuckType
      /\ {"rx", "tick", "link"} \cup PanicThreads = Threads
      /\ AfterEvents \in PCs
      /\ \A t \in Threads : AfterStop(t) \in PCs /\ AfterOwe(t) \in PCs
  BY DEF TypeOK, Threads, PCs, AfterEvents, AfterStop, AfterOwe
<1>1. CASE Load
  BY <1>1, LeaveCovered, PendingSame DEF Load, States
<1>2. CASE Play \/ PlayEnable \/ Relax \/ RelaxRequest \/ RelaxFlag \/ Unrelax
  <2>1. /\ duck'.state = duck.state /\ duck'.gap = duck.gap
        /\ duck'.owed = duck.owed /\ duck'.applied = duck.applied
        /\ duck'.landed = duck.landed /\ (duck'.moving => duck.moving)
    BY <1>0, <1>2 DEF Play, PlayEnable, Relax, RelaxRequest, RelaxFlag,
       Unrelax, EnableTorque, TorqueOn, DuckType
  <2>2. StopPending => StopPending'
    BY <1>0, <1>2, PendingGoto DEF Play, PlayEnable, Relax, RelaxRequest,
       RelaxFlag, Unrelax, Pending, PCs
  <2> QED
    BY <2>1, <2>2, CoveredKept DEF Held
<1>3. CASE PlayArm
  <2>1. StopPending => StopPending'
    BY <1>0, <1>3, PendingGoto DEF PlayArm, Pending, PCs
  <2>2. CASE UNCHANGED duck
    BY <2>1, <2>2, CoveredKept
  <2>3. CASE duck.hasShow /\ ~UNCHANGED duck
    <3>1. \A y \in DuckType : y.hasShow =>
             [y EXCEPT !.state = "armed"]
               = [y EXCEPT !.state = "armed", !.hasShow = TRUE]
      BY DEF DuckType
    <3>2. /\ Cancel(duck) \in DuckType /\ Cancel(duck).hasShow
          /\ StopLands(Cancel(duck)) \in DuckType
          /\ StopLands(Cancel(duck)).hasShow
      <4>1. Cancel(duck) \in DuckType /\ Cancel(duck).hasShow
        BY <1>0, <2>3 DEF Cancel, DuckType
      <4>2. \A y \in DuckType : StopLands(y).hasShow = y.hasShow
        BY DEF StopLands, Zeroed, DuckType
      <4> QED
        BY <4>1, <4>2, HelperTypes
    <3> QED
      BY <1>3, <2>1, <2>3, <3>1, <3>2, LeaveCovered DEF PlayArm, States
  <2> QED
    BY <1>3, <2>2, <2>3 DEF PlayArm
<1>4. CASE Seek \/ Pause \/ Resume
  <2>1. /\ duck'.state = duck.state /\ duck'.gap = duck.gap
        /\ duck'.owed = duck.owed /\ duck'.applied = duck.applied
        /\ duck'.landed = duck.landed /\ duck'.moving = duck.moving
    BY <1>0, <1>4 DEF Seek, Pause, Resume, DuckType
  <2>2. StopPending => StopPending'
    BY <1>4, PendingSame DEF Seek, Pause, Resume
  <2> QED
    BY <2>1, <2>2, CoveredKept DEF Held
<1>5. CASE Stop
  <2> DEFINE d == Cancel(duck)
             rest == IF d.hasShow THEN "loaded" ELSE "idle"
             next == IF d.state \in {"armed", "playing", "paused"} THEN rest
                     ELSE StopLands(d).state
             stopped == [StopLands(d) EXCEPT !.state = next]
  <2>1. d \in DuckType /\ StopLands(d) \in DuckType
    BY <1>0, HelperTypes
  <2>2. Answers => ~Held(stopped)
    BY <2>1, ZeroedStops DEF Held, DuckType
  <2>3. CASE duck' \in StopThen(d, stopped)
    BY <2>1, <2>2, <2>3, StopThenCovered
  <2>4. CASE duck' = d
    <3>1. /\ d.state = duck.state /\ d.gap = duck.gap /\ d.owed = duck.owed
          /\ d.applied = duck.applied /\ d.landed = duck.landed
          /\ d.moving = duck.moving
      BY <1>0 DEF Cancel, DuckType
    <3>2. StopPending => StopPending'
      BY <1>5, PendingSame DEF Stop
    <3> QED
      BY <2>4, <3>1, <3>2, CoveredKept DEF Held
  <2> QED
    BY <1>5, <2>3, <2>4 DEF Stop
<1>6. CASE Panic
  <2>1. StopPending'
    BY <1>0, <1>6, PendingGoto DEF Panic, Pending, PCs
  <2> QED
    BY <2>1, CoveredWhen
<1>7. CASE PuppetPacket \/ PuppetStale
  BY <1>7, PendingSame, CoveredKept DEF PuppetPacket, PuppetStale
<1>8. CASE Tick
  <2>1. PICK d \in MaybeStart(duck) : \E due \in SUBSET d.pend :
          duck' \in IF d.state \in {"playing", "paused"}
                    THEN PlayTick(d, due) ELSE PuppetTick(d)
    BY <1>8 DEF Tick
  <2>2. d \in DuckType /\ Covered(d, StopPending)
    <3>1. CASE d = duck
      BY <1>0, <3>1
    <3>2. CASE d \in StartPlaying(duck)
      BY <1>0, <3>2, StartCovered, StartType
    <3>3. CASE duck.state = "armed" /\ d = [Cancel(duck) EXCEPT !.state = "loaded"]
      <4>1. /\ d \in DuckType /\ d.gap = duck.gap /\ d.owed = duck.owed
            /\ d.applied = duck.applied /\ d.landed = duck.landed
            /\ d.moving = duck.moving
        BY <1>0, <3>3 DEF Cancel, DuckType, States
      <4> QED
        BY <3>3, <4>1 DEF Covered, Held, AtRest
    <3> QED
      BY <2>1, <3>1, <3>2, <3>3 DEF MaybeStart
  <2>3. Covered(duck', StopPending)
    BY <2>1, <2>2, PlayTickCovered, PuppetTickCovered
  <2>4. StopPending => StopPending'
    BY <1>0, <1>8, PendingGoto DEF Tick, Pending, PCs
  <2> QED
    BY <2>3, <2>4, CoveredKept
<1>9. CASE FireEvent \/ EventAnswered
  <2>1. CASE UNCHANGED duck
    <3>1. StopPending => StopPending'
      BY <1>0, <1>9, PendingGoto DEF FireEvent, EventAnswered, Pending, PCs
    <3> QED
      BY <2>1, <3>1, CoveredKept
  <2>2. CASE ~UNCHANGED duck
    <3>1. StopPending'
      BY <1>0, <1>9, <2>2, PendingGoto DEF FireEvent, EventAnswered, Pending, PCs
    <3> QED
      BY <3>1, CoveredWhen
  <2> QED
    BY <2>1, <2>2
<1>10. CASE EndOfShow
  <2> DEFINE stopped == [StopLands(duck) EXCEPT !.state = "loaded"]
  <2>1. Answers => ~Held(stopped)
    BY <1>0, ZeroedStops, HelperTypes DEF Held, DuckType
  <2>2. CASE duck' \in StopThen(duck, stopped)
    BY <1>0, <2>1, <2>2, StopThenCovered
  <2>3. CASE UNCHANGED duck
    <3>1. StopPending => StopPending'
      BY <1>0, <1>10, PendingGoto DEF EndOfShow, Pending, PCs
    <3> QED
      BY <2>3, <3>1, CoveredKept
  <2> QED
    BY <1>10, <2>2, <2>3 DEF EndOfShow, StopThen
<1>11. CASE Steps
  <2>1. PICK t \in Threads : StopSteps(t)
    BY <1>11 DEF Steps
  <2>2. CASE FaultStop(t) \/ StopBegin(t)
    <3>1. StopPending'
      BY <2>2, PendingGoto DEF FaultStop, StopBegin, Pending, PCs
    <3> QED
      BY <3>1, CoveredWhen
  <2>3. CASE FaultOwe(t) \/ StopOwed(t)
    <3>1. duck'.owed /\ duck'.landed = {}
      BY <1>0, <2>3 DEF FaultOwe, StopOwed, Owe, DuckType
    <3> QED
      BY <3>1, CoveredWhen
  <2>4. CASE StopRequest(t)
    <3>1. CASE pc' = [pc EXCEPT ![t] = "failed"]
      <4>1. StopPending'
        BY <3>1, PendingGoto DEF Goto, Pending, PCs
      <4> QED
        BY <4>1, CoveredWhen
    <3>2. CASE Answers /\ duck' = [[duck EXCEPT !.moving = @ /\ sock # "up"]
                                     EXCEPT !.landed = @ \cup {t}]
      <4>1. ~duck'.moving
        BY <1>0, <3>2 DEF Answers, DuckType
      <4> QED
        BY <4>1, CoveredWhen DEF Held
    <3> QED
      BY <2>4, <3>1, <3>2 DEF StopRequest, Goto
  <2>5. CASE StopSettled(t)
    <3>1. StopPending => StopPending'
      BY <1>0, <2>5, PendingGoto DEF StopSettled, Pending
    <3> DEFINE d == [duck EXCEPT !.owed = FALSE, !.landed = @ \ {t}]
    <3>2. /\ d \in DuckType /\ d.state = duck.state /\ d.gap = duck.gap
          /\ d.applied = duck.applied /\ d.moving = duck.moving
          /\ d.landed = duck.landed \ {t}
      BY <1>0 DEF DuckType
    <3>3. CASE duck.owed /\ t \notin duck.landed
      <4>1. duck' = WithGap(d, "owedErased")
        BY <2>5, <3>3 DEF StopSettled
      <4>2. duck'.gap # "none"
        BY <3>2, <4>1 DEF WithGap, DuckType
      <4> QED
        BY <4>2, CoveredWhen DEF Held
    <3>4. CASE ~(duck.owed /\ t \notin duck.landed)
      <4>1. duck' = d
        BY <2>5, <3>4 DEF StopSettled
      <4>2. Held(d) => duck.applied \/ StopPending
        BY <3>2, <3>4 DEF Covered, Held
      <4> QED
        BY <3>1, <3>2, <4>1, <4>2 DEF Covered, Held
    <3> QED
      BY <3>3, <3>4
  <2> QED
    BY <2>1, <2>2, <2>3, <2>4, <2>5 DEF StopSteps
<1>12. CASE Link
  <2>1. CASE LinkBreaks \/ SocketClosed
    BY <2>1, PendingSame, CoveredKept DEF LinkBreaks, SocketClosed
  <2>2. CASE LinkDown \/ LinkUp \/ LinkUpOwed
    <3>1. StopPending => StopPending'
      BY <1>0, <2>2, PendingGoto DEF LinkDown, LinkUp, LinkUpOwed, Pending, PCs
    <3> QED
      BY <2>2, <3>1, CoveredKept DEF LinkDown, LinkUp, LinkUpOwed
  <2>3. CASE LinkDownFault
    <3>1. CASE UNCHANGED duck
      <4>1. StopPending => StopPending'
        BY <1>0, <2>3, PendingGoto DEF LinkDownFault, Pending, PCs
      <4> QED
        BY <3>1, <4>1, CoveredKept
    <3>2. CASE ~UNCHANGED duck
      <4>1. StopPending'
        BY <1>0, <2>3, <3>2, PendingGoto DEF LinkDownFault, Pending, PCs
      <4> QED
        BY <4>1, CoveredWhen
    <3> QED
      BY <3>1, <3>2
  <2>4. CASE SocketOpened \/ LinkUpClear
    <3>1. /\ duck'.state = duck.state /\ duck'.gap = duck.gap
          /\ duck'.owed = duck.owed /\ duck'.applied = duck.applied
          /\ duck'.landed = duck.landed /\ (duck'.moving => duck.moving)
      BY <1>0, <2>4 DEF SocketOpened, LinkUpClear, DuckType
    <3>2. StopPending => StopPending'
      BY <1>0, <2>4, PendingGoto, PendingSame DEF SocketOpened, LinkUpClear, Pending, PCs
    <3> QED
      BY <3>1, <3>2, CoveredKept DEF Held
  <2> QED
    BY <1>12, <2>1, <2>2, <2>3, <2>4 DEF Link
<1>13. CASE UNCHANGED vars
  BY <1>13, PendingSame, CoveredKept DEF vars
<1> QED
  BY <1>1, <1>2, <1>3, <1>4, <1>5, <1>6, <1>7, <1>8, <1>9, <1>10, <1>11,
     <1>12, <1>13 DEF Next, Commands

(* No order of commands, ticks, faults, panics, failed requests and           *)
(* reconnections loses the stop of a duck that performs nothing any more,     *)
(* but for the three lapses that `gap` names.                                 *)
THEOREM StopsAreCovered == Spec => []StopCovered
<1>1. Init => StopInv
  <2>1. Init => TypeOK
    BY TypeInit
  <2>2. Init => ~Held(duck)
    BY DEF Init, Held
  <2> QED
    BY <2>1, <2>2, CoveredWhen DEF StopInv
<1>2. StopInv => StopCovered
  BY DEF StopInv, Covered, Held, StopCovered
<1> QED
  BY <1>1, <1>2, TypeCorrect, StopInvStep, PTL DEF Spec

=============================================================================
