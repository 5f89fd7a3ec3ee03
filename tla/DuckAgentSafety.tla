--------------------------- MODULE DuckAgentSafety ---------------------------
(***************************************************************************)
(* More theorems about DuckAgent: a performance starts clean, the torque   *)
(* is never taken from a performing duck, a muted puppet stays silent, and *)
(* the agent implements the protocol's state diagram.                      *)
(***************************************************************************)
EXTENDS DuckAgentProofs

-----------------------------------------------------------------------------
(* What the steps of a tick leave alone, and where they lead.                 *)

(* x is d but for what a tick may touch; only a fresh puppet takes over.      *)
Keeps(d, x) ==
  /\ x \in DuckType
  /\ x.hasShow = d.hasShow /\ x.torque = d.torque
  /\ x.applied => d.applied \/ fresh

SameRun(d, x) == x.state = d.state /\ x.frozen = d.frozen /\ x.pend = d.pend

Faulted(x) == x.state = "fault" /\ ~x.frozen /\ x.pend = {}

LEMMA HelpersKeep ==
  ASSUME NEW d \in DuckType
  PROVE  /\ Keeps(d, Owe(d)) /\ SameRun(d, Owe(d))
         /\ Keeps(d, StopFails(d)) /\ SameRun(d, StopFails(d))
         /\ Keeps(d, StopLands(d)) /\ SameRun(d, StopLands(d))
         /\ Keeps(d, FaultLocked(d)) /\ Faulted(FaultLocked(d))
<1>1. Keeps(d, Owe(d)) /\ SameRun(d, Owe(d))
  BY HelperTypes DEF Owe, DuckType, Keeps, SameRun
<1>2. ASSUME NEW y \in DuckType PROVE Keeps(y, Zeroed(y)) /\ SameRun(y, Zeroed(y))
  <2>1. /\ Zeroed(y).hasShow = y.hasShow /\ Zeroed(y).torque = y.torque
        /\ Zeroed(y).applied = FALSE /\ SameRun(y, Zeroed(y))
    BY DEF Zeroed, DuckType, SameRun
  <2> QED
    BY <2>1, HelperTypes DEF Keeps
<1>3. Keeps(d, StopFails(d)) /\ SameRun(d, StopFails(d))
  <2>1. Zeroed(d) \in DuckType
    BY HelperTypes
  <2>2. /\ StopFails(d).hasShow = Zeroed(d).hasShow
        /\ StopFails(d).torque = Zeroed(d).torque
        /\ StopFails(d).applied = Zeroed(d).applied
        /\ SameRun(Zeroed(d), StopFails(d))
    BY <2>1 DEF StopFails, Owe, DuckType, SameRun
  <2> QED
    BY <1>2, <2>2, HelperTypes DEF Keeps, SameRun
<1>4. Keeps(d, StopLands(d)) /\ SameRun(d, StopLands(d))
  <2>1. Zeroed(d) \in DuckType
    BY HelperTypes
  <2>2. /\ StopLands(d).hasShow = Zeroed(d).hasShow
        /\ StopLands(d).torque = Zeroed(d).torque
        /\ StopLands(d).applied = Zeroed(d).applied
        /\ SameRun(Zeroed(d), StopLands(d))
    BY <2>1 DEF StopLands, DuckType, SameRun
  <2> QED
    BY <1>2, <2>2, HelperTypes DEF Keeps, SameRun
<1>5. Keeps(d, FaultLocked(d)) /\ Faulted(FaultLocked(d))
  BY HelperTypes DEF FaultLocked, Cancel, DuckType, Keeps, Faulted
<1> QED
  BY <1>1, <1>3, <1>4, <1>5

LEMMA KeepsTwice ==
  ASSUME NEW d, NEW x, NEW y, Keeps(d, x), Keeps(x, y)
  PROVE  Keeps(d, y)
BY DEF Keeps

LEMMA EnterFaultKeeps ==
  ASSUME NEW d \in DuckType, NEW x \in ApplyMode(d)
  PROVE  /\ Keeps(d, x)
         /\ x = d \/ (d.state \in {"armed", "playing"} /\ Faulted(x))
<1> DEFINE f == FaultLocked(d)
<1>1. f \in DuckType /\ Keeps(d, f) /\ Faulted(f)
  BY HelpersKeep, HelperTypes
<1>2. /\ Keeps(f, Owe(f)) /\ SameRun(f, Owe(f))
      /\ Keeps(f, StopFails(f)) /\ SameRun(f, StopFails(f))
      /\ Keeps(f, StopLands(f)) /\ SameRun(f, StopLands(f))
  BY <1>1, HelpersKeep
<1>3. \/ x = d
      \/ /\ d.state \in {"armed", "playing"}
         /\ x = Owe(f) \/ x = StopFails(f) \/ x = StopLands(f)
  BY DEF ApplyMode, EnterFault
<1>4. Keeps(d, d)
  BY DEF Keeps
<1> QED
  BY <1>1, <1>2, <1>3, <1>4, KeepsTwice DEF SameRun, Faulted

LEMMA StartKeeps ==
  ASSUME NEW d \in DuckType, NEW x \in StartPlaying(d)
  PROVE  /\ Keeps(d, x)
         /\ x.state \in {"playing", "fault"} /\ ~x.frozen /\ x.pend = {}
<1> DEFINE p == [Cancel(d) EXCEPT !.state = "playing"]
<1>1. /\ p \in DuckType /\ p.state = "playing" /\ ~p.frozen /\ p.pend = {}
      /\ Keeps(d, p)
  BY DEF Cancel, DuckType, States, Keeps
<1>2. Keeps(p, x) /\ (x = p \/ Faulted(x))
  BY <1>1, EnterFaultKeeps DEF StartPlaying
<1>3. Keeps(d, x)
  BY <1>1, <1>2, KeepsTwice
<1> QED
  BY <1>1, <1>2, <1>3 DEF Faulted

LEMMA EmitKeeps ==
  ASSUME NEW d \in DuckType, fresh \in BOOLEAN, NEW x \in Emit(d)
  PROVE  /\ Keeps(d, x)
         /\ SameRun(d, x) \/ (d.state \in {"armed", "playing"} /\ Faulted(x))
<1>1. CASE x = d
  BY <1>1 DEF Keeps, SameRun
<1>2. CASE x \in EnterFault(d)
  BY <1>2, EnterFaultKeeps DEF ApplyMode, SameRun
<1>3. ASSUME NEW v \in BOOLEAN, NEW p \in BOOLEAN, p => fresh, x = Moved(d, v, p)
      PROVE  Keeps(d, x) /\ SameRun(d, x)
  <2>1. x \in DuckType
    BY <1>3, MovedType DEF Moves
  <2> QED
    BY <1>3, <2>1 DEF Moved, DuckType, Keeps, SameRun
<1> QED
  BY <1>1, <1>2, <1>3 DEF Emit, Moves

LEMMA PlayTickKeeps ==
  ASSUME NEW d \in DuckType, d.state \in {"playing", "paused"},
         d.frozen <=> d.state = "paused", fresh \in BOOLEAN,
         NEW due \in SUBSET d.pend, NEW x \in PlayTick(d, due)
  PROVE  /\ Keeps(d, x)
         /\ x.state \in {"playing", "paused", "fault"}
         /\ x.frozen <=> x.state = "paused"
         /\ x.state = "fault" => x.pend = {}
         /\ due = {} /\ d.state = "playing" => x.state # "paused"
<1> DEFINE Good(y) == /\ Keeps(d, y)
                      /\ y.state \in {"playing", "paused", "fault"}
                      /\ y.frozen <=> y.state = "paused"
                      /\ y.state = "fault" => y.pend = {}
                      /\ due = {} /\ d.state = "playing" => y.state # "paused"
<1>1. Good(PausePhase(d, due)) /\ PausePhase(d, due).state # "fault"
  BY DEF PausePhase, DuckType, States, Keeps
<1>2. ASSUME NEW y, Good(y), y.state # "fault", NEW z \in ResumePhase(y, due)
      PROVE  Good(z)
  <2>0. y \in DuckType
    BY <1>2 DEF Keeps
  <2>1. CASE z = y
    BY <1>2, <2>1
  <2>2. CASE z \in StartPlaying(y)
    <3>1. Keeps(y, z) /\ z.state \in {"playing", "fault"} /\ ~z.frozen /\ z.pend = {}
      BY <2>0, <2>2, StartKeeps
    <3> QED
      BY <1>2, <3>1, KeepsTwice
  <2>3. CASE z = [y EXCEPT !.pend = @ \ {"resume"}]
    <3>1. Keeps(y, z) /\ z.state = y.state /\ z.frozen = y.frozen
      BY <2>0, <2>3 DEF DuckType, Keeps
    <3> QED
      BY <1>2, <3>1, KeepsTwice
  <2> QED
    BY <1>2, <2>1, <2>2, <2>3 DEF ResumePhase
<1>3. ASSUME NEW y, Good(y), y.state # "fault", NEW z \in Emit(y)
      PROVE  Good(z)
  <2>1. y \in DuckType
    BY <1>3 DEF Keeps
  <2>2. Keeps(y, z) /\ (SameRun(y, z) \/ Faulted(z))
    BY <1>3, <2>1, EmitKeeps
  <2> QED
    BY <1>3, <2>2, KeepsTwice DEF SameRun, Faulted
<1>4. ASSUME NEW y, Good(y), NEW z \in SeekPhase(y, due)
      PROVE  Good(z)
  <2> DEFINE sought == [y EXCEPT !.pend = @ \ {"seek"}]
  <2>1. /\ y \in DuckType /\ sought \in DuckType /\ Keeps(y, sought)
        /\ sought.state = y.state /\ sought.frozen = y.frozen
    BY <1>4 DEF DuckType, Keeps
  <2>2. CASE y.state = "fault" /\ z = y
    BY <1>4, <2>2
  <2>3. CASE y.state # "fault" /\ z \in Emit(y)
    BY <1>3, <1>4, <2>3
  <2>4. CASE y.state # "fault" /\ z \in ApplyMode(sought)
    <3>1. Keeps(sought, z) /\ (z = sought \/ Faulted(z))
      BY <2>1, <2>4, EnterFaultKeeps
    <3>2. Keeps(d, z)
      BY <1>4, <2>1, <3>1, KeepsTwice
    <3> QED
      BY <1>4, <2>1, <2>4, <3>1, <3>2 DEF Faulted
  <2>5. ASSUME NEW w \in StartPlaying(sought),
               z \in IF w.state = "playing" THEN Emit(w) ELSE {w}
        PROVE  Good(z)
    <3>1. /\ Keeps(sought, w)
          /\ w.state \in {"playing", "fault"} /\ ~w.frozen /\ w.pend = {}
      BY <2>1, <2>5, StartKeeps
    <3>2. Good(w)
      BY <1>4, <2>1, <3>1, KeepsTwice
    <3> QED
      BY <1>3, <2>5, <3>1, <3>2
  <2> QED
    BY <1>4, <2>2, <2>3, <2>4, <2>5 DEF SeekPhase
<1> QED
  BY <1>1, <1>2, <1>4 DEF PlayTick

LEMMA PuppetTickKeeps ==
  ASSUME NEW d \in DuckType, fresh \in BOOLEAN, NEW x \in PuppetTick(d)
  PROVE  Keeps(d, x) /\ SameRun(d, x)
<1>1. CASE x = d
  BY <1>1 DEF Keeps, SameRun
<1>2. CASE x = [Owe(d) EXCEPT !.applied = FALSE]
  BY <1>2 DEF Owe, DuckType, Keeps, SameRun
<1>3. ASSUME NEW v \in BOOLEAN, fresh, x = Moved(d, v, TRUE)
      PROVE  Keeps(d, x) /\ SameRun(d, x)
  <2>1. x \in DuckType
    BY <1>3, MovedType DEF Moves
  <2> QED
    BY <1>3, <2>1 DEF Moved, DuckType, Keeps, SameRun
<1>4. CASE x = LET z == Moved(d, FALSE, FALSE)
               IN  IF z.moving THEN WithGap(z, "zeroLost") ELSE z
  <2> DEFINE z == Moved(d, FALSE, FALSE)
  <2>0. z \in DuckType
    BY MovedType
  <2>1. z \in DuckType /\ Keeps(d, z) /\ SameRun(d, z)
    <3>1. /\ z.hasShow = d.hasShow /\ z.torque = d.torque /\ z.applied = FALSE
          /\ SameRun(d, z)
      BY DEF Moved, DuckType, SameRun
    <3> QED
      BY <2>0, <3>1 DEF Keeps
  <2>2. WithGap(z, "zeroLost") \in DuckType
    BY <2>1, GapType
  <2>3. Keeps(z, WithGap(z, "zeroLost")) /\ SameRun(z, WithGap(z, "zeroLost"))
    BY <2>1, <2>2 DEF WithGap, DuckType, Keeps, SameRun
  <2> QED
    BY <1>4, <2>1, <2>3, KeepsTwice DEF SameRun
<1> QED
  BY <1>1, <1>2, <1>3, <1>4 DEF PuppetTick, Moves

LEMMA CancelKeeps ==
  ASSUME NEW d \in DuckType
  PROVE  /\ Cancel(d) \in DuckType /\ Keeps(d, Cancel(d))
         /\ ~Cancel(d).frozen /\ Cancel(d).pend = {}
         /\ Cancel(d).state = d.state /\ Cancel(d).hasShow = d.hasShow
         /\ Cancel(d).applied = d.applied /\ Cancel(d).torque = d.torque
<1>1. /\ ~Cancel(d).frozen /\ Cancel(d).pend = {}
      /\ Cancel(d).state = d.state /\ Cancel(d).hasShow = d.hasShow
      /\ Cancel(d).applied = d.applied /\ Cancel(d).torque = d.torque
  BY DEF Cancel, DuckType
<1> QED
  BY <1>1, HelperTypes DEF Keeps

LEMMA LandsKeeps ==
  ASSUME NEW d \in DuckType
  PROVE  /\ StopLands(d) \in DuckType /\ SameRun(d, StopLands(d))
         /\ StopLands(d).hasShow = d.hasShow /\ StopLands(d).torque = d.torque
         /\ StopLands(d).applied = FALSE
<1>1. /\ SameRun(d, StopLands(d)) /\ StopLands(d).hasShow = d.hasShow
      /\ StopLands(d).torque = d.torque
  BY HelpersKeep DEF Keeps
<1>2. StopLands(d).applied = FALSE
  BY DEF StopLands, Zeroed, DuckType
<1> QED
  BY <1>1, <1>2, HelperTypes

LEMMA GapKeeps ==
  ASSUME NEW d \in DuckType, NEW g \in {"none", "heldFrozen", "zeroLost", "owedErased"}
  PROVE  /\ WithGap(d, g) \in DuckType /\ SameRun(d, WithGap(d, g))
         /\ WithGap(d, g).hasShow = d.hasShow /\ WithGap(d, g).torque = d.torque
         /\ WithGap(d, g).applied = d.applied
<1>1. /\ SameRun(d, WithGap(d, g))
      /\ WithGap(d, g).hasShow = d.hasShow /\ WithGap(d, g).torque = d.torque
      /\ WithGap(d, g).applied = d.applied
  BY DEF WithGap, DuckType, SameRun
<1> QED
  BY <1>1, GapType

LEMMA StopThenKeeps ==
  ASSUME NEW d \in DuckType, NEW then, NEW x \in StopThen(d, then)
  PROVE  (x = then /\ Answers) \/ (Keeps(d, x) /\ Faulted(x) /\ ~x.applied)
<1> DEFINE s == StopFails(d)
<1>1. s \in DuckType /\ Keeps(d, s)
  BY HelpersKeep, HelperTypes
<1>2. ~s.applied
  BY DEF StopFails, Owe, Zeroed, DuckType
<1>3. Keeps(s, FaultLocked(s)) /\ Faulted(FaultLocked(s))
  BY <1>1, HelpersKeep
<1>4. ~FaultLocked(s).applied
  BY <1>1, <1>2 DEF FaultLocked, Cancel, DuckType
<1>5. x = FaultLocked(s) \/ (x = then /\ Answers)
  BY DEF StopThen
<1> QED
  BY <1>1, <1>3, <1>4, <1>5, KeepsTwice

-----------------------------------------------------------------------------
(* The inductive invariant.                                                   *)

Clean(d) ==
  /\ d.state \in {"loaded", "armed", "playing", "paused"} => d.hasShow
  /\ d.frozen <=> d.state = "paused"
  /\ d.state \in {"idle", "armed", "fault"} => d.pend = {}

(* robot.relax is asked for with the duck at rest, though no lock is held.    *)
RelaxAtRest == pc["rx"] = "relax" => duck.state \in {"idle", "loaded"}

(* The loss of robotd is handled from the moment its callback has the lock.   *)
LossHandled == ~connected /\ pc["link"] # "down" => duck.state # "armed"

Safe ==
  /\ TypeOK
  /\ Clean(duck)
  /\ MutedSilent
  /\ RelaxAtRest
  /\ LossHandled

(* What every step keeps, and may do.                                         *)
SafeStep ==
  /\ Clean(duck') /\ MutedSilent' /\ RelaxAtRest' /\ LossHandled'
  /\ duck.torque /\ ~duck'.torque => duck.state \in {"idle", "loaded"}
  /\ [Protocol!Next]_(Protocol!vars)

LEMMA GotoAt ==
  ASSUME pc \in [Threads -> PCs], NEW t \in Threads, NEW l, Goto(t, l)
  PROVE  pc'[t] = l /\ \A u \in Threads : u # t => pc'[u] = pc[u]
BY DEF Goto

LEMMA NamedThreads == {"rx", "tick", "link"} \subseteq Threads
BY DEF Threads

(* A step that leaves the duck to itself.                                     *)
LEMMA DuckSame ==
  ASSUME Safe, duck' = duck, MutedSilent', RelaxAtRest', LossHandled'
  PROVE  SafeStep
BY DEF Safe, SafeStep, Protocol!vars

(* The duck falls into a fault.                                               *)
LEMMA DuckFaults ==
  ASSUME Safe, Keeps(duck, duck'), Faulted(duck'), UNCHANGED <<fresh, muted>>,
         pc'["rx"] # "relax"
  PROVE  SafeStep
<1>1. Clean(duck') /\ LossHandled' /\ RelaxAtRest'
  BY DEF Clean, Faulted, LossHandled, RelaxAtRest
<1>2. MutedSilent'
  BY DEF Safe, MutedSilent, Keeps
<1>3. [Protocol!Next]_(Protocol!vars)
  BY DEF Keeps, Faulted, Protocol!Next, Protocol!Fault
<1> QED
  BY <1>1, <1>2, <1>3 DEF SafeStep, Keeps

(* The duck stays where it was in its performance.                            *)
LEMMA DuckKeepsRun ==
  ASSUME Safe, Keeps(duck, duck'), SameRun(duck, duck'),
         UNCHANGED <<fresh, muted>>, RelaxAtRest', LossHandled'
  PROVE  SafeStep
<1>1. Clean(duck')
  BY DEF Safe, Clean, Keeps, SameRun
<1>2. MutedSilent'
  BY DEF Safe, MutedSilent, Keeps
<1>3. Protocol!vars' = Protocol!vars
  BY DEF Protocol!vars, Keeps, SameRun
<1> QED
  BY <1>1, <1>2, <1>3 DEF SafeStep, Keeps
-----------------------------------------------------------------------------
LEMMA CommandsSafe ==
  ASSUME Safe, Commands
  PROVE  SafeStep
<1> USE NamedThreads
<1>0. duck \in DuckType /\ pc \in [Threads -> PCs] /\ Clean(duck) /\ MutedSilent
  BY DEF Safe, TypeOK
<1>1. CASE Load
  <2> DEFINE c == Cancel(duck)
             to(x) == [x EXCEPT !.state = "loaded", !.hasShow = TRUE]
             Loaded(x) == /\ x \in DuckType /\ x.state = "loaded" /\ x.hasShow
                          /\ ~x.frozen /\ x.torque = duck.torque
                          /\ (x.applied => duck.applied)
  <2>1. /\ c \in DuckType /\ Keeps(duck, c) /\ ~c.frozen
        /\ c.torque = duck.torque /\ (c.applied => duck.applied)
    BY <1>0, CancelKeeps
  <2>2. /\ StopLands(c) \in DuckType /\ ~StopLands(c).frozen
        /\ StopLands(c).torque = duck.torque /\ ~StopLands(c).applied
    BY <2>1, LandsKeeps DEF SameRun
  <2>3. ASSUME NEW x \in DuckType, ~x.frozen, x.torque = duck.torque,
               x.applied => duck.applied
        PROVE  Loaded(to(x))
    BY <2>3 DEF DuckType, States
  <2>4. Loaded(to(c)) /\ Loaded(to(StopLands(c))) /\ Loaded(WithGap(to(c), "heldFrozen"))
    <3>1. Loaded(to(c)) /\ Loaded(to(StopLands(c)))
      BY <2>1, <2>2, <2>3
    <3> HIDE DEF to
    <3> QED
      BY <3>1, GapKeeps DEF SameRun
  <2>5. duck' \in StopThen(c, to(StopLands(c)))
          \/ duck' = WithGap(to(c), "heldFrozen") \/ duck' = to(c)
    BY <1>1 DEF Load
  <2>6. Loaded(duck') \/ (Keeps(duck, duck') /\ Faulted(duck'))
    <3> HIDE DEF c, to
    <3> QED
      BY <2>1, <2>4, <2>5, StopThenKeeps, KeepsTwice
  <2>7. UNCHANGED <<fresh, muted, pc>> /\ pc["rx"] = "ready"
    BY <1>1 DEF Load
  <2>8. CASE Loaded(duck')
    <3>1. MutedSilent'
      BY <1>0, <2>7, <2>8 DEF MutedSilent
    <3> QED
      BY <2>7, <2>8, <3>1 DEF SafeStep, Clean, RelaxAtRest, LossHandled,
         Protocol!Next, Protocol!Load
  <2> QED
    BY <2>6, <2>7, <2>8, DuckFaults
<1>2. CASE Play \/ Relax
  <2>1. duck' = duck /\ UNCHANGED <<fresh, muted, connected>>
    BY <1>2 DEF Play, Relax
  <2>2. /\ pc'["link"] = pc["link"]
        /\ (pc'["rx"] = "relax" => duck.state \in {"idle", "loaded"})
    BY <1>0, <1>2 DEF Play, Relax, Goto, DuckType, States
  <2> QED
    BY <1>0, <2>1, <2>2, DuckSame DEF Safe, MutedSilent, RelaxAtRest, LossHandled
<1>3. CASE PlayEnable \/ Unrelax \/ RelaxFlag
  <2>1. /\ duck' \in {duck, TorqueOn(duck), [duck EXCEPT !.torque = TRUE],
                       [duck EXCEPT !.relaxed = TRUE]}
        /\ UNCHANGED <<fresh, muted, connected>>
    BY <1>3 DEF PlayEnable, Unrelax, RelaxFlag, EnableTorque
  <2>2. pc'["link"] = pc["link"] /\ pc'["rx"] # "relax"
    BY <1>0, <1>3 DEF PlayEnable, Unrelax, RelaxFlag, Goto
  <2>3. /\ duck'.hasShow = duck.hasShow /\ duck'.applied = duck.applied
        /\ SameRun(duck, duck') /\ (duck.torque => duck'.torque)
    BY <1>0, <2>1 DEF TorqueOn, DuckType, SameRun
  <2>4. Clean(duck') /\ MutedSilent' /\ RelaxAtRest' /\ LossHandled'
    BY <1>0, <2>1, <2>2, <2>3
    DEF Safe, Clean, SameRun, MutedSilent, RelaxAtRest, LossHandled
  <2>5. Protocol!vars' = Protocol!vars
    BY <2>3 DEF Protocol!vars, SameRun
  <2> QED
    BY <2>3, <2>4, <2>5 DEF SafeStep
<1>4. CASE PlayArm
  <2> DEFINE c == Cancel(duck)
             to(x) == [x EXCEPT !.state = "armed"]
             Armed(x) == /\ x \in DuckType /\ x.state = "armed" /\ x.hasShow
                         /\ ~x.frozen /\ x.pend = {} /\ x.torque = duck.torque
                         /\ (x.applied => duck.applied)
  <2>1. UNCHANGED <<fresh, muted, connected>> /\ pc'["link"] = pc["link"]
          /\ pc'["rx"] # "relax"
    BY <1>0, <1>4 DEF PlayArm, Goto
  <2>2. CASE duck' = duck
    BY <1>0, <2>1, <2>2, DuckSame DEF Safe, MutedSilent, RelaxAtRest, LossHandled
  <2>3. CASE duck' # duck
    <3>0. duck.state # "fault" /\ connected /\ duck.hasShow
      BY <1>4, <2>3 DEF PlayArm
    <3>1. /\ c \in DuckType /\ Keeps(duck, c) /\ ~c.frozen /\ c.pend = {}
          /\ c.hasShow /\ c.torque = duck.torque /\ (c.applied => duck.applied)
      BY <1>0, <3>0, CancelKeeps
    <3>2. /\ StopLands(c) \in DuckType /\ ~StopLands(c).frozen
          /\ StopLands(c).pend = {} /\ StopLands(c).hasShow
          /\ StopLands(c).torque = duck.torque /\ ~StopLands(c).applied
      BY <3>1, LandsKeeps DEF SameRun
    <3>3. ASSUME NEW x \in DuckType, ~x.frozen, x.pend = {}, x.hasShow,
                 x.torque = duck.torque, x.applied => duck.applied
          PROVE  Armed(to(x))
      BY <3>3 DEF DuckType, States
    <3>4. Armed(to(c)) /\ Armed(to(StopLands(c))) /\ Armed(WithGap(to(c), "heldFrozen"))
      <4>1. Armed(to(c)) /\ Armed(to(StopLands(c)))
        BY <3>1, <3>2, <3>3
      <4> HIDE DEF to
      <4> QED
        BY <4>1, GapKeeps DEF SameRun
    <3>5. duck' \in StopThen(c, to(StopLands(c)))
            \/ duck' = WithGap(to(c), "heldFrozen") \/ duck' = to(c)
      BY <1>4, <2>3 DEF PlayArm
    <3>6. Armed(duck') \/ (Keeps(duck, duck') /\ Faulted(duck'))
      <4> HIDE DEF c, to
      <4> QED
        BY <3>1, <3>4, <3>5, StopThenKeeps, KeepsTwice
    <3>7. CASE Armed(duck')
      <4>1. MutedSilent'
        BY <1>0, <2>1, <3>7 DEF MutedSilent
      <4>2. Protocol!Play
        BY <3>0, <3>7 DEF Protocol!Play
      <4> QED
        BY <2>1, <3>0, <3>7, <4>1, <4>2
        DEF SafeStep, Clean, RelaxAtRest, LossHandled, Protocol!Next
    <3> QED
      BY <2>1, <3>6, <3>7, DuckFaults
  <2> QED
    BY <2>2, <2>3
<1>5. CASE Seek \/ Pause \/ Resume
  <2>1. /\ UNCHANGED <<fresh, muted, connected, pc>> /\ pc["rx"] = "ready"
        /\ \E q \in SUBSET {"seek", "pause", "resume"} :
             /\ duck' = [duck EXCEPT !.pend = q]
             /\ duck.state \in {"idle", "armed", "fault"} => q = {}
    BY <1>0, <1>5 DEF Seek, Pause, Resume, DuckType, Clean
  <2>2. /\ duck'.hasShow = duck.hasShow /\ duck'.applied = duck.applied
        /\ duck'.state = duck.state /\ duck'.frozen = duck.frozen
        /\ duck'.torque = duck.torque
        /\ duck.state \in {"idle", "armed", "fault"} => duck'.pend = {}
    BY <1>0, <2>1 DEF DuckType
  <2>3. Clean(duck') /\ MutedSilent' /\ RelaxAtRest' /\ LossHandled'
    BY <1>0, <2>1, <2>2 DEF Safe, Clean, MutedSilent, RelaxAtRest, LossHandled
  <2>4. Protocol!vars' = Protocol!vars
    BY <2>2 DEF Protocol!vars
  <2> QED
    BY <2>2, <2>3, <2>4 DEF SafeStep
<1>6. CASE RelaxRequest
  <2>1. duck.state \in {"idle", "loaded"}
    BY <1>6 DEF Safe, RelaxAtRest, RelaxRequest
  <2>2. /\ UNCHANGED <<fresh, muted, connected>> /\ pc'["link"] = pc["link"]
        /\ pc'["rx"] # "relax"
        /\ duck' = duck \/ duck' = [duck EXCEPT !.torque = FALSE, !.moving = FALSE]
    BY <1>0, <1>6 DEF RelaxRequest, Goto
  <2>3. /\ duck'.hasShow = duck.hasShow /\ duck'.applied = duck.applied
        /\ SameRun(duck, duck')
    BY <1>0, <2>2 DEF DuckType, SameRun
  <2>4. Clean(duck') /\ MutedSilent' /\ RelaxAtRest' /\ LossHandled'
    BY <1>0, <2>2, <2>3
    DEF Safe, Clean, SameRun, MutedSilent, RelaxAtRest, LossHandled
  <2>5. Protocol!vars' = Protocol!vars
    BY <2>3 DEF Protocol!vars, SameRun
  <2> QED
    BY <2>1, <2>4, <2>5 DEF SafeStep
<1>7. CASE Stop
  <2> DEFINE c == Cancel(duck)
             rest == IF c.hasShow THEN "loaded" ELSE "idle"
             performing == c.state \in {"armed", "playing", "paused"}
             stopped == [StopLands(c) EXCEPT !.state = IF performing THEN rest ELSE @]
  <2>1. /\ c \in DuckType /\ Keeps(duck, c) /\ ~c.frozen /\ c.pend = {}
        /\ c.state = duck.state /\ c.hasShow = duck.hasShow
        /\ c.applied = duck.applied /\ c.torque = duck.torque
    BY <1>0, CancelKeeps
  <2>2. /\ StopLands(c) \in DuckType /\ SameRun(c, StopLands(c))
        /\ StopLands(c).hasShow = c.hasShow /\ StopLands(c).torque = c.torque
        /\ ~StopLands(c).applied
    BY <2>1, LandsKeeps
  <2>3. /\ pc["rx"] = "ready" /\ UNCHANGED <<pc, connected>>
        /\ muted' /\ ~fresh'
        /\ duck' \in StopThen(c, stopped) \/ (duck' = c /\ ~performing /\ ~c.applied)
        /\ duck.state # "fault"
    BY <1>7 DEF Stop, Mute
  <2>4. /\ stopped.hasShow = c.hasShow /\ stopped.torque = c.torque
        /\ ~stopped.applied /\ ~stopped.frozen /\ stopped.pend = {}
        /\ stopped.state = IF performing THEN rest ELSE c.state
    BY <2>1, <2>2 DEF DuckType, Keeps, SameRun
  <2>5. /\ duck'.hasShow = duck.hasShow /\ duck'.torque = duck.torque
        /\ ~duck'.applied /\ ~duck'.frozen /\ duck'.pend = {}
        /\ \/ duck'.state = "fault"
           \/ performing /\ duck'.state = rest
           \/ ~performing /\ duck'.state = duck.state
    <3>1. CASE duck' \in StopThen(c, stopped)
      <4>1. (duck' = stopped /\ Answers)
              \/ (Keeps(c, duck') /\ Faulted(duck') /\ ~duck'.applied)
        BY <2>1, <3>1, StopThenKeeps
      <4> HIDE DEF c, stopped
      <4> QED
        BY <2>1, <2>4, <4>1 DEF Keeps, Faulted
    <3> QED
      BY <2>1, <2>3, <3>1
  <2>6. performing => duck.hasShow /\ rest = "loaded"
    BY <1>0, <2>1 DEF Clean
  <2>7. Clean(duck')
    BY <1>0, <2>1, <2>5, <2>6 DEF Clean
  <2>8. MutedSilent' /\ RelaxAtRest' /\ LossHandled'
    BY <1>0, <2>1, <2>3, <2>5, <2>6
    DEF Safe, MutedSilent, RelaxAtRest, LossHandled
  <2>9. [Protocol!Next]_(Protocol!vars)
    BY <2>1, <2>5, <2>6
    DEF Protocol!Next, Protocol!vars, Protocol!End, Protocol!Fault
  <2> QED
    BY <2>5, <2>7, <2>8, <2>9 DEF SafeStep
<1>8. CASE Panic
  <2>1. /\ duck'.state = "idle" /\ ~duck'.hasShow /\ ~duck'.applied
        /\ duck'.pend = {} /\ ~duck'.frozen /\ duck'.torque = duck.torque
    BY <1>0, <1>8 DEF Panic, Cancel, DuckType
  <2>2. muted' /\ ~fresh'
    BY <1>8 DEF Panic, Mute
  <2> QED
    BY <2>1, <2>2 DEF SafeStep, Clean, MutedSilent, RelaxAtRest, LossHandled,
       Protocol!Next, Protocol!Panic
<1> QED
  BY <1>1, <1>2, <1>3, <1>4, <1>5, <1>6, <1>7, <1>8 DEF Commands
-----------------------------------------------------------------------------
LEMMA MaybeStartKeeps ==
  ASSUME NEW d \in DuckType, Clean(d), NEW x \in MaybeStart(d)
  PROVE  /\ Keeps(d, x) /\ Clean(x)
         /\ \/ x = d
            \/ d.state = "armed" /\ x.state = "loaded"
            \/ d.state = "armed" /\ x.state \in {"playing", "fault"} /\ x.pend = {}
<1>1. CASE x = d
  BY <1>1 DEF Keeps
<1>2. CASE d.state = "armed" /\ x = [Cancel(d) EXCEPT !.state = "loaded"]
  <2>1. Cancel(d) \in DuckType /\ Keeps(d, Cancel(d)) /\ ~Cancel(d).frozen
    BY CancelKeeps
  <2>2. /\ x \in DuckType /\ x.state = "loaded" /\ ~x.frozen
        /\ x.hasShow = Cancel(d).hasShow /\ x.torque = Cancel(d).torque
        /\ x.applied = Cancel(d).applied
    BY <1>2, <2>1 DEF DuckType, States
  <2> QED
    BY <1>2, <2>1, <2>2 DEF Keeps, Clean
<1>3. CASE d.state = "armed" /\ x \in StartPlaying(d)
  <2>1. Keeps(d, x) /\ x.state \in {"playing", "fault"} /\ ~x.frozen /\ x.pend = {}
    BY <1>3, StartKeeps
  <2> QED
    BY <1>3, <2>1 DEF Keeps, Clean
<1> QED
  BY <1>1, <1>2, <1>3 DEF MaybeStart

LEMMA TickSafe ==
  ASSUME Safe, Tick
  PROVE  SafeStep
<1> USE NamedThreads
<1>0. /\ duck \in DuckType /\ pc \in [Threads -> PCs] /\ Clean(duck) /\ MutedSilent
      /\ fresh \in BOOLEAN
  BY DEF Safe, TypeOK
<1>1. PICK d \in MaybeStart(duck) : \E due \in SUBSET d.pend :
        duck' \in IF d.state \in {"playing", "paused"}
                  THEN PlayTick(d, due) ELSE PuppetTick(d)
  BY DEF Tick
<1>2. PICK due \in SUBSET d.pend :
        duck' \in IF d.state \in {"playing", "paused"}
                  THEN PlayTick(d, due) ELSE PuppetTick(d)
  BY <1>1
<1>3. /\ Keeps(duck, d) /\ Clean(d) /\ d \in DuckType
      /\ \/ d = duck
         \/ duck.state = "armed" /\ d.state = "loaded"
         \/ duck.state = "armed" /\ d.state \in {"playing", "fault"} /\ d.pend = {}
  BY <1>0, <1>1, MaybeStartKeeps DEF Keeps
<1>4. /\ UNCHANGED <<fresh, muted, connected>>
      /\ pc'["rx"] = pc["rx"] /\ pc'["link"] = pc["link"]
  BY <1>0 DEF Tick, Goto
<1>5. Keeps(duck, duck') /\ Clean(duck')
  <2>1. CASE d.state \in {"playing", "paused"}
    <3>1. /\ Keeps(d, duck')
          /\ duck'.state \in {"playing", "paused", "fault"}
          /\ duck'.frozen <=> duck'.state = "paused"
          /\ duck'.state = "fault" => duck'.pend = {}
      BY <1>0, <1>2, <1>3, <2>1, PlayTickKeeps DEF Clean
    <3> QED
      BY <1>3, <2>1, <3>1, KeepsTwice DEF Keeps, Clean
  <2>2. CASE d.state \notin {"playing", "paused"}
    <3>1. Keeps(d, duck') /\ SameRun(d, duck')
      BY <1>0, <1>2, <1>3, <2>2, PuppetTickKeeps
    <3> QED
      BY <1>3, <3>1, KeepsTwice DEF Keeps, SameRun, Clean
  <2> QED
    BY <2>1, <2>2
<1>6. \/ duck'.state = duck.state
      \/ duck.state = "armed" /\ duck'.state \in {"loaded", "playing", "fault"}
      \/ duck.state \in {"playing", "paused"}
           /\ duck'.state \in {"playing", "paused", "fault"}
  <2>1. CASE d.state \in {"playing", "paused"}
    <3>1. /\ duck'.state \in {"playing", "paused", "fault"}
          /\ due = {} /\ d.state = "playing" => duck'.state # "paused"
      BY <1>0, <1>2, <1>3, <2>1, PlayTickKeeps DEF Clean
    <3> QED
      BY <1>2, <1>3, <2>1, <3>1
  <2>2. CASE d.state \notin {"playing", "paused"}
    <3>1. SameRun(d, duck')
      BY <1>0, <1>2, <1>3, <2>2, PuppetTickKeeps
    <3> QED
      BY <1>3, <2>2, <3>1 DEF SameRun
  <2> QED
    BY <2>1, <2>2
<1>7. MutedSilent' /\ RelaxAtRest' /\ LossHandled'
  <2>1. MutedSilent'
    BY <1>0, <1>4, <1>5 DEF MutedSilent, Keeps
  <2> QED
    BY <1>4, <1>6, <2>1 DEF Safe, RelaxAtRest, LossHandled
<1>8. [Protocol!Next]_(Protocol!vars)
  BY <1>5, <1>6 DEF Keeps, Protocol!vars, Protocol!Next, Protocol!Start,
     Protocol!Pause, Protocol!Resume, Protocol!End, Protocol!Fault
<1> QED
  BY <1>5, <1>7, <1>8 DEF SafeStep, Keeps
LEMMA TickThreadSafe ==
  ASSUME Safe, FireEvent \/ EventAnswered \/ EndOfShow
  PROVE  SafeStep
<1> USE NamedThreads
<1>0. duck \in DuckType /\ pc \in [Threads -> PCs] /\ Clean(duck) /\ MutedSilent
  BY DEF Safe, TypeOK
<1>1. /\ UNCHANGED <<fresh, muted, connected>>
      /\ pc'["rx"] = pc["rx"] /\ pc'["link"] = pc["link"]
  BY <1>0 DEF FireEvent, EventAnswered, EndOfShow, Goto
<1>2. CASE duck' = duck
  BY <1>1, <1>2, DuckSame DEF Safe, MutedSilent, RelaxAtRest, LossHandled
<1>3. CASE duck' = FaultLocked(duck) /\ duck.state \in {"armed", "playing"}
  <2>1. Keeps(duck, duck') /\ Faulted(duck')
    BY <1>0, <1>3, HelpersKeep
  <2> QED
    BY <1>1, <1>3, <2>1, DuckFaults DEF Safe, RelaxAtRest
<1>4. CASE duck' = FaultLocked(StopFails(duck)) /\ duck.state = "playing"
  <2>1. Keeps(duck, StopFails(duck)) /\ StopFails(duck) \in DuckType
    BY <1>0, HelpersKeep, HelperTypes
  <2>2. Keeps(StopFails(duck), duck') /\ Faulted(duck')
    BY <1>4, <2>1, HelpersKeep
  <2>3. Keeps(duck, duck')
    BY <2>1, <2>2, KeepsTwice
  <2> QED
    BY <1>1, <1>4, <2>2, <2>3, DuckFaults DEF Safe, RelaxAtRest
<1>5. CASE duck' = [StopLands(duck) EXCEPT !.state = "loaded"] /\ duck.state = "playing"
  <2>1. /\ StopLands(duck) \in DuckType /\ SameRun(duck, StopLands(duck))
        /\ StopLands(duck).hasShow = duck.hasShow
        /\ StopLands(duck).torque = duck.torque /\ ~StopLands(duck).applied
    BY <1>0, LandsKeeps
  <2>2. /\ duck'.state = "loaded" /\ duck'.frozen = duck.frozen
        /\ duck'.hasShow = duck.hasShow /\ duck'.torque = duck.torque
        /\ ~duck'.applied
    BY <1>5, <2>1 DEF DuckType, SameRun
  <2>3. Clean(duck') /\ MutedSilent' /\ RelaxAtRest' /\ LossHandled'
    BY <1>0, <1>1, <1>5, <2>2
    DEF Safe, Clean, MutedSilent, RelaxAtRest, LossHandled
  <2>4. Protocol!End
    BY <1>5, <2>2 DEF Protocol!End
  <2> QED
    BY <2>2, <2>3, <2>4 DEF SafeStep, Protocol!Next
<1> QED
  BY <1>2, <1>3, <1>4, <1>5 DEF FireEvent, EventAnswered, EndOfShow, StopThen

LEMMA PuppetSafe ==
  ASSUME Safe, PuppetPacket \/ PuppetStale
  PROVE  SafeStep
<1>1. UNCHANGED <<duck, pc, connected>>
  BY DEF PuppetPacket, PuppetStale
<1>2. MutedSilent'
  BY DEF Safe, TypeOK, MutedSilent, PuppetPacket, PuppetStale
<1> QED
  BY <1>1, <1>2, DuckSame DEF Safe, RelaxAtRest, LossHandled

(* The steps of a stop change nothing but what is owed and what moves.        *)
LEMMA StopStepsSafe ==
  ASSUME Safe, NEW t \in Threads, StopSteps(t)
  PROVE  SafeStep
<1> USE NamedThreads
<1>0. duck \in DuckType /\ pc \in [Threads -> PCs] /\ Clean(duck) /\ MutedSilent
  BY DEF Safe, TypeOK
<1>1. UNCHANGED <<fresh, muted, connected>>
  BY DEF StopSteps, FaultStop, FaultOwe, StopBegin, StopRequest, StopSettled, StopOwed
<1>2. pc'["rx"] # "relax" \/ pc'["rx"] = pc["rx"]
  BY <1>0 DEF StopSteps, FaultStop, FaultOwe, StopBegin, StopRequest,
     StopSettled, StopOwed, AfterStop, AfterOwe, AfterEvents, Goto
<1>3. pc["link"] = "down" => pc'["link"] = "down"
  BY <1>0 DEF StopSteps, FaultStop, FaultOwe, StopBegin, StopRequest,
     StopSettled, StopOwed, Goto
<1>4. Keeps(duck, duck') /\ SameRun(duck, duck')
  <2>1. CASE FaultStop(t)
    BY <1>0, <2>1 DEF FaultStop, Keeps, SameRun
  <2>2. CASE FaultOwe(t) \/ StopOwed(t)
    BY <1>0, <2>2, HelpersKeep DEF FaultOwe, StopOwed
  <2>3. CASE StopBegin(t)
    <3>1. /\ duck' \in DuckType /\ duck'.hasShow = duck.hasShow
          /\ duck'.torque = duck.torque /\ ~duck'.applied /\ SameRun(duck, duck')
      BY <1>0, <2>3 DEF StopBegin, DuckType, SameRun
    <3> QED
      BY <3>1 DEF Keeps
  <2>4. CASE StopRequest(t)
    <3> DEFINE d == [duck EXCEPT !.moving = @ /\ sock # "up"]
    <3>1. /\ d \in DuckType /\ d.hasShow = duck.hasShow /\ d.torque = duck.torque
          /\ d.applied = duck.applied /\ SameRun(duck, d)
      BY <1>0 DEF DuckType, SameRun
    <3>2. ASSUME NEW x \in DuckType
          PROVE  /\ [x EXCEPT !.landed = @ \cup {t}] \in DuckType
                 /\ [x EXCEPT !.landed = @ \cup {t}].hasShow = x.hasShow
                 /\ [x EXCEPT !.landed = @ \cup {t}].torque = x.torque
                 /\ [x EXCEPT !.landed = @ \cup {t}].applied = x.applied
                 /\ SameRun(x, [x EXCEPT !.landed = @ \cup {t}])
      BY DEF DuckType, SameRun
    <3>3. duck' = d \/ duck' = [d EXCEPT !.landed = @ \cup {t}]
      BY <2>4 DEF StopRequest
    <3> HIDE DEF d
    <3> QED
      BY <3>1, <3>2, <3>3 DEF Keeps, SameRun
  <2>5. CASE StopSettled(t)
    <3> DEFINE d == [duck EXCEPT !.owed = FALSE, !.landed = @ \ {t}]
    <3>1. /\ d \in DuckType /\ d.hasShow = duck.hasShow /\ d.torque = duck.torque
          /\ d.applied = duck.applied /\ SameRun(duck, d)
      BY <1>0 DEF DuckType, SameRun
    <3>2. duck' = d \/ duck' = WithGap(d, "owedErased")
      BY <2>5 DEF StopSettled
    <3> HIDE DEF d
    <3> QED
      BY <3>1, <3>2, GapKeeps DEF Keeps, SameRun
  <2> QED
    BY <2>1, <2>2, <2>3, <2>4, <2>5 DEF StopSteps
<1> QED
  BY <1>1, <1>2, <1>3, <1>4, DuckKeepsRun
  DEF Safe, SameRun, RelaxAtRest, LossHandled

LEMMA LinkSafe ==
  ASSUME Safe, Link
  PROVE  SafeStep
<1> USE NamedThreads
<1>0. duck \in DuckType /\ pc \in [Threads -> PCs] /\ Clean(duck) /\ MutedSilent
  BY DEF Safe, TypeOK
<1>1. UNCHANGED <<fresh, muted>> /\ pc'["rx"] = pc["rx"]
  BY <1>0 DEF Link, LinkBreaks, SocketClosed, LinkDown, LinkDownFault,
     SocketOpened, LinkUp, LinkUpOwed, LinkUpClear, Goto
<1>2. CASE LinkBreaks \/ SocketClosed \/ LinkDown \/ LinkUp \/ LinkUpOwed
  <2>1. duck' = duck
    BY <1>2 DEF LinkBreaks, SocketClosed, LinkDown, LinkUp, LinkUpOwed
  <2>2. ~connected' /\ pc'["link"] # "down" => ~connected /\ pc["link"] # "down"
    BY <1>0, <1>2 DEF LinkBreaks, SocketClosed, LinkDown, LinkUp, LinkUpOwed, Goto
  <2> QED
    BY <1>1, <2>1, <2>2, DuckSame DEF Safe, MutedSilent, RelaxAtRest, LossHandled
<1>3. CASE LinkDownFault
  <2>1. CASE duck.state \in {"armed", "playing"}
    <3>1. Keeps(duck, duck') /\ Faulted(duck')
      BY <1>0, <1>3, <2>1, HelpersKeep DEF LinkDownFault
    <3> QED
      BY <1>1, <2>1, <3>1, DuckFaults DEF Safe, RelaxAtRest
  <2>2. CASE duck.state \notin {"armed", "playing"}
    BY <1>1, <1>3, <2>2, DuckSame
    DEF LinkDownFault, Safe, MutedSilent, RelaxAtRest, LossHandled
  <2> QED
    BY <2>1, <2>2
<1>4. CASE SocketOpened \/ LinkUpClear
  <2>1. /\ connected' = connected /\ pc'["link"] # "down"
        /\ \/ duck' = duck
           \/ duck' = [duck EXCEPT !.moving = FALSE, !.torque = TRUE]
           \/ duck' = [duck EXCEPT !.relaxed = FALSE]
    BY <1>0, <1>4 DEF SocketOpened, LinkUpClear, Goto
  <2>2. /\ SameRun(duck, duck') /\ duck'.hasShow = duck.hasShow
        /\ duck'.applied = duck.applied /\ (duck.torque => duck'.torque)
    BY <1>0, <2>1 DEF DuckType, SameRun
  <2>3. pc["link"] # "down"
    BY <1>4 DEF SocketOpened, LinkUpClear
  <2>4. Clean(duck') /\ MutedSilent' /\ RelaxAtRest' /\ LossHandled'
    BY <1>0, <1>1, <2>1, <2>2, <2>3
    DEF Safe, Clean, SameRun, MutedSilent, RelaxAtRest, LossHandled
  <2>5. Protocol!vars' = Protocol!vars
    BY <2>2 DEF Protocol!vars, SameRun
  <2> QED
    BY <2>2, <2>4, <2>5 DEF SafeStep
<1> QED
  BY <1>2, <1>3, <1>4 DEF Link

LEMMA StutterSafe ==
  ASSUME Safe, UNCHANGED vars
  PROVE  SafeStep
BY DuckSame DEF Safe, vars, MutedSilent, RelaxAtRest, LossHandled

LEMMA StepSafe ==
  ASSUME Safe, [Next]_vars
  PROVE  SafeStep
<1>1. CASE Steps
  BY <1>1, StopStepsSafe DEF Steps
<1> QED
  BY <1>1, CommandsSafe, TickSafe, TickThreadSafe, PuppetSafe, LinkSafe,
     StutterSafe DEF Next

LEMMA SafeInit == Init => Safe
<1> SUFFICES ASSUME Init PROVE Safe
  OBVIOUS
<1>1. TypeOK
  BY TypeInit
<1>2. Clean(duck) /\ MutedSilent /\ LossHandled
  BY DEF Init, Clean, MutedSilent, LossHandled
<1>3. RelaxAtRest
  BY DEF Init, RelaxAtRest, Threads
<1> QED
  BY <1>1, <1>2, <1>3 DEF Safe

(* Every state is safe: the invariant the theorems below rest on.             *)
THEOREM StaysSafe == Spec => []Safe
<1>1. Safe /\ TypeOK' /\ [Next]_vars => Safe'
  BY StepSafe DEF Safe, SafeStep
<1> QED
  BY <1>1, SafeInit, TypeCorrect, PTL DEF Spec

(* A performance starts clean, on every duck and whatever was parked before:  *)
(* _cancel_scheduled is called on every way out of one.                       *)
THEOREM CleanPerformances == Spec => []PerformanceClean
<1>1. Safe => PerformanceClean
  BY DEF Safe, Clean, PerformanceClean
<1> QED
  BY <1>1, StaysSafe, PTL

(* PuppetChannel.mute silences what the channel held.                         *)
THEOREM MutesSilence == Spec => []MutedSilent
<1>1. Safe => MutedSilent
  BY DEF Safe
<1> QED
  BY <1>1, StaysSafe, PTL

(* After the loss of robotd was handled no duck is armed, although            *)
(* RobotdClient changes _connected without the lock of _handle_play.          *)
THEOREM ArmedNeedsRobotd == Spec => []NotArmedWithoutRobotd
<1>1. Safe => NotArmedWithoutRobotd
  BY DEF Safe, LossHandled, NotArmedWithoutRobotd
<1> QED
  BY <1>1, StaysSafe, PTL

(* _handle_relax takes the torque from no duck that is armed or performs.     *)
THEOREM TorqueIsKept == Spec => TorqueKept
<1>1. Safe /\ [Next]_vars =>
        [duck.torque /\ ~duck'.torque => duck.state \in {"idle", "loaded"}]_vars
  BY StepSafe DEF SafeStep
<1> QED
  BY <1>1, StaysSafe, PTL DEF Spec, TorqueKept

(* The agent implements the state diagram the protocol promises its master.   *)
THEOREM ImplementsProtocol == Spec => ProtocolSpec
<1>1. Init => Protocol!Init
  BY DEF Init, Protocol!Init
<1>2. Safe /\ [Next]_vars => [Protocol!Next]_(Protocol!vars)
  BY StepSafe DEF SafeStep
<1> QED
  BY <1>1, <1>2, StaysSafe, PTL DEF Spec, ProtocolSpec, Protocol!Spec

=============================================================================
