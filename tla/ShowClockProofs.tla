--------------------------- MODULE ShowClockProofs ---------------------------
(***************************************************************************)
(* Theorems about ShowClock, for any cast, any lateness of any tick, any   *)
(* show and any times.  Here: types, events, pauses.  What relates the     *)
(* ducks to each other and to the master is in ShowCastProofs.             *)
(***************************************************************************)
EXTENDS ShowClock, TLAPS

DuckStates == {"loaded", "armed", "playing", "paused"}

DuckType ==
  [state : DuckStates, at : Times, from : Int, epoch : Times, base : Int,
   last : Int, frozen : Times, pause : Times, resume : Times, seek : Times,
   seekTo : Int, due : SUBSET Events, ended : BOOLEAN,
   wish : Ops \cup {"none"}, start : Int, fired : [Events -> Nat],
   held : BOOLEAN]

MasterType ==
  [transport : {"stopped", "armed", "playing", "paused"}, epoch : Times,
   from : Int, paused : Times, comes : BOOLEAN]

Typed ==
  /\ now \in 0..MaxTime
  /\ script \in Seq(Ops)
  /\ call \in Calls \cup {None}
  /\ master \in MasterType
  /\ duck \in [Ducks -> DuckType]
  /\ whole \in BOOLEAN

LEMMA Bounds ==
  /\ None \notin Int /\ None \notin Calls
  /\ Lead \in Nat /\ OnTime \in Nat /\ MaxLate \in Nat /\ CallTime \in Nat
  /\ Duration \in Nat /\ MaxTime \in Nat
  /\ Events \subseteq Nat /\ Events \subseteq Int
  /\ SeekTo \subseteq Nat /\ SeekTo \subseteq Int
  /\ CallTime < Lead + MaxLate
BY ShowClockAssumption

-----------------------------------------------------------------------------
(* What each method makes of a duck's fields, and of its type.                *)

LEMMA CancelIs ==
  ASSUME NEW x \in DuckType
  PROVE  /\ Cancel(x) \in DuckType
         /\ Cancel(x).at = None /\ Cancel(x).seek = None /\ Cancel(x).frozen = None
         /\ Cancel(x).pause = None /\ Cancel(x).resume = None
         /\ Cancel(x).state = x.state /\ Cancel(x).from = x.from
         /\ Cancel(x).epoch = x.epoch /\ Cancel(x).base = x.base
         /\ Cancel(x).last = x.last /\ Cancel(x).seekTo = x.seekTo
         /\ Cancel(x).due = x.due /\ Cancel(x).ended = x.ended
         /\ Cancel(x).wish = x.wish /\ Cancel(x).start = x.start
         /\ Cancel(x).fired = x.fired /\ Cancel(x).held = x.held
BY DEF Cancel, DuckType, Times

LEMMA ArmIs ==
  ASSUME NEW x \in DuckType, NEW at \in Int, NEW from \in Int
  PROVE  LET y == Arm(x, at, from)
         IN  /\ y \in DuckType
             /\ y.state = "armed" /\ y.at = at /\ y.from = from /\ y.seek = None
             /\ y.epoch = None /\ y.base = from
             /\ y.last = x.last /\ y.frozen = x.frozen /\ y.pause = x.pause
             /\ y.resume = x.resume /\ y.seekTo = x.seekTo /\ y.due = x.due
             /\ y.ended = x.ended /\ y.wish = x.wish /\ y.start = x.start
             /\ y.fired = x.fired /\ y.held = x.held
BY DEF Arm, DuckType, DuckStates, Times

LEMMA StartPlayingIs ==
  ASSUME NEW x \in DuckType, NEW s \in Int, NEW t \in Int
  PROVE  LET y == StartPlaying(x, s, t)
         IN  /\ y \in DuckType
             /\ y.state = "playing" /\ y.epoch = t /\ y.base = s /\ y.last = s - 1
             /\ y.at = None /\ y.seek = None /\ y.frozen = None
             /\ y.pause = None /\ y.resume = None
             /\ y.from = x.from /\ y.seekTo = x.seekTo /\ y.due = x.due
             /\ y.ended = x.ended /\ y.wish = x.wish /\ y.start = x.start
             /\ y.fired = x.fired /\ y.held = x.held
<1> DEFINE c == Cancel(x)
<1>1. /\ c \in DuckType
      /\ c.at = None /\ c.seek = None /\ c.frozen = None
      /\ c.pause = None /\ c.resume = None
      /\ c.from = x.from /\ c.seekTo = x.seekTo /\ c.due = x.due
      /\ c.ended = x.ended /\ c.wish = x.wish /\ c.start = x.start
      /\ c.fired = x.fired /\ c.held = x.held
  BY CancelIs
<1>2. StartPlaying(x, s, t) =
        [c EXCEPT !.state = "playing", !.epoch = t, !.base = s, !.last = s - 1]
  BY DEF StartPlaying
<1> HIDE DEF c
<1>3. s - 1 \in Int /\ t \in Times /\ "playing" \in DuckStates
  BY DEF Times, DuckStates
<1>4. StartPlaying(x, s, t) \in DuckType
  BY <1>1, <1>2, <1>3 DEF DuckType
<1> QED
  BY <1>1, <1>2, <1>4 DEF DuckType

LEMMA NewPassIs ==
  ASSUME NEW x \in DuckType, NEW s \in Int
  PROVE  LET y == NewPass(x, s)
         IN  /\ y \in DuckType
             /\ y.start = s /\ y.held = FALSE /\ \A e \in Events : y.fired[e] = 0
             /\ y.state = x.state /\ y.at = x.at /\ y.from = x.from
             /\ y.epoch = x.epoch /\ y.base = x.base /\ y.last = x.last
             /\ y.frozen = x.frozen /\ y.pause = x.pause /\ y.resume = x.resume
             /\ y.seek = x.seek /\ y.seekTo = x.seekTo /\ y.due = x.due
             /\ y.ended = x.ended /\ y.wish = x.wish
<1>1. [e \in Events |-> 0] \in [Events -> Nat]
  OBVIOUS
<1> QED
  BY <1>1 DEF NewPass, DuckType

LEMMA ShowTimeType ==
  ASSUME NEW x \in DuckType, NEW t \in Int
  PROVE  ShowTime(x, t) \in Int
BY DEF ShowTime, DuckType, Times

LEMMA BeginIs ==
  ASSUME NEW x \in DuckType, NEW s \in Int, NEW t \in Int, now \in Int, t <= now
  PROVE  LET y == Begin(x, s, t)
         IN  /\ y \in DuckType
             /\ y.state = "playing" /\ y.epoch \in Int /\ y.epoch <= now
             /\ y.base - y.epoch = s - t
             /\ y.start = y.base /\ y.last = y.start - 1
             /\ y.at = None /\ y.seek = None /\ y.frozen = None
             /\ y.pause = None /\ y.resume = None
             /\ y.held = FALSE /\ \A e \in Events : y.fired[e] = 0
             /\ y.due = x.due /\ y.ended = x.ended /\ y.wish = x.wish
<1> DEFINE late == now - t
           s1 == IF late <= OnTime THEN s ELSE s + late
           t1 == IF late <= OnTime THEN t ELSE now
           z == StartPlaying(x, s1, t1)
<1>1. s1 \in Int /\ t1 \in Int /\ t1 <= now /\ s1 - t1 = s - t
  BY Bounds
<1>2. Begin(x, s, t) = NewPass(z, s1)
  BY DEF Begin
<1> HIDE DEF s1, t1
<1>3. /\ z \in DuckType
      /\ z.state = "playing" /\ z.epoch = t1 /\ z.base = s1 /\ z.last = s1 - 1
      /\ z.at = None /\ z.seek = None /\ z.frozen = None
      /\ z.pause = None /\ z.resume = None
      /\ z.due = x.due /\ z.ended = x.ended /\ z.wish = x.wish
  <2>1. /\ StartPlaying(x, s1, t1) \in DuckType
        /\ StartPlaying(x, s1, t1).state = "playing"
        /\ StartPlaying(x, s1, t1).epoch = t1 /\ StartPlaying(x, s1, t1).base = s1
        /\ StartPlaying(x, s1, t1).last = s1 - 1
    BY <1>1, StartPlayingIs
  <2>2. /\ StartPlaying(x, s1, t1).at = None /\ StartPlaying(x, s1, t1).seek = None
        /\ StartPlaying(x, s1, t1).frozen = None /\ StartPlaying(x, s1, t1).pause = None
        /\ StartPlaying(x, s1, t1).resume = None
    BY <1>1, StartPlayingIs
  <2>3. /\ StartPlaying(x, s1, t1).due = x.due /\ StartPlaying(x, s1, t1).ended = x.ended
        /\ StartPlaying(x, s1, t1).wish = x.wish
    BY <1>1, StartPlayingIs
  <2> QED
    BY <2>1, <2>2, <2>3
<1> HIDE DEF z
<1> DEFINE y == NewPass(z, s1)
<1>4. /\ y \in DuckType
      /\ y.start = s1 /\ y.held = FALSE /\ \A e \in Events : y.fired[e] = 0
      /\ y.state = z.state /\ y.at = z.at /\ y.epoch = z.epoch
      /\ y.base = z.base /\ y.last = z.last /\ y.frozen = z.frozen
      /\ y.pause = z.pause /\ y.resume = z.resume /\ y.seek = z.seek
      /\ y.due = z.due /\ y.ended = z.ended /\ y.wish = z.wish
  BY <1>1, <1>3, NewPassIs
<1> HIDE DEF y
<1>5. Begin(x, s, t) = y
  BY <1>2 DEF y
<1> QED
  BY <1>1, <1>3, <1>4, <1>5

LEMMA PausedIs ==
  ASSUME NEW x \in DuckType, now \in Int, Come(x.pause)
  PROVE  LET y == Paused(x)
         IN  /\ y \in DuckType
             /\ y.state = "paused" /\ y.frozen = ShowTime(x, x.pause)
             /\ y.frozen \in Int /\ y.pause = None /\ y.held = TRUE
             /\ y.at = x.at /\ y.resume = x.resume /\ y.seek = x.seek
             /\ y.seekTo = x.seekTo /\ y.due = x.due /\ y.ended = x.ended
             /\ y.wish = x.wish
<1>1. x.pause \in Int
  BY DEF Come, DuckType, Times
<1>2. ShowTime(x, x.pause) \in Int
  BY <1>1, ShowTimeType
<1>3. Paused(x) = [x EXCEPT !.frozen = ShowTime(x, x.pause), !.pause = None,
                            !.state = "paused", !.held = TRUE]
  BY DEF Paused
<1>4. ShowTime(x, x.pause) \in Times /\ None \in Times /\ "paused" \in DuckStates
  BY <1>2 DEF Times, DuckStates
<1>5. Paused(x) \in DuckType
  BY <1>3, <1>4 DEF DuckType
<1> QED
  BY <1>2, <1>3, <1>5 DEF DuckType

LEMMA SoughtFrozenIs ==
  ASSUME NEW x \in DuckType
  PROVE  LET y == SoughtFrozen(x)
         IN  /\ y \in DuckType
             /\ y.seek = None /\ y.frozen = x.seekTo /\ y.frozen \in Int
             /\ y.held = TRUE
             /\ y.state = x.state /\ y.at = x.at /\ y.pause = x.pause
             /\ y.resume = x.resume /\ y.due = x.due /\ y.ended = x.ended
             /\ y.wish = x.wish
<1> DEFINE z == NewPass(x, x.seekTo)
<1>1. x.seekTo \in Int
  BY DEF DuckType
<1>2. /\ z \in DuckType
      /\ z.state = x.state /\ z.at = x.at /\ z.pause = x.pause
      /\ z.resume = x.resume /\ z.due = x.due /\ z.ended = x.ended
      /\ z.wish = x.wish
  BY <1>1, NewPassIs
<1>3. SoughtFrozen(x) = [z EXCEPT !.seek = None, !.frozen = x.seekTo,
                                  !.last = x.seekTo - 1, !.held = TRUE]
  BY DEF SoughtFrozen
<1> HIDE DEF z
<1>4. x.seekTo - 1 \in Int /\ x.seekTo \in Times /\ None \in Times
  BY <1>1 DEF Times
<1>5. SoughtFrozen(x) \in DuckType
  BY <1>2, <1>3, <1>4 DEF DuckType
<1> QED
  BY <1>1, <1>2, <1>3, <1>5 DEF DuckType

LEMMA FramedIs ==
  ASSUME NEW x \in DuckType, now \in Int
  PROVE  LET y == Framed(x)
         IN  /\ y \in DuckType
             /\ y.due = {e \in Events : x.last < e /\ e <= ShowTime(x, now)}
             /\ y.last = ShowTime(x, now)
             /\ y.state = x.state /\ y.at = x.at /\ y.epoch = x.epoch
             /\ y.base = x.base /\ y.frozen = x.frozen /\ y.pause = x.pause
             /\ y.resume = x.resume /\ y.seek = x.seek /\ y.seekTo = x.seekTo
             /\ y.from = x.from /\ y.wish = x.wish /\ y.start = x.start
             /\ y.fired = x.fired /\ y.held = x.held
<1> DEFINE show == ShowTime(x, now)
           due == {e \in Events : x.last < e /\ e <= show}
           ended == show >= Duration
<1>1. show \in Int /\ due \in SUBSET Events /\ ended \in BOOLEAN
  BY ShowTimeType
<1>2. Framed(x) = [x EXCEPT !.due = due, !.last = show, !.ended = ended]
  BY DEF Framed
<1> HIDE DEF show, due, ended
<1>3. Framed(x) \in DuckType
  BY <1>1, <1>2 DEF DuckType
<1>4. Framed(x).due = due /\ Framed(x).last = show
  BY <1>2 DEF DuckType
<1> QED
  BY <1>2, <1>3, <1>4 DEF DuckType, due, show

-----------------------------------------------------------------------------
(* What a command makes of a duck.                                            *)

(* The duck's show clock and the history of its pass are as they were.        *)
SameShow(x, y) ==
  /\ y.state = x.state /\ y.at = x.at /\ y.from = x.from
  /\ y.epoch = x.epoch /\ y.base = x.base /\ y.last = x.last
  /\ y.frozen = x.frozen /\ y.due = x.due /\ y.start = x.start
  /\ y.fired = x.fired /\ y.held = x.held

NothingParked(x) ==
  x.frozen = None /\ x.pause = None /\ x.resume = None /\ x.seek = None

LEMMA ObeyIs ==
  ASSUME NEW x, NEW c
  PROVE  /\ c.op = "play" => Obey(x, c) = Arm(Cancel(x), c.at, c.to)
         /\ c.op = "seek" /\ x.state = "armed" => Obey(x, c) = Arm(x, c.at, c.to)
         /\ c.op = "seek" /\ x.state # "armed"
              => Obey(x, c) = [x EXCEPT !.seek = c.at, !.seekTo = c.to]
         /\ c.op = "pause" /\ (x.frozen # None \/ x.pause # None) => Obey(x, c) = x
         /\ c.op = "pause" /\ x.frozen = None /\ x.pause = None
              => Obey(x, c) = [x EXCEPT !.pause = c.at]
         /\ c.op = "resume" /\ x.frozen = None /\ x.pause = None => Obey(x, c) = x
         /\ c.op = "resume" /\ (x.frozen # None \/ x.pause # None)
              => Obey(x, c) = [x EXCEPT !.resume = c.at]
         /\ c.op = "stop"
              => Obey(x, c) =
                   [Cancel(x) EXCEPT !.state = "loaded", !.epoch = None, !.base = 0]
BY DEF Obey

LEMMA AcceptsIs ==
  ASSUME NEW x, NEW c
  PROVE  /\ c.op = "play" => (Accepts(x, c) <=> now - c.at < MaxLate)
         /\ c.op = "seek" => (Accepts(x, c) <=> x.state # "loaded")
         /\ c.op = "pause" => (Accepts(x, c) <=>
              x.state = "playing" \/ x.frozen # None \/ x.pause # None)
         /\ c.op \in {"resume", "stop"} => Accepts(x, c)
BY DEF Accepts

LEMMA AcceptsBoolean ==
  ASSUME NEW x, NEW c \in Calls
  PROVE  Accepts(x, c) \in BOOLEAN
<1>1. c.op \in Ops
  BY DEF Calls
<1>2. CASE c.op = "play"
  BY <1>2 DEF Accepts
<1>3. CASE c.op = "seek"
  BY <1>3 DEF Accepts
<1>4. CASE c.op = "pause"
  BY <1>4 DEF Accepts
<1>5. CASE c.op \in {"resume", "stop"}
  BY <1>5 DEF Accepts
<1> QED
  BY <1>1, <1>2, <1>3, <1>4, <1>5 DEF Ops

(* Each command that is accepted, and what it leaves as it was.               *)
LEMMA PlayIs ==
  ASSUME NEW x \in DuckType, NEW c \in Calls, c.op = "play"
  PROVE  LET y == Obey(x, c)
         IN  /\ y \in DuckType /\ y.state = "armed" /\ y.at = c.at /\ y.from = c.to
             /\ NothingParked(y)
<1> DEFINE z == Cancel(x)
<1>1. z \in DuckType /\ NothingParked(z)
  BY CancelIs DEF NothingParked
<1>2. c.at \in Int /\ c.to \in Int /\ Obey(x, c) = Arm(z, c.at, c.to)
  BY ObeyIs DEF Calls
<1> HIDE DEF z
<1> QED
  BY <1>1, <1>2, ArmIs DEF NothingParked

LEMMA SeekIs ==
  ASSUME NEW x \in DuckType, NEW c \in Calls, c.op = "seek"
  PROVE  LET y == Obey(x, c)
         IN  /\ y \in DuckType
             /\ y.frozen = x.frozen /\ y.pause = x.pause /\ y.resume = x.resume
             /\ x.state = "armed" => /\ y.state = "armed" /\ y.at = c.at
                                     /\ y.from = c.to /\ y.seek = None
             /\ x.state # "armed" => /\ y.seek = c.at /\ y.seekTo = c.to
                                     /\ SameShow(x, y)
<1>1. c.at \in Int /\ c.to \in Int /\ c.at \in Times
  BY DEF Calls, Times
<1>2. CASE x.state = "armed"
  <2>1. Obey(x, c) = Arm(x, c.at, c.to)
    BY <1>2, ObeyIs
  <2> QED
    BY <1>1, <1>2, <2>1, ArmIs
<1>3. CASE x.state # "armed"
  <2>1. Obey(x, c) = [x EXCEPT !.seek = c.at, !.seekTo = c.to]
    BY <1>3, ObeyIs
  <2>2. Obey(x, c) \in DuckType
    BY <1>1, <2>1 DEF DuckType
  <2> QED
    BY <1>3, <2>1, <2>2 DEF DuckType, SameShow
<1> QED
  BY <1>2, <1>3

LEMMA PauseIs ==
  ASSUME NEW x \in DuckType, NEW c \in Calls, c.op = "pause"
  PROVE  LET y == Obey(x, c)
         IN  /\ y \in DuckType /\ SameShow(x, y)
             /\ y.resume = x.resume /\ y.seek = x.seek /\ y.seekTo = x.seekTo
             /\ y.pause = IF x.frozen = None /\ x.pause = None THEN c.at ELSE x.pause
<1>1. c.at \in Times
  BY DEF Calls, Times
<1>2. CASE x.frozen = None /\ x.pause = None
  <2>1. Obey(x, c) = [x EXCEPT !.pause = c.at]
    BY <1>2, ObeyIs
  <2>2. Obey(x, c) \in DuckType
    BY <1>1, <2>1 DEF DuckType
  <2> QED
    BY <1>2, <2>1, <2>2 DEF DuckType, SameShow
<1>3. CASE x.frozen # None \/ x.pause # None
  BY <1>3, ObeyIs DEF SameShow
<1> QED
  BY <1>2, <1>3

LEMMA ResumeIs ==
  ASSUME NEW x \in DuckType, NEW c \in Calls, c.op = "resume"
  PROVE  LET y == Obey(x, c)
         IN  /\ y \in DuckType /\ SameShow(x, y)
             /\ y.pause = x.pause /\ y.seek = x.seek /\ y.seekTo = x.seekTo
             /\ y.resume = IF x.frozen = None /\ x.pause = None THEN x.resume ELSE c.at
<1>1. c.at \in Times
  BY DEF Calls, Times
<1>2. CASE x.frozen # None \/ x.pause # None
  <2>1. Obey(x, c) = [x EXCEPT !.resume = c.at]
    BY <1>2, ObeyIs
  <2>2. Obey(x, c) \in DuckType
    BY <1>1, <2>1 DEF DuckType
  <2> QED
    BY <1>2, <2>1, <2>2 DEF DuckType, SameShow
<1>3. CASE x.frozen = None /\ x.pause = None
  BY <1>3, ObeyIs DEF SameShow
<1> QED
  BY <1>2, <1>3

LEMMA StopIs ==
  ASSUME NEW x \in DuckType, NEW c \in Calls, c.op = "stop"
  PROVE  Obey(x, c) \in DuckType /\ Obey(x, c).state = "loaded"
<1> DEFINE z == Cancel(x)
<1>1. z \in DuckType
  BY CancelIs
<1>2. Obey(x, c) = [z EXCEPT !.state = "loaded", !.epoch = None, !.base = 0]
  BY ObeyIs
<1> HIDE DEF z
<1>3. "loaded" \in DuckStates /\ None \in Times /\ 0 \in Int
  BY DEF DuckStates, Times
<1> QED
  BY <1>1, <1>2, <1>3 DEF DuckType

LEMMA ObeyType ==
  ASSUME NEW x \in DuckType, NEW c \in Calls
  PROVE  Obey(x, c) \in DuckType
<1>1. c.op \in Ops
  BY DEF Calls
<1> QED
  BY <1>1, PlayIs, SeekIs, PauseIs, ResumeIs, StopIs DEF Ops

(* The history a command leaves: the last one accepted.                       *)
LEMMA HandleIs ==
  ASSUME NEW x \in DuckType, NEW c \in Calls
  PROVE  LET y == Handle(x, c)
             z == Obey(x, c)
         IN  /\ y \in DuckType
             /\ ~Accepts(x, c) => y = x
             /\ Accepts(x, c) =>
                  /\ y.wish = c.op /\ SameShow(z, y) /\ y.pause = z.pause
                  /\ y.resume = z.resume /\ y.seek = z.seek /\ y.seekTo = z.seekTo
<1> DEFINE z == Obey(x, c)
<1>1. z \in DuckType /\ c.op \in Ops
  BY ObeyType DEF Calls
<1>2. CASE Accepts(x, c)
  <2>1. Handle(x, c) = [z EXCEPT !.wish = c.op]
    BY <1>2 DEF Handle
  <2> HIDE DEF z
  <2>2. Handle(x, c) \in DuckType
    BY <1>1, <2>1 DEF DuckType
  <2>3. LET y == Handle(x, c)
        IN  /\ y.wish = c.op /\ SameShow(z, y) /\ y.pause = z.pause
            /\ y.resume = z.resume /\ y.seek = z.seek /\ y.seekTo = z.seekTo
    BY <1>1, <2>1, <2>2 DEF DuckType, SameShow
  <2> QED
    BY <1>2, <2>2, <2>3 DEF z
<1>3. CASE ~Accepts(x, c)
  BY <1>3 DEF Handle
<1> QED
  BY <1>2, <1>3

-----------------------------------------------------------------------------
(* What the tick thread makes of a duck, under the lock and after it.         *)

Ticked(x) ==
  LET y == IF x.state = "armed" THEN Started(x) ELSE x
  IN  IF y.state \in {"playing", "paused"} THEN PlayTick(y) ELSE y

Fired(x) ==
  LET y == [x EXCEPT !.fired = [e \in Events |-> @[e] + IF e \in x.due THEN 1 ELSE 0]]
      z == IF x.ended THEN [y EXCEPT !.state = "loaded", !.epoch = None, !.base = 0]
           ELSE y
      w == IF x.state = "playing" THEN z ELSE x
  IN  [w EXCEPT !.due = {}, !.ended = FALSE]

LEMMA FiredIs ==
  ASSUME NEW x \in DuckType
  PROVE  LET y == Fired(x)
         IN  /\ y \in DuckType /\ y.due = {}
             /\ y.frozen = x.frozen /\ y.pause = x.pause /\ y.resume = x.resume
             /\ y.seek = x.seek /\ y.seekTo = x.seekTo /\ y.wish = x.wish
             /\ y.held = x.held /\ y.last = x.last /\ y.start = x.start
             /\ y.at = x.at /\ y.from = x.from
             /\ x.state # "playing" => /\ y.state = x.state /\ y.epoch = x.epoch
                                       /\ y.base = x.base
             /\ x.state = "playing" =>
                  /\ \/ y.state = "loaded"
                     \/ /\ y.state = "playing" /\ y.epoch = x.epoch /\ y.base = x.base
                        /\ \A e \in Events :
                             y.fired[e] = x.fired[e] + IF e \in x.due THEN 1 ELSE 0
<1> DEFINE fired == [e \in Events |-> x.fired[e] + IF e \in x.due THEN 1 ELSE 0]
           y == [x EXCEPT !.fired = fired]
           z == IF x.ended THEN [y EXCEPT !.state = "loaded", !.epoch = None, !.base = 0]
                ELSE y
           w == IF x.state = "playing" THEN z ELSE x
<1>1. fired \in [Events -> Nat]
  BY DEF DuckType
<1>2. "loaded" \in DuckStates /\ None \in Times /\ 0 \in Int
      /\ {} \in SUBSET Events /\ FALSE \in BOOLEAN
  BY DEF DuckStates, Times
<1>3. \A e \in Events : fired[e] = x.fired[e] + IF e \in x.due THEN 1 ELSE 0
  OBVIOUS
<1>4. Fired(x) = [w EXCEPT !.due = {}, !.ended = FALSE]
  BY DEF Fired
<1> HIDE DEF fired
<1>5. y \in DuckType /\ z \in DuckType /\ w \in DuckType
  BY <1>1, <1>2 DEF DuckType
<1>6. /\ w.frozen = x.frozen /\ w.pause = x.pause /\ w.resume = x.resume
      /\ w.seek = x.seek /\ w.seekTo = x.seekTo /\ w.wish = x.wish
      /\ w.held = x.held /\ w.last = x.last /\ w.start = x.start
      /\ w.at = x.at /\ w.from = x.from
  BY DEF DuckType
<1>7. x.state # "playing" => w = x
  OBVIOUS
<1>8. x.state = "playing" =>
        \/ w.state = "loaded"
        \/ /\ w.state = "playing" /\ w.epoch = x.epoch /\ w.base = x.base
           /\ w.fired = fired
  BY DEF DuckType
<1> HIDE DEF w
<1>9. /\ Fired(x) \in DuckType /\ Fired(x).due = {}
      /\ Fired(x).state = w.state /\ Fired(x).epoch = w.epoch
      /\ Fired(x).base = w.base /\ Fired(x).fired = w.fired
      /\ Fired(x).frozen = w.frozen /\ Fired(x).pause = w.pause
      /\ Fired(x).resume = w.resume /\ Fired(x).seek = w.seek
      /\ Fired(x).seekTo = w.seekTo /\ Fired(x).wish = w.wish
      /\ Fired(x).held = w.held /\ Fired(x).last = w.last
      /\ Fired(x).start = w.start /\ Fired(x).at = w.at /\ Fired(x).from = w.from
  BY <1>2, <1>4, <1>5 DEF DuckType
<1> QED
  BY <1>3, <1>6, <1>7, <1>8, <1>9

LEMMA StartedIs ==
  ASSUME NEW x \in DuckType, now \in Int
  PROVE  LET y == Started(x)
         IN  /\ y \in DuckType
             /\ ~Come(x.at) => y = x
             /\ Come(x.at) => \/ y.state = "loaded"
                              \/ x.at \in Int /\ x.at <= now /\ y = Begin(x, x.from, x.at)
<1>1. CASE ~Come(x.at)
  BY <1>1 DEF Started
<1>2. CASE Come(x.at)
  <2>1. x.at \in Int /\ x.from \in Int /\ x.at <= now
    BY <1>2 DEF Come, DuckType, Times
  <2>2. CASE now - x.at >= MaxLate
    <3> DEFINE z == Cancel(x)
    <3>1. z \in DuckType
      BY CancelIs
    <3>2. Started(x) = [z EXCEPT !.state = "loaded", !.base = 0]
      BY <1>2, <2>2 DEF Started
    <3> HIDE DEF z
    <3>3. "loaded" \in DuckStates /\ 0 \in Int
      BY DEF DuckStates
    <3>4. Started(x) \in DuckType /\ Started(x).state = "loaded"
      BY <3>1, <3>2, <3>3 DEF DuckType
    <3> QED
      BY <1>2, <3>4
  <2>3. CASE ~(now - x.at >= MaxLate)
    <3>1. Started(x) = Begin(x, x.from, x.at)
      BY <1>2, <2>3 DEF Started
    <3> QED
      BY <1>2, <2>1, <3>1, BeginIs
  <2> QED
    BY <2>2, <2>3
<1> QED
  BY <1>1, <1>2

LEMMA ResumedIs ==
  ASSUME NEW x \in DuckType, now \in Int
  PROVE  LET y == Resumed(x)
         IN  /\ y \in DuckType
             /\ ~Come(x.resume) => y = x
             /\ Come(x.resume) /\ x.frozen = None =>
                  /\ SameShow(x, y) /\ y.pause = x.pause /\ y.seek = x.seek
                  /\ y.seekTo = x.seekTo /\ y.wish = x.wish /\ y.resume = None
             /\ Come(x.resume) /\ x.frozen # None =>
                  /\ x.resume \in Int /\ x.resume <= now /\ x.frozen \in Int
                  /\ y.state = "playing" /\ y.epoch = x.resume /\ y.base = x.frozen
                  /\ y.at = None /\ y.due = x.due
                  /\ NothingParked(y) /\ y.held = x.held /\ y.wish = x.wish
<1>1. CASE ~Come(x.resume)
  BY <1>1 DEF Resumed
<1>2. CASE Come(x.resume) /\ x.frozen = None
  <2>1. Resumed(x) = [x EXCEPT !.resume = None]
    BY <1>2 DEF Resumed
  <2>2. None \in Times
    BY DEF Times
  <2>3. Resumed(x) \in DuckType
    BY <2>1, <2>2 DEF DuckType
  <2> QED
    BY <1>2, <2>1, <2>3 DEF DuckType, SameShow
<1>3. CASE Come(x.resume) /\ x.frozen # None
  <2>1. x.resume \in Int /\ x.resume <= now /\ x.frozen \in Int
    BY <1>3 DEF Come, DuckType, Times
  <2>2. Resumed(x) = StartPlaying(x, x.frozen, x.resume)
    BY <1>3 DEF Resumed
  <2> QED
    BY <1>3, <2>1, <2>2, StartPlayingIs DEF NothingParked
<1> QED
  BY <1>1, <1>2, <1>3

-----------------------------------------------------------------------------
(* What a duck's fields say of each other, whatever the operator does: an     *)
(* armed duck has an instant and nothing else parked, a playing one a running *)
(* clock, a paused one a frozen clock in a pass that was held.                *)
Form(x) ==
  /\ x.state = "armed" => x.at # None /\ NothingParked(x) /\ x.wish # "pause"
  /\ x.state = "playing" => x.at = None /\ x.epoch # None /\ x.frozen = None
  /\ x.state = "paused" => x.at = None /\ x.frozen # None /\ x.pause = None /\ x.held

(* EventsOnceUnpaused made inductive: the last tick is not ahead of the clock,*)
(* and what fired is what it passed and has not still to fire.                *)
Counted(x) ==
  x.state = "playing" /\ ~x.held =>
    /\ x.epoch <= now /\ x.start - 1 <= x.last /\ x.last <= x.base + (now - x.epoch)
    /\ \A e \in Events :
         /\ e \in x.due => x.start <= e /\ e <= x.last
         /\ x.fired[e] = IF x.start <= e /\ e <= x.last /\ e \notin x.due THEN 1 ELSE 0

LEMMA PausedForm ==
  ASSUME NEW x \in DuckType, now \in Int, Form(x), x.state \in {"playing", "paused"}
  PROVE  LET y == Paused(x)
         IN  /\ y \in DuckType /\ Form(y) /\ y.state \in {"playing", "paused"}
             /\ y.due = x.due /\ (y.held \/ y = x)
<1>1. CASE Come(x.pause)
  <2>1. x.at = None
    BY DEF Form
  <2>2. LET y == Paused(x)
        IN  /\ y \in DuckType /\ y.state = "paused" /\ y.frozen \in Int
            /\ y.pause = None /\ y.held = TRUE /\ y.at = x.at /\ y.due = x.due
    BY <1>1, PausedIs
  <2> QED
    BY <2>1, <2>2, Bounds DEF Form
<1>2. CASE ~Come(x.pause)
  BY <1>2 DEF Paused
<1> QED
  BY <1>1, <1>2

LEMMA ResumedForm ==
  ASSUME NEW x \in DuckType, now \in Int, Form(x), x.state \in {"playing", "paused"}
  PROVE  LET y == Resumed(x)
         IN  /\ y \in DuckType /\ Form(y) /\ y.state \in {"playing", "paused"}
             /\ y.due = x.due /\ (y.held \/ SameShow(x, y))
<1>1. CASE ~Come(x.resume)
  BY <1>1, ResumedIs DEF SameShow
<1>2. CASE Come(x.resume) /\ x.frozen = None
  BY <1>2, ResumedIs DEF SameShow, Form
<1>3. CASE Come(x.resume) /\ x.frozen # None
  <2>1. x.state = "paused" /\ x.held
    BY <1>3 DEF Form
  <2>2. LET y == Resumed(x)
        IN  /\ y \in DuckType /\ y.state = "playing" /\ y.epoch = x.resume
            /\ y.at = None /\ y.due = x.due /\ y.frozen = None /\ y.held = x.held
            /\ x.resume \in Int
    BY <1>3, ResumedIs DEF NothingParked
  <2> QED
    BY <2>1, <2>2, Bounds DEF Form
<1> QED
  BY <1>1, <1>2, <1>3

(* The frame of a tick: the events the clock has come to since the last.      *)
LEMMA FramedCounts ==
  ASSUME NEW x \in DuckType, now \in Int, Form(x), Counted(x), x.due = {}
  PROVE  Framed(x) \in DuckType /\ Form(Framed(x)) /\ Counted(Framed(x))
<1> DEFINE y == Framed(x)
<1>1. /\ y \in DuckType
      /\ y.due = {e \in Events : x.last < e /\ e <= ShowTime(x, now)}
      /\ y.last = ShowTime(x, now)
      /\ y.state = x.state /\ y.at = x.at /\ y.epoch = x.epoch
      /\ y.base = x.base /\ y.frozen = x.frozen /\ y.pause = x.pause
      /\ y.resume = x.resume /\ y.seek = x.seek
      /\ y.wish = x.wish /\ y.start = x.start
      /\ y.fired = x.fired /\ y.held = x.held
  BY FramedIs
<1> HIDE DEF y
<1>2. Form(y)
  BY <1>1 DEF Form, NothingParked
<1>3. ASSUME x.state = "playing", ~x.held
      PROVE  Counted(y)
  <2>1. x.epoch \in Int /\ x.base \in Int /\ x.start \in Int /\ x.last \in Int
    BY <1>3 DEF Form, DuckType, Times
  <2>2. ShowTime(x, now) = x.base + (now - x.epoch)
    BY <1>3 DEF Form, ShowTime
  <2>3. /\ x.epoch <= now /\ x.start - 1 <= x.last /\ x.last <= ShowTime(x, now)
        /\ \A e \in Events :
             x.fired[e] = IF x.start <= e /\ e <= x.last THEN 1 ELSE 0
    BY <1>3, <2>2 DEF Counted
  <2>4. /\ y.epoch <= now /\ y.start - 1 <= y.last
        /\ y.last <= y.base + (now - y.epoch)
    BY <1>1, <2>1, <2>2, <2>3
  <2>5. ASSUME NEW e \in Events
        PROVE  /\ e \in y.due => y.start <= e /\ e <= y.last
               /\ y.fired[e] = IF y.start <= e /\ e <= y.last /\ e \notin y.due
                               THEN 1 ELSE 0
    <3>1. e \in Int
      BY Bounds
    <3>2. e \in y.due <=> x.last < e /\ e <= y.last
      BY <1>1
    <3>3. y.last \in Int /\ y.start = x.start /\ x.last <= y.last
      BY <1>1, <2>1, <2>2, <2>3
    <3> QED
      BY <1>1, <2>1, <2>3, <3>1, <3>2, <3>3
  <2> QED
    BY <2>4, <2>5 DEF Counted
<1>4. ASSUME ~(x.state = "playing" /\ ~x.held)
      PROVE  Counted(y)
  BY <1>1, <1>4 DEF Counted
<1> QED
  BY <1>1, <1>2, <1>3, <1>4 DEF y

(* A start, at whatever tick notices it.                                      *)
LEMMA BegunForm ==
  ASSUME NEW x \in DuckType, NEW s \in Int, NEW t \in Int, now \in Int, t <= now
  PROVE  LET y == Begin(x, s, t)
         IN  /\ y \in DuckType /\ y.due = x.due /\ y.state = "playing"
             /\ Form(y) /\ (x.due = {} => Counted(y))
<1> DEFINE y == Begin(x, s, t)
<1>1. /\ y \in DuckType
      /\ y.state = "playing" /\ y.epoch \in Int /\ y.epoch <= now
      /\ y.start = y.base /\ y.last = y.start - 1
      /\ y.at = None /\ y.frozen = None /\ y.due = x.due
      /\ y.held = FALSE /\ \A e \in Events : y.fired[e] = 0
  BY BeginIs
<1> HIDE DEF y
<1>2. y.base \in Int /\ y.start \in Int
  BY <1>1 DEF DuckType
<1>3. Form(y)
  BY <1>1, Bounds DEF Form
<1>4. x.due = {} => Counted(y)
  BY <1>1, <1>2, Bounds DEF Counted
<1> QED
  BY <1>1, <1>3, <1>4 DEF y

LEMMA PlayTickForm ==
  ASSUME NEW x \in DuckType, now \in Int, Form(x), Counted(x), x.due = {},
         x.state \in {"playing", "paused"}
  PROVE  PlayTick(x) \in DuckType /\ Form(PlayTick(x)) /\ Counted(PlayTick(x))
<1> DEFINE p == Paused(x)
           y == Resumed(p)
<1>1. /\ p \in DuckType /\ Form(p) /\ p.state \in {"playing", "paused"}
      /\ p.due = {} /\ (p.held \/ p = x)
  BY PausedForm
<1> HIDE DEF p
<1>2. /\ y \in DuckType /\ Form(y) /\ y.state \in {"playing", "paused"}
      /\ y.due = {} /\ (y.held \/ SameShow(p, y))
  BY <1>1, ResumedForm
<1>3. Counted(y)
  BY <1>1, <1>2 DEF Counted, SameShow
<1>4. PlayTick(x) = IF ~Come(y.seek) THEN Framed(y)
                    ELSE IF y.frozen # None THEN SoughtFrozen(y)
                    ELSE Framed(Begin(y, y.seekTo, y.seek))
  BY DEF PlayTick, p
<1> HIDE DEF y
<1>5. CASE ~Come(y.seek)
  <2>1. PlayTick(x) = Framed(y)
    BY <1>4, <1>5
  <2> QED
    BY <1>2, <1>3, <2>1, FramedCounts
<1>6. CASE Come(y.seek) /\ y.frozen # None
  <2>1. y.state = "paused" /\ y.at = None /\ y.pause = None
    BY <1>2, <1>6 DEF Form
  <2>2. LET z == SoughtFrozen(y)
        IN  /\ z \in DuckType /\ z.frozen \in Int /\ z.held = TRUE
            /\ z.state = y.state /\ z.at = y.at /\ z.pause = y.pause
    BY <1>2, SoughtFrozenIs
  <2>3. PlayTick(x) = SoughtFrozen(y)
    BY <1>4, <1>6
  <2> QED
    BY <2>1, <2>2, <2>3, Bounds DEF Form, Counted
<1>7. CASE Come(y.seek) /\ y.frozen = None
  <2> DEFINE b == Begin(y, y.seekTo, y.seek)
  <2>1. y.seek \in Int /\ y.seek <= now /\ y.seekTo \in Int
    BY <1>2, <1>7 DEF Come, DuckType, Times
  <2>2. b \in DuckType /\ b.due = {} /\ Form(b) /\ Counted(b)
    BY <1>2, <2>1, BegunForm
  <2>3. PlayTick(x) = Framed(b)
    BY <1>4, <1>7
  <2> HIDE DEF b
  <2> QED
    BY <2>2, <2>3, FramedCounts
<1> QED
  BY <1>5, <1>6, <1>7

LEMMA TickedForm ==
  ASSUME NEW x \in DuckType, now \in Int, Form(x), Counted(x), x.due = {}
  PROVE  Ticked(x) \in DuckType /\ Form(Ticked(x)) /\ Counted(Ticked(x))
<1> DEFINE y == IF x.state = "armed" THEN Started(x) ELSE x
<1>1. y \in DuckType /\ Form(y) /\ Counted(y)
      /\ (y.state \in {"playing", "paused"} => y.due = {})
  <2>1. CASE x.state = "armed" /\ Come(x.at)
    <3>1. CASE Started(x).state = "loaded"
      BY <2>1, <3>1, StartedIs DEF Form, Counted
    <3>2. CASE x.at \in Int /\ x.at <= now /\ Started(x) = Begin(x, x.from, x.at)
      <4>1. x.from \in Int
        BY DEF DuckType
      <4>2. LET z == Begin(x, x.from, x.at)
            IN  /\ z \in DuckType /\ z.due = x.due
                /\ Form(z) /\ (x.due = {} => Counted(z))
        BY <3>2, <4>1, BegunForm
      <4>3. y = Begin(x, x.from, x.at)
        BY <2>1, <3>2
      <4> QED
        BY <4>2, <4>3
    <3> QED
      BY <2>1, <3>1, <3>2, StartedIs
  <2>2. CASE x.state = "armed" /\ ~Come(x.at)
    BY <2>2, StartedIs
  <2>3. CASE x.state # "armed"
    BY <2>3
  <2> QED
    BY <2>1, <2>2, <2>3
<1>2. Ticked(x) = IF y.state \in {"playing", "paused"} THEN PlayTick(y) ELSE y
  BY DEF Ticked
<1> HIDE DEF y
<1> QED
  BY <1>1, <1>2, PlayTickForm

LEMMA FiredForm ==
  ASSUME NEW x \in DuckType, Form(x), Counted(x)
  PROVE  Form(Fired(x)) /\ Counted(Fired(x))
<1> DEFINE y == Fired(x)
<1>1. /\ y \in DuckType /\ y.due = {}
      /\ y.frozen = x.frozen /\ y.pause = x.pause /\ y.resume = x.resume
      /\ y.seek = x.seek /\ y.wish = x.wish
      /\ y.held = x.held /\ y.last = x.last /\ y.start = x.start /\ y.at = x.at
      /\ x.state # "playing" => y.state = x.state
      /\ x.state = "playing" =>
           \/ y.state = "loaded"
           \/ /\ y.state = "playing" /\ y.epoch = x.epoch /\ y.base = x.base
              /\ \A e \in Events :
                   y.fired[e] = x.fired[e] + IF e \in x.due THEN 1 ELSE 0
  BY FiredIs
<1> HIDE DEF y
<1>2. Form(y)
  BY <1>1 DEF Form, NothingParked
<1>3. Counted(y)
  <2>1. SUFFICES ASSUME y.state = "playing", ~y.held
                 PROVE  Counted(y)
    BY DEF Counted
  <2>2. x.state = "playing" /\ ~x.held /\ y.epoch = x.epoch /\ y.base = x.base
    BY <1>1, <2>1
  <2>3. ASSUME NEW e \in Events
        PROVE  y.fired[e] = IF y.start <= e /\ e <= y.last /\ e \notin y.due
                           THEN 1 ELSE 0
    <3>1. /\ y.fired[e] = x.fired[e] + IF e \in x.due THEN 1 ELSE 0
          /\ e \in x.due => x.start <= e /\ e <= x.last
          /\ x.fired[e] = IF x.start <= e /\ e <= x.last /\ e \notin x.due THEN 1 ELSE 0
      BY <1>1, <2>1, <2>2 DEF Counted
    <3> QED
      BY <1>1, <3>1
  <2> QED
    BY <1>1, <2>2, <2>3 DEF Counted
<1> QED
  BY <1>2, <1>3 DEF y

LEMMA HandledForm ==
  ASSUME NEW x \in DuckType, NEW c \in Calls, Form(x), Counted(x)
  PROVE  Form(Handle(x, c)) /\ Counted(Handle(x, c))
<1> DEFINE y == Handle(x, c)
           z == Obey(x, c)
<1>1. CASE ~Accepts(x, c)
  BY <1>1, HandleIs
<1>2. ASSUME Accepts(x, c)
      PROVE  Form(y) /\ Counted(y)
  <2>1. /\ y \in DuckType /\ y.wish = c.op /\ SameShow(z, y)
        /\ y.pause = z.pause /\ y.resume = z.resume /\ y.seek = z.seek
    BY <1>2, HandleIs
  <2> HIDE DEF y
  <2>2. c.op \in Ops /\ c.at \in Int /\ c.at # None
    BY Bounds DEF Calls
  <2>3. CASE c.op = "play"
    <3>1. z.state = "armed" /\ z.at = c.at /\ NothingParked(z)
      BY <2>3, PlayIs
    <3> QED
      BY <2>1, <2>2, <2>3, <3>1 DEF Form, Counted, SameShow, NothingParked
  <2>4. CASE c.op = "seek"
    <3>1. /\ z.frozen = x.frozen /\ z.pause = x.pause /\ z.resume = x.resume
          /\ x.state = "armed" => z.state = "armed" /\ z.at = c.at /\ z.seek = None
          /\ x.state # "armed" => SameShow(x, z)
      BY <2>4, SeekIs
    <3>2. CASE x.state = "armed"
      BY <2>1, <2>2, <2>4, <3>1, <3>2 DEF Form, Counted, SameShow, NothingParked
    <3>3. CASE x.state # "armed"
      BY <2>1, <2>2, <2>4, <3>1, <3>3 DEF Form, Counted, SameShow
    <3> QED
      BY <3>2, <3>3
  <2>5. CASE c.op = "pause"
    <3>1. /\ SameShow(x, z) /\ z.resume = x.resume /\ z.seek = x.seek
          /\ z.pause = IF x.frozen = None /\ x.pause = None THEN c.at ELSE x.pause
      BY <2>5, PauseIs
    <3>2. x.state # "armed"
      BY <1>2, <2>5, AcceptsIs DEF Form, NothingParked
    <3> QED
      BY <2>1, <2>5, <3>1, <3>2 DEF Form, Counted, SameShow
  <2>6. CASE c.op = "resume"
    <3>1. /\ SameShow(x, z) /\ z.pause = x.pause /\ z.seek = x.seek
          /\ z.resume = IF x.frozen = None /\ x.pause = None THEN x.resume ELSE c.at
      BY <2>6, ResumeIs
    <3> QED
      BY <2>1, <2>6, <3>1 DEF Form, Counted, SameShow, NothingParked
  <2>7. CASE c.op = "stop"
    BY <2>1, <2>7, StopIs DEF Form, Counted, SameShow
  <2> QED
    BY <2>2, <2>3, <2>4, <2>5, <2>6, <2>7 DEF Ops
<1> QED
  BY <1>1, <1>2

-----------------------------------------------------------------------------
(* The types, the command under way, and Form and Counted of every duck.      *)

Anchored ==
  /\ master.transport = "armed" => master.epoch # None
  /\ call # None /\ call.op = "resume" => master.paused # None

Timed ==
  call # None => /\ call.begun <= now /\ now <= call.begun + CallTime
                 /\ call.op # "stop" => call.at = call.begun + Lead

Sound ==
  /\ Typed /\ Anchored /\ Timed
  /\ \A d \in Ducks : Form(duck[d]) /\ Counted(duck[d])

LEMMA SoundTypes == ASSUME Sound PROVE TypeOK
BY DEF Sound, Typed, TypeOK, DuckType, DuckStates, MasterType

LEMMA IdleForm == Idle \in DuckType /\ Form(Idle) /\ Counted(Idle)
<1>1. [e \in Events |-> 0] \in [Events -> Nat]
  OBVIOUS
<1>2. Idle \in DuckType
  BY <1>1 DEF Idle, DuckType, DuckStates, Times
<1> QED
  BY <1>2 DEF Idle, Form, Counted

LEMMA InitSound == ASSUME Init PROVE Sound
<1>1. Typed
  <2>1. 0 \in 0..MaxTime /\ script \in Seq(Ops)
    BY ShowClockAssumption, Bounds DEF Init
  <2>2. master \in MasterType
    BY DEF Init, MasterType, Times
  <2> QED
    BY <2>1, <2>2, IdleForm DEF Init, Typed
<1> QED
  BY <1>1, IdleForm DEF Init, Sound, Anchored, Timed

(* What is typed, one piece at a time.                                        *)
LEMMA TypedIs ==
  ASSUME Typed
  PROVE  /\ now \in Int /\ now \in Nat
         /\ call # None => /\ call \in Calls /\ call.op \in Ops /\ call.at \in Int
                           /\ call.to \in Int /\ call.frozen \in Int
                           /\ call.begun \in Int /\ call.waiting \subseteq Ducks
                           /\ call.ok \in BOOLEAN
         /\ master \in MasterType /\ master.from \in Int
         /\ master.epoch # None => master.epoch \in Int
         /\ master.paused # None => master.paused \in Int
         /\ \A d \in Ducks : duck[d] \in DuckType
BY Bounds DEF Typed, Calls, MasterType, Times

(* A step that changes one duck and nothing of what Form and Counted compare  *)
(* the ducks with.                                                            *)
LEMMA OneDuckSound ==
  ASSUME Sound, NEW d \in Ducks, NEW y \in DuckType, Form(y), Counted(y),
         duck' = [duck EXCEPT ![d] = y], now' = now
  PROVE  /\ duck' \in [Ducks -> DuckType]
         /\ \A e \in Ducks : (Form(duck[e]) /\ Counted(duck[e]))'
<1>1. duck \in [Ducks -> DuckType]
  BY DEF Sound, Typed
<1>2. duck' \in [Ducks -> DuckType]
  BY <1>1
<1>3. ASSUME NEW e \in Ducks
      PROVE  (Form(duck[e]) /\ Counted(duck[e]))'
  <2>1. CASE e = d
    <3>1. duck'[e] = y
      BY <1>1, <2>1
    <3> QED
      BY <3>1 DEF Form, Counted, NothingParked
  <2>2. CASE e # d
    <3>1. duck'[e] = duck[e] /\ Form(duck[e]) /\ Counted(duck[e])
      BY <1>1, <2>2 DEF Sound
    <3> QED
      BY <3>1 DEF Form, Counted, NothingParked
  <2> QED
    BY <2>1, <2>2
<1> QED
  BY <1>2, <1>3

(* The ducks are not touched.                                                 *)
LEMMA DucksKept ==
  ASSUME Sound, duck' = duck, now' = now
  PROVE  \A e \in Ducks : (Form(duck[e]) /\ Counted(duck[e]))'
BY DEF Sound, Form, Counted, NothingParked

LEMMA TickIs ==
  ASSUME NEW d \in Ducks, Tick(d)
  PROVE  /\ duck[d].due = {} /\ duck' = [duck EXCEPT ![d] = Ticked(duck[d])]
         /\ UNCHANGED <<now, script, call, master, whole>>
BY DEF Tick, Ticked

LEMMA FireIs ==
  ASSUME NEW d \in Ducks, Fire(d)
  PROVE  /\ duck' = [duck EXCEPT ![d] = Fired(duck[d])]
         /\ UNCHANGED <<now, script, call, master, whole>>
BY DEF Fire, Fired

LEMMA TickSound ==
  ASSUME Sound, NEW d \in Ducks, Tick(d) \/ Fire(d)
  PROVE  Sound'
<1>1. PICK y \in DuckType :
        Form(y) /\ Counted(y) /\ duck' = [duck EXCEPT ![d] = y]
  <2>1. duck[d] \in DuckType /\ Form(duck[d]) /\ Counted(duck[d]) /\ now \in Int
    BY TypedIs DEF Sound
  <2>2. CASE Tick(d)
    BY <2>1, <2>2, TickIs, TickedForm
  <2>3. CASE Fire(d)
    BY <2>1, <2>3, FireIs, FiredIs, FiredForm
  <2> QED
    BY <2>2, <2>3
<1>2. UNCHANGED <<now, script, call, master, whole>>
  BY TickIs, FireIs
<1>3. /\ duck' \in [Ducks -> DuckType]
      /\ \A e \in Ducks : (Form(duck[e]) /\ Counted(duck[e]))'
  BY <1>1, <1>2, OneDuckSound
<1> QED
  BY <1>2, <1>3 DEF Sound, Typed, Anchored, Timed

LEMMA DeliverSound ==
  ASSUME Sound, NEW d \in Ducks, Deliver(d)
  PROVE  Sound'
<1> DEFINE y == Handle(duck[d], call)
           ok == Accepts(duck[d], call)
<1>1. duck[d] \in DuckType /\ Form(duck[d]) /\ Counted(duck[d]) /\ call \in Calls
  BY TypedIs DEF Sound, Deliver
<1>2. y \in DuckType /\ Form(y) /\ Counted(y)
  BY <1>1, HandleIs, HandledForm
<1>3. ok \in BOOLEAN
  BY <1>1, AcceptsBoolean
<1>4. /\ duck' = [duck EXCEPT ![d] = y] /\ call # None
      /\ call' = [call EXCEPT !.waiting = @ \ {d}, !.ok = @ /\ ok]
      /\ whole' = (whole /\ ok)
      /\ UNCHANGED <<now, script, master>>
  BY DEF Deliver
<1> HIDE DEF y, ok
<1>5. /\ duck' \in [Ducks -> DuckType]
      /\ \A e \in Ducks : (Form(duck[e]) /\ Counted(duck[e]))'
  BY <1>2, <1>4, OneDuckSound
<1>6. /\ call' \in Calls /\ call'.op = call.op /\ call'.begun = call.begun
      /\ call'.at = call.at
  BY <1>1, <1>3, <1>4 DEF Calls
<1>7. Typed'
  BY <1>3, <1>4, <1>5, <1>6 DEF Sound, Typed
<1> QED
  BY <1>4, <1>5, <1>6, <1>7 DEF Sound, Anchored, Timed

(* The command that Issue makes of the operator's next operation, unless the  *)
(* master refuses it.                                                         *)
LEMMA IssueIs ==
  ASSUME Typed, Anchored, Issue
  PROVE  LET op == Head(script)
         IN  /\ op \in Ops /\ script # <<>> /\ call = None
             /\ script' = Tail(script) /\ script' \in Seq(Ops)
             /\ UNCHANGED <<now, master, duck, whole>>
             /\ Refused(op) => call' = None
             /\ ~Refused(op) =>
                  /\ call' # None /\ call' \in Calls
                  /\ call'.op = op /\ call'.begun = now /\ call'.waiting = Ducks
                  /\ call'.ok = TRUE
                  /\ call'.at = IF op = "stop" THEN now ELSE now + Lead
<1> DEFINE op == Head(script)
<1>1. op \in Ops /\ Tail(script) \in Seq(Ops) /\ script # <<>>
  BY DEF Typed, Issue
<1>2. PICK to \in IF op = "seek" THEN SeekTo ELSE {0} :
        call' = IF Refused(op) THEN None
                ELSE [op |-> op, at |-> IF op = "stop" THEN now ELSE now + Lead,
                      to |-> to, frozen |-> MasterShowTime, begun |-> now,
                      waiting |-> Ducks, ok |-> TRUE]
  BY DEF Issue
<1>3. to \in Int
  BY <1>2, Bounds
<1>4. MasterShowTime \in Int
  BY TypedIs DEF MasterShowTime, Anchored
<1>5. call = None /\ script' = Tail(script) /\ UNCHANGED <<now, master, duck, whole>>
  BY DEF Issue
<1> HIDE DEF op
<1>6. ASSUME ~Refused(op)
      PROVE  /\ call' # None /\ call' \in Calls
             /\ call'.op = op /\ call'.begun = now /\ call'.waiting = Ducks
             /\ call'.ok = TRUE
             /\ call'.at = IF op = "stop" THEN now ELSE now + Lead
  <2>1. call' = [op |-> op, at |-> IF op = "stop" THEN now ELSE now + Lead,
                 to |-> to, frozen |-> MasterShowTime, begun |-> now,
                 waiting |-> Ducks, ok |-> TRUE]
    BY <1>2, <1>6
  <2>2. now \in Int /\ now + Lead \in Int
    BY TypedIs, Bounds
  <2>3. call' \in Calls
    BY <1>1, <1>3, <1>4, <2>1, <2>2 DEF Calls, op
  <2> QED
    BY <2>1, <2>3, Bounds
<1>7. Refused(op) => call' = None
  BY <1>2
<1> QED
  BY <1>1, <1>5, <1>6, <1>7 DEF op

LEMMA IssueSound ==
  ASSUME Sound, Issue
  PROVE  Sound'
<1> DEFINE op == Head(script)
<1>1. /\ op \in Ops /\ script' \in Seq(Ops)
      /\ UNCHANGED <<now, master, duck, whole>>
      /\ Refused(op) => call' = None
      /\ ~Refused(op) =>
           /\ call' # None /\ call' \in Calls
           /\ call'.op = op /\ call'.begun = now
           /\ call'.at = IF op = "stop" THEN now ELSE now + Lead
  BY IssueIs DEF Sound
<1> HIDE DEF op
<1>2. Typed'
  BY <1>1 DEF Sound, Typed
<1>3. Anchored'
  BY <1>1 DEF Sound, Anchored, Refused
<1>4. Timed'
  BY <1>1, TypedIs, Bounds DEF Sound, Timed
<1>5. \A e \in Ducks : (Form(duck[e]) /\ Counted(duck[e]))'
  BY <1>1, DucksKept
<1> QED
  BY <1>2, <1>3, <1>4, <1>5 DEF Sound

(* What the end of each method makes of the master.                           *)
LEMMA ReturnIs ==
  ASSUME Sound, Return
  PROVE  /\ call # None /\ call.waiting = {} /\ call' = None
         /\ UNCHANGED <<now, script, duck, whole>>
         /\ master' \in MasterType
         /\ ~call.ok => master' = master
         /\ call.ok /\ call.op \in {"play", "seek"} =>
              /\ master'.transport = "armed" /\ master'.epoch = call.at
              /\ master'.from = call.to /\ master'.paused = master.paused
         /\ call.ok /\ call.op = "pause" =>
              /\ master'.transport = "paused" /\ master'.epoch = master.epoch
              /\ master'.from = master.from /\ master'.paused = call.frozen
         /\ call.ok /\ call.op = "resume" =>
              /\ master'.transport = "playing" /\ master'.epoch = call.at
              /\ master'.from = master.paused /\ master'.paused = None
         /\ call.ok /\ call.op = "stop" =>
              /\ master'.transport = "stopped" /\ master'.epoch = None
              /\ master'.from = master.from /\ master'.paused = None
<1>1. /\ call # None /\ call.waiting = {} /\ call' = None
      /\ UNCHANGED <<now, script, duck, whole>>
  BY DEF Return
<1>2. /\ call.op \in Ops /\ call.at \in Int /\ call.to \in Int /\ call.frozen \in Int
      /\ master \in MasterType
      /\ call.op = "resume" => master.paused \in Int
  BY <1>1, TypedIs DEF Sound, Anchored
<1>3. call.at \in Times /\ call.frozen \in Times /\ None \in Times
  BY <1>2 DEF Times
<1>4. CASE ~call.ok
  BY <1>1, <1>2, <1>4 DEF Return
<1>5. CASE call.ok /\ call.op \in {"play", "seek"}
  <2>1. master' = [master EXCEPT !.transport = "armed", !.epoch = call.at,
                                 !.from = call.to]
    BY <1>5 DEF Return
  <2> QED
    BY <1>1, <1>2, <1>3, <1>5, <2>1 DEF MasterType
<1>6. CASE call.ok /\ call.op = "pause"
  <2>1. master' = [master EXCEPT !.transport = "paused", !.paused = call.frozen]
    BY <1>6 DEF Return
  <2> QED
    BY <1>1, <1>2, <1>3, <1>6, <2>1 DEF MasterType
<1>7. CASE call.ok /\ call.op = "resume"
  <2>1. master' = [master EXCEPT !.transport = "playing", !.epoch = call.at,
                                 !.from = master.paused, !.paused = None]
    BY <1>7 DEF Return
  <2> QED
    BY <1>1, <1>2, <1>3, <1>7, <2>1 DEF MasterType
<1>8. CASE call.ok /\ call.op = "stop"
  <2>1. master' = [master EXCEPT !.transport = "stopped", !.epoch = None,
                                 !.paused = None]
    BY <1>8 DEF Return
  <2> QED
    BY <1>1, <1>2, <1>3, <1>8, <2>1 DEF MasterType
<1> QED
  BY <1>2, <1>4, <1>5, <1>6, <1>7, <1>8 DEF Ops

LEMMA ReturnSound ==
  ASSUME Sound, Return
  PROVE  Sound'
<1>1. /\ call # None /\ call' = None /\ UNCHANGED <<now, script, duck, whole>>
      /\ master' \in MasterType
  BY ReturnIs
<1>2. master'.transport = "armed" => master'.epoch # None
  <2>1. call.op \in Ops /\ call.at \in Int /\ call.ok \in BOOLEAN
    BY <1>1, TypedIs DEF Sound
  <2> QED
    BY <2>1, ReturnIs, Bounds DEF Sound, Anchored, Ops
<1>3. \A e \in Ducks : (Form(duck[e]) /\ Counted(duck[e]))'
  BY <1>1, DucksKept
<1> QED
  BY <1>1, <1>2, <1>3 DEF Sound, Typed, Anchored, Timed

LEMMA StateLoopSound ==
  ASSUME Sound, StateLoopLooks \/ StateLoop
  PROVE  Sound'
<1>1. /\ \/ master' = [master EXCEPT !.comes = TRUE]
         \/ master' = [master EXCEPT !.transport = "playing", !.comes = FALSE]
      /\ UNCHANGED <<now, script, call, duck, whole>>
  BY DEF StateLoop, StateLoopLooks
<1>2. /\ master' \in MasterType /\ master'.epoch = master.epoch
      /\ master'.paused = master.paused
      /\ master'.transport \in {"playing", master.transport}
  BY <1>1, TypedIs DEF Sound, MasterType
<1>3. \A e \in Ducks : (Form(duck[e]) /\ Counted(duck[e]))'
  BY <1>1, DucksKept
<1> QED
  BY <1>1, <1>2, <1>3 DEF Sound, Typed, Anchored, Timed

LEMMA PassSound ==
  ASSUME Sound, Pass
  PROVE  Sound'
<1>1. /\ now < MaxTime /\ now' = now + 1 /\ now \in Nat
      /\ call # None => now < call.begun + CallTime /\ call.begun \in Int
      /\ UNCHANGED <<script, call, master, duck, whole>>
  BY TypedIs DEF Pass, Sound
<1>2. Typed'
  BY <1>1, Bounds DEF Sound, Typed
<1>3. Timed'
  BY <1>1, Bounds DEF Sound, Timed
<1>4. ASSUME NEW e \in Ducks
      PROVE  (Form(duck[e]) /\ Counted(duck[e]))'
  <2>1. duck[e] \in DuckType /\ Form(duck[e]) /\ Counted(duck[e]) /\ duck' = duck
    BY <1>1, TypedIs DEF Sound
  <2>2. Form(duck[e])'
    BY <2>1 DEF Form, NothingParked
  <2>3. duck[e].state = "playing" =>
          duck[e].epoch \in Int /\ duck[e].base \in Int /\ duck[e].last \in Int
    BY <2>1 DEF Form, DuckType, Times
  <2>4. Counted(duck[e])'
    BY <1>1, <2>1, <2>3 DEF Counted
  <2> QED
    BY <2>2, <2>4
<1> QED
  BY <1>1, <1>2, <1>3, <1>4 DEF Sound, Anchored

LEMMA NextSound ==
  ASSUME Sound, [Next]_vars
  PROVE  Sound'
<1>1. CASE UNCHANGED vars
  <2>1. UNCHANGED <<now, script, call, master, duck, whole>>
    BY <1>1 DEF vars
  <2>2. \A e \in Ducks : (Form(duck[e]) /\ Counted(duck[e]))'
    BY <2>1, DucksKept
  <2> QED
    BY <2>1, <2>2 DEF Sound, Typed, Anchored, Timed
<1>2. CASE Next
  BY <1>2, IssueSound, ReturnSound, StateLoopSound, PassSound, DeliverSound, TickSound
     DEF Next
<1> QED
  BY <1>1, <1>2

(* The types and the form of every duck's state hold whatever the operator    *)
(* does and however late the ticks are.                                       *)
THEOREM StaysSound == Spec => []Sound
<1>1. Init => Sound
  BY InitSound
<1>2. Sound /\ [Next]_vars => Sound'
  BY NextSound
<1> QED
  BY <1>1, <1>2, PTL DEF Spec

(* Every variable keeps its type.                                             *)
THEOREM ClockTypes == Spec => []TypeOK
<1>1. Sound => TypeOK
  BY SoundTypes
<1> QED
  BY <1>1, StaysSound, PTL

(* In a pass of the show that was never paused every discrete event that the  *)
(* clock has passed has fired, and none twice: for any cast, any show, any    *)
(* operations in any order, late joins and seeks included (_play_tick,        *)
(* _fire_event, _begin_playback).                                             *)
THEOREM EventsFireOnce == Spec => []EventsOnceUnpaused
<1>1. Sound => EventsOnceUnpaused
  BY DEF Sound, Counted, EventsOnceUnpaused, FiredOnce
<1> QED
  BY <1>1, StaysSound, PTL

=============================================================================
