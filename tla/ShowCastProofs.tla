---------------------------- MODULE ShowCastProofs ----------------------------
(***************************************************************************)
(* Theorems about ShowClock that relate the ducks of a cast to the         *)
(* operator's commands, to each other and to their master: for any cast,   *)
(* any lateness of any tick, and any careful script of any length.         *)
(***************************************************************************)
EXTENDS ShowClockProofs

-----------------------------------------------------------------------------
(* Scripts.                                                                   *)

LEMMA CarefulTail ==
  ASSUME NEW s \in Seq(Ops), s # <<>>, Careful(s)
  PROVE  /\ Careful(Tail(s))
         /\ Tail(s) # <<>> => <<Head(s), Head(Tail(s))>> \notin Clashes
<1>1. /\ Len(s) \in Nat /\ Len(s) > 0 /\ Len(Tail(s)) = Len(s) - 1
      /\ \A i \in 1 .. Len(Tail(s)) : Tail(s)[i] = s[i + 1]
  OBVIOUS
<1>2. Careful(Tail(s))
  <2>1. ASSUME NEW i \in 1 .. Len(Tail(s)) - 1
        PROVE  <<Tail(s)[i], Tail(s)[i + 1]>> \notin Clashes
    <3>1. i + 1 \in 1 .. Len(s) - 1 /\ Tail(s)[i] = s[i + 1]
          /\ Tail(s)[i + 1] = s[(i + 1) + 1]
      BY <1>1
    <3> QED
      BY <3>1 DEF Careful
  <2> QED
    BY <2>1 DEF Careful
<1>3. ASSUME Tail(s) # <<>>
      PROVE  <<Head(s), Head(Tail(s))>> \notin Clashes
  <2>1. Len(s) >= 2 /\ Head(s) = s[1] /\ Head(Tail(s)) = s[1 + 1]
    BY <1>1, <1>3
  <2>2. 1 \in 1 .. Len(s) - 1
    BY <1>1, <2>1
  <2> QED
    BY <2>1, <2>2 DEF Careful
<1> QED
  BY <1>2, <1>3

(* What has no clash with the second of two operations in a row, and does not *)
(* clash with it either if the second is one a duck may refuse.               *)
LEMMA NoClash ==
  ASSUME NEW a, NEW b \in Ops, NEW c,
         <<a, b>> \notin Clashes, <<b, c>> \notin Clashes, b \notin {"play", "stop"}
  PROVE  <<a, c>> \notin Clashes
BY DEF Clashes, Ops

LEMMA ClashIs ==
  ASSUME NEW a, NEW b
  PROVE  <<a, b>> \in Clashes <=> \/ a = "seek" /\ b \in {"pause", "resume"}
                                  \/ a = "resume" /\ b \in {"pause", "seek"}
BY DEF Clashes

-----------------------------------------------------------------------------
(* What is parked on a duck of a careful operator: a pause, or what was asked *)
(* for after it as well, and then the pause comes first.  The last command    *)
(* the duck accepted tells which.                                             *)
Live(x) == x.state # "loaded"

Horizon == (IF call = None THEN now ELSE call.begun) + Lead

ParkedBy(x, h) ==
  Live(x) =>
    /\ x.wish \in {"play", "seek", "pause", "resume"}
    /\ x.pause # None => x.wish # "play" /\ x.pause <= h
    /\ x.seek # None => /\ x.wish = "seek" /\ x.resume = None
                        /\ x.pause # None => x.pause <= x.seek
    /\ x.resume # None => /\ x.wish = "resume"
                          /\ x.frozen # None \/ x.pause # None
                          /\ x.pause # None => x.pause <= x.resume
    /\ x.wish = "pause" => x.pause # None \/ x.state = "paused"

LEMMA HandledParked ==
  ASSUME NEW x \in DuckType, NEW c \in Calls, NEW h \in Int, Form(x), ParkedBy(x, h),
         <<x.wish, c.op>> \notin Clashes, c.op # "stop" => c.at = h
  PROVE  ParkedBy(Handle(x, c), h)
<1> DEFINE y == Handle(x, c)
           z == Obey(x, c)
<1>1. CASE ~Accepts(x, c)
  BY <1>1, HandleIs
<1>2. ASSUME Accepts(x, c)
      PROVE  ParkedBy(y, h)
  <2>1. /\ y \in DuckType /\ y.wish = c.op /\ SameShow(z, y)
        /\ y.pause = z.pause /\ y.resume = z.resume /\ y.seek = z.seek
    BY <1>2, HandleIs
  <2> HIDE DEF y
  <2>2. /\ c.op \in Ops /\ c.at \in Int
        /\ x.pause # None => x.pause \in Int
    BY DEF Calls, DuckType, Times
  <2>3. CASE c.op = "play"
    <3>1. NothingParked(z)
      BY <2>3, PlayIs
    <3> QED
      BY <2>1, <2>3, <3>1 DEF ParkedBy, SameShow, NothingParked
  <2>4. CASE c.op = "seek"
    <3>1. /\ z.frozen = x.frozen /\ z.pause = x.pause /\ z.resume = x.resume
          /\ x.state = "armed" => z.seek = None
          /\ x.state # "armed" => z.seek = c.at
      BY <2>4, SeekIs
    <3>2. Live(x) /\ x.wish # "resume"
      BY <1>2, <2>4, AcceptsIs, ClashIs DEF Live
    <3>3. CASE x.state = "armed"
      BY <2>1, <2>4, <3>1, <3>3 DEF ParkedBy, SameShow, Form, NothingParked
    <3>4. CASE x.state # "armed"
      BY <2>1, <2>2, <2>4, <3>1, <3>2, <3>4 DEF ParkedBy, SameShow
    <3> QED
      BY <3>3, <3>4
  <2>5. CASE c.op = "pause"
    <3>1. /\ SameShow(x, z) /\ z.resume = x.resume /\ z.seek = x.seek
          /\ z.pause = IF x.frozen = None /\ x.pause = None THEN c.at ELSE x.pause
      BY <2>5, PauseIs
    <3>2. x.wish # "seek" /\ x.wish # "resume"
      BY <2>5, ClashIs
    <3>3. Live(x) => x.state \in {"playing", "paused"} /\ (x.frozen # None => x.state = "paused")
      BY <1>2, <2>5, AcceptsIs DEF Form, NothingParked, DuckType, DuckStates, Live
    <3> QED
      BY <2>1, <2>2, <2>5, <3>1, <3>2, <3>3, Bounds DEF ParkedBy, SameShow, Live
  <2>6. CASE c.op = "resume"
    <3>1. /\ SameShow(x, z) /\ z.pause = x.pause /\ z.seek = x.seek
          /\ z.resume = IF x.frozen = None /\ x.pause = None THEN x.resume ELSE c.at
      BY <2>6, ResumeIs
    <3>2. x.wish # "seek"
      BY <2>6, ClashIs
    <3> QED
      BY <2>1, <2>2, <2>6, <3>1, <3>2 DEF ParkedBy, SameShow, Live
  <2>7. CASE c.op = "stop"
    BY <2>1, <2>7, StopIs DEF ParkedBy, SameShow, Live
  <2> QED
    BY <2>2, <2>3, <2>4, <2>5, <2>6, <2>7 DEF Ops
<1> QED
  BY <1>1, <1>2

(* A tick applies the pause first, and only then what was asked for after it. *)
LEMMA PausedParked ==
  ASSUME NEW x \in DuckType, NEW h \in Int, now \in Int, Form(x), ParkedBy(x, h),
         x.state \in {"playing", "paused"}
  PROVE  LET y == Paused(x)
         IN  /\ y \in DuckType /\ Form(y) /\ y.state \in {"playing", "paused"}
             /\ ParkedBy(y, h) /\ (y.pause = None \/ ~Come(y.pause))
<1> DEFINE y == Paused(x)
<1>1. CASE Come(x.pause)
  <2>1. /\ y.pause = None /\ y.frozen \in Int /\ y.state = "paused"
        /\ y.wish = x.wish /\ y.resume = x.resume /\ y.seek = x.seek
    BY <1>1, PausedIs
  <2>2. y \in DuckType /\ Form(y)
    BY PausedForm
  <2> HIDE DEF y
  <2>3. ParkedBy(y, h)
    BY <2>1, Bounds DEF ParkedBy, Live
  <2> QED
    BY <2>1, <2>2, <2>3 DEF y
<1>2. CASE ~Come(x.pause)
  BY <1>2 DEF Paused
<1> QED
  BY <1>1, <1>2

LEMMA ResumedParked ==
  ASSUME NEW x \in DuckType, NEW h \in Int, now \in Int, Form(x), ParkedBy(x, h),
         x.state \in {"playing", "paused"}, x.pause = None \/ ~Come(x.pause)
  PROVE  LET y == Resumed(x)
         IN  /\ y \in DuckType /\ Form(y) /\ ParkedBy(y, h) /\ Live(y)
             /\ Come(y.seek) => y.pause = None /\ y.resume = None
<1> DEFINE y == Resumed(x)
<1>1. y \in DuckType /\ Form(y) /\ y.state \in {"playing", "paused"}
  BY ResumedForm
<1>2. /\ Live(x)
      /\ x.pause # None => x.pause \in Int
      /\ x.resume # None => x.resume \in Int
      /\ x.seek # None => x.seek \in Int
  BY DEF Live, DuckType, Times
<1>3. CASE ~Come(x.resume)
  <2>1. y = x
    BY <1>3, ResumedIs
  <2>2. Come(x.seek) => x.pause = None /\ x.resume = None
    BY <1>2 DEF ParkedBy, Come
  <2> QED
    BY <1>1, <1>2, <2>1, <2>2
<1>4. CASE Come(x.resume)
  <2>1. x.resume # None /\ x.pause = None /\ x.frozen # None /\ x.wish = "resume"
    BY <1>2, <1>4 DEF ParkedBy, Come
  <2>2. NothingParked(y) /\ y.wish = "resume"
    BY <1>4, <2>1, ResumedIs
  <2> HIDE DEF y
  <2> QED
    BY <1>1, <2>2 DEF ParkedBy, NothingParked, Live, Come, y
<1> QED
  BY <1>3, <1>4

-----------------------------------------------------------------------------
(* Where a duck's show clock will be once everything parked is applied: what  *)
(* Line says of a duck with nothing parked.                                   *)
Going(x) ==
  IF x.state = "armed" THEN <<"playing", x.from - x.at>>
  ELSE IF x.frozen # None THEN <<"paused", x.frozen>>
  ELSE <<"playing", x.base - x.epoch>>

AfterPause(x) ==
  IF x.pause = None THEN Going(x) ELSE <<"paused", Going(x)[2] + x.pause>>

Course(x) ==
  IF x.resume # None THEN <<"playing", AfterPause(x)[2] - x.resume>>
  ELSE IF x.seek = None THEN AfterPause(x)
  ELSE IF AfterPause(x)[1] = "paused" THEN <<"paused", x.seekTo>>
  ELSE <<"playing", x.seekTo - x.seek>>

(* What a command makes of that.                                              *)
Turned(c, line) ==
  CASE c.op = "play" -> <<"playing", c.to - c.at>>
    [] c.op = "seek" -> IF line[1] = "paused" THEN <<"paused", c.to>>
                        ELSE <<"playing", c.to - c.at>>
    [] c.op = "pause" -> IF line[1] = "paused" THEN line
                         ELSE <<"paused", line[2] + c.at>>
    [] c.op = "resume" -> IF line[1] = "paused" THEN <<"playing", line[2] - c.at>>
                          ELSE line
    [] c.op = "stop" -> line

(* A pause freezes the clock where it will have been at its instant, however  *)
(* late the tick.                                                             *)
LEMMA PausedCourse ==
  ASSUME NEW x \in DuckType, now \in Int, Form(x), x.state \in {"playing", "paused"}
  PROVE  Course(Paused(x)) = Course(x)
<1> DEFINE p == Paused(x)
<1>1. CASE ~Come(x.pause)
  BY <1>1 DEF Paused
<1>2. CASE Come(x.pause)
  <2>1. /\ x.state = "playing" /\ x.frozen = None /\ x.pause \in Int /\ x.pause # None
        /\ x.epoch \in Int /\ x.epoch # None /\ x.base \in Int
    BY <1>2 DEF Come, Form, DuckType, Times
  <2>2. /\ p.state = "paused" /\ p.frozen = ShowTime(x, x.pause) /\ p.frozen # None
        /\ p.pause = None /\ p.resume = x.resume /\ p.seek = x.seek
        /\ p.seekTo = x.seekTo
    BY <1>2, PausedIs, Bounds
  <2>3. ShowTime(x, x.pause) = x.base + (x.pause - x.epoch)
    BY <2>1 DEF ShowTime
  <2> HIDE DEF p
  <2>4. AfterPause(p) = <<"paused", x.base + (x.pause - x.epoch)>>
    BY <2>2, <2>3 DEF AfterPause, Going
  <2>5. AfterPause(x) = <<"paused", (x.base - x.epoch) + x.pause>>
    BY <2>1 DEF AfterPause, Going
  <2>6. AfterPause(p) = AfterPause(x)
    BY <2>1, <2>4, <2>5
  <2> QED
    BY <2>2, <2>6 DEF Course, p
<1> QED
  BY <1>1, <1>2

LEMMA ResumedCourse ==
  ASSUME NEW x \in DuckType, NEW h \in Int, now \in Int, Form(x), ParkedBy(x, h),
         x.state \in {"playing", "paused"}, x.pause = None \/ ~Come(x.pause)
  PROVE  Course(Resumed(x)) = Course(x)
<1>1. CASE ~Come(x.resume)
  BY <1>1, ResumedIs
<1>2. CASE Come(x.resume)
  <2> DEFINE y == Resumed(x)
  <2>1. /\ x.resume # None /\ x.pause = None /\ x.frozen # None
        /\ x.state = "paused"
    <3>1. x.resume # None /\ (x.pause # None => x.pause <= x.resume)
      BY <1>2 DEF ParkedBy, Live, Come
    <3>2. x.resume \in Int /\ (x.pause # None => x.pause \in Int)
      BY <3>1 DEF DuckType, Times
    <3>3. x.pause = None
      BY <1>2, <3>1, <3>2 DEF Come
    <3> QED
      BY <3>1, <3>3 DEF ParkedBy, Live, Form
  <2>2. /\ y.state = "playing" /\ y.epoch = x.resume /\ y.base = x.frozen
        /\ NothingParked(y)
    BY <1>2, <2>1, ResumedIs
  <2> HIDE DEF y
  <2>3. Course(y) = <<"playing", x.frozen - x.resume>>
    BY <2>2 DEF Course, AfterPause, Going, NothingParked
  <2>4. Course(x) = <<"playing", x.frozen - x.resume>>
    BY <2>1 DEF Course, AfterPause, Going
  <2> QED
    BY <2>3, <2>4 DEF y
<1> QED
  BY <1>1, <1>2

(* Then come the seek and the frame.                                          *)
LEMMA FramedCourse ==
  ASSUME NEW x \in DuckType, NEW h \in Int, now \in Int
  PROVE  /\ Course(Framed(x)) = Course(x)
         /\ ParkedBy(x, h) => ParkedBy(Framed(x), h)
<1> DEFINE y == Framed(x)
<1>1. /\ y.state = x.state /\ y.at = x.at /\ y.from = x.from /\ y.epoch = x.epoch
      /\ y.base = x.base /\ y.frozen = x.frozen /\ y.pause = x.pause
      /\ y.resume = x.resume /\ y.seek = x.seek /\ y.seekTo = x.seekTo
      /\ y.wish = x.wish
  BY FramedIs
<1> HIDE DEF y
<1> QED
  BY <1>1 DEF Course, AfterPause, Going, ParkedBy, Live, y

LEMMA BegunCourse ==
  ASSUME NEW x \in DuckType, NEW s \in Int, NEW t \in Int, NEW h \in Int,
         now \in Int, t <= now, Live(x), ParkedBy(x, h), x.wish # "pause"
  PROVE  /\ Course(Begin(x, s, t)) = <<"playing", s - t>>
         /\ ParkedBy(Begin(x, s, t), h)
<1> DEFINE y == Begin(x, s, t)
<1>1. /\ y.state = "playing" /\ y.base - y.epoch = s - t /\ y.frozen = None
      /\ y.pause = None /\ y.resume = None /\ y.seek = None /\ y.wish = x.wish
  BY BeginIs
<1> HIDE DEF y
<1> QED
  BY <1>1 DEF Course, AfterPause, Going, ParkedBy, Live, y

LEMMA PlayTickCourse ==
  ASSUME NEW x \in DuckType, NEW h \in Int, now \in Int, Form(x), ParkedBy(x, h),
         x.state \in {"playing", "paused"}
  PROVE  Course(PlayTick(x)) = Course(x) /\ ParkedBy(PlayTick(x), h)
<1> DEFINE p == Paused(x)
           y == Resumed(p)
<1>1. /\ p \in DuckType /\ Form(p) /\ p.state \in {"playing", "paused"}
      /\ ParkedBy(p, h) /\ (p.pause = None \/ ~Come(p.pause))
      /\ Course(p) = Course(x)
  BY PausedParked, PausedCourse
<1> HIDE DEF p
<1>2. /\ y \in DuckType /\ Form(y) /\ ParkedBy(y, h) /\ Live(y)
      /\ Come(y.seek) => y.pause = None /\ y.resume = None
      /\ Course(y) = Course(x)
  BY <1>1, ResumedParked, ResumedCourse
<1>3. PlayTick(x) = IF ~Come(y.seek) THEN Framed(y)
                    ELSE IF y.frozen # None THEN SoughtFrozen(y)
                    ELSE Framed(Begin(y, y.seekTo, y.seek))
  BY DEF PlayTick, p
<1> HIDE DEF y
<1>4. CASE ~Come(y.seek)
  BY <1>2, <1>3, <1>4, FramedCourse
<1>5. CASE Come(y.seek)
  <2>1. /\ y.pause = None /\ y.resume = None /\ y.seek # None /\ y.wish = "seek"
        /\ y.state # "armed" /\ y.seekTo \in Int /\ y.seek \in Int /\ y.seek <= now
    BY <1>2, <1>5 DEF Come, ParkedBy, Form, NothingParked, DuckType, Times
  <2>2. CASE y.frozen # None
    <3> DEFINE z == SoughtFrozen(y)
    <3>1. /\ z.seek = None /\ z.frozen = y.seekTo /\ z.frozen # None
          /\ z.state = y.state /\ z.pause = None /\ z.resume = None
          /\ z.wish = "seek"
      BY <1>2, <2>1, SoughtFrozenIs, Bounds
    <3> HIDE DEF z
    <3>2. Course(z) = <<"paused", y.seekTo>> /\ ParkedBy(z, h)
      BY <2>1, <3>1 DEF Course, AfterPause, Going, ParkedBy
    <3>3. Course(y) = <<"paused", y.seekTo>>
      BY <2>1, <2>2 DEF Course, AfterPause, Going
    <3>4. PlayTick(x) = z
      BY <1>3, <1>5, <2>2 DEF z
    <3> QED
      BY <1>2, <3>2, <3>3, <3>4
  <2>3. CASE y.frozen = None
    <3> DEFINE b == Begin(y, y.seekTo, y.seek)
    <3>1. /\ b \in DuckType /\ ParkedBy(b, h)
          /\ Course(b) = <<"playing", y.seekTo - y.seek>>
      BY <1>2, <2>1, BegunCourse, BegunForm
    <3>2. Course(y) = <<"playing", y.seekTo - y.seek>>
      BY <2>1, <2>3 DEF Course, AfterPause, Going
    <3>3. PlayTick(x) = Framed(b)
      BY <1>3, <1>5, <2>3
    <3> HIDE DEF b
    <3> QED
      BY <1>2, <3>1, <3>2, <3>3, FramedCourse
  <2> QED
    BY <2>2, <2>3
<1> QED
  BY <1>4, <1>5

LEMMA TickedCourse ==
  ASSUME NEW x \in DuckType, NEW h \in Int, now \in Int, Form(x), ParkedBy(x, h)
  PROVE  /\ ParkedBy(Ticked(x), h)
         /\ Live(Ticked(x)) => Live(x) /\ Course(Ticked(x)) = Course(x)
<1> DEFINE y == IF x.state = "armed" THEN Started(x) ELSE x
<1>1. /\ y \in DuckType /\ Form(y) /\ ParkedBy(y, h)
      /\ Live(y) => Live(x) /\ Course(y) = Course(x)
  <2>1. CASE x.state = "armed" /\ Come(x.at)
    <3>1. CASE Started(x).state = "loaded"
      BY <2>1, <3>1, StartedIs DEF Form, ParkedBy, Live
    <3>2. CASE x.at \in Int /\ x.at <= now /\ Started(x) = Begin(x, x.from, x.at)
      <4> DEFINE z == Begin(x, x.from, x.at)
      <4>1. x.from \in Int /\ Live(x) /\ x.wish # "pause" /\ NothingParked(x)
        BY <2>1 DEF DuckType, Live, Form
      <4>2. z \in DuckType /\ Form(z)
        BY <3>2, <4>1, BegunForm
      <4>3. ParkedBy(z, h) /\ Course(z) = <<"playing", x.from - x.at>>
        BY <3>2, <4>1, BegunCourse
      <4>4. Course(x) = <<"playing", x.from - x.at>>
        BY <2>1, <4>1 DEF Course, AfterPause, Going, NothingParked
      <4>5. y = z
        BY <2>1, <3>2
      <4> QED
        BY <4>1, <4>2, <4>3, <4>4, <4>5
    <3> QED
      BY <2>1, <3>1, <3>2, StartedIs
  <2>2. CASE x.state = "armed" /\ ~Come(x.at)
    BY <2>2, StartedIs
  <2>3. CASE x.state # "armed"
    BY <2>3
  <2> QED
    BY <2>1, <2>2, <2>3
<1>2. Ticked(x) = IF y.state \in {"playing", "paused"} THEN PlayTick(y) ELSE y
  BY DEF Ticked
<1> HIDE DEF y
<1>3. CASE y.state \in {"playing", "paused"}
  BY <1>1, <1>2, <1>3, PlayTickCourse DEF Live
<1>4. CASE y.state \notin {"playing", "paused"}
  BY <1>1, <1>2, <1>4
<1> QED
  BY <1>3, <1>4

LEMMA FiredCourse ==
  ASSUME NEW x \in DuckType, NEW h \in Int, ParkedBy(x, h)
  PROVE  /\ ParkedBy(Fired(x), h)
         /\ Live(Fired(x)) => Live(x) /\ Course(Fired(x)) = Course(x)
<1> DEFINE y == Fired(x)
<1>1. /\ y.frozen = x.frozen /\ y.pause = x.pause /\ y.resume = x.resume
      /\ y.seek = x.seek /\ y.seekTo = x.seekTo /\ y.wish = x.wish
      /\ y.at = x.at /\ y.from = x.from
      /\ \/ y.state = "loaded"
         \/ y.state = x.state /\ y.epoch = x.epoch /\ y.base = x.base
  BY FiredIs
<1> HIDE DEF y
<1> QED
  BY <1>1 DEF ParkedBy, Live, Course, AfterPause, Going, y

(* A command turns the course of every duck that is about a show in the same  *)
(* way.                                                                       *)
LEMMA TurnedIs ==
  ASSUME NEW c, NEW line
  PROVE  /\ c.op = "play" => Turned(c, line) = <<"playing", c.to - c.at>>
         /\ c.op = "seek" => Turned(c, line) = IF line[1] = "paused" THEN <<"paused", c.to>>
                                               ELSE <<"playing", c.to - c.at>>
         /\ c.op = "pause" => Turned(c, line) = IF line[1] = "paused" THEN line
                                                ELSE <<"paused", line[2] + c.at>>
         /\ c.op = "resume" => Turned(c, line) = IF line[1] = "paused"
                                                 THEN <<"playing", line[2] - c.at>>
                                                 ELSE line
BY DEF Turned

LEMMA HandledCourse ==
  ASSUME NEW x \in DuckType, NEW c \in Calls, NEW h \in Int, Form(x), ParkedBy(x, h),
         <<x.wish, c.op>> \notin Clashes, c.op = "resume" => x.wish # "resume",
         Accepts(x, c), Live(Handle(x, c))
  PROVE  /\ c.op # "play" => Live(x)
         /\ Course(Handle(x, c)) = Turned(c, Course(x))
<1> DEFINE y == Handle(x, c)
           z == Obey(x, c)
<1>1. /\ SameShow(z, y) /\ y.pause = z.pause
      /\ y.resume = z.resume /\ y.seek = z.seek /\ y.seekTo = z.seekTo
  BY HandleIs
<1> HIDE DEF y
<1>2. Course(y) = Course(z) /\ (Live(y) <=> Live(z))
  BY <1>1 DEF Course, AfterPause, Going, Live, SameShow
<1>3. Live(z)
  BY <1>2 DEF y
<1>4. /\ c.op \in Ops /\ c.at \in Int /\ c.at # None
      /\ x.state \in {"armed", "playing", "paused"} \/ ~Live(x)
  BY Bounds DEF Calls, DuckType, DuckStates, Live
<1> SUFFICES (c.op # "play" => Live(x)) /\ Course(z) = Turned(c, Course(x))
  BY <1>2 DEF y
<1>5. CASE c.op = "play"
  <2>1. z.state = "armed" /\ z.at = c.at /\ z.from = c.to /\ NothingParked(z)
    BY <1>5, PlayIs
  <2> HIDE DEF z
  <2> QED
    BY <1>5, <2>1, TurnedIs DEF Course, AfterPause, Going, NothingParked
<1>6. CASE c.op = "seek"
  <2>1. Live(x) /\ x.resume = None
    BY <1>6, AcceptsIs, ClashIs DEF ParkedBy, Live
  <2>2. /\ z.frozen = x.frozen /\ z.pause = x.pause /\ z.resume = x.resume
        /\ x.state = "armed" => /\ z.state = "armed" /\ z.at = c.at
                                /\ z.from = c.to /\ z.seek = None
        /\ x.state # "armed" => z.seek = c.at /\ z.seekTo = c.to /\ SameShow(x, z)
    BY <1>6, SeekIs
  <2> HIDE DEF z
  <2>3. CASE x.state = "armed"
    <3>1. NothingParked(x)
      BY <2>3 DEF Form
    <3>2. Course(x)[1] = "playing"
      BY <2>3, <3>1 DEF Course, AfterPause, Going, NothingParked
    <3>3. Course(z) = <<"playing", c.to - c.at>>
      BY <2>2, <2>3, <3>1 DEF Course, AfterPause, Going, NothingParked
    <3> QED
      BY <1>6, <2>1, <3>2, <3>3, TurnedIs
  <2>4. CASE x.state # "armed"
    <3>1. AfterPause(z) = AfterPause(x)
      BY <2>2, <2>4 DEF AfterPause, Going, SameShow
    <3>2. Course(x)[1] = "paused" <=> AfterPause(x)[1] = "paused"
      BY <2>1 DEF Course
    <3>3. Course(z) = IF AfterPause(x)[1] = "paused" THEN <<"paused", c.to>>
                      ELSE <<"playing", c.to - c.at>>
      BY <1>4, <2>1, <2>2, <2>4, <3>1 DEF Course
    <3> QED
      BY <1>6, <2>1, <3>2, <3>3, TurnedIs
  <2> QED
    BY <2>3, <2>4
<1>7. CASE c.op = "pause"
  <2>1. /\ SameShow(x, z) /\ z.resume = x.resume /\ z.seek = x.seek
        /\ z.pause = IF x.frozen = None /\ x.pause = None THEN c.at ELSE x.pause
    BY <1>7, PauseIs
  <2>2. Live(x)
    BY <1>3, <2>1 DEF Live, SameShow
  <2>3. x.seek = None /\ x.resume = None /\ x.state \in {"playing", "paused"}
    BY <1>4, <1>7, <2>2, AcceptsIs, ClashIs DEF ParkedBy, Form, NothingParked
  <2> HIDE DEF z
  <2>4. CASE x.frozen = None /\ x.pause = None
    <3>1. Course(x) = Going(x) /\ Going(x)[1] = "playing" /\ Going(z) = Going(x)
      BY <2>1, <2>3, <2>4 DEF Course, AfterPause, Going, SameShow
    <3>2. Course(z) = <<"paused", Going(x)[2] + c.at>>
      BY <1>4, <2>1, <2>3, <2>4, <3>1 DEF Course, AfterPause
    <3> QED
      BY <1>7, <2>2, <3>1, <3>2, TurnedIs
  <2>5. CASE x.frozen # None \/ x.pause # None
    <3>1. Course(x)[1] = "paused"
      BY <2>3, <2>5 DEF Course, AfterPause, Going
    <3>2. Course(z) = Course(x)
      BY <2>1, <2>3, <2>5 DEF Course, AfterPause, Going, SameShow
    <3> QED
      BY <1>7, <2>2, <3>1, <3>2, TurnedIs
  <2> QED
    BY <2>4, <2>5
<1>8. CASE c.op = "resume"
  <2>1. /\ SameShow(x, z) /\ z.pause = x.pause /\ z.seek = x.seek
        /\ z.resume = IF x.frozen = None /\ x.pause = None THEN x.resume ELSE c.at
    BY <1>8, ResumeIs
  <2>2. Live(x)
    BY <1>3, <2>1 DEF Live, SameShow
  <2>3. x.seek = None /\ x.resume = None
    BY <1>8, <2>2, ClashIs DEF ParkedBy
  <2> HIDE DEF z
  <2>4. CASE x.frozen = None /\ x.pause = None
    <3>1. Course(x)[1] = "playing" /\ Course(z) = Course(x)
      BY <2>1, <2>3, <2>4 DEF Course, AfterPause, Going, SameShow
    <3> QED
      BY <1>8, <2>2, <3>1, TurnedIs
  <2>5. CASE x.frozen # None \/ x.pause # None
    <3>1. AfterPause(z) = AfterPause(x)
      BY <2>1 DEF AfterPause, Going, SameShow
    <3>2. x.state # "armed"
      BY <2>5 DEF Form, NothingParked
    <3>3. Course(x) = AfterPause(x) /\ Course(x)[1] = "paused"
      BY <2>3, <2>5, <3>2 DEF Course, AfterPause, Going
    <3>4. Course(z) = <<"playing", AfterPause(x)[2] - c.at>>
      BY <1>4, <2>1, <2>5, <3>1 DEF Course
    <3> QED
      BY <1>8, <2>2, <3>3, <3>4, TurnedIs
  <2> QED
    BY <2>4, <2>5
<1>9. CASE c.op = "stop"
  BY <1>3, <1>9, StopIs DEF Live
<1> QED
  BY <1>4, <1>5, <1>6, <1>7, <1>8, <1>9 DEF Ops

-----------------------------------------------------------------------------
(* The last command a duck accepted, and what it leaves it with: a duck that  *)
(* was resumed was paused first, in the same pass of the show.                *)
Heard(x) ==
  x.wish = "resume" => x.state # "armed" /\ (x.held \/ x.pause # None)

LEMMA StartedWish ==
  ASSUME NEW x \in DuckType, now \in Int
  PROVE  Started(x).wish = x.wish
<1>1. CASE ~Come(x.at)
  BY <1>1 DEF Started
<1>2. CASE Come(x.at)
  <2>1. x.at \in Int /\ x.from \in Int /\ x.at <= now
    BY <1>2 DEF Come, DuckType, Times
  <2>2. CASE now - x.at >= MaxLate
    <3> DEFINE z == Cancel(x)
    <3>1. z \in DuckType /\ z.wish = x.wish
      BY CancelIs
    <3>2. Started(x) = [z EXCEPT !.state = "loaded", !.base = 0]
      BY <1>2, <2>2 DEF Started
    <3> HIDE DEF z
    <3> QED
      BY <3>1, <3>2 DEF DuckType
  <2>3. CASE ~(now - x.at >= MaxLate)
    BY <1>2, <2>1, <2>3, BeginIs DEF Started
  <2> QED
    BY <2>2, <2>3
<1> QED
  BY <1>1, <1>2

LEMMA PlayTickHeard ==
  ASSUME NEW x \in DuckType, NEW h \in Int, now \in Int, Form(x), ParkedBy(x, h),
         x.state \in {"playing", "paused"}
  PROVE  PlayTick(x).wish = x.wish /\ (Heard(x) => Heard(PlayTick(x)))
<1> DEFINE p == Paused(x)
           y == Resumed(p)
<1>1. /\ p \in DuckType /\ Form(p) /\ p.state \in {"playing", "paused"}
      /\ ParkedBy(p, h) /\ (p.pause = None \/ ~Come(p.pause))
      /\ p.wish = x.wish /\ (Heard(x) => Heard(p))
  <2>1. CASE Come(x.pause)
    BY <2>1, PausedParked, PausedIs DEF Heard
  <2>2. CASE ~Come(x.pause)
    <3>1. p = x
      BY <2>2 DEF Paused
    <3> QED
      BY <2>2, <3>1
  <2> QED
    BY <2>1, <2>2
<1> HIDE DEF p
<1>2. /\ y \in DuckType /\ Form(y) /\ ParkedBy(y, h) /\ Live(y)
      /\ y.state \in {"playing", "paused"}
  BY <1>1, ResumedParked, ResumedForm
<1>3. y.wish = p.wish /\ (Heard(p) => Heard(y))
  <2>1. CASE ~Come(p.resume)
    BY <1>1, <2>1, ResumedIs
  <2>2. CASE Come(p.resume) /\ p.frozen = None
    BY <1>1, <2>2, ResumedIs DEF Heard, SameShow
  <2>3. CASE Come(p.resume) /\ p.frozen # None
    <3>1. p.held
      BY <1>1, <2>3 DEF Form
    <3>2. y.state = "playing" /\ y.held = p.held /\ y.wish = p.wish
      BY <1>1, <2>3, ResumedIs
    <3> QED
      BY <3>1, <3>2 DEF Heard
  <2> QED
    BY <2>1, <2>2, <2>3
<1>4. PlayTick(x) = IF ~Come(y.seek) THEN Framed(y)
                    ELSE IF y.frozen # None THEN SoughtFrozen(y)
                    ELSE Framed(Begin(y, y.seekTo, y.seek))
  BY DEF PlayTick, p
<1> HIDE DEF y
<1>5. ASSUME NEW z \in DuckType
      PROVE  Framed(z).wish = z.wish /\ (Heard(z) => Heard(Framed(z)))
  BY FramedIs DEF Heard
<1>6. CASE ~Come(y.seek)
  BY <1>1, <1>2, <1>3, <1>4, <1>5, <1>6
<1>7. CASE Come(y.seek)
  <2>1. y.wish = "seek" /\ y.seek \in Int /\ y.seek <= now /\ y.seekTo \in Int
    BY <1>2, <1>7 DEF Come, ParkedBy, DuckType, Times
  <2>2. CASE y.frozen # None
    <3>1. PlayTick(x) = SoughtFrozen(y)
      BY <1>4, <1>7, <2>2
    <3>2. SoughtFrozen(y).wish = "seek"
      BY <1>2, <2>1, SoughtFrozenIs
    <3> QED
      BY <1>1, <1>3, <2>1, <3>1, <3>2 DEF Heard
  <2>3. CASE y.frozen = None
    <3> DEFINE b == Begin(y, y.seekTo, y.seek)
    <3>1. b \in DuckType /\ b.wish = "seek"
      BY <1>2, <2>1, BeginIs
    <3>2. PlayTick(x) = Framed(b)
      BY <1>4, <1>7, <2>3
    <3> HIDE DEF b
    <3> QED
      BY <1>1, <1>3, <1>5, <2>1, <3>1, <3>2 DEF Heard
  <2> QED
    BY <2>2, <2>3
<1> QED
  BY <1>6, <1>7

LEMMA TickedHeard ==
  ASSUME NEW x \in DuckType, NEW h \in Int, now \in Int, Form(x), ParkedBy(x, h)
  PROVE  Ticked(x).wish = x.wish /\ (Heard(x) => Heard(Ticked(x)))
<1> DEFINE y == IF x.state = "armed" THEN Started(x) ELSE x
<1>1. /\ y \in DuckType /\ y.wish = x.wish /\ (Heard(x) => Heard(y))
      /\ y.state \in {"playing", "paused"} => Form(y) /\ ParkedBy(y, h)
  <2>1. CASE x.state = "armed"
    <3>1. Started(x) \in DuckType /\ Started(x).wish = x.wish
      BY StartedIs, StartedWish
    <3>2. Heard(x) => Heard(Started(x))
      BY <2>1, <3>1 DEF Heard
    <3>3. CASE Started(x).state \in {"playing", "paused"}
      <4>1. x.at \in Int /\ x.at <= now /\ Started(x) = Begin(x, x.from, x.at)
        BY <2>1, <3>3, StartedIs
      <4>2. x.from \in Int /\ Live(x) /\ x.wish # "pause"
        BY <2>1 DEF DuckType, Live, Form
      <4> QED
        BY <2>1, <3>1, <3>2, <4>1, <4>2, BegunForm, BegunCourse
    <3>4. CASE Started(x).state \notin {"playing", "paused"}
      BY <2>1, <3>1, <3>2, <3>4
    <3> QED
      BY <3>3, <3>4
  <2>2. CASE x.state # "armed"
    BY <2>2
  <2> QED
    BY <2>1, <2>2
<1>2. Ticked(x) = IF y.state \in {"playing", "paused"} THEN PlayTick(y) ELSE y
  BY DEF Ticked
<1> HIDE DEF y
<1> QED
  BY <1>1, <1>2, PlayTickHeard

LEMMA FiredHeard ==
  ASSUME NEW x \in DuckType
  PROVE  Fired(x).wish = x.wish /\ (Heard(x) => Heard(Fired(x)))
BY FiredIs DEF Heard

-----------------------------------------------------------------------------
(* The operator's next operation does not clash with the one before it.       *)
Waits(c, d) == c # None /\ d \in c.waiting

Fits(wish) == script # <<>> => <<wish, Head(script)>> \notin Clashes

Ordered ==
  /\ Careful(script)
  /\ call # None => Fits(call.op)
  /\ \A d \in Ducks :
       /\ Waits(call, d) => <<duck[d].wish, call.op>> \notin Clashes
       /\ ~Waits(call, d) => Fits(duck[d].wish)
       /\ ParkedBy(duck[d], Horizon)

(* What a tick does to the cast: a duck applies what was parked on it.        *)
Applied ==
  \A d \in Ducks :
    /\ duck'[d].wish = duck[d].wish /\ ParkedBy(duck'[d], Horizon)
    /\ Live(duck'[d]) => Live(duck[d]) /\ Course(duck'[d]) = Course(duck[d])
    /\ Heard(duck[d]) => Heard(duck'[d])

LEMMA HorizonIs ==
  ASSUME Sound
  PROVE  /\ Horizon \in Int
         /\ call # None => /\ Horizon = call.begun + Lead /\ Horizon <= now + Lead
                           /\ call.op # "stop" => call.at = Horizon
         /\ call = None => Horizon = now + Lead
BY TypedIs, Bounds DEF Sound, Timed, Horizon

LEMMA ParkedLater ==
  ASSUME NEW x \in DuckType, NEW h \in Int, NEW k \in Int, h <= k, ParkedBy(x, h)
  PROVE  ParkedBy(x, k)
<1>1. x.pause # None => x.pause \in Int
  BY DEF DuckType, Times
<1> QED
  BY <1>1 DEF ParkedBy

LEMMA TickApplies ==
  ASSUME Sound, Ordered, NEW d \in Ducks, Tick(d) \/ Fire(d)
  PROVE  Applied /\ UNCHANGED <<now, script, call, master, whole>>
<1> DEFINE h == Horizon
<1>1. h \in Int /\ now \in Int
  BY HorizonIs, TypedIs DEF Sound
<1>2. \A e \in Ducks : duck[e] \in DuckType /\ Form(duck[e]) /\ ParkedBy(duck[e], h)
  BY TypedIs DEF Sound, Ordered
<1> HIDE DEF h
<1>3. PICK y : /\ duck' = [duck EXCEPT ![d] = y]
               /\ y.wish = duck[d].wish /\ ParkedBy(y, h)
               /\ Live(y) => Live(duck[d]) /\ Course(y) = Course(duck[d])
               /\ Heard(duck[d]) => Heard(y)
  <2>1. CASE Tick(d)
    BY <1>1, <1>2, <2>1, TickIs, TickedCourse, TickedHeard
  <2>2. CASE Fire(d)
    BY <1>1, <1>2, <2>2, FireIs, FiredCourse, FiredHeard
  <2> QED
    BY <2>1, <2>2
<1>4. duck \in [Ducks -> DuckType]
  BY DEF Sound, Typed
<1>5. ASSUME NEW e \in Ducks
      PROVE  /\ duck'[e].wish = duck[e].wish /\ ParkedBy(duck'[e], h)
             /\ Live(duck'[e]) => Live(duck[e]) /\ Course(duck'[e]) = Course(duck[e])
             /\ Heard(duck[e]) => Heard(duck'[e])
  <2>1. CASE e = d
    <3>1. duck'[e] = y
      BY <1>3, <1>4, <2>1
    <3> QED
      BY <1>3, <2>1, <3>1
  <2>2. CASE e # d
    <3>1. duck'[e] = duck[e]
      BY <1>3, <1>4, <2>2
    <3> QED
      BY <1>2, <3>1
  <2> QED
    BY <2>1, <2>2
<1> QED
  BY <1>5, TickIs, FireIs DEF Applied, h

LEMMA AppliedOrdered ==
  ASSUME Sound, Sound', Ordered, Applied, UNCHANGED <<script, call>>,
         now' = now \/ now' = now + 1
  PROVE  Ordered'
<1>1. Horizon' \in Int /\ Horizon \in Int /\ Horizon <= Horizon'
  <2>1. now \in Int /\ Lead \in Int /\ (call # None => call.begun \in Int)
    BY TypedIs, Bounds DEF Sound
  <2>2. CASE call = None
    <3>1. Horizon = now + Lead /\ Horizon' = now' + Lead
      BY <2>2 DEF Horizon
    <3> QED
      BY <2>1, <3>1
  <2>3. CASE call # None
    <3>1. Horizon = call.begun + Lead /\ Horizon' = call.begun + Lead
      BY <2>3 DEF Horizon
    <3> QED
      BY <2>1, <2>3, <3>1
  <2> QED
    BY <2>2, <2>3
<1>2. ASSUME NEW d \in Ducks
      PROVE  ParkedBy(duck[d], Horizon)'
  <2>1. duck'[d] \in DuckType /\ ParkedBy(duck'[d], Horizon)
    BY DEF Sound, Typed, Applied
  <2>2. ParkedBy(duck'[d], Horizon')
    BY <1>1, <2>1, ParkedLater
  <2> QED
    BY <2>2 DEF ParkedBy, Live
<1> QED
  BY <1>2 DEF Ordered, Applied, Waits, Fits

(* What the operator does next keeps the scripts' order: an operation that the*)
(* master refuses, or a duck, clashes with nothing that the one before does   *)
(* not clash with.                                                            *)
LEMMA NextInScript ==
  ASSUME Sound, Ordered, script # <<>>, script' = Tail(script)
  PROVE  /\ Careful(script')
         /\ script' # <<>> => <<Head(script), Head(script')>> \notin Clashes
BY CarefulTail DEF Sound, Typed, Ordered

LEMMA IssueOrdered ==
  ASSUME Sound, Ordered, Issue
  PROVE  Ordered'
<1> DEFINE op == Head(script)
<1>1. /\ op \in Ops /\ script # <<>> /\ call = None
      /\ script' = Tail(script)
      /\ UNCHANGED <<now, master, duck, whole>>
      /\ Refused(op) => call' = None
      /\ ~Refused(op) =>
           /\ call' # None /\ call'.op = op /\ call'.begun = now
           /\ call'.waiting = Ducks
  BY IssueIs DEF Sound
<1>2. /\ Careful(script')
      /\ script' # <<>> => <<op, Head(script')>> \notin Clashes
  BY <1>1, NextInScript
<1>3. \A d \in Ducks : /\ <<duck[d].wish, op>> \notin Clashes
                       /\ ParkedBy(duck[d], Horizon)
  BY <1>1 DEF Ordered, Fits, Waits
<1>4. Horizon' = Horizon
  BY <1>1 DEF Horizon
<1> HIDE DEF op
<1>5. \A d \in Ducks : ParkedBy(duck[d], Horizon)'
  BY <1>1, <1>3, <1>4 DEF ParkedBy, Live
<1>6. CASE Refused(op)
  <2>1. op \in {"pause", "resume"}
    BY <1>6 DEF Refused
  <2>2. ASSUME NEW d \in Ducks, script' # <<>>
        PROVE  <<duck[d].wish, Head(script')>> \notin Clashes
    BY <1>1, <1>2, <1>3, <2>1, <2>2, NoClash
  <2> QED
    BY <1>1, <1>2, <1>5, <1>6, <2>2 DEF Ordered, Fits, Waits
<1>7. CASE ~Refused(op)
  BY <1>1, <1>2, <1>3, <1>5, <1>7 DEF Ordered, Fits, Waits
<1> QED
  BY <1>6, <1>7

(* A play is given up before a duck would refuse it for its lateness.         *)
LEMMA PlayAccepted ==
  ASSUME Sound, call # None, call.op \in {"play", "resume", "stop"}, NEW x
  PROVE  Accepts(x, call)
<1>1. CASE call.op = "play"
  <2>1. call.at = call.begun + Lead /\ now <= call.begun + CallTime
        /\ call.begun \in Int /\ now \in Int
    BY <1>1, TypedIs DEF Sound, Timed
  <2>2. now - call.at < MaxLate
    BY <2>1, Bounds
  <2> QED
    BY <1>1, <2>2, AcceptsIs
<1>2. CASE call.op \in {"resume", "stop"}
  BY <1>2, AcceptsIs
<1> QED
  BY <1>1, <1>2

LEMMA DeliverIs ==
  ASSUME Sound, NEW d \in Ducks, Deliver(d)
  PROVE  LET y == Handle(duck[d], call)
         IN  /\ call # None /\ call \in Calls /\ d \in call.waiting
             /\ y \in DuckType /\ duck'[d] = y
             /\ \A e \in Ducks \ {d} : duck'[e] = duck[e]
             /\ call' # None /\ call'.op = call.op /\ call'.at = call.at
             /\ call'.to = call.to /\ call'.begun = call.begun
             /\ call'.waiting = call.waiting \ {d}
             /\ call'.ok = (call.ok /\ Accepts(duck[d], call))
             /\ whole' = (whole /\ Accepts(duck[d], call))
             /\ UNCHANGED <<now, script, master>>
<1>1. /\ call # None /\ d \in call.waiting
      /\ duck' = [duck EXCEPT ![d] = Handle(duck[d], call)]
      /\ call' = [call EXCEPT !.waiting = @ \ {d}, !.ok = @ /\ Accepts(duck[d], call)]
      /\ whole' = (whole /\ Accepts(duck[d], call))
      /\ UNCHANGED <<now, script, master>>
  BY DEF Deliver
<1>2. call \in Calls /\ duck[d] \in DuckType /\ duck \in [Ducks -> DuckType]
  BY <1>1, TypedIs DEF Sound, Typed
<1>3. Handle(duck[d], call) \in DuckType
  BY <1>2, HandleIs
<1>4. /\ duck'[d] = Handle(duck[d], call)
      /\ \A e \in Ducks \ {d} : duck'[e] = duck[e]
  BY <1>1, <1>2
<1>5. call.begun \in Int /\ call'.begun = call.begun
  BY <1>1, <1>2 DEF Calls
<1>6. call' # None
  <2>1. Accepts(duck[d], call) \in BOOLEAN
    BY <1>2, AcceptsBoolean
  <2>2. call' \in Calls
    BY <1>1, <1>2, <2>1 DEF Calls
  <2> QED
    BY <2>2, Bounds
<1>7. /\ call'.op = call.op /\ call'.at = call.at /\ call'.to = call.to
      /\ call'.waiting = call.waiting \ {d}
      /\ call'.ok = (call.ok /\ Accepts(duck[d], call))
  BY <1>1, <1>2 DEF Calls
<1> QED
  BY <1>1, <1>2, <1>3, <1>4, <1>5, <1>6, <1>7

LEMMA DeliverOrdered ==
  ASSUME Sound, Ordered, NEW d \in Ducks, Deliver(d)
  PROVE  Ordered'
<1> DEFINE x == duck[d]
           y == Handle(x, call)
<1>1. /\ call # None /\ call \in Calls /\ d \in call.waiting
      /\ duck'[d] = y /\ \A e \in Ducks \ {d} : duck'[e] = duck[e]
      /\ call' # None /\ call'.op = call.op /\ call'.begun = call.begun
      /\ call'.waiting = call.waiting \ {d}
      /\ UNCHANGED <<now, script, master>>
  BY DeliverIs
<1>2. /\ x \in DuckType /\ Form(x) /\ ParkedBy(x, Horizon) /\ call.op \in Ops
      /\ <<x.wish, call.op>> \notin Clashes /\ Fits(call.op)
  BY <1>1, TypedIs DEF Sound, Ordered, Waits
<1>3. Horizon' = Horizon
  BY <1>1 DEF Horizon
<1>4. ParkedBy(y, Horizon)
  BY <1>1, <1>2, HorizonIs, HandledParked
<1>5. Fits(y.wish)
  <2>1. CASE Accepts(x, call)
    BY <1>1, <1>2, <2>1, HandleIs
  <2>2. CASE ~Accepts(x, call)
    <3>1. y = x /\ call.op \notin {"play", "stop"}
      BY <1>1, <1>2, <2>2, HandleIs, PlayAccepted
    <3> QED
      BY <1>2, <3>1, NoClash DEF Fits
  <2> QED
    BY <2>1, <2>2
<1> HIDE DEF y
<1>6. ASSUME NEW e \in Ducks
      PROVE  ParkedBy(duck[e], Horizon)'
  <2>1. ParkedBy(duck'[e], Horizon')
    BY <1>1, <1>3, <1>4 DEF Ordered
  <2> QED
    BY <2>1 DEF ParkedBy, Live
<1>7. ASSUME NEW e \in Ducks
      PROVE  /\ e \in call'.waiting => <<duck'[e].wish, call'.op>> \notin Clashes
             /\ e \notin call'.waiting => Fits(duck'[e].wish)
  <2>1. CASE e = d
    BY <1>1, <1>5, <2>1
  <2>2. CASE e # d
    BY <1>1, <2>2 DEF Ordered, Waits
  <2> QED
    BY <2>1, <2>2
<1> QED
  BY <1>1, <1>2, <1>6, <1>7 DEF Ordered, Waits, Fits

LEMMA ReturnOrdered ==
  ASSUME Sound, Ordered, Return
  PROVE  Ordered'
<1>1. /\ call # None /\ call.waiting = {} /\ call' = None
      /\ UNCHANGED <<now, script, duck, whole>>
  BY ReturnIs
<1>2. Horizon \in Int /\ Horizon' \in Int /\ Horizon <= Horizon'
  <2>1. Horizon' = now + Lead
    BY <1>1 DEF Horizon
  <2> QED
    BY <1>1, <2>1, HorizonIs, TypedIs, Bounds DEF Sound
<1>3. ASSUME NEW d \in Ducks
      PROVE  ParkedBy(duck[d], Horizon)'
  <2>1. duck'[d] \in DuckType /\ ParkedBy(duck'[d], Horizon)
    BY <1>1, TypedIs DEF Sound, Ordered
  <2>2. ParkedBy(duck'[d], Horizon')
    BY <1>2, <2>1, ParkedLater
  <2> QED
    BY <2>2 DEF ParkedBy, Live
<1> QED
  BY <1>1, <1>3 DEF Ordered, Waits, Fits

(* Every step is one of the master's or an answer, or leaves the command and  *)
(* what the master keeps of it alone while a duck applies what it has parked. *)
LEMMA StepIs ==
  ASSUME Sound, Ordered, [Next]_vars
  PROVE  \/ Issue \/ Return \/ (\E d \in Ducks : Deliver(d))
         \/ /\ Applied /\ UNCHANGED <<script, call, whole>>
            /\ now' = now \/ now' = now + 1
            /\ master'.epoch = master.epoch /\ master'.from = master.from
            /\ master'.paused = master.paused
<1>1. ASSUME duck' = duck
      PROVE  Applied
  BY <1>1 DEF Applied, Ordered
<1>2. CASE UNCHANGED vars
  BY <1>1, <1>2 DEF vars
<1>3. CASE StateLoopLooks \/ StateLoop
  BY <1>1, <1>3, TypedIs DEF Sound, StateLoopLooks, StateLoop, MasterType
<1>4. CASE Pass
  BY <1>1, <1>4 DEF Pass
<1>5. ASSUME NEW d \in Ducks, Tick(d) \/ Fire(d)
      PROVE  /\ Applied /\ UNCHANGED <<now, script, call, master, whole>>
  BY <1>5, TickApplies
<1> QED
  BY <1>2, <1>3, <1>4, <1>5 DEF Next

LEMMA NextOrdered ==
  ASSUME Sound, Ordered, [Next]_vars
  PROVE  Ordered'
<1>1. Sound'
  BY NextSound
<1> QED
  BY <1>1, StepIs, IssueOrdered, ReturnOrdered, DeliverOrdered, AppliedOrdered

LEMMA InitOrdered ==
  ASSUME \A s \in Scripts : Careful(s), Init
  PROVE  Ordered
<1>1. \A w : <<"none", w>> \notin Clashes
  BY DEF Clashes
<1>2. call = None /\ Careful(script)
  BY DEF Init
<1>3. \A d \in Ducks : duck[d].wish = "none" /\ duck[d].state = "loaded"
  BY DEF Init, Idle
<1> QED
  BY <1>1, <1>2, <1>3 DEF Ordered, Waits, Fits, ParkedBy, Live

(* What is parked on a duck is what it was told last, and no later operation  *)
(* finds something parked that would drop it: the invariant of PausesHold.    *)
THEOREM StaysOrdered ==
  ASSUME \A s \in Scripts : Careful(s)
  PROVE  Spec => []Ordered
<1>1. Init => Ordered
  BY InitOrdered
<1>2. Sound /\ Ordered /\ [Next]_vars => Ordered'
  BY NextOrdered
<1> QED
  BY <1>1, <1>2, StaysSound, PTL DEF Spec

(* A pause that a duck has accepted is applied, however late its ticks are and*)
(* whatever else was parked on it: unless the operator gave the pause together*)
(* with an operation it clashes with, a duck told nothing since does not play *)
(* on (_play_tick, _handle_pause, _start_playing_now).                        *)
THEOREM PausesHold ==
  ASSUME \A s \in Scripts : Careful(s)
  PROVE  Spec => []PauseHolds
<1>1. Ordered => PauseHolds
  BY DEF Ordered, ParkedBy, Live, PauseHolds
<1> QED
  BY <1>1, StaysOrdered, PTL

-----------------------------------------------------------------------------
(* A cast that has obeyed every command is on one course: the ducks that have *)
(* the command under way, and those that have not, differ by what it does.    *)
Told(c, d) == c # None /\ d \notin c.waiting

OneCourse(cast, c) ==
  /\ \A d, e \in Ducks :
       Live(cast[d]) /\ Live(cast[e]) /\ (Waits(c, d) <=> Waits(c, e))
         => Course(cast[d]) = Course(cast[e])
  /\ \A d, e \in Ducks :
       Live(cast[d]) /\ Live(cast[e]) /\ Told(c, d) /\ Waits(c, e)
         => Course(cast[d]) = Turned(c, Course(cast[e]))
  /\ \A d \in Ducks :
       Live(cast[d]) /\ Told(c, d) /\ c.op = "play"
         => Course(cast[d]) = <<"playing", c.to - c.at>>

(* A resume is never refused, and no duck is resumed twice in a row: the      *)
(* master has no paused show time by then.                                    *)
ResumedOnce ==
  /\ call # None /\ (whole \/ call.op \in {"resume", "stop"}) => call.ok
  /\ \A d \in Ducks : duck[d].wish = "resume" =>
       /\ call = None \/ call.op # "resume" \/ Waits(call, d) => master.paused = None
       /\ call # None /\ call.op = "pause" => Waits(call, d)

Together == ResumedOnce /\ (whole => OneCourse(duck, call))

LEMMA OneCourseNext == OneCourse(duck, call)' <=> OneCourse(duck', call')
BY DEF OneCourse, Live, Waits, Told, Course, AfterPause, Going, Turned

LEMMA AppliedTogether ==
  ASSUME Together, Applied, UNCHANGED <<script, call, whole>>,
         master'.paused = master.paused
  PROVE  Together'
<1>1. ResumedOnce'
  BY DEF Together, ResumedOnce, Applied, Waits
<1>2. OneCourse(duck, call) => OneCourse(duck', call')
  BY DEF OneCourse, Applied
<1> QED
  BY <1>1, <1>2, OneCourseNext DEF Together

LEMMA IssueTogether ==
  ASSUME Sound, Together, Issue
  PROVE  Together'
<1> DEFINE op == Head(script)
<1>1. /\ call = None /\ UNCHANGED <<now, master, duck, whole>>
      /\ Refused(op) => call' = None
      /\ ~Refused(op) => call' # None /\ call'.waiting = Ducks /\ call'.ok
  BY IssueIs DEF Sound
<1> HIDE DEF op
<1>2. ResumedOnce'
  BY <1>1 DEF Together, ResumedOnce, Waits
<1>3. OneCourse(duck, call) => OneCourse(duck', call')
  BY <1>1 DEF OneCourse, Waits, Told
<1> QED
  BY <1>1, <1>2, <1>3, OneCourseNext DEF Together

LEMMA ReturnTogether ==
  ASSUME Sound, Together, Return
  PROVE  Together'
<1>1. /\ call # None /\ call.waiting = {} /\ call' = None
      /\ UNCHANGED <<now, script, duck, whole>>
      /\ call.op \in Ops /\ call.ok \in BOOLEAN
  BY ReturnIs, TypedIs DEF Sound
<1>2. ASSUME NEW d \in Ducks, duck[d].wish = "resume"
      PROVE  master'.paused = None
  <2>1. call.op # "pause" /\ (call.op # "resume" => master.paused = None)
    BY <1>1, <1>2 DEF Together, ResumedOnce, Waits
  <2>2. call.op = "resume" => call.ok
    BY <1>1 DEF Together, ResumedOnce
  <2> QED
    BY <1>1, <2>1, <2>2, ReturnIs DEF Ops
<1>3. ResumedOnce'
  BY <1>1, <1>2 DEF ResumedOnce
<1>4. OneCourse(duck, call) => OneCourse(duck', call')
  BY <1>1 DEF OneCourse, Waits, Told
<1> QED
  BY <1>1, <1>3, <1>4, OneCourseNext DEF Together

(* A duck that has yet to be told of a resume was not resumed last.           *)
LEMMA NotResumedTwice ==
  ASSUME Sound, Together, NEW d \in Ducks, Waits(call, d), call.op = "resume"
  PROVE  duck[d].wish # "resume"
BY DEF Sound, Anchored, Together, ResumedOnce, Waits

(* What a duck told of the command makes of its course.                       *)
LEMMA ToldCourse ==
  ASSUME Sound, Ordered, Together, NEW d \in Ducks, Waits(call, d),
         Accepts(duck[d], call), Live(Handle(duck[d], call))
  PROVE  /\ call.op # "play" => Live(duck[d])
         /\ Course(Handle(duck[d], call)) = Turned(call, Course(duck[d]))
<1>1. duck[d] \in DuckType /\ call \in Calls /\ Horizon \in Int
  BY TypedIs, HorizonIs DEF Sound, Waits
<1>2. Form(duck[d]) /\ ParkedBy(duck[d], Horizon)
  BY DEF Sound, Ordered
<1>3. <<duck[d].wish, call.op>> \notin Clashes
  BY DEF Ordered
<1>4. call.op = "resume" => duck[d].wish # "resume"
  BY NotResumedTwice
<1> QED
  BY <1>1, <1>2, <1>3, <1>4, HandledCourse

LEMMA DeliverTogether ==
  ASSUME Sound, Ordered, Together, NEW d \in Ducks, Deliver(d)
  PROVE  Together'
<1> DEFINE x == duck[d]
           y == Handle(x, call)
<1>1. /\ call # None /\ call \in Calls /\ d \in call.waiting /\ x \in DuckType
      /\ duck'[d] = y /\ \A e \in Ducks \ {d} : duck'[e] = duck[e]
      /\ call' # None /\ call'.op = call.op /\ call'.at = call.at
      /\ call'.to = call.to
      /\ call'.waiting = call.waiting \ {d}
      /\ call'.ok = (call.ok /\ Accepts(x, call))
      /\ whole' = (whole /\ Accepts(x, call))
      /\ UNCHANGED <<now, script, master>>
  BY DeliverIs, TypedIs DEF Sound
<1>2. call.op \in {"resume", "stop"} => Accepts(x, call)
  BY AcceptsIs
<1>3. y.wish = "resume" => call.op = "resume" \/ (x.wish = "resume" /\ call.op # "pause")
  <2>1. x.wish = "resume" => call.op # "pause"
    BY <1>1, ClashIs DEF Ordered, Waits
  <2> QED
    BY <1>1, <2>1, HandleIs
<1>4. ASSUME whole'
      PROVE  /\ whole /\ OneCourse(duck, call)
             /\ Live(y) => /\ call.op # "play" => Live(x)
                           /\ Course(y) = Turned(call, Course(x))
  BY <1>1, <1>4, ToldCourse DEF Waits, Together
<1> HIDE DEF y
<1>5. ResumedOnce'
  <2>1. ASSUME NEW e \in Ducks, duck'[e].wish = "resume"
        PROVE  /\ call.op # "resume" \/ (e # d /\ e \in call.waiting) => master.paused = None
               /\ call.op = "pause" => e # d /\ e \in call.waiting
    <3>1. CASE e = d
      <4>1. call.op = "resume" \/ (x.wish = "resume" /\ call.op # "pause")
        BY <1>1, <1>3, <2>1, <3>1
      <4> QED
        BY <1>1, <3>1, <4>1 DEF Together, ResumedOnce
    <3>2. CASE e # d
      BY <1>1, <2>1, <3>2 DEF Together, ResumedOnce, Waits
    <3> QED
      BY <3>1, <3>2
  <2> QED
    BY <1>1, <1>2, <2>1 DEF Together, ResumedOnce, Waits
<1>6. \A line : Turned(call', line) = Turned(call, line)
  BY <1>1 DEF Turned
<1>7. ASSUME whole'
      PROVE  OneCourse(duck', call')
  <2>1. ASSUME NEW e \in Ducks, e # d, Live(y), Live(duck[e])
        PROVE  Course(y) = IF e \in call.waiting THEN Turned(call, Course(duck[e]))
                           ELSE Course(duck[e])
    <3>1. CASE call.op = "play"
      BY <1>1, <1>4, <1>7, <2>1, <3>1, TurnedIs DEF OneCourse, Told
    <3>2. CASE call.op # "play"
      BY <1>1, <1>4, <1>7, <2>1, <3>2 DEF OneCourse, Told, Waits
    <3> QED
      BY <3>1, <3>2
  <2>2. ASSUME NEW e \in Ducks, NEW f \in Ducks, Live(duck'[e]), Live(duck'[f]),
               Waits(call', e) <=> Waits(call', f)
        PROVE  Course(duck'[e]) = Course(duck'[f])
    BY <1>1, <1>4, <1>7, <2>1, <2>2 DEF OneCourse, Waits
  <2>3. ASSUME NEW e \in Ducks, NEW f \in Ducks, Live(duck'[e]), Live(duck'[f]),
               Told(call', e), Waits(call', f)
        PROVE  Course(duck'[e]) = Turned(call', Course(duck'[f]))
    BY <1>1, <1>4, <1>6, <1>7, <2>1, <2>3 DEF OneCourse, Waits, Told
  <2>4. ASSUME NEW e \in Ducks, Live(duck'[e]), Told(call', e), call'.op = "play"
        PROVE  Course(duck'[e]) = <<"playing", call'.to - call'.at>>
    <3>1. CASE e = d
      <4>1. Course(y) = Turned(call, Course(x)) /\ duck'[e] = y
        BY <1>1, <1>4, <1>7, <2>4, <3>1
      <4> QED
        BY <1>1, <2>4, <4>1, TurnedIs
    <3>2. CASE e # d
      BY <1>1, <1>4, <1>7, <2>4, <3>2 DEF OneCourse, Told
    <3> QED
      BY <3>1, <3>2
  <2> QED
    BY <2>2, <2>3, <2>4 DEF OneCourse
<1> QED
  BY <1>5, <1>7, OneCourseNext DEF Together

LEMMA NextTogether ==
  ASSUME Sound, Ordered, Together, [Next]_vars
  PROVE  Together'
BY StepIs, IssueTogether, ReturnTogether, DeliverTogether, AppliedTogether

LEMMA InitTogether ==
  ASSUME Init
  PROVE  Together
<1>1. call = None
  BY DEF Init
<1>2. \A d \in Ducks : duck[d].wish = "none" /\ duck[d].state = "loaded"
  BY DEF Init, Idle
<1> QED
  BY <1>1, <1>2 DEF Together, ResumedOnce, OneCourse, Live, Told

(* Ducks that were told the same are on one course, applied or still parked:  *)
(* the invariant of CastStaysTogether.                                        *)
THEOREM StaysTogether ==
  ASSUME \A s \in Scripts : Careful(s)
  PROVE  Spec => []Together
<1>1. Init => Together
  BY InitTogether
<1>2. Sound /\ Ordered /\ Together /\ [Next]_vars => Together'
  BY NextTogether
<1> QED
  BY <1>1, <1>2, StaysSound, StaysOrdered, PTL DEF Spec

(* A duck with nothing left to apply follows its course.                      *)
LEMMA SettledCourse ==
  ASSUME NEW d \in Ducks, Settled(d)
  PROVE  Live(duck[d]) /\ Course(duck[d]) = Line(d)
BY DEF Settled, Line, Live, Course, AfterPause, Going

(* A cast that has obeyed every command is at one show time: any two ducks    *)
(* that have applied what they were told follow the same show clock, however  *)
(* late each one's ticks were, in whatever order the commands reached them,   *)
(* whether they joined in progress or not, for any cast and any careful       *)
(* script (_begin_playback, _play_tick and the handlers of agent.py).         *)
THEOREM CastStaysTogether ==
  ASSUME \A s \in Scripts : Careful(s)
  PROVE  Spec => []CastTogether
<1>1. Together => CastTogether
  <2>1. ASSUME Together, whole, call = None, NEW d \in Ducks, NEW e \in Ducks,
               Settled(d), Settled(e)
        PROVE  Line(d) = Line(e)
    BY <2>1, SettledCourse DEF Together, OneCourse, Waits
  <2> QED
    BY <2>1 DEF CastTogether
<1> QED
  BY <1>1, StaysTogether, PTL

-----------------------------------------------------------------------------
(* Scripts in which a paused show is resumed or stopped before the next play. *)
LEMMA TailIs ==
  ASSUME NEW s \in Seq(Ops), s # <<>>
  PROVE  /\ Head(s) = s[1] /\ Len(s) \in Nat /\ Len(s) > 0
         /\ Tail(s) \in Seq(Ops) /\ Len(Tail(s)) = Len(s) - 1
         /\ \A i \in 1 .. Len(s) - 1 : Tail(s)[i] = s[i + 1]
OBVIOUS

(* What is left of a script while the show is paused.                         *)
NoPlayYet(s) ==
  \A j \in 1 .. Len(s) :
    s[j] = "play" => \E k \in 1 .. j : s[k] \in {"resume", "stop"}

LEMMA NoPlayTail ==
  ASSUME NEW s \in Seq(Ops), s # <<>>, NoPlayYet(s)
  PROVE  /\ Head(s) # "play"
         /\ Head(s) \notin {"resume", "stop"} => NoPlayYet(Tail(s))
<1>1. Head(s) # "play"
  <2>1. ASSUME s[1] = "play" PROVE FALSE
    <3>1. PICK k \in 1 .. 1 : s[k] \in {"resume", "stop"}
      BY <2>1, TailIs DEF NoPlayYet
    <3> QED
      BY <2>1, <3>1
  <2> QED
    BY <2>1, TailIs
<1>2. ASSUME Head(s) \notin {"resume", "stop"},
             NEW j \in 1 .. Len(Tail(s)), Tail(s)[j] = "play"
      PROVE  \E k \in 1 .. j : Tail(s)[k] \in {"resume", "stop"}
  <2>1. j + 1 \in 1 .. Len(s) /\ s[j + 1] = "play"
    BY <1>2, TailIs
  <2>2. PICK k \in 1 .. j + 1 : s[k] \in {"resume", "stop"}
    BY <2>1 DEF NoPlayYet
  <2>3. k # 1
    BY <1>2, <2>2, TailIs
  <2>4. k - 1 \in 1 .. j /\ k - 1 \in 1 .. Len(s) - 1 /\ Tail(s)[k - 1] = s[(k - 1) + 1]
    BY <2>1, <2>2, <2>3, TailIs
  <2>5. Tail(s)[k - 1] \in {"resume", "stop"}
    BY <2>2, <2>4
  <2> QED
    BY <2>4, <2>5
<1> QED
  BY <1>1, <1>2 DEF NoPlayYet

LEMMA UnfrozenTail ==
  ASSUME NEW s \in Seq(Ops), s # <<>>, Unfrozen(s)
  PROVE  /\ Unfrozen(Tail(s))
         /\ Head(s) = "pause" => NoPlayYet(Tail(s))
<1>1. ASSUME NEW i \in 1 .. Len(s), s[i] = "pause",
             NEW j \in i .. Len(s) - 1, Tail(s)[j] = "play"
      PROVE  \E k \in i .. j : Tail(s)[k] \in {"resume", "stop"}
  <2>1. j + 1 \in i + 1 .. Len(s) /\ s[j + 1] = "play"
    BY <1>1, TailIs
  <2>2. PICK k \in i + 1 .. j + 1 : s[k] \in {"resume", "stop"}
    BY <1>1, <2>1 DEF Unfrozen
  <2>3. k - 1 \in i .. j /\ k - 1 \in 1 .. Len(s) - 1 /\ Tail(s)[k - 1] = s[(k - 1) + 1]
    BY <2>1, <2>2, TailIs
  <2>4. Tail(s)[k - 1] \in {"resume", "stop"}
    BY <2>2, <2>3
  <2> QED
    BY <2>3, <2>4
<1>2. Unfrozen(Tail(s))
  <2>1. ASSUME NEW i \in 1 .. Len(Tail(s)), Tail(s)[i] = "pause",
               NEW j \in i + 1 .. Len(Tail(s)), Tail(s)[j] = "play"
        PROVE  \E k \in i + 1 .. j : Tail(s)[k] \in {"resume", "stop"}
    <3>1. i + 1 \in 1 .. Len(s) /\ s[i + 1] = "pause" /\ j \in i + 1 .. Len(s) - 1
      BY <2>1, TailIs
    <3> QED
      BY <1>1, <2>1, <3>1
  <2> QED
    BY <2>1 DEF Unfrozen
<1>3. ASSUME Head(s) = "pause"
      PROVE  NoPlayYet(Tail(s))
  <2>1. 1 \in 1 .. Len(s) /\ s[1] = "pause" /\ Len(Tail(s)) = Len(s) - 1
    BY <1>3, TailIs
  <2>2. ASSUME NEW j \in 1 .. Len(Tail(s)), Tail(s)[j] = "play"
        PROVE  \E k \in 1 .. j : Tail(s)[k] \in {"resume", "stop"}
    BY <1>1, <2>1, <2>2
  <2> QED
    BY <2>2 DEF NoPlayYet
<1> QED
  BY <1>2, <1>3

(* So no play finds the master with a paused show time.                       *)
Thawed ==
  /\ Unfrozen(script)
  /\ master.paused # None /\ call # None => call.op # "play"
  /\ call = None /\ master.paused # None => NoPlayYet(script)
  /\ call # None =>
       /\ call.op = "pause" => NoPlayYet(script)
       /\ master.paused # None /\ call.op \notin {"resume", "stop"} => NoPlayYet(script)

LEMMA IssueThawed ==
  ASSUME Sound, Thawed, Issue
  PROVE  Thawed'
<1> DEFINE op == Head(script)
<1>1. /\ op \in Ops /\ script # <<>> /\ call = None
      /\ script' = Tail(script) /\ script \in Seq(Ops)
      /\ UNCHANGED <<now, master, duck, whole>>
      /\ Refused(op) => call' = None
      /\ ~Refused(op) => call' # None /\ call'.op = op
  BY IssueIs DEF Sound, Typed
<1>2. Unfrozen(script') /\ (op = "pause" => NoPlayYet(script'))
  BY <1>1, UnfrozenTail DEF Thawed
<1>3. ASSUME master.paused # None
      PROVE  op # "play" /\ (op \notin {"resume", "stop"} => NoPlayYet(script'))
  BY <1>1, <1>3, NoPlayTail DEF Thawed
<1> HIDE DEF op
<1>4. Refused(op) /\ master.paused # None => op = "pause"
  BY DEF Refused
<1>5. /\ Unfrozen(script)'
      /\ NoPlayYet(script') => NoPlayYet(script)'
  BY <1>2 DEF Unfrozen, NoPlayYet
<1>6. master' = master
  BY <1>1
<1>7. CASE Refused(op)
  BY <1>1, <1>2, <1>4, <1>5, <1>6, <1>7 DEF Thawed
<1>8. CASE ~Refused(op)
  BY <1>1, <1>2, <1>3, <1>5, <1>6, <1>8 DEF Thawed
<1> QED
  BY <1>7, <1>8

LEMMA ReturnThawed ==
  ASSUME Sound, Together, Thawed, Return
  PROVE  Thawed'
<1>1. /\ call # None /\ call' = None /\ script' = script
      /\ call.op \in Ops /\ call.ok \in BOOLEAN
      /\ call.op \in {"resume", "stop"} => call.ok
  BY ReturnIs, TypedIs DEF Sound, Together, ResumedOnce
<1>2. ASSUME master'.paused # None
      PROVE  /\ call.op \notin {"resume", "stop"}
             /\ master.paused # None \/ call.op = "pause"
  BY <1>1, <1>2, ReturnIs DEF Ops
<1>3. master'.paused # None => NoPlayYet(script)
  BY <1>1, <1>2 DEF Thawed
<1>4. Unfrozen(script)' /\ (NoPlayYet(script) => NoPlayYet(script)')
  BY <1>1 DEF Thawed, Unfrozen, NoPlayYet
<1> QED
  BY <1>1, <1>3, <1>4 DEF Thawed

LEMMA OtherThawed ==
  ASSUME Thawed, script' = script, master'.paused = master.paused,
         call' = call \/ (call # None /\ call' # None /\ call'.op = call.op)
  PROVE  Thawed'
<1>1. Unfrozen(script)' /\ (NoPlayYet(script) => NoPlayYet(script)')
  BY DEF Thawed, Unfrozen, NoPlayYet
<1> QED
  BY <1>1 DEF Thawed

LEMMA NextThawed ==
  ASSUME Sound, Ordered, Together, Thawed, [Next]_vars
  PROVE  Thawed'
<1>1. ASSUME NEW d \in Ducks, Deliver(d)
      PROVE  Thawed'
  <2>1. /\ call # None /\ call' # None /\ call'.op = call.op
        /\ UNCHANGED <<now, script, master>>
    BY <1>1, DeliverIs
  <2> QED
    BY <2>1, OtherThawed
<1> QED
  BY <1>1, StepIs, IssueThawed, ReturnThawed, OtherThawed

-----------------------------------------------------------------------------
(* A duck the command under way has not reached is on the course its master   *)
(* goes by, unless it was paused in this pass; one it has reached is on the   *)
(* course the master will go by when the command returns.                     *)
Follows(x, m) ==
  /\ x.wish \in {"play", "seek"} /\ Course(x)[1] = "playing"
       => Course(x)[2] = m.from - m.epoch
  /\ m.paused # None => Course(x)[1] = "paused"

Precedes(x, c, m) ==
  /\ x.wish = c.op
  /\ c.op \in {"play", "seek"} /\ Course(x)[1] = "playing"
       => Course(x)[2] = c.to - c.at
  /\ c.op = "seek" /\ m.paused # None => Course(x)[1] = "paused"
  /\ c.op = "pause" => Course(x)[1] = "paused"

InLine(cast, c, m) ==
  \A d \in Ducks : Live(cast[d]) =>
    /\ Heard(cast[d])
    /\ ~Told(c, d) => Follows(cast[d], m)
    /\ Told(c, d) => Precedes(cast[d], c, m)

Followed == whole => InLine(duck, call, master)

LEMMA InLineNext == InLine(duck, call, master)' <=> InLine(duck', call', master')
BY DEF InLine, Live, Heard, Told, Follows, Precedes, Course, AfterPause, Going

LEMMA AppliedFollowed ==
  ASSUME Followed, Applied, UNCHANGED <<call, whole>>,
         master'.epoch = master.epoch, master'.from = master.from,
         master'.paused = master.paused
  PROVE  Followed'
<1>1. ASSUME InLine(duck, call, master), NEW d \in Ducks, Live(duck'[d])
      PROVE  /\ Heard(duck'[d])
             /\ ~Told(call, d) => Follows(duck'[d], master')
             /\ Told(call, d) => Precedes(duck'[d], call, master')
  <2>1. /\ duck'[d].wish = duck[d].wish /\ Course(duck'[d]) = Course(duck[d])
        /\ Heard(duck'[d])
        /\ ~Told(call, d) => Follows(duck[d], master)
        /\ Told(call, d) => Precedes(duck[d], call, master)
    BY <1>1 DEF InLine, Applied
  <2> QED
    BY <2>1 DEF Follows, Precedes
<1>2. InLine(duck, call, master) => InLine(duck', call', master')
  BY <1>1 DEF InLine
<1> QED
  BY <1>2, InLineNext DEF Followed

LEMMA IssueFollowed ==
  ASSUME Sound, Followed, Issue
  PROVE  Followed'
<1>1. /\ call = None /\ (call' = None \/ call'.waiting = Ducks)
      /\ UNCHANGED <<now, master, duck, whole>>
  BY IssueIs DEF Sound
<1>2. InLine(duck, call, master) => InLine(duck', call', master')
  BY <1>1 DEF InLine, Told
<1> QED
  BY <1>1, <1>2, InLineNext DEF Followed

(* A duck on the course of a paused show is paused, or about to be.           *)
LEMMA PausedCourseIs ==
  ASSUME NEW x, Form(x), Live(x), x.resume = None, x.seek = None,
         Course(x)[1] = "paused"
  PROVE  x.state # "armed" /\ (x.frozen # None \/ x.pause # None)
BY DEF Form, NothingParked, Live, Course, AfterPause, Going

LEMMA DeliverFollowed ==
  ASSUME Sound, Ordered, Together, Followed, NEW d \in Ducks, Deliver(d)
  PROVE  Followed'
<1> DEFINE x == duck[d]
           y == Handle(x, call)
<1>1. /\ call # None /\ call \in Calls /\ d \in call.waiting /\ x \in DuckType
      /\ duck'[d] = y /\ \A e \in Ducks \ {d} : duck'[e] = duck[e]
      /\ call' # None /\ call'.op = call.op /\ call'.at = call.at
      /\ call'.to = call.to
      /\ call'.waiting = call.waiting \ {d}
      /\ whole' = (whole /\ Accepts(x, call))
      /\ UNCHANGED <<now, script, master>>
  BY DeliverIs, TypedIs DEF Sound
<1>2. SUFFICES ASSUME whole' PROVE InLine(duck', call', master')
  BY InLineNext DEF Followed
<1>3. whole /\ Accepts(x, call) /\ InLine(duck, call, master) /\ call.op \in Ops
  BY <1>1, <1>2 DEF Followed, Calls
<1>4. ASSUME Live(y)
      PROVE  Heard(y) /\ Precedes(y, call, master)
  <2>1. /\ y.wish = call.op
        /\ call.op # "play" => Live(x)
        /\ Course(y) = Turned(call, Course(x))
    BY <1>1, <1>3, <1>4, HandleIs, ToldCourse DEF Waits
  <2>2. Live(x) => Follows(x, master)
    BY <1>1, <1>3 DEF InLine, Told
  <2>3. ASSUME call.op = "resume"
        PROVE  y.state # "armed" /\ (y.held \/ y.pause # None)
    <3>1. Live(x) /\ Form(x) /\ ParkedBy(x, Horizon) /\ master.paused # None
      BY <1>1, <2>1, <2>3 DEF Sound, Ordered, Anchored
    <3>2. x.wish # "resume" /\ x.wish # "seek"
      BY <1>1, <2>3, NotResumedTwice, ClashIs DEF Ordered, Waits
    <3>3. x.resume = None /\ x.seek = None /\ Course(x)[1] = "paused"
      BY <2>2, <3>1, <3>2 DEF ParkedBy, Follows
    <3>4. x.state # "armed" /\ (x.frozen # None \/ x.pause # None)
      BY <3>1, <3>3, PausedCourseIs
    <3>5. x.held \/ x.pause # None
      BY <1>1, <3>1, <3>4 DEF Form, DuckType, DuckStates, Live
    <3>6. y.state = x.state /\ y.held = x.held /\ y.pause = x.pause
      BY <1>1, <1>3, <2>3, HandleIs, ResumeIs DEF SameShow
    <3> QED
      BY <3>4, <3>5, <3>6
  <2> HIDE DEF y
  <2>4. Heard(y)
    BY <2>1, <2>3 DEF Heard
  <2>5. CASE call.op = "play"
    BY <2>1, <2>4, <2>5, TurnedIs DEF Precedes
  <2>6. CASE call.op = "seek"
    BY <2>1, <2>2, <2>4, <2>6, TurnedIs DEF Precedes, Follows
  <2>7. CASE call.op = "pause"
    BY <2>1, <2>4, <2>7, TurnedIs DEF Precedes
  <2>8. CASE call.op \in {"resume", "stop"}
    BY <2>1, <2>4, <2>8 DEF Precedes
  <2> QED
    BY <1>3, <2>5, <2>6, <2>7, <2>8 DEF Ops
<1> HIDE DEF y
<1>5. ASSUME NEW e \in Ducks, Live(duck'[e])
      PROVE  /\ Heard(duck'[e])
             /\ ~Told(call', e) => Follows(duck'[e], master')
             /\ Told(call', e) => Precedes(duck'[e], call', master')
  <2>1. CASE e = d
    <3>1. Told(call', e) /\ duck'[e] = y /\ master' = master
      BY <1>1, <2>1 DEF Told
    <3>2. Heard(y) /\ Precedes(y, call, master)
      BY <1>4, <1>5, <3>1
    <3> QED
      BY <1>1, <3>1, <3>2 DEF Precedes
  <2>2. CASE e # d
    <3>1. /\ Told(call', e) <=> Told(call, e)
          /\ duck'[e] = duck[e] /\ master' = master
      BY <1>1, <2>2 DEF Told
    <3>2. /\ Heard(duck[e])
          /\ ~Told(call, e) => Follows(duck[e], master)
          /\ Told(call, e) => Precedes(duck[e], call, master)
      BY <1>3, <1>5, <3>1 DEF InLine
    <3> QED
      BY <1>1, <3>1, <3>2 DEF Precedes
  <2> QED
    BY <2>1, <2>2
<1> QED
  BY <1>5 DEF InLine

LEMMA ReturnFollowed ==
  ASSUME Sound, Ordered, Together, Thawed, Followed, Return
  PROVE  Followed'
<1>1. /\ call # None /\ call.waiting = {} /\ call' = None
      /\ UNCHANGED <<now, script, duck, whole>>
      /\ call.op \in Ops
  BY ReturnIs, TypedIs DEF Sound
<1>2. SUFFICES ASSUME whole' PROVE InLine(duck', call', master')
  BY InLineNext DEF Followed
<1>3. whole /\ InLine(duck, call, master) /\ call.ok
  BY <1>1, <1>2 DEF Followed, Together, ResumedOnce
<1>4. ASSUME NEW d \in Ducks, Live(duck[d])
      PROVE  Heard(duck[d]) /\ Follows(duck[d], master')
  <2>1. /\ Heard(duck[d]) /\ Precedes(duck[d], call, master)
        /\ ParkedBy(duck[d], Horizon)
    BY <1>1, <1>3, <1>4 DEF InLine, Told, Ordered
  <2>2. CASE call.op \in {"play", "seek"}
    <3>1. /\ master'.epoch = call.at /\ master'.from = call.to
          /\ master'.paused = master.paused
      BY <1>3, <2>2, ReturnIs
    <3>2. master.paused # None => call.op # "play"
      BY <1>1 DEF Thawed
    <3> QED
      BY <2>1, <2>2, <3>1, <3>2 DEF Precedes, Follows
  <2>3. CASE call.op = "pause"
    BY <2>1, <2>3 DEF Precedes, Follows
  <2>4. CASE call.op = "resume"
    <3>1. master'.paused = None
      BY <1>3, <2>4, ReturnIs
    <3> QED
      BY <2>1, <2>4, <3>1 DEF Precedes, Follows
  <2>5. CASE call.op = "stop"
    BY <1>4, <2>1, <2>5 DEF Precedes, ParkedBy
  <2> QED
    BY <1>1, <2>2, <2>3, <2>4, <2>5 DEF Ops
<1> QED
  BY <1>1, <1>4 DEF InLine, Told

LEMMA NextFollowed ==
  ASSUME Sound, Ordered, Together, Thawed, Followed, [Next]_vars
  PROVE  Followed'
BY StepIs, IssueFollowed, ReturnFollowed, DeliverFollowed, AppliedFollowed

LEMMA InitFollowed ==
  ASSUME \A s \in Scripts : Unfrozen(s), Init
  PROVE  Thawed /\ Followed
<1>1. call = None /\ master.paused = None /\ Unfrozen(script)
  BY DEF Init
<1>2. \A d \in Ducks : duck[d].state = "loaded"
  BY DEF Init, Idle
<1> QED
  BY <1>1, <1>2 DEF Thawed, Followed, InLine, Live

(* A master all of whose commands were obeyed reports the show time its cast  *)
(* is at, for every duck that was not paused in this pass: for any cast, any  *)
(* lateness, and any careful script in which a paused show is resumed or      *)
(* stopped before the next play (showmaster.py play, seek, pause, resume;     *)
(* _begin_playback).                                                          *)
THEOREM MasterStaysInStep ==
  ASSUME \A s \in Scripts : Careful(s) /\ Unfrozen(s)
  PROVE  Spec => []MasterInStepUnpaused
<1> DEFINE Inv == Sound /\ Ordered /\ Together /\ Thawed /\ Followed
<1>1. Init => Inv
  BY InitSound, InitOrdered, InitTogether, InitFollowed
<1>2. Inv /\ [Next]_vars => Inv'
  BY NextSound, NextOrdered, NextTogether, NextThawed, NextFollowed
<1>3. Inv => MasterInStepUnpaused
  <2>1. ASSUME Inv, NEW d \in Ducks, ~duck[d].held, whole, call = None, Settled(d)
        PROVE  /\ duck[d].frozen = None
               /\ duck[d].base - duck[d].epoch = master.from - master.epoch
    <3>1. Form(duck[d]) /\ ParkedBy(duck[d], Horizon)
      BY <2>1 DEF Sound, Ordered
    <3>2. duck[d].state = "playing" /\ duck[d].frozen = None /\ duck[d].pause = None
      BY <2>1, <3>1 DEF Settled, Form
    <3>3. Live(duck[d]) /\ Course(duck[d]) = <<"playing", duck[d].base - duck[d].epoch>>
      BY <2>1, <3>2, SettledCourse DEF Line
    <3>4. Heard(duck[d]) /\ Follows(duck[d], master)
      BY <2>1, <3>3 DEF Followed, InLine, Told
    <3>5. duck[d].wish \in {"play", "seek"}
      BY <2>1, <3>1, <3>2, <3>3, <3>4 DEF ParkedBy, Heard
    <3> QED
      BY <3>2, <3>3, <3>4, <3>5 DEF Follows
  <2> QED
    BY <2>1 DEF MasterInStepUnpaused, InStep
<1> QED
  BY <1>1, <1>2, <1>3, PTL DEF Spec

=============================================================================
