----------------------------- MODULE RobotdProofs -----------------------------
(***************************************************************************)
(* Theorems about RobotdClient, for any number of callers, any ids, any    *)
(* size of the socket's buffer and any number of faults.                   *)
(***************************************************************************)
EXTENDS RobotdClient, TLAPS

(* A request has an id of its own as long as it is under way, ...             *)
Numbered ==
  /\ \A t \in Requesters : (call[t].at = "idle") <=> (call[t].id = 0)
  /\ \A t, u \in Requesters : call[t].id = call[u].id => t = u \/ call[t].id = 0

(* ... and somebody will find it there: the reader, or who wakes everybody.   *)
Held == \A t \in Requesters : call[t].id = 0 \/ call[t].id \in pending \cup woken

(* The handshake is the connector's.                                          *)
Shaken == connector # "hello" => call["hello"].id = 0

(* A socket is read until it is closed, and there is one reader at a time.    *)
Reading ==
  /\ sock => reader = "read"
  /\ "reader" \in closers => reader = "close"
  /\ connector = "dial" => reader = "off"

Waiting ==
  \A t \in Requesters :
    call[t].at = "wait" /\ call[t].id \notin woken => closers # {} \/ sock

Booked == Numbered /\ Held /\ NothingKept
Linked == RobotdTypeOK /\ Booked /\ Shaken /\ Reading /\ Waiting

-----------------------------------------------------------------------------
LEMMA Names ==
  /\ 0 \notin Ids /\ "hello" \in Requesters /\ Callers \subseteq Requesters
  /\ "hello" \notin Callers /\ "reader" \notin Requesters /\ "tick" \notin Requesters
  /\ Buffer \in Nat /\ MaxFaults \in Nat
<1>1. /\ Ids \cap {0} = {} /\ Callers \cap {"hello", "reader", "tick"} = {}
      /\ Buffer \in Nat /\ MaxFaults \in Nat
  BY RobotdClientAssumption
<1> QED
  BY <1>1 DEF Requesters

CallType ==
  [at : {"idle", "write", "wait", "raise"}, id : Ids \cup {0},
   got : {"none", "ok", "error", "disconnected", "timeout"}]

TablesOK ==
  /\ call \in [Requesters -> CallType]
  /\ pending \subseteq Ids /\ woken \subseteq Ids
  /\ replies \in [Ids -> Results \cup {"none", "disconnected"}]

LEMMA TableTypes == RobotdTypeOK => TablesOK
BY DEF RobotdTypeOK, TablesOK, CallType

(* The finally of _raw_request keeps the books.                               *)
LEMMA DoneBooks ==
  ASSUME RobotdTypeOK, Booked, NEW t \in Requesters, call[t].at # "idle",
         NEW got \in {"ok", "error", "disconnected", "timeout", "none"}, Done(t, got)
  PROVE  /\ TablesOK' /\ Booked'
         /\ call'[t] = [Idle EXCEPT !.got = got]
         /\ \A u \in Requesters : u # t =>
              call'[u] = call[u] /\ (call[u].id \in woken <=> call[u].id \in woken')
<1> DEFINE id == call[t].id
<1>1. /\ TablesOK /\ id \in Ids
  BY TableTypes DEF TablesOK, CallType, Booked, Numbered
<1>2. /\ call' = [call EXCEPT ![t] = [Idle EXCEPT !.got = got]]
      /\ pending' = pending \ {id} /\ woken' = woken \ {id}
      /\ replies' = [replies EXCEPT ![id] = "none"]
  BY DEF Done
<1>3. [Idle EXCEPT !.got = got] = [at |-> "idle", id |-> 0, got |-> got]
  BY DEF Idle
<1>4. /\ call'[t] = [at |-> "idle", id |-> 0, got |-> got]
      /\ \A u \in Requesters : u # t => call'[u] = call[u]
  BY <1>1, <1>2, <1>3 DEF TablesOK
<1>5. TablesOK'
  <2>1. [at |-> "idle", id |-> 0, got |-> got] \in CallType
    BY DEF CallType
  <2> QED
    BY <1>1, <1>2, <1>3, <2>1 DEF TablesOK
<1> HIDE DEF id
<1>6. \A u \in Requesters : u # t => call[u].id # id
  BY <1>1, Names DEF Booked, Numbered, id
<1>7. Numbered'
  <2>1. \A u \in Requesters : (call'[u].at = "idle") <=> (call'[u].id = 0)
    BY <1>4 DEF Booked, Numbered
  <2>2. \A u, v \in Requesters : call'[u].id = call'[v].id => u = v \/ call'[u].id = 0
    BY <1>4 DEF Booked, Numbered
  <2> QED
    BY <2>1, <2>2 DEF Numbered
<1>8. Held'
  BY <1>2, <1>4, <1>6 DEF Booked, Held
<1>9. NothingKept'
  <2> SUFFICES ASSUME NEW i \in Ids,
                      i \in pending' \cup woken' \/ replies'[i] # "none"
               PROVE  \E u \in Requesters : call'[u].id = i
    BY DEF NothingKept
  <2>1. i # id /\ (i \in pending \cup woken \/ replies[i] # "none")
    BY <1>1, <1>2 DEF TablesOK
  <2>2. PICK u \in Requesters : call[u].id = i
    BY <2>1 DEF Booked, NothingKept
  <2>3. u # t
    BY <2>1, <2>2 DEF id
  <2> QED
    BY <1>4, <2>2, <2>3
<1> QED
  BY <1>2, <1>3, <1>4, <1>5, <1>6, <1>7, <1>8, <1>9 DEF Booked

LEMMA RegisterBooks ==
  ASSUME RobotdTypeOK, Booked, NEW t \in Requesters, call[t].id = 0,
         NEW id \in Free, Register(t, id)
  PROVE  /\ TablesOK' /\ Booked' /\ id \in Ids
         /\ call'[t] = [at |-> "write", id |-> id, got |-> "none"]
         /\ \A u \in Requesters : u # t => call'[u] = call[u]
         /\ woken' = woken /\ served' = [served EXCEPT ![id] = "none"]
         /\ replies' = replies
<1>1. /\ TablesOK /\ id \in Ids /\ \A u \in Requesters : call[u].id # id
  BY TableTypes DEF Free
<1>2. /\ call' = [call EXCEPT ![t] = [at |-> "write", id |-> id, got |-> "none"]]
      /\ pending' = pending \cup {id} /\ UNCHANGED <<woken, replies>>
      /\ served' = [served EXCEPT ![id] = "none"]
  BY DEF Register
<1>3. /\ call'[t] = [at |-> "write", id |-> id, got |-> "none"]
      /\ \A u \in Requesters : u # t => call'[u] = call[u]
  BY <1>1, <1>2 DEF TablesOK
<1>4. TablesOK'
  <2>1. [at |-> "write", id |-> id, got |-> "none"] \in CallType
    BY <1>1 DEF CallType
  <2> QED
    BY <1>1, <1>2, <2>1 DEF TablesOK
<1>5. Numbered'
  <2>1. \A u \in Requesters : (call'[u].at = "idle") <=> (call'[u].id = 0)
    BY <1>1, <1>3, Names DEF Booked, Numbered
  <2>2. \A u, v \in Requesters : call'[u].id = call'[v].id => u = v \/ call'[u].id = 0
    BY <1>1, <1>3 DEF Booked, Numbered
  <2> QED
    BY <2>1, <2>2 DEF Numbered
<1>6. Held'
  BY <1>2, <1>3 DEF Booked, Held
<1>7. NothingKept'
  <2> SUFFICES ASSUME NEW i \in Ids,
                      i \in pending' \cup woken' \/ replies'[i] # "none"
               PROVE  \E u \in Requesters : call'[u].id = i
    BY DEF NothingKept
  <2>1. CASE i = id
    BY <1>3, <2>1
  <2>2. CASE i # id
    <3>1. PICK u \in Requesters : call[u].id = i
      BY <1>2, <2>2 DEF Booked, NothingKept
    <3>2. u # t
      BY <3>1, Names
    <3> QED
      BY <1>3, <3>1, <3>2
  <2> QED
    BY <2>1, <2>2
<1> QED
  BY <1>1, <1>2, <1>3, <1>4, <1>5, <1>6, <1>7 DEF Booked

LEMMA SameBooks ==
  ASSUME Booked, UNCHANGED <<call, tables>>
  PROVE  Booked'
BY DEF Booked, Numbered, Held, NothingKept, tables

-----------------------------------------------------------------------------
(* The types of the link and of the daemon, apart from those of the tables.   *)
SocketOK ==
  /\ sock \in BOOLEAN /\ connected \in BOOLEAN
  /\ connector \in {"dial", "hello", "failed", "up"}
  /\ reader \in {"off", "read", "close"}
  /\ closers \subseteq Requesters \cup {"reader", "tick"}

Reply == [id : Ids, result : Results]

WireOK ==
  /\ link \in {"none", "open", "cut"}
  /\ wire \in Seq(Ids \cup {0}) /\ Len(wire) <= Buffer
  /\ back \in Seq(Reply)

DaemonOK ==
  /\ daemon \in {"up", "stalled", "down"}
  /\ served \in [Ids -> Results \cup {"none"}]
  /\ refuse \in BOOLEAN /\ faults \in 0..MaxFaults

LEMMA TypeParts ==
  RobotdTypeOK <=> TablesOK /\ SocketOK /\ WireOK /\ DaemonOK
BY DEF RobotdTypeOK, TablesOK, SocketOK, WireOK, DaemonOK, CallType, Reply

LEMMA TypePartsNext ==
  RobotdTypeOK' <=> TablesOK' /\ SocketOK' /\ WireOK' /\ DaemonOK'
BY DEF RobotdTypeOK, TablesOK, SocketOK, WireOK, DaemonOK, CallType, Reply

LEMMA NoLines == <<>> \in Seq(Ids \cup {0}) /\ Len(<<>>) <= Buffer
                   /\ <<>> \in Seq(Reply)
<1>1. \A S : <<>> \in Seq(S) /\ Len(<<>>) = 0
  OBVIOUS
<1> QED
  BY <1>1, Names

(* The daemon, and the tick thread's lines, touch no request.                 *)
LEMMA DaemonLinked ==
  ASSUME Linked, Serve \/ FailNext \/ Stall \/ Resume \/ Cut \/ Start
  PROVE  Linked'
<1>0. TablesOK /\ SocketOK /\ WireOK /\ DaemonOK
  BY TypeParts DEF Linked
<1>1. UNCHANGED <<call, tables, socketVars, connectorVars>>
  BY DEF Serve, FailNext, Stall, Resume, Cut, Start
<1>2. Booked' /\ Shaken' /\ Reading' /\ Waiting'
  BY <1>1, SameBooks DEF Linked, Shaken, Reading, Waiting, socketVars, connectorVars, tables
<1>3. TablesOK' /\ SocketOK'
  BY <1>0, <1>1 DEF TablesOK, SocketOK, tables, socketVars, connectorVars
<1>4. WireOK' /\ DaemonOK'
  <2>1. CASE Serve
    <3>1. /\ wire # <<>> /\ wire' = Tail(wire) /\ UNCHANGED <<daemon, faults, link>>
          /\ refuse' \in {refuse, FALSE}
          /\ Dispatch(refuse' # refuse) \in Results
      BY <2>1 DEF Serve, Dispatch, Results
    <3>2. Head(wire) \in Ids \cup {0} /\ wire' \in Seq(Ids \cup {0}) /\ Len(wire') <= Buffer
      BY <1>0, <3>1, Names DEF WireOK
    <3> DEFINE result == Dispatch(refuse' # refuse)
    <3> HIDE DEF result
    <3>3. CASE Head(wire) = 0
      BY <1>0, <2>1, <3>1, <3>2, <3>3 DEF Serve, WireOK, DaemonOK
    <3>4. CASE Head(wire) # 0
      <4>1. /\ served' = [served EXCEPT ![Head(wire)] = result]
            /\ back' \in {back, Append(back, [id |-> Head(wire), result |-> result])}
        BY <2>1, <3>4 DEF Serve, result
      <4>2. result \in Results /\ Head(wire) \in Ids
        BY <3>1, <3>2, <3>4 DEF result
      <4>3. [id |-> Head(wire), result |-> result] \in Reply
        BY <4>2 DEF Reply
      <4>4. back' \in Seq(Reply)
        BY <1>0, <4>1, <4>3 DEF WireOK
      <4>5. served' \in [Ids -> Results \cup {"none"}]
        BY <1>0, <4>1, <4>2 DEF DaemonOK
      <4> QED
        BY <1>0, <3>1, <3>2, <4>4, <4>5 DEF WireOK, DaemonOK
    <3> QED
      BY <3>3, <3>4
  <2>2. CASE FailNext \/ Stall \/ Resume \/ Start
    <3>1. faults' \in 0..MaxFaults
      BY <1>0, <2>2, Names DEF FailNext, Stall, Resume, Start, DaemonOK
    <3>2. UNCHANGED linkVars /\ served' = served
      BY <2>2 DEF FailNext, Stall, Resume, Start
    <3>3. daemon' \in {"up", "stalled", "down"} /\ refuse' \in BOOLEAN
      BY <1>0, <2>2 DEF FailNext, Stall, Resume, Start, DaemonOK
    <3> QED
      BY <1>0, <3>1, <3>2, <3>3 DEF linkVars, WireOK, DaemonOK
  <2>3. CASE Cut
    <3>1. /\ faults' \in 0..MaxFaults /\ refuse' \in BOOLEAN
          /\ daemon' \in {"up", "stalled", "down"} /\ served' = served
      BY <1>0, <2>3, Names DEF Cut, DaemonOK
    <3>2. WireOK'
      BY <1>0, <2>3, NoLines DEF Cut, WireOK
    <3> QED
      BY <1>0, <3>1, <3>2 DEF DaemonOK
  <2> QED
    BY <2>1, <2>2, <2>3
<1> QED
  BY <1>2, <1>3, <1>4, TypePartsNext DEF Linked

LEMMA RequestLinked ==
  ASSUME Linked, NEW c \in Callers, Request(c)
  PROVE  Linked'
<1>0. TablesOK /\ SocketOK /\ WireOK /\ DaemonOK
  BY TypeParts DEF Linked
<1>1. PICK id \in Free : Register(c, id)
  BY DEF Request
<1>2. /\ c \in Requesters /\ c # "hello" /\ call[c].id = 0
      /\ UNCHANGED <<daemon, refuse, faults, linkVars, socketVars, connectorVars>>
  BY Names DEF Request, Linked, Booked, Numbered
<1>3. /\ TablesOK' /\ Booked' /\ id \in Ids
      /\ call'[c] = [at |-> "write", id |-> id, got |-> "none"]
      /\ \A u \in Requesters : u # c => call'[u] = call[u]
      /\ woken' = woken /\ served' = [served EXCEPT ![id] = "none"]
  BY <1>1, <1>2, RegisterBooks DEF Linked
<1>4. SocketOK' /\ WireOK' /\ DaemonOK'
  BY <1>0, <1>2, <1>3 DEF SocketOK, WireOK, DaemonOK, linkVars, socketVars, connectorVars
<1>5. Shaken' /\ Reading' /\ Waiting'
  BY <1>2, <1>3, Names DEF Linked, Shaken, Reading, Waiting, socketVars, connectorVars
<1> QED
  BY <1>3, <1>4, <1>5, TypePartsNext DEF Linked

(* What the end of a request does to the connector, if it is the handshake.   *)
LEMMA AfterLinks ==
  ASSUME Linked, NEW t \in Requesters, call[t].id # 0, call'[t].id = 0,
         \A u \in Requesters : u # t => call'[u] = call[u],
         NEW got, After(t, got), reader' = reader
  PROVE  /\ SocketOK' /\ Shaken' /\ Reading'
         /\ closers # {} \/ sock => closers' # {} \/ sock'
<1>0. SocketOK
  BY TypeParts DEF Linked
<1>1. CASE t # "hello"
  <2>1. UNCHANGED <<connectorVars, sock, closers>>
    BY <1>1 DEF After
  <2> QED
    BY <1>0, <1>1, <2>1, Names DEF SocketOK, Linked, Shaken, Reading, connectorVars
<1>2. CASE t = "hello" /\ got = "ok"
  <2>1. connector' = "up" /\ connected' = TRUE /\ UNCHANGED <<sock, closers>>
    BY <1>2 DEF After
  <2> QED
    BY <1>0, <1>2, <2>1 DEF SocketOK, Linked, Shaken, Reading
<1>3. CASE t = "hello" /\ got # "ok"
  <2>1. /\ connector' = "failed" /\ sock' = FALSE
        /\ closers' = closers \cup {"hello"} /\ connected' = connected
    BY <1>3 DEF After
  <2>2. "hello" # "reader"
    OBVIOUS
  <2> QED
    BY <1>0, <1>3, <2>1, <2>2, Names DEF SocketOK, Linked, Shaken, Reading
<1> QED
  BY <1>1, <1>2, <1>3

LEMMA EndLinked ==
  ASSUME Linked, NEW t \in Requesters, call[t].at # "idle",
         NEW got \in {"ok", "error", "disconnected", "timeout", "none"},
         Done(t, got), After(t, got),
         UNCHANGED <<daemonVars, linkVars, reader>>
  PROVE  Linked'
<1>0. TablesOK /\ SocketOK /\ WireOK /\ DaemonOK
  BY TypeParts DEF Linked
<1>1. /\ TablesOK' /\ Booked'
      /\ call'[t] = [Idle EXCEPT !.got = got]
      /\ \A u \in Requesters : u # t =>
           call'[u] = call[u] /\ (call[u].id \in woken <=> call[u].id \in woken')
  BY DoneBooks DEF Linked
<1>2. call[t].id # 0 /\ call'[t].id = 0 /\ call'[t].at = "idle"
  BY <1>1 DEF Idle, Linked, Booked, Numbered
<1>3. /\ SocketOK' /\ Shaken' /\ Reading'
      /\ closers # {} \/ sock => closers' # {} \/ sock'
  BY <1>1, <1>2, AfterLinks
<1>4. WireOK' /\ DaemonOK'
  BY <1>0 DEF WireOK, DaemonOK, daemonVars, linkVars
<1>5. Waiting'
  BY <1>1, <1>2, <1>3 DEF Linked, Waiting
<1> QED
  BY <1>1, <1>3, <1>4, <1>5, TypePartsNext DEF Linked

LEMMA WriteLinked ==
  ASSUME Linked, NEW t \in Requesters, WriteLine(t)
  PROVE  Linked'
<1>0. TablesOK /\ SocketOK /\ WireOK /\ DaemonOK
  BY TypeParts DEF Linked
<1>1. CASE /\ sock /\ (link = "open" => Len(wire) < Buffer)
           /\ wire' = IF link = "open" THEN Append(wire, call[t].id) ELSE wire
           /\ call' = [call EXCEPT ![t].at = "wait"]
           /\ UNCHANGED <<daemonVars, link, back, socketVars, connectorVars, tables>>
  <2>1. /\ call'[t].at = "wait" /\ call'[t].id = call[t].id /\ call[t].at = "write"
        /\ \A u \in Requesters : u # t => call'[u] = call[u]
        /\ call' \in [Requesters -> CallType] /\ call[t].id \in Ids \cup {0}
    BY <1>0, <1>1 DEF TablesOK, CallType, WriteLine
  <2>2. TablesOK' /\ SocketOK' /\ DaemonOK'
    BY <1>0, <1>1, <2>1
    DEF TablesOK, SocketOK, DaemonOK, daemonVars, socketVars, connectorVars, tables
  <2>3. WireOK'
    BY <1>0, <1>1, <2>1, Names DEF WireOK
  <2>4. Booked'
    <3>1. \A u \in Requesters : /\ call'[u].id = call[u].id
                                /\ call'[u].at = "idle" <=> call[u].at = "idle"
      BY <2>1
    <3> QED
      BY <1>1, <3>1 DEF Linked, Booked, Numbered, Held, NothingKept, tables
  <2>5. Shaken' /\ Reading' /\ Waiting'
    BY <1>1, <2>1, Names DEF Linked, Shaken, Reading, Waiting, socketVars, connectorVars
  <2> QED
    BY <2>2, <2>3, <2>4, <2>5, TypePartsNext DEF Linked
<1>2. CASE /\ Done(t, "disconnected") /\ After(t, "disconnected")
           /\ UNCHANGED <<daemonVars, linkVars, reader>>
  BY <1>2, EndLinked DEF WriteLine
<1>3. CASE /\ sock /\ CloseSocket(t)
           /\ call' = [call EXCEPT ![t].at = "raise"]
           /\ UNCHANGED <<daemonVars, linkVars, reader, connectorVars, tables>>
  <2>1. /\ call'[t].at = "raise" /\ call'[t].id = call[t].id /\ call[t].at = "write"
        /\ \A u \in Requesters : u # t => call'[u] = call[u]
        /\ call' \in [Requesters -> CallType]
    BY <1>0, <1>3 DEF TablesOK, CallType, WriteLine
  <2>2. sock' = FALSE /\ closers' = closers \cup {t}
    BY <1>3 DEF CloseSocket
  <2>3. TablesOK' /\ DaemonOK' /\ WireOK'
    BY <1>0, <1>3, <2>1 DEF TablesOK, DaemonOK, WireOK, daemonVars, linkVars, tables
  <2>6. SocketOK'
    BY <1>0, <1>3, <2>2 DEF SocketOK, connectorVars
  <2>4. Booked'
    <3>1. \A u \in Requesters : /\ call'[u].id = call[u].id
                                /\ call'[u].at = "idle" <=> call[u].at = "idle"
      BY <2>1
    <3> QED
      BY <1>3, <3>1 DEF Linked, Booked, Numbered, Held, NothingKept, tables
  <2>5. Shaken' /\ Reading' /\ Waiting'
    BY <1>3, <2>1, <2>2, Names DEF Linked, Shaken, Reading, Waiting, connectorVars
  <2> QED
    BY <2>3, <2>4, <2>5, <2>6, TypePartsNext DEF Linked
<1> QED
  BY <1>1, <1>2, <1>3 DEF WriteLine

LEMMA AnswerLinked ==
  ASSUME Linked, NEW t \in Requesters, Raise(t) \/ Got(t) \/ TimedOut(t)
  PROVE  Linked'
<1>1. CASE Raise(t)
  BY <1>1, EndLinked DEF Raise
<1>2. CASE TimedOut(t)
  BY <1>2, EndLinked DEF TimedOut
<1>3. CASE Got(t)
  <2>1. replies[call[t].id] \in {"ok", "error", "disconnected", "timeout", "none"}
    <3>1. call[t].id \in Ids
      BY <1>3, TableTypes DEF Got, Linked, Booked, Numbered, TablesOK, CallType
    <3> QED
      BY <3>1 DEF Linked, RobotdTypeOK, Results
  <2> QED
    BY <1>3, <2>1, EndLinked DEF Got
<1> QED
  BY <1>1, <1>2, <1>3

LEMMA WakeLinked ==
  ASSUME Linked, NEW t \in Requesters \cup {"reader", "tick"}, Wake(t)
  PROVE  Linked'
<1>0. TablesOK /\ SocketOK /\ WireOK /\ DaemonOK
  BY TypeParts DEF Linked
<1>1. /\ closers' = closers \ {t} /\ woken' = woken \cup pending /\ pending' = {}
      /\ replies' = [i \in Ids |-> IF i \in pending THEN "disconnected" ELSE replies[i]]
      /\ reader' = IF t = "reader" THEN "off" ELSE reader
      /\ UNCHANGED <<daemonVars, linkVars, sock, connectorVars, call>>
  BY DEF Wake
<1>2. TablesOK' /\ SocketOK' /\ WireOK' /\ DaemonOK'
  BY <1>0, <1>1 DEF TablesOK, SocketOK, WireOK, DaemonOK, daemonVars, linkVars, connectorVars
<1>3. Booked'
  BY <1>1 DEF Linked, Booked, Numbered, Held, NothingKept
<1>4. Shaken'
  BY <1>1 DEF Linked, Shaken, connectorVars
<1>5. Reading'
  BY <1>1 DEF Linked, Reading, connectorVars, Wake
<1>6. Waiting'
  <2>1. \A u \in Requesters : call[u].at = "wait" => call[u].id \in pending \cup woken
    BY DEF Linked, Booked, Numbered, Held
  <2> QED
    BY <1>1, <2>1 DEF Waiting
<1> QED
  BY <1>2, <1>3, <1>4, <1>5, <1>6, TypePartsNext DEF Linked

LEMMA NotifyLinked ==
  ASSUME Linked, Notify
  PROVE  Linked'
<1>0. TablesOK /\ SocketOK /\ WireOK /\ DaemonOK
  BY TypeParts DEF Linked
<1>1. UNCHANGED <<daemonVars, link, back, reader, connectorVars, call, tables>>
  BY DEF Notify
<1>2. \/ wire' = Append(wire, 0) /\ Len(wire) < Buffer /\ UNCHANGED <<sock, closers>>
      \/ sock' = FALSE /\ closers' = closers \cup {"tick"} /\ wire' = wire
  BY DEF Notify, CloseSocket
<1>3. TablesOK' /\ SocketOK' /\ DaemonOK'
  BY <1>0, <1>1, <1>2 DEF TablesOK, SocketOK, DaemonOK, daemonVars, connectorVars, tables
<1>4. WireOK'
  BY <1>0, <1>1, <1>2, Names DEF WireOK
<1>5. Booked'
  BY <1>1, SameBooks DEF Linked
<1>6. Shaken' /\ Reading' /\ Waiting'
  BY <1>1, <1>2 DEF Linked, Shaken, Reading, Waiting, connectorVars, tables
<1> QED
  BY <1>3, <1>4, <1>5, <1>6, TypePartsNext DEF Linked

LEMMA ConnectorLinked ==
  ASSUME Linked, Connector
  PROVE  Linked'
<1>0. TablesOK /\ SocketOK /\ WireOK /\ DaemonOK
  BY TypeParts DEF Linked
<1>1. CASE Dial
  <2>1. PICK id \in Free : Register("hello", id)
    BY <1>1 DEF Dial
  <2>2. /\ connector = "dial" /\ link' = "open" /\ wire' = <<>> /\ back' = <<>>
        /\ sock' = TRUE /\ reader' = "read" /\ connector' = "hello"
        /\ UNCHANGED <<daemon, refuse, faults, closers, connected>>
    BY <1>1 DEF Dial
  <2>3. call["hello"].id = 0
    BY <2>2 DEF Linked, Shaken
  <2>4. /\ TablesOK' /\ Booked' /\ id \in Ids
        /\ call'["hello"] = [at |-> "write", id |-> id, got |-> "none"]
        /\ \A u \in Requesters : u # "hello" => call'[u] = call[u]
        /\ served' = [served EXCEPT ![id] = "none"]
    BY <2>1, <2>3, RegisterBooks, Names DEF Linked
  <2>5. SocketOK' /\ WireOK' /\ DaemonOK'
    BY <1>0, <2>2, <2>4, NoLines DEF SocketOK, WireOK, DaemonOK
  <2>6. Shaken' /\ Reading' /\ Waiting'
    BY <2>2 DEF Linked, Shaken, Reading, Waiting
  <2> QED
    BY <2>4, <2>5, <2>6, TypePartsNext DEF Linked
<1>2. CASE Redial \/ Lost
  <2>1. /\ connector \in {"failed", "up"} /\ reader = "off" /\ connector' = "dial"
        /\ link' = "none" /\ wire' = <<>> /\ back' = <<>>
        /\ connected' \in {connected, FALSE}
        /\ UNCHANGED <<daemonVars, socketVars, call, tables>>
    BY <1>2 DEF Redial, Lost
  <2>2. TablesOK' /\ SocketOK' /\ WireOK' /\ DaemonOK'
    BY <1>0, <2>1, NoLines
    DEF TablesOK, SocketOK, WireOK, DaemonOK, daemonVars, socketVars, tables
  <2>3. Booked'
    BY <2>1, SameBooks DEF Linked
  <2>4. Shaken' /\ Reading' /\ Waiting'
    BY <2>1 DEF Linked, Shaken, Reading, Waiting, socketVars, tables
  <2> QED
    BY <2>2, <2>3, <2>4, TypePartsNext DEF Linked
<1> QED
  BY <1>1, <1>2 DEF Connector

LEMMA ReaderLinked ==
  ASSUME Linked, Read \/ ReaderEnds
  PROVE  Linked'
<1>0. TablesOK /\ SocketOK /\ WireOK /\ DaemonOK
  BY TypeParts DEF Linked
<1>1. CASE Read
  <2> DEFINE r == Head(back)
  <2>1. /\ back # <<>> /\ back' = Tail(back) /\ UNCHANGED pending
        /\ UNCHANGED <<daemonVars, link, wire, socketVars, connectorVars, call>>
        /\ IF r.id \in pending
           THEN /\ replies' = [replies EXCEPT ![r.id] = r.result]
                /\ woken' = woken \cup {r.id}
           ELSE UNCHANGED <<woken, replies>>
    BY <1>1 DEF Read, tables
  <2>2. r \in Reply /\ back' \in Seq(Reply)
    BY <1>0, <2>1 DEF WireOK
  <2>6. r.id \in Ids /\ r.result \in Results
    BY <2>2 DEF Reply
  <2> HIDE DEF r
  <2>3. TablesOK' /\ SocketOK' /\ WireOK' /\ DaemonOK'
    BY <1>0, <2>1, <2>2, <2>6
    DEF TablesOK, SocketOK, WireOK, DaemonOK, daemonVars, socketVars, connectorVars
  <2>4. Booked'
    <3>1. Numbered' /\ Held'
      BY <2>1 DEF Linked, Booked, Numbered, Held
    <3>2. \A i \in Ids :
            i \in pending' \cup woken' \/ replies'[i] # "none"
              => i \in pending \cup woken \/ replies[i] # "none"
      BY <1>0, <2>1, <2>6 DEF TablesOK
    <3> QED
      BY <2>1, <3>1, <3>2 DEF Linked, Booked, NothingKept
  <2>5. Shaken' /\ Reading' /\ Waiting'
    BY <2>1 DEF Linked, Shaken, Reading, Waiting, socketVars, connectorVars
  <2> QED
    BY <2>3, <2>4, <2>5, TypePartsNext DEF Linked
<1>2. CASE ReaderEnds
  <2>1. /\ reader = "read" /\ reader' = "close" /\ sock' = FALSE
        /\ closers' = closers \cup {"reader"}
        /\ UNCHANGED <<daemonVars, linkVars, connectorVars, call, tables>>
    BY <1>2 DEF ReaderEnds, CloseSocket
  <2>2. TablesOK' /\ SocketOK' /\ WireOK' /\ DaemonOK'
    BY <1>0, <2>1
    DEF TablesOK, SocketOK, WireOK, DaemonOK, daemonVars, linkVars, connectorVars, tables
  <2>3. Booked'
    BY <2>1, SameBooks DEF Linked
  <2>4. Shaken' /\ Reading' /\ Waiting'
    BY <2>1 DEF Linked, Shaken, Reading, Waiting, connectorVars, tables
  <2> QED
    BY <2>2, <2>3, <2>4, TypePartsNext DEF Linked
<1> QED
  BY <1>1, <1>2

LEMMA StepLinked ==
  ASSUME Linked, [RobotdNext]_robotdVars
  PROVE  Linked'
<1>1. CASE UNCHANGED robotdVars
  <2>1. /\ UNCHANGED <<call, tables>>
        /\ UNCHANGED <<daemonVars, linkVars, socketVars, connectorVars>>
    BY <1>1 DEF robotdVars
  <2>2. TablesOK' /\ SocketOK' /\ WireOK' /\ DaemonOK'
    BY <2>1, TypeParts
    DEF Linked, TablesOK, SocketOK, WireOK, DaemonOK, daemonVars, linkVars, socketVars,
        connectorVars, tables
  <2>3. Booked'
    BY <2>1, SameBooks DEF Linked
  <2>4. Shaken' /\ Reading' /\ Waiting'
    BY <2>1 DEF Linked, Shaken, Reading, Waiting, socketVars, connectorVars, tables
  <2> QED
    BY <2>2, <2>3, <2>4, TypePartsNext DEF Linked
<1> QED
  BY <1>1, DaemonLinked, RequestLinked, WriteLinked, AnswerLinked, WakeLinked,
     NotifyLinked, ConnectorLinked, ReaderLinked
  DEF RobotdNext, Thread, Reader

LEMMA InitLinked == RobotdInit => Linked
<1> SUFFICES ASSUME RobotdInit PROVE Linked
  OBVIOUS
<1>1. TablesOK
  <2>1. Idle \in CallType
    BY DEF Idle, CallType
  <2> QED
    BY <2>1 DEF RobotdInit, TablesOK
<1>2. SocketOK /\ WireOK
  BY NoLines DEF RobotdInit, SocketOK, WireOK
<1>4. DaemonOK
  <2>1. 0 \in 0..MaxFaults
    BY Names
  <2>2. served \in [Ids -> Results \cup {"none"}]
    BY DEF RobotdInit
  <2> QED
    BY <2>1, <2>2 DEF RobotdInit, DaemonOK
<1>3. Booked /\ Shaken /\ Reading /\ Waiting
  BY Names DEF RobotdInit, Idle, Booked, Numbered, Held, NothingKept, Shaken, Reading, Waiting
<1> QED
  BY <1>1, <1>2, <1>3, <1>4, TypeParts DEF Linked

-----------------------------------------------------------------------------
(* The invariant the theorems below rest on.                                  *)
THEOREM StaysLinked == RobotdSpec => []Linked
<1>1. Linked /\ [RobotdNext]_robotdVars => Linked'
  BY StepLinked
<1> QED
  BY <1>1, InitLinked, PTL DEF RobotdSpec

(* The client's tables, its threads, the socket and the daemon keep their     *)
(* ranges, whatever fails and whenever.                                       *)
THEOREM RobotdTypes == RobotdSpec => []RobotdTypeOK
<1>1. Linked => RobotdTypeOK
  BY DEF Linked
<1> QED
  BY <1>1, StaysLinked, PTL

(* _raw_request leaves neither its id nor its reply behind, however it ends.  *)
THEOREM NothingIsKept == RobotdSpec => []NothingKept
<1>1. Linked => NothingKept
  BY DEF Linked, Booked
<1> QED
  BY <1>1, StaysLinked, PTL

(* Nobody waits for a reply with no link to bring it and nobody to wake him,  *)
(* whichever threads close the socket: _close_socket and _read_loop.          *)
THEOREM NobodyIsStranded == RobotdSpec => []NobodyStranded
<1>1. Linked => NobodyStranded
  <2> SUFFICES ASSUME Linked, NEW t \in Requesters,
                      call[t].at = "wait", call[t].id \notin woken
               PROVE  call[t].id \in pending /\ (closers # {} \/ (sock /\ reader = "read"))
    BY DEF NobodyStranded
  <2> QED
    BY DEF Linked, Booked, Numbered, Held, Waiting, Reading
<1> QED
  BY <1>1, StaysLinked, PTL

-----------------------------------------------------------------------------
(* Replies.  A request is on the wire at most once and unserved as long as it *)
(* is; what comes back, and what is filed, is what was made of it.            *)
OnceOnWire ==
  /\ \A m, n \in DOMAIN wire : wire[m] = wire[n] => m = n \/ wire[m] = 0
  /\ \A m \in DOMAIN wire : wire[m] # 0 => served[wire[m]] = "none"
  /\ \A t \in Requesters : call[t].at = "write" =>
       served[call[t].id] = "none" /\ \A m \in DOMAIN wire : wire[m] # call[t].id

RepliesTrue ==
  /\ \A m \in DOMAIN back : back[m].result = served[back[m].id]
  /\ \A i \in Ids : replies[i] \in Results => replies[i] = served[i]

Truthful == OnceOnWire /\ RepliesTrue

LEMMA TailOf ==
  ASSUME NEW S, NEW s \in Seq(S), s # <<>>
  PROVE  /\ Head(s) \in S /\ 1 \in DOMAIN s /\ Head(s) = s[1]
         /\ \A m \in DOMAIN Tail(s) : m + 1 \in DOMAIN s /\ Tail(s)[m] = s[m + 1]
         /\ \A m \in DOMAIN Tail(s) : m \in Nat /\ m # 0
OBVIOUS

LEMMA AppendOf ==
  ASSUME NEW S, NEW s \in Seq(S), NEW e \in S
  PROVE  \A m \in DOMAIN Append(s, e) :
           \/ m \in DOMAIN s /\ Append(s, e)[m] = s[m]
           \/ m = Len(s) + 1 /\ Append(s, e)[m] = e
OBVIOUS

LEMMA ServeTruthful ==
  ASSUME Linked, Truthful, Serve
  PROVE  Truthful'
<1>0. TablesOK /\ WireOK /\ DaemonOK
  BY TypeParts DEF Linked
<1> DEFINE id == Head(wire)
           result == Dispatch(refuse' # refuse)
<1>1. /\ wire # <<>> /\ wire' = Tail(wire) /\ UNCHANGED <<call, replies>>
      /\ IF id = 0 THEN UNCHANGED <<served, back>>
         ELSE /\ served' = [served EXCEPT ![id] = result]
              /\ back' \in {back, Append(back, [id |-> id, result |-> result])}
      /\ result \in Results
  BY DEF Serve, tables, Dispatch, Results
<1>2. /\ id \in Ids \cup {0} /\ 1 \in DOMAIN wire /\ id = wire[1]
      /\ \A m \in DOMAIN wire' : m + 1 \in DOMAIN wire /\ wire'[m] = wire[m + 1]
      /\ \A m \in DOMAIN wire' : m \in Nat /\ m # 0
  BY <1>0, <1>1, TailOf DEF WireOK
<1> HIDE DEF id, result
<1>3. \A m \in DOMAIN wire' : wire'[m] = id => id = 0
  BY <1>2 DEF Truthful, OnceOnWire
<1>4. \A i \in Ids : i # id => served'[i] = served[i]
  BY <1>0, <1>1 DEF DaemonOK
<1>5. /\ \A m, n \in DOMAIN wire' : wire'[m] = wire'[n] => m = n \/ wire'[m] = 0
      /\ \A m \in DOMAIN wire' : wire'[m] \in Ids \cup {0}
  <2>1. \A m \in DOMAIN wire : wire[m] \in Ids \cup {0}
    BY <1>0 DEF WireOK
  <2> QED
    BY <1>2, <2>1 DEF Truthful, OnceOnWire
<1>6. \A m \in DOMAIN wire' : wire'[m] # 0 => served'[wire'[m]] = "none"
  BY <1>2, <1>3, <1>4, <1>5 DEF Truthful, OnceOnWire
<1>7. \A t \in Requesters : call[t].at = "write" =>
        served'[call[t].id] = "none" /\ \A m \in DOMAIN wire' : wire'[m] # call[t].id
  <2> SUFFICES ASSUME NEW t \in Requesters, call[t].at = "write"
               PROVE  /\ served'[call[t].id] = "none"
                      /\ \A m \in DOMAIN wire' : wire'[m] # call[t].id
    OBVIOUS
  <2>1. call[t].id \in Ids /\ call[t].id # id
    <3>1. call[t].id \in Ids
      BY <1>0 DEF TablesOK, CallType, Linked, Booked, Numbered
    <3> QED
      BY <1>2, <3>1 DEF Truthful, OnceOnWire
  <2> QED
    BY <1>2, <1>4, <2>1 DEF Truthful, OnceOnWire
<1>8. OnceOnWire'
  BY <1>1, <1>5, <1>6, <1>7 DEF OnceOnWire
<1>9. RepliesTrue'
  <2>1. CASE id = 0
    BY <1>1, <2>1 DEF Truthful, RepliesTrue
  <2>2. CASE id # 0
    <3>1. id \in Ids /\ served[id] = "none" /\ served'[id] = result
      BY <1>0, <1>1, <1>2, <2>2 DEF Truthful, OnceOnWire, DaemonOK
    <3>2. \A m \in DOMAIN back :
            back[m].id \in Ids /\ back[m].result \in Results
              /\ back[m].result = served'[back[m].id]
      <4>1. \A m \in DOMAIN back : back[m] \in Reply
        BY <1>0 DEF WireOK
      <4>2. \A m \in DOMAIN back : back[m].id \in Ids /\ back[m].result \in Results
        BY <4>1 DEF Reply
      <4> QED
        BY <1>4, <3>1, <4>2 DEF Truthful, RepliesTrue, Results
    <3> DEFINE r == [id |-> id, result |-> result]
    <3>3. r \in Reply /\ r.id = id /\ r.result = result
      BY <1>1, <3>1 DEF Reply
    <3>4. back' \in {back, Append(back, r)}
      BY <1>1, <2>2
    <3> HIDE DEF r
    <3>5. \A m \in DOMAIN back' : back'[m].result = served'[back'[m].id]
      BY <1>0, <3>1, <3>2, <3>3, <3>4, AppendOf DEF WireOK
    <3>6. \A i \in Ids : replies[i] \in Results => replies[i] = served'[i]
      BY <1>4, <3>1 DEF Truthful, RepliesTrue, Results
    <3> QED
      BY <1>1, <3>5, <3>6 DEF RepliesTrue
  <2> QED
    BY <2>1, <2>2
<1> QED
  BY <1>8, <1>9 DEF Truthful

(* A new request has an id that is nowhere.                                   *)
LEMMA RegisterTruthful ==
  ASSUME Linked, Truthful, NEW t \in Requesters, call[t].id = 0,
         NEW id \in Free, Register(t, id),
         \/ UNCHANGED <<wire, back>>
         \/ wire' = <<>> /\ back' = <<>>
  PROVE  Truthful'
<1>0. TablesOK /\ WireOK /\ DaemonOK
  BY TypeParts DEF Linked
<1>1. /\ id \in Ids /\ call'[t] = [at |-> "write", id |-> id, got |-> "none"]
      /\ \A u \in Requesters : u # t => call'[u] = call[u]
      /\ served' = [served EXCEPT ![id] = "none"] /\ replies' = replies
  BY RegisterBooks DEF Linked
<1>2. /\ \A m \in DOMAIN wire : wire[m] # id
      /\ \A m \in DOMAIN back : back[m].id # id
      /\ id \notin woken /\ id \notin pending
      /\ \A u \in Requesters : call[u].id # id
  BY DEF Free, OnWire
<1>3. replies[id] = "none"
  BY <1>1, <1>2 DEF Linked, Booked, NothingKept
<1>4. served'[id] = "none" /\ \A i \in Ids : i # id => served'[i] = served[i]
  BY <1>0, <1>1 DEF DaemonOK
<1>5. \A m \in DOMAIN wire' : m \in DOMAIN wire /\ wire'[m] = wire[m]
  OBVIOUS
<1>6. \A m \in DOMAIN back' : m \in DOMAIN back /\ back'[m] = back[m]
  OBVIOUS
<1>7. \A m \in DOMAIN wire : wire[m] \in Ids \cup {0}
  BY <1>0 DEF WireOK
<1>8. \A m \in DOMAIN back : back[m].id \in Ids
  <2>1. \A m \in DOMAIN back : back[m] \in Reply
    BY <1>0 DEF WireOK
  <2> QED
    BY <2>1 DEF Reply
<1>9. OnceOnWire'
  <2>1. \A m, n \in DOMAIN wire' : wire'[m] = wire'[n] => m = n \/ wire'[m] = 0
    BY <1>5 DEF Truthful, OnceOnWire
  <2>2. \A m \in DOMAIN wire' : wire'[m] # 0 => served'[wire'[m]] = "none"
    BY <1>4, <1>5, <1>7 DEF Truthful, OnceOnWire
  <2>3. ASSUME NEW u \in Requesters, call'[u].at = "write"
        PROVE  /\ served'[call'[u].id] = "none"
               /\ \A m \in DOMAIN wire' : wire'[m] # call'[u].id
    <3>1. CASE u = t
      BY <1>1, <1>2, <1>4, <1>5, <3>1
    <3>2. CASE u # t
      <4>1. call'[u] = call[u] /\ call[u].id \in Ids
        BY <1>0, <1>1, <2>3, <3>2 DEF TablesOK, CallType, Linked, Booked, Numbered
      <4> QED
        BY <1>2, <1>4, <1>5, <2>3, <4>1 DEF Truthful, OnceOnWire
    <3> QED
      BY <3>1, <3>2
  <2> QED
    BY <2>1, <2>2, <2>3 DEF OnceOnWire
<1>10. RepliesTrue'
  <2>1. \A m \in DOMAIN back' : back'[m].result = served'[back'[m].id]
    BY <1>2, <1>4, <1>6, <1>8 DEF Truthful, RepliesTrue
  <2>2. \A i \in Ids : replies'[i] \in Results => replies'[i] = served'[i]
    BY <1>1, <1>3, <1>4 DEF Truthful, RepliesTrue, Results
  <2> QED
    BY <2>1, <2>2 DEF RepliesTrue
<1> QED
  BY <1>9, <1>10 DEF Truthful

LEMMA WriteTruthful ==
  ASSUME Linked, Truthful, NEW t \in Requesters,
         call[t].at = "write", call' = [call EXCEPT ![t].at = "wait"],
         wire' \in {wire, Append(wire, call[t].id)},
         UNCHANGED <<served, back, replies>>
  PROVE  Truthful'
<1>0. TablesOK /\ WireOK
  BY TypeParts DEF Linked
<1> DEFINE id == call[t].id
<1>1. /\ id \in Ids /\ served[id] = "none" /\ \A m \in DOMAIN wire : wire[m] # id
      /\ \A u \in Requesters : u # t => call[u].id # id
  BY <1>0 DEF TablesOK, CallType, Linked, Booked, Numbered, Truthful, OnceOnWire
<1>2. /\ call'[t].at = "wait"
      /\ \A u \in Requesters : u # t => call'[u] = call[u]
  BY <1>0 DEF TablesOK, CallType
<1> HIDE DEF id
<1>3. wire' \in {wire, Append(wire, id)} /\ Len(wire) \in Nat
  BY <1>0 DEF id, WireOK
<1>4. \A m \in DOMAIN wire' :
        \/ m \in DOMAIN wire /\ wire'[m] = wire[m]
        \/ m = Len(wire) + 1 /\ wire'[m] = id
  BY <1>0, <1>1, <1>3, AppendOf DEF WireOK
<1>5. \A m, n \in DOMAIN wire' : wire'[m] = wire'[n] => m = n \/ wire'[m] = 0
  BY <1>1, <1>4 DEF Truthful, OnceOnWire
<1>6. \A m \in DOMAIN wire' : wire'[m] # 0 => served[wire'[m]] = "none"
  BY <1>1, <1>4 DEF Truthful, OnceOnWire
<1>7. \A u \in Requesters : call'[u].at = "write" =>
        served[call'[u].id] = "none" /\ \A m \in DOMAIN wire' : wire'[m] # call'[u].id
  BY <1>1, <1>2, <1>4 DEF Truthful, OnceOnWire
<1>8. OnceOnWire'
  BY <1>5, <1>6, <1>7 DEF OnceOnWire
<1>9. RepliesTrue'
  BY DEF Truthful, RepliesTrue
<1> QED
  BY <1>8, <1>9 DEF Truthful

LEMMA DoneTruthful ==
  ASSUME Linked, Truthful, NEW t \in Requesters, call[t].at # "idle",
         NEW got \in {"ok", "error", "disconnected", "timeout", "none"},
         Done(t, got), UNCHANGED <<served, wire, back>>
  PROVE  Truthful'
<1>1. /\ call'[t].at = "idle" /\ \A u \in Requesters : u # t => call'[u] = call[u]
  BY DoneBooks DEF Linked, Idle
<1>2. OnceOnWire'
  BY <1>1 DEF Truthful, OnceOnWire
<1>3. \A i \in Ids : replies'[i] = replies[i] \/ replies'[i] = "none"
  BY TableTypes DEF Done, Linked, TablesOK
<1>4. RepliesTrue'
  BY <1>3 DEF Truthful, RepliesTrue, Results
<1> QED
  BY <1>2, <1>4 DEF Truthful

LEMMA ReadTruthful ==
  ASSUME Linked, Truthful, Read
  PROVE  Truthful'
<1>0. TablesOK /\ WireOK
  BY TypeParts DEF Linked
<1> DEFINE r == Head(back)
<1>1. /\ back # <<>> /\ back' = Tail(back) /\ UNCHANGED <<served, wire, call>>
      /\ replies' \in {replies, [replies EXCEPT ![r.id] = r.result]}
  BY DEF Read, tables, daemonVars
<1>2. /\ r \in Reply /\ 1 \in DOMAIN back /\ r = back[1]
      /\ \A m \in DOMAIN back' : m + 1 \in DOMAIN back /\ back'[m] = back[m + 1]
  BY <1>0, <1>1, TailOf DEF WireOK
<1> HIDE DEF r
<1>3. r.id \in Ids /\ r.result = served[r.id]
  BY <1>2 DEF Reply, Truthful, RepliesTrue
<1>4. \A i \in Ids : replies'[i] = replies[i] \/ (i = r.id /\ replies'[i] = r.result)
  BY <1>0, <1>1, <1>3 DEF TablesOK
<1>5. RepliesTrue'
  BY <1>1, <1>2, <1>3, <1>4 DEF Truthful, RepliesTrue
<1>6. OnceOnWire'
  BY <1>1 DEF Truthful, OnceOnWire
<1> QED
  BY <1>5, <1>6 DEF Truthful

(* Everything else leaves the tables, or takes lines away.                    *)
LEMMA LinesLost ==
  ASSUME Truthful, UNCHANGED <<served, call, replies>>,
         wire' \in {wire, <<>>}, back' \in {back, <<>>}
  PROVE  Truthful'
<1>1. \A m \in DOMAIN wire' : m \in DOMAIN wire /\ wire'[m] = wire[m]
  OBVIOUS
<1>2. \A m \in DOMAIN back' : m \in DOMAIN back /\ back'[m] = back[m]
  OBVIOUS
<1>3. OnceOnWire'
  BY <1>1 DEF Truthful, OnceOnWire
<1>4. RepliesTrue'
  BY <1>2 DEF Truthful, RepliesTrue
<1> QED
  BY <1>3, <1>4 DEF Truthful

LEMMA NotifyTruthful ==
  ASSUME Linked, Truthful, Notify
  PROVE  Truthful'
<1>0. TablesOK /\ WireOK
  BY TypeParts DEF Linked
<1>1. UNCHANGED <<served, call, replies, back>> /\ wire' \in {wire, Append(wire, 0)}
  BY DEF Notify, daemonVars, tables
<1>2. \A m \in DOMAIN wire' :
        \/ m \in DOMAIN wire /\ wire'[m] = wire[m]
        \/ wire'[m] = 0
  BY <1>0, <1>1, AppendOf DEF WireOK
<1>3. \A t \in Requesters : call[t].at = "write" => call[t].id # 0
  BY DEF Linked, Booked, Numbered
<1>4. OnceOnWire'
  BY <1>1, <1>2, <1>3 DEF Truthful, OnceOnWire
<1>5. RepliesTrue'
  BY <1>1 DEF Truthful, RepliesTrue
<1> QED
  BY <1>4, <1>5 DEF Truthful

LEMMA StepTruthful ==
  ASSUME Linked, Truthful, [RobotdNext]_robotdVars
  PROVE  Truthful'
<1>1. CASE Serve \/ Notify \/ Read
  BY <1>1, ServeTruthful, NotifyTruthful, ReadTruthful
<1>2. CASE \/ FailNext \/ Stall \/ Resume \/ Cut \/ Start \/ Redial \/ Lost
           \/ ReaderEnds \/ UNCHANGED robotdVars
  <2>1. /\ UNCHANGED <<served, call, replies>>
        /\ wire' \in {wire, <<>>} /\ back' \in {back, <<>>}
    BY <1>2 DEF FailNext, Stall, Resume, Cut, Start, Redial, Lost, ReaderEnds,
       robotdVars, daemonVars, linkVars, tables
  <2> QED
    BY <2>1, LinesLost
<1>3. ASSUME NEW c \in Callers, Request(c) PROVE Truthful'
  <2>1. PICK id \in Free : Register(c, id)
    BY <1>3 DEF Request
  <2>2. c \in Requesters /\ call[c].id = 0 /\ UNCHANGED <<wire, back>>
    BY <1>3, Names DEF Request, linkVars, Linked, Booked, Numbered
  <2> QED
    BY <2>1, <2>2, RegisterTruthful
<1>4. CASE Dial
  <2>1. PICK id \in Free : Register("hello", id)
    BY <1>4 DEF Dial
  <2>2. call["hello"].id = 0 /\ wire' = <<>> /\ back' = <<>>
    BY <1>4 DEF Dial, Linked, Shaken
  <2> QED
    BY <2>1, <2>2, RegisterTruthful, Names
<1>5. ASSUME NEW t \in Requesters \cup {"reader", "tick"}, Wake(t) PROVE Truthful'
  <2>1. /\ UNCHANGED <<served, call, wire, back>>
        /\ \A i \in Ids : replies'[i] = replies[i] \/ replies'[i] = "disconnected"
    BY <1>5 DEF Wake, daemonVars, linkVars
  <2>2. OnceOnWire'
    BY <2>1 DEF Truthful, OnceOnWire
  <2>3. RepliesTrue'
    BY <2>1 DEF Truthful, RepliesTrue, Results
  <2> QED
    BY <2>2, <2>3 DEF Truthful
<1>6. ASSUME NEW t \in Requesters, WriteLine(t) PROVE Truthful'
  <2>1. CASE /\ wire' = IF link = "open" THEN Append(wire, call[t].id) ELSE wire
             /\ call' = [call EXCEPT ![t].at = "wait"]
             /\ UNCHANGED <<daemonVars, link, back, tables>>
    BY <1>6, <2>1, WriteTruthful DEF WriteLine, daemonVars, tables
  <2>2. CASE Done(t, "disconnected") /\ UNCHANGED <<daemonVars, linkVars>>
    BY <1>6, <2>2, DoneTruthful DEF WriteLine, daemonVars, linkVars
  <2>3. CASE /\ call' = [call EXCEPT ![t].at = "raise"]
             /\ UNCHANGED <<daemonVars, linkVars, tables>>
    <3>1. \A u \in Requesters : call'[u].at = "write" => call'[u] = call[u]
      BY <2>3, TableTypes DEF Linked, TablesOK, CallType
    <3> QED
      BY <2>3, <3>1 DEF daemonVars, linkVars, tables, Truthful, OnceOnWire, RepliesTrue
  <2> QED
    BY <1>6, <2>1, <2>2, <2>3 DEF WriteLine
<1>7. ASSUME NEW t \in Requesters, Raise(t) \/ Got(t) \/ TimedOut(t) PROVE Truthful'
  <2>1. call[t].at # "idle" /\ UNCHANGED <<served, wire, back>>
    BY <1>7 DEF Raise, Got, TimedOut, daemonVars, linkVars
  <2>2. \E got \in {"ok", "error", "disconnected", "timeout", "none"} : Done(t, got)
    <3>1. CASE Got(t)
      <4>1. call[t].id \in Ids
        BY <2>1, TableTypes DEF Linked, Booked, Numbered, TablesOK, CallType
      <4>2. replies[call[t].id] \in {"ok", "error", "disconnected", "timeout", "none"}
        BY <4>1 DEF Linked, RobotdTypeOK, Results
      <4> QED
        BY <3>1, <4>2 DEF Got
    <3> QED
      BY <1>7, <3>1 DEF Raise, TimedOut
  <2> QED
    BY <2>1, <2>2, DoneTruthful
<1> QED
  BY <1>1, <1>2, <1>3, <1>4, <1>5, <1>6, <1>7
  DEF RobotdNext, Thread, Reader, Connector

(* The life of a request: only the waiter's own reply ends its wait with a    *)
(* result.                                                                    *)
Unanswered == \A t \in Requesters : call[t].at # "idle" => call[t].got = "none"

CallSteps(t) ==
  \/ call'[t] = call[t]
  \/ call'[t].at = "write" /\ call'[t].got = "none"
  \/ call[t].at = "write" /\ call'[t].at # "idle" /\ call'[t].got = call[t].got
  \/ /\ call'[t].at = "idle"
     /\ \/ call'[t].got \in {"disconnected", "timeout"}
        \/ call'[t].got = replies[call[t].id]

LEMMA CallsStep ==
  ASSUME Linked, [RobotdNext]_robotdVars, NEW t \in Requesters
  PROVE  CallSteps(t)
<1>0. call \in [Requesters -> CallType]
  BY TableTypes DEF Linked, TablesOK
<1>1. CASE UNCHANGED call
  BY <1>1 DEF CallSteps
<1>2. ASSUME NEW u \in Requesters, NEW id, Register(u, id) PROVE CallSteps(t)
  BY <1>0, <1>2 DEF Register, CallSteps
<1>3. ASSUME NEW u \in Requesters, NEW got, Done(u, got),
             got \in {"disconnected", "timeout"} \/ got = replies[call[u].id]
      PROVE  CallSteps(t)
  <2>0. [Idle EXCEPT !.got = got] = [at |-> "idle", id |-> 0, got |-> got]
    BY DEF Idle
  <2>1. call' = [call EXCEPT ![u] = [at |-> "idle", id |-> 0, got |-> got]]
    BY <1>3, <2>0 DEF Done
  <2> QED
    BY <1>0, <1>3, <2>1 DEF CallSteps
<1>4. ASSUME NEW u \in Requesters, WriteLine(u) PROVE CallSteps(t)
  <2>1. CASE Done(u, "disconnected")
    BY <1>3, <2>1
  <2>2. CASE \/ call' = [call EXCEPT ![u].at = "wait"]
             \/ call' = [call EXCEPT ![u].at = "raise"]
    BY <1>0, <1>4, <2>2 DEF WriteLine, CallSteps, CallType
  <2> QED
    BY <1>4, <2>1, <2>2 DEF WriteLine
<1>5. ASSUME NEW u \in Requesters, Raise(u) \/ Got(u) \/ TimedOut(u) PROVE CallSteps(t)
  BY <1>3, <1>5 DEF Raise, Got, TimedOut
<1>6. CASE \/ Serve \/ FailNext \/ Stall \/ Resume \/ Cut \/ Start
           \/ Notify \/ Redial \/ Lost \/ Read \/ ReaderEnds
           \/ \E u \in Requesters \cup {"reader", "tick"} : Wake(u)
           \/ UNCHANGED robotdVars
  <2>1. UNCHANGED call
    BY <1>6 DEF Serve, FailNext, Stall, Resume, Cut, Start, Notify, Redial, Lost,
       Read, ReaderEnds, Wake, robotdVars
  <2> QED
    BY <1>1, <2>1
<1>7. CASE Dial \/ \E c \in Callers : Request(c)
  BY <1>2, <1>7, Names DEF Dial, Request
<1> QED
  BY <1>4, <1>5, <1>6, <1>7 DEF RobotdNext, Thread, Reader, Connector

THEOREM StaysTruthful == RobotdSpec => [](Truthful /\ Unanswered)
<1>1. RobotdInit => Truthful /\ Unanswered
  <2> SUFFICES ASSUME RobotdInit PROVE Truthful /\ Unanswered
    OBVIOUS
  <2>1. \A t \in Requesters : call[t].at = "idle"
    BY DEF RobotdInit, Idle
  <2>2. wire = <<>> /\ back = <<>> /\ \A i \in Ids : replies[i] = "none"
    BY DEF RobotdInit
  <2>3. (\A m \in DOMAIN wire : FALSE) /\ (\A m \in DOMAIN back : FALSE)
    BY <2>2
  <2> QED
    BY <2>1, <2>2, <2>3 DEF Truthful, OnceOnWire, RepliesTrue, Unanswered, Results
<1>2. Linked /\ Truthful /\ Unanswered /\ [RobotdNext]_robotdVars => (Truthful /\ Unanswered)'
  <2> SUFFICES ASSUME Linked, Truthful, Unanswered, [RobotdNext]_robotdVars
               PROVE  Truthful' /\ Unanswered'
    OBVIOUS
  <2>1. Unanswered'
    BY CallsStep DEF Unanswered, CallSteps
  <2> QED
    BY <2>1, StepTruthful
<1> QED
  BY <1>1, <1>2, StaysLinked, PTL DEF RobotdSpec

(* A request that reports a result reports what robotd made of that very      *)
(* request, whatever is late and however often the link falls:                *)
(* _handle_incoming files replies by id, and ids are not used twice.          *)
THEOREM RepliesAreTrue == RobotdSpec => AnswersAreTrue
<1>1. Linked /\ Truthful /\ Unanswered /\ [RobotdNext]_robotdVars =>
        [\A t \in Requesters :
           call[t].at = "wait" /\ call'[t].got \in Results
             => call'[t].got = served[call[t].id]]_robotdVars
  <2> SUFFICES ASSUME Linked, Truthful, Unanswered, RobotdNext, NEW t \in Requesters,
                      call[t].at = "wait", call'[t].got \in Results
               PROVE  call'[t].got = served[call[t].id]
    OBVIOUS
  <2>1. call[t].id \in Ids /\ call[t].got = "none"
    BY TableTypes DEF Linked, TablesOK, CallType, Booked, Numbered, Unanswered
  <2>2. call'[t].got = replies[call[t].id]
    BY <2>1, CallsStep DEF CallSteps, Results
  <2> QED
    BY <2>1, <2>2 DEF Truthful, RepliesTrue
<1> QED
  BY <1>1, StaysLinked, StaysTruthful, PTL DEF RobotdSpec, AnswersAreTrue

=============================================================================
