----------------------------- MODULE RobotdClient -----------------------------
(***************************************************************************)
(* The agent's end of the robotd socket (python/duck_agent/                *)
(* robotd_client.py): the connector thread that dials, shakes hands and    *)
(* waits for the link to fall, the reader thread of each link, callers     *)
(* that wait for their reply by id, notifications, and the closing of the  *)
(* socket, which any of them may begin.  At the other end the mock duck    *)
(* (python/mock_duck/server.py), which serves a link line by line, stops   *)
(* reading, drops a link, dies and comes back.                             *)
(*                                                                         *)
(* Ids are never used twice by the client; here one that is nowhere any    *)
(* more is taken again, which nobody can tell from a new one.              *)
(***************************************************************************)
EXTENDS Naturals, Sequences, FiniteSets

CONSTANTS
  Callers,     (* threads that call request                                  *)
  Ids,         (* bound: request ids in use at a time                        *)
  Buffer,      (* lines the socket takes while robotd does not read          *)
  MaxFaults    (* bound: times the daemon stalls, dies or drops a link       *)

ASSUME RobotdClientAssumption ==
  /\ Buffer \in Nat \ {0} /\ MaxFaults \in Nat
  /\ IsFiniteSet(Ids) /\ Ids \cap {0} = {}
  /\ Callers \cap {"hello", "reader", "tick"} = {}

VARIABLES
  daemon,      (* robotd: "up", "stalled" (it does not read) or "down"       *)
  link,        (* the latest connection: "none", "open", "cut" by the daemon *)
  wire, back,  (* lines on it to the daemon, and replies from it             *)
  sock,        (* RobotdClient._sock is that connection's                    *)
  connector,   (* connector thread: "dial", "hello", "failed", "up"          *)
  connected,   (* RobotdClient._connected                                    *)
  reader,      (* reader thread: "off", "read", "close"                      *)
  closers,     (* threads in _close_socket that have taken the socket and    *)
               (* have not yet woken the waiters                             *)
  call,        (* the callers and the handshake: where they are, their id    *)
  pending,     (* RobotdClient._pending: ids                                 *)
  woken,       (* ids whose event is set                                     *)
  replies,     (* RobotdClient._replies                                      *)
  served,      (* history: what the daemon made of a request                 *)
  refuse,      (* ServerContext.pending_errors: the next call of some method *)
               (* is to be refused                                           *)
  faults

daemonVars == <<daemon, served, refuse, faults>>
linkVars == <<link, wire, back>>
socketVars == <<sock, reader, closers>>
connectorVars == <<connector, connected>>
tables == <<pending, woken, replies>>
robotdVars == <<daemonVars, linkVars, socketVars, connectorVars, call, tables>>

Requesters == Callers \cup {"hello"}
Results == {"ok", "error"}
Idle == [at |-> "idle", id |-> 0, got |-> "none"]

(* `got` is what the last request of a thread came to.                        *)
RobotdTypeOK ==
  /\ daemon \in {"up", "stalled", "down"} /\ link \in {"none", "open", "cut"}
  /\ wire \in Seq(Ids \cup {0}) /\ Len(wire) <= Buffer
  /\ back \in Seq([id : Ids, result : Results])
  /\ sock \in BOOLEAN /\ connected \in BOOLEAN
  /\ connector \in {"dial", "hello", "failed", "up"}
  /\ reader \in {"off", "read", "close"}
  /\ closers \subseteq Requesters \cup {"reader", "tick"}
  /\ call \in [Requesters -> [at : {"idle", "write", "wait", "raise"},
       id : Ids \cup {0},
       got : {"none", "ok", "error", "disconnected", "timeout"}]]
  /\ pending \subseteq Ids /\ woken \subseteq Ids
  /\ replies \in [Ids -> Results \cup {"none", "disconnected"}]
  /\ served \in [Ids -> Results \cup {"none"}]
  /\ refuse \in BOOLEAN /\ faults \in 0..MaxFaults

RobotdInit ==
  /\ daemon = "up" /\ link = "none" /\ wire = <<>> /\ back = <<>>
  /\ sock = FALSE /\ connector = "dial" /\ connected = FALSE
  /\ reader = "off" /\ closers = {}
  /\ call = [t \in Requesters |-> Idle]
  /\ pending = {} /\ woken = {}
  /\ replies = [i \in Ids |-> "none"] /\ served = [i \in Ids |-> "none"]
  /\ refuse = FALSE /\ faults = 0

OnWire(s) == {s[i] : i \in DOMAIN s}

Free ==
  Ids \ (pending \cup woken \cup {call[t].id : t \in Requesters}
    \cup OnWire(wire) \cup {r.id : r \in OnWire(back)})

-----------------------------------------------------------------------------
(* The daemon.                                                                *)

(* A refusal that was asked for is spent on the first call of its method; all *)
(* else that the client asks is known and done.                               *)
Dispatch(spent) == IF spent THEN "error" ELSE "ok"

(* One line of a connection; a notification has no reply.  The variant        *)
(* answers it as well.                                                        *)
ServeMutant ==
  /\ daemon = "up" /\ wire # <<>> /\ wire' = Tail(wire)
  /\ refuse' \in {refuse, FALSE}
  /\ LET id == Head(wire)
         result == Dispatch(refuse' # refuse)
     IN  /\ served' = IF id = 0 THEN served ELSE [served EXCEPT ![id] = result]
         /\ back' = IF link = "open"
                    THEN Append(back, [id |-> id, result |-> result])
                    ELSE back
  /\ UNCHANGED <<daemon, faults, link, socketVars, connectorVars, call, tables>>

Serve ==
  /\ daemon = "up" /\ wire # <<>> /\ wire' = Tail(wire)
  /\ refuse' \in {refuse, FALSE}
  /\ LET id == Head(wire)
         result == Dispatch(refuse' # refuse)
     IN  IF id = 0 THEN UNCHANGED <<served, back>>
         ELSE /\ served' = [served EXCEPT ![id] = result]
              /\ back' = IF link = "open"
                         THEN Append(back, [id |-> id, result |-> result])
                         ELSE back
  /\ UNCHANGED <<daemon, faults, link, socketVars, connectorVars, call, tables>>

(* mock.fail_next, of some other client of the daemon.                        *)
FailNext ==
  /\ daemon = "up" /\ ~refuse /\ faults < MaxFaults
  /\ refuse' = TRUE /\ faults' = faults + 1
  /\ UNCHANGED <<daemon, served, linkVars, socketVars, connectorVars, call, tables>>

(* The daemon answers a line before it reads the next: while a reply is held  *)
(* back, or is not drained, it reads nothing.                                 *)
Stall ==
  /\ daemon = "up" /\ faults < MaxFaults
  /\ daemon' = "stalled" /\ faults' = faults + 1
  /\ UNCHANGED <<served, refuse, linkVars, socketVars, connectorVars, call, tables>>

Resume ==
  /\ daemon = "stalled" /\ daemon' = "up"
  /\ UNCHANGED <<served, refuse, faults, linkVars, socketVars, connectorVars, call, tables>>

(* The daemon dies, or only the task of this connection: what it has not read *)
(* is lost, and of what it has sent a part may be.                            *)
Cut ==
  /\ faults < MaxFaults /\ faults' = faults + 1
  /\ daemon' \in {daemon, "down"} /\ refuse' = (refuse /\ daemon' # "down")
  /\ link' = IF link = "open" THEN "cut" ELSE link
  /\ wire' = <<>> /\ back' \in {back, <<>>}
  /\ UNCHANGED <<served, socketVars, connectorVars, call, tables>>

Start ==
  /\ daemon = "down" /\ daemon' = "up"
  /\ UNCHANGED <<served, refuse, faults, linkVars, socketVars, connectorVars, call, tables>>

-----------------------------------------------------------------------------
(* Requests: _raw_request, by a caller or by the handshake.                   *)

Register(t, id) ==
  /\ pending' = pending \cup {id}
  /\ served' = [served EXCEPT ![id] = "none"]
  /\ call' = [call EXCEPT ![t] = [at |-> "write", id |-> id, got |-> "none"]]
  /\ UNCHANGED <<woken, replies>>

(* request refuses while not connected.                                       *)
Request(c) ==
  /\ call[c].at = "idle" /\ connected
  /\ Free # {} /\ Register(c, CHOOSE id \in Free : TRUE)
  /\ UNCHANGED <<daemon, refuse, faults, linkVars, socketVars, connectorVars>>

(* The finally of _raw_request.                                               *)
Done(t, got) ==
  LET id == call[t].id
  IN  /\ call' = [call EXCEPT ![t] = [Idle EXCEPT !.got = got]]
      /\ pending' = pending \ {id} /\ woken' = woken \ {id}
      /\ replies' = [replies EXCEPT ![id] = "none"]

(* What a failed handshake does; a caller's failure is its own affair.        *)
After(t, got) ==
  IF t # "hello" THEN UNCHANGED <<connectorVars, sock, closers>>
  ELSE IF got = "ok"
  THEN /\ connector' = "up" /\ connected' = TRUE
       /\ UNCHANGED <<sock, closers>>
  ELSE /\ connector' = "failed" /\ sock' = FALSE
       /\ closers' = closers \cup {"hello"} /\ UNCHANGED connected

(* _close_socket, first half: the socket is taken from the client.  Its other *)
(* half, once the socket is shut: all who wait are told so.                   *)
CloseSocket(t) == sock' = FALSE /\ closers' = closers \cup {t}

Wake(t) ==
  /\ t \in closers /\ closers' = closers \ {t}
  /\ woken' = woken \cup pending
  /\ replies' = [i \in Ids |-> IF i \in pending THEN "disconnected" ELSE replies[i]]
  /\ pending' = {}
  /\ reader' = IF t = "reader" THEN "off" ELSE reader
  /\ UNCHANGED <<daemonVars, linkVars, sock, connectorVars, call>>

(* _write_line: a socket that stays full is given up, a closed one raises.  A *)
(* line for a link that is cut is lost, or raises.                            *)
Full == daemon # "up" /\ Len(wire) = Buffer

WriteLine(t) ==
  /\ call[t].at = "write"
  /\ \/ /\ sock /\ (link = "open" => Len(wire) < Buffer)
        /\ wire' = IF link = "open" THEN Append(wire, call[t].id) ELSE wire
        /\ call' = [call EXCEPT ![t].at = "wait"]
        /\ UNCHANGED <<daemonVars, link, back, socketVars, connectorVars, tables>>
     \/ /\ ~sock \/ link = "cut"
        /\ Done(t, "disconnected") /\ After(t, "disconnected")
        /\ UNCHANGED <<daemonVars, linkVars, reader>>
     \/ /\ sock /\ link = "open" /\ Full
        /\ CloseSocket(t)
        /\ call' = [call EXCEPT ![t].at = "raise"]
        /\ UNCHANGED <<daemonVars, linkVars, reader, connectorVars, tables>>

Raise(t) ==
  /\ call[t].at = "raise" /\ t \notin closers
  /\ Done(t, "disconnected") /\ After(t, "disconnected")
  /\ UNCHANGED <<daemonVars, linkVars, reader>>

Got(t) ==
  LET id == call[t].id
      got == replies[id]
  IN  /\ call[t].at = "wait" /\ id \in woken
      /\ Done(t, got) /\ After(t, got)
      /\ UNCHANGED <<daemonVars, linkVars, reader>>

(* A daemon that is up answers in time.  The variant waits as long as there   *)
(* is a link.                                                                 *)
TimedOutMutant(t) ==
  /\ call[t].at = "wait" /\ call[t].id \notin woken /\ link # "open"
  /\ Done(t, "timeout") /\ After(t, "timeout")
  /\ UNCHANGED <<daemonVars, linkVars, reader>>

TimedOut(t) ==
  /\ call[t].at = "wait" /\ call[t].id \notin woken
  /\ daemon # "up" \/ link # "open"
  /\ Done(t, "timeout") /\ After(t, "timeout")
  /\ UNCHANGED <<daemonVars, linkVars, reader>>

(* notify, of the tick thread: a line that nobody answers.  It asks for no    *)
(* handshake.                                                                 *)
Notify ==
  /\ sock /\ link = "open" /\ "tick" \notin closers
  /\ \/ /\ Len(wire) < Buffer /\ wire' = Append(wire, 0)
        /\ UNCHANGED <<sock, closers>>
     \/ /\ Full /\ CloseSocket("tick") /\ UNCHANGED wire
  /\ UNCHANGED <<daemonVars, link, back, reader, connectorVars, call, tables>>

-----------------------------------------------------------------------------
(* The connector thread.                                                      *)

(* _connect_once as far as the handshake; while the daemon is down it fails.  *)
Dial ==
  /\ connector = "dial" /\ daemon # "down"
  /\ link' = "open" /\ wire' = <<>> /\ back' = <<>>
  /\ sock' = TRUE /\ reader' = "read" /\ connector' = "hello"
  /\ Free # {} /\ Register("hello", CHOOSE id \in Free : TRUE)
  /\ UNCHANGED <<daemon, refuse, faults, closers, connected>>

(* The handshake failed: once the socket is closed and the reader is gone,    *)
(* dial again.                                                                *)
Redial ==
  /\ connector = "failed" /\ "hello" \notin closers /\ reader = "off"
  /\ connector' = "dial" /\ link' = "none" /\ wire' = <<>> /\ back' = <<>>
  /\ UNCHANGED <<daemonVars, socketVars, connected, call, tables>>

(* reader_thread.join has returned: the link is down, and the agent is told.  *)
(* The variant tells nobody.                                                  *)
LostMutant ==
  /\ connector = "up" /\ reader = "off"
  /\ connector' = "dial" /\ UNCHANGED connected
  /\ link' = "none" /\ wire' = <<>> /\ back' = <<>>
  /\ UNCHANGED <<daemonVars, socketVars, call, tables>>

Lost ==
  /\ connector = "up" /\ reader = "off"
  /\ connector' = "dial" /\ connected' = FALSE
  /\ link' = "none" /\ wire' = <<>> /\ back' = <<>>
  /\ UNCHANGED <<daemonVars, socketVars, call, tables>>

-----------------------------------------------------------------------------
(* The reader thread.                                                         *)

(* _handle_incoming: a reply that nobody waits for is dropped.  One variant   *)
(* files it all the same, another gives it to whoever waits.                  *)
ReadMutant ==
  /\ reader = "read" /\ back # <<>> /\ back' = Tail(back)
  /\ replies' = [replies EXCEPT ![Head(back).id] = Head(back).result]
  /\ woken' = woken \cup {Head(back).id} /\ UNCHANGED pending
  /\ UNCHANGED <<daemonVars, link, wire, socketVars, connectorVars, call>>

ReadAnyMutant ==
  /\ reader = "read" /\ back # <<>> /\ back' = Tail(back)
  /\ \E id \in pending :
       /\ replies' = [replies EXCEPT ![id] = Head(back).result]
       /\ woken' = woken \cup {id} /\ UNCHANGED pending
  /\ UNCHANGED <<daemonVars, link, wire, socketVars, connectorVars, call>>

Read ==
  /\ reader = "read" /\ back # <<>> /\ back' = Tail(back)
  /\ LET r == Head(back)
     IN  IF r.id \in pending
         THEN /\ replies' = [replies EXCEPT ![r.id] = r.result]
              /\ woken' = woken \cup {r.id} /\ UNCHANGED pending
         ELSE UNCHANGED tables
  /\ UNCHANGED <<daemonVars, link, wire, socketVars, connectorVars, call>>

(* EOF, or the socket is closed under it; the variant just ends.              *)
ReaderEndsMutant ==
  /\ reader = "read" /\ (~sock \/ (link = "cut" /\ back = <<>>))
  /\ reader' = "off" /\ sock' = FALSE /\ UNCHANGED closers
  /\ UNCHANGED <<daemonVars, linkVars, connectorVars, call, tables>>

ReaderEnds ==
  /\ reader = "read" /\ (~sock \/ (link = "cut" /\ back = <<>>))
  /\ reader' = "close" /\ CloseSocket("reader")
  /\ UNCHANGED <<daemonVars, linkVars, connectorVars, call, tables>>

-----------------------------------------------------------------------------
Thread(t) == WriteLine(t) \/ Raise(t) \/ Got(t) \/ TimedOut(t) \/ Wake(t)
Reader == Read \/ ReaderEnds \/ Wake("reader")
Connector == Dial \/ Redial \/ Lost

RobotdNext ==
  \/ Serve \/ FailNext \/ Stall \/ Resume \/ Cut \/ Start
  \/ \E c \in Callers : Request(c)
  \/ \E t \in Requesters : Thread(t)
  \/ Notify \/ Wake("tick")
  \/ Reader \/ Connector

(* The client's threads run, a daemon that is up reads, and a socket that has *)
(* room again and again is found writable: the writers queue for a lock.      *)
RobotdFairness ==
  /\ \A t \in Requesters : WF_robotdVars(Thread(t)) /\ SF_robotdVars(WriteLine(t))
  /\ WF_robotdVars(Reader) /\ WF_robotdVars(Connector)
  /\ WF_robotdVars(Wake("tick")) /\ WF_robotdVars(Serve)

RobotdSpec == RobotdInit /\ [][RobotdNext]_robotdVars /\ RobotdFairness

-----------------------------------------------------------------------------
(* A request that reports success or a refusal reports what the daemon made   *)
(* of that very request: a late reply, or one of an earlier link, never       *)
(* passes for its own.                                                        *)
AnswersAreTrue ==
  [][\A t \in Requesters :
       call[t].at = "wait" /\ call'[t].got \in Results
         => call'[t].got = served[call[t].id]]_robotdVars

(* Who waits for a reply waits for a link that is being read, or somebody is  *)
(* about to wake it: "Wake up anyone blocked in request() with a disconnect". *)
NobodyStranded ==
  \A t \in Requesters :
    call[t].at = "wait" /\ call[t].id \notin woken
      => /\ call[t].id \in pending
         /\ closers # {} \/ (sock /\ reader = "read")

(* What no request waits for is not kept: not its id, nor its reply.          *)
NothingKept ==
  \A i \in Ids :
    i \in pending \cup woken \/ replies[i] # "none"
      => \E t \in Requesters : call[t].id = i

(* Every request returns, whatever becomes of robotd.                         *)
RequestsReturn ==
  \A c \in Callers : (call[c].at # "idle") ~> (call[c].at = "idle")

(* "A background thread reconnects": a robotd that comes back and stays is    *)
(* connected in the end, and one that is gone is not for ever taken for       *)
(* connected.                                                                 *)
Reconnects ==
  /\ <>[](daemon = "up") => <>[](connected /\ sock)
  /\ <>[](daemon = "down") => <>[]~connected

=============================================================================
