# MicroDuckSwarm in TLA+

Models, model checks and proofs of the program that puts a cast of small robots
("ducks") on stage: the agent on each duck, the master that schedules a show,
and what lies between them. Every definition is translated from the code; the
table `map` of `PROJECT.json` gives the lines each one stands for.

## 1. The system

| part | state it keeps | operations | what makes it correct |
|---|---|---|---|
| duck-agent (`python/duck_agent/agent.py`) | FSM `idle loaded armed playing paused fault`, the loaded show, parked instants, the show clock, `relaxed`, `_stop_owed`, `_puppet_move_applied`, held sounds | the commands load, play, seek, pause, resume, stop, relax, panic; the 50 Hz tick; discrete events; end of show; robotd's callbacks | every way out of a performance stops the robot; nothing of one performance leaks into the next; a duck never improvises |
| puppet channel (`puppet.py`) | last values with arrival times, last sequence number, queued actions, mute latch | offer, mute, values, take_actions | panic and stop win over a live stream; actions fire once |
| robotd client (`robotd_client.py`) | socket, `_connected`, pending requests | connect loop, reader, notify, request | a waiter is released once; callbacks alternate |
| duck clock (`clock.py`) | sample window, applied offset | record_exchange, update_applied_offset | minimum round trip; never steps while playing |
| Python master (`python/tools/showmaster.py`) | transport, play epoch, paused show time, pending ACKs, last telemetry | load, play, seek, pause, resume, stop, relax, panic; 5 Hz state loop | its show time is the cast's |
| Swift master (`SwarmMaster.swift`, `MasterClock.swift`, `Roster.swift`) | the same, plus connections, command tickets, supersession and state-loop generations | the same, each with awaits inside a reentrant actor | what is decided before an await still holds after it |
| OSC facade (`OSCFacade.swift`, `OSC.swift`, `PortProbe.swift`) | listener, flows, subscriber leases | start, stop, quiesce, one command per message | start is decided once; leases and flows bounded |
| recorder (`Recorder.swift`) | take, captured tracks, temporary show | run, cancel, ingest, merge | an abandoned take leaves nothing behind |
| show format (`python/duckshow`, `DuckShow.swift`, `editor/duckshow-core.js`) | none | load, validate, sample, events_between | interpolation between keyframes; open-left event windows |
| editor server (`scripts/editor_server.py`) | the files it saves, the bake jobs | save, bake, poll, each request on its own thread | a save cannot truncate a show; a job ends once, with what it baked |
| mock duck (`python/mock_duck`) | last-value robot state | robotd's methods | a test double of robotd |
| editor, viewer, bake, setlists, deployment and end-to-end scripts, command line tools | user interface, rendering, simulation, files | | not about state that several actors share |

How they meet. The master sends commands as UDP datagrams, retries them until
each duck acknowledges, and broadcasts its transport at 5 Hz. The agent's
receive thread carries a command out; play, seek, pause and resume carry an
instant of the master's clock, which the tick thread compares with its own
clock 50 times a second. The tick thread writes motion to robotd as
notifications and does discrete events as requests, outside the lock. The
connector thread of the robotd client calls the agent back when the link comes
or goes, on its own thread. Panic starts a thread of its own. A puppet sender
(editor, gamepad, recorder) streams to one duck over the same socket.

What is hard: five kinds of threads around one reentrant lock, with robotd
round trips inside and outside it; a robot that keeps the last velocity it was
told; a link that can be dead before the agent knows; ticks that come late;
commands whose instants overlap; masters that await acknowledgements while
other commands run. `PROJECT.json` lists each hazard at its line.

## 2. Modules

| module | what it is |
|---|---|
| `DuckAgent` | one agent and the robotd it drives, as far as motion and torque go |
| `AgentProtocol` | what a master may rely on about one duck: the state diagram |
| `ShowClock` | one Python master and a cast: show time through play, seek, pause, resume, stop |
| `PuppetChannel` | the receive side of the puppet stream: the methods of `puppet.py`, as operators |
| `PuppetActions` | that channel between its sender, the network, the agent's threads and `AgentProtocol` |
| `CommandChannel` | the Python master's calls and the agents' answers over a bad network |
| `CommandPromise` | what that path promises a caller |
| `RobotdClient` | the agent's client of robotd and the mock duck's server |
| `EditorServer` | saves and bakes of the editor's server |
| `MCDuckAgent`, `MCShowClock`, `MCPuppetActions`, `MCCommandChannel`, `MCRobotdClient`, `MCEditorServer` | the instances TLC checks |
| `DuckAgentProofs`, `DuckAgentSafety`, `ShowClockProofs`, `ShowCastProofs`, `CommandChannelProofs`, `PuppetProofs`, `RobotdProofs`, `EditorProofs` | the theorems |

How they fit together. `DuckAgent` implements `AgentProtocol` (a checked and a
proved refinement), and `PuppetActions` uses `AgentProtocol` for the duck, so
that what it shows rests on the state diagram and not on how the agent keeps to
it. `DuckAgent` sees the robotd link as a socket that is up, dead or closed;
`RobotdClient` has the inside of that link. `CommandChannel` implements
`CommandPromise`; `ShowClock` and `DuckAgent` take commands that arrive once.

Operators whose names end in `Mutant` are bugs the code could have had, kept
next to what they would replace; `PROJECT.json` (`mutants`) says which property
each one breaks. Nothing uses them otherwise.

### DuckAgent

One action is one hold of `_playback_lock`, or one robotd write made outside
it; `pc` says where each thread is in between.

| actions | code |
|---|---|
| `Load`, `Seek`, `Pause`, `Resume`, `Stop`, `Panic` | the `_handle_*` of that name, whole |
| `Play`, `PlayEnable`, `PlayArm` | `_handle_play`: entry, `_reenable_if_relaxed`, the rest under the lock |
| `Relax`, `RelaxRequest`, `RelaxFlag`, `Unrelax` | `_handle_relax`: check, round trip, flag |
| `Tick` | one hold of the lock in `_tick_loop`: `_maybe_start_from_armed`, then `_play_tick` (pause, resume, seek, intents) or `_puppet_tick` |
| `FireEvent`, `EventAnswered`, `EndOfShow` | `_fire_event` before and after its request, `_end_of_show` |
| `StopBegin`, `StopRequest`, `StopSettled`, `StopOwed`, `FaultStop`, `FaultOwe` | `_send_stop_sequence` and `_enter_fault` when no lock is held, on any thread |
| `LinkBreaks` ... `LinkUpClear` | the socket, `_connected`, and `_on_robotd_state_change` |
| `PuppetPacket`, `PuppetStale` | the move channel: a packet accepted, the 250 ms deadman |

`duck` gathers what the lock protects with what robotd holds for the duck
(`moving`, `torque`); `landed` and `gap` are history. `sock` is the connection
as robotd sees it: `dead` is the time between its loss and the agent's notice,
when writes succeed and vanish. A request succeeds only over a live link to
which the agent believes itself connected; it may fail even then, and robotd
may have carried it out. A request that robotd does carry out, it carries out
while its caller waits: robotd acting on a request its caller has given up is
not in the model. A reconnection finds the same daemon or a fresh one.

Abstracted: instants (any parked instant may be due at any tick), head, pose and
mouth, held sounds, which discrete call an event makes, the puppet's do and
sound actions, the shutdown of the agent. robotd's 500 ms deadman is left out on
purpose: `docs/swarmlink-protocol.md` calls it a safety net for a lost link, and
the agent is to be right without it.

### ShowClock

Times are whole units, longer than a tick and no longer than a command call;
clocks are in sync. A tick may come any number of units late, as it does when
the tick thread waits for robotd. `Deliver` is the retried datagram that gets
through and its ACK, `Return` the end of the master's method, `Fire` what the
tick thread does after the lock: events, then the end of the show.
`StateLoopLooks` and `StateLoop` are the check and the write of
`_maybe_advance_armed_to_playing`, which has no lock: a call may return in
between, and its transport is overwritten. (The check itself is one step; it
reads `transport` once and `play_epoch_ns` twice.) `whole`
records that every duck accepted every command. `start`, `fired`, `held` and
`wish` are history of the current pass of the show.

Abstracted: the 5 ms/s slew towards the master, clock offsets, commands nobody
answers, robotd failures, load, relax and panic.

### PuppetChannel, PuppetActions

Instants are ages, counted as far as the code tells them apart: a packet is
fresh or not, a silence is a deadman long, or long enough to forget the sequence
number, or neither. `Heard`, `Accepts`, `Offer`, `Mute`, `Taken` and `Asserted`
are the methods of `PuppetChannel`, each one hold of its lock.

| actions | code |
|---|---|
| `SendPacket`, `RestartSender`, `Arrive` | `tools/puppet.py` and the network: packets are lost, doubled and overtaken, a sender comes back with lower numbers |
| `OnPuppetMsg` | `_on_puppet_msg`; a relaxed duck drops the packet first |
| `TakeUp`, `Refuse` | `_recv_loop` reads a command, which then waits for the lock; its handler's early returns |
| `Stop`, `Panic` | `_handle_stop`, `_handle_panic` |
| `LoadOrPlay`, `StopAnswered` | `_handle_load` and `_handle_play` once they have the lock; the `robot.stop` that these and a stop wait for with the lock held, answered or failed |
| `AskTorque`, `TorqueAnswered` | `_handle_relax`, and `_reenable_if_relaxed` before a play |
| `SoundsReleased` | `_release_held_sounds` at the end of a handler, of any length |
| `Tick`, `ModeAnswered` | one hold of the lock in `_tick_loop`: start, missed start, pause, resume, forward what is fresh, stamp what is queued; with `robot.setMode` asked for in between, under the lock |
| `Enqueue`, `EventFails` | the tick thread after the lock: `put_nowait`, `_fire_event` |
| `EndOfShow`, `EndAnswered` | `_end_of_show`, before and after its `robot.stop` under the lock |
| `GetAction`, `CheckAction`, `ActionAnswered` | `_puppet_action_loop` and `_fire_puppet_action` |
| `Advance` | time |

Two things keep the receive thread from the socket: its own handler (`Kept`: a
show to hash, parse and validate, robotd to answer) and the playback lock, which
a stop, a load, a play, the end of a show and a change of mode hold for a whole
round trip (`LockFree`). Neither has a limit: `Advance` may pass any number of
times meanwhile, and what has come waits in the socket and grows old there.
`robot.setMode` is asked whenever a tick performs, which is more often than in
the code. `_send_stop_sequence` clears `driven` at once.

`seen` is history. `gap` measures the silence at the socket, where the channel
measures it where packets are offered; `away` says that the two may differ,
because a packet has waited or was dropped by a relaxed duck; `stays` that a
mute has neither met a deadman of silence at the socket nor ended while `away`
(`hush`: such a silence before the mute took effect). `strayed` and `stale` are
of packets read very late: a *straggler* is read later after it was sent than a
restart of the sender leaves for that, a *stale* one is accepted `SEQ_RESET` or
more after it was sent.

Abstracted: what a channel's value is (only the age of its packet matters), what
a do or a sound is, parsing. The link to robotd stays up here.

### CommandChannel, CommandPromise

A call is its number, which is its `cmd_id`; `tries` and `answer` are its worker
threads. `acks` is a network that keeps every answer for ever, and the datagrams
of a call are taken at any later time: that is loss, delay, duplication and
reordering without a queue. `Handle` and `Repeat` are `_handle_cmd_message`, with
the cache of answers; agents and the master may be started again.
`StartTimeComes` and `StateAdvances` are the check and the write of the master's
state thread, as in `ShowClock`. What a command does to a duck is left to
`DuckAgent`; here it accepts or refuses.

`CommandPromise` has no retries, no answers and no network: a duck carries out
what it does not remember, a call reports only what was accepted. The
refinement maps `recent`, the commands a duck carried out lately, to what it
remembers: that the code's cache of answers is that list is what makes "re-ACK,
do not re-execute" true.

### RobotdClient

| actions | code |
|---|---|
| `Dial`, `Redial`, `Lost` | the connector thread: `_connect_once`, `_connector_loop` |
| `Request`, `WriteLine`, `Raise`, `Got`, `TimedOut` | `request`, `_raw_request`, `_write_line`, by any caller and by the handshake |
| `Notify` | `notify`, which asks for no handshake |
| `Read`, `ReaderEnds` | the reader thread |
| `Wake` | the second half of `_close_socket`: whoever took the socket wakes the waiters |
| `Serve`, `FailNext`, `Stall`, `Resume`, `Cut`, `Start` | the mock duck: it serves a line at a time, refuses on demand, stops reading, drops a link, dies and comes back |

Abstracted: bytes (a line is an id), the length of the backoff, the two seconds
`Lost` would wait for a reader that does not end, the client's own `stop`, the
robot.state stream. Ids are reused once nothing knows them any more, which
nobody can tell from new ones.

### EditorServer

Files are names for inodes and an inode has two chunks, so that half a file can
be seen. A save is what `_handle_post_save` does call by call: `OpenTmp`, two
`Write`s, `Replace`, or an `OSError` of any of these and `Unlink`; `EncodeFails`
is a text that UTF-8 cannot encode, which raises something else, so that no one
is answered and an empty `<name>.tmp` stays; `ServerDies` comes between any two.
A bake is `PostBake`, `Spawn`, `BakerReads`, `BakerExits` and `FinishDone` or
`FinishError`. `expected` is history: what a
document may hold, as far as its savers have been told.

Abstracted: parsing and validation of requests (those refused change nothing),
the log and progress of a job, capabilities. No power failure: what was written
stays written. A baker whose output cannot be decoded would end the thread of
its job without ending the job; the model has no such output.

## 3. Runs

All bounds are constants of the .cfg files.

| run | question | bounds |
|---|---|---|
| `agent` | `TypeOK`, `StopCovered`, `NotArmedWithoutRobotd`, `PerformanceClean`, `MutedSilent`, and that `DuckAgent` implements `AgentProtocol` | load, play, pause, resume, stop, panic; a puppet; one panic thread at a time |
| `relax` | `TorqueKept` | every command but panic, no puppet |
| `limp` (violated) | `NeverPerformsLimp` | load, play, pause, relax |
| `loss` (violated) | `LossFaults` | the same |
| `clock` | `TypeOK`, `CastTogether`, `PauseHolds`, `EventsOnceUnpaused`, `MasterInStepUnpaused` | 2 ducks, 5 scripts of 3 or 4 operations, lead 2, late joins up to 3, show of 4 with events at 1 and 3, 7 units |
| `clock_pause`, `clock_events`, `clock_master` (violated) | `PauseHolds`, `EventsOnce`, `MasterInStep` | one script each |
| `puppet` | `PuppetTypeOK`, `MuteHolds`, `ActionsOnce`, `NoActionAcrossMute`, `RestartHeard` | one channel, a button with every packet, 2 runs of 2 packets, 1 mute, 3 commands, 2 datagrams on their way (for less than a unit) and one in the socket (for ever), deadman 2, forgetting after 3, a sender away for 4 |
| `commands` | `CommandTypeOK`, `ShowIsOn`, `InOrder`, `EveryCallReturns`, and that `CommandChannel` implements `CommandPromise` | 2 ducks, 2 calls of play, pause and panic, 2 tries, a cache of 1, 1 restart |
| `robotd` | `RobotdTypeOK`, `NobodyStranded`, `NothingKept`, `AnswersAreTrue`, `RequestsReturn`, `Reconnects` | a caller, the handshake and the tick thread; 3 ids, a socket of 2 lines, 2 faults |
| `editor` | `EditorTypeOK`, `SavesHold`, `DoneIsBaked`, `JobEndsOnce`, `EveryJobEnds` | 2 threads, a show and a setlist, 2 texts, 2 jobs, 1 fault |

Why they are enough. `DuckAgent` has no counter: its state space is finite for
given commands and threads, and the runs search all of it. Two runs split the
commands because relax and panic meet only through the state, which each run
has; the proofs cover all commands and any number of panic threads. In
`ShowClock` two ducks suffice because ducks share nothing but the command and
`CastTogether` compares two; the lead, the lateness limits and the call time are
in the order of the code's 1.5 s, 0.25 s, 2 s and 0.5 s, so that every window
(on time, late join, sat out, parked) is entered, and 7 units let each script
finish. The `clock` configurations turn deadlock checking off because the
script ends and the clock stops; `DuckAgent` is checked for deadlock. Ducks are
interchangeable, hence the symmetry.

In `puppet` the three times are the least that keep the code's order (deadman
below forgetting, a sender away for longer than forgetting), two runs of the
sender are what a restart needs, two packets are an original and what overtakes
it, one mute separates before from after, and three commands are that mute, one
before it and one after; round trips have no bound. The theorems have none at
all. In
`commands` a cache of one makes the second call evict the first, so that a late
copy of the first is carried out again. In `robotd` three ids let a late reply
meet a later request while the handshake has one of its own, and two faults are
a stall and a cut, or a cut of a link and of its successor. In `editor` two
threads on one document overlap, on two they do not, and one fault kills the
server or fails a call. These four come to an end when their bounds are spent
(calls, faults, texts), hence no deadlock checking for the last three; `puppet`
keeps ticking and is checked.

Fairness. `EveryCallReturns`: the threads of the master run, and a worker's tries
are spent one by one (`WF` of each worker and of the return). `RequestsReturn`
and `Reconnects`: the client's threads run, a daemon that is up reads (`Serve`),
and a writer is not kept off the write lock for ever (`SF` of `WriteLine`);
whether robotd comes back is nobody's duty, so `Reconnects` supposes it.
`EveryJobEnds`: the threads run and a baker ends, having said what it says in
UTF-8. Nothing is assumed of the
network, of saves by others, or of faults.

What the properties say:

* `StopCovered`: a duck that performs nothing is not left walking. Either robotd
  has been stopped, or the stop is owed to the next connection, or the tick loop
  knows a puppet drives the duck, or a thread is about to stop it. Three lapses
  of the code are named by `gap` and excluded: a paused duck that is reloaded or
  re-armed gets no stop, so a zero move lost with the link stays lost
  (`heldFrozen`); the puppet's zero move is an unconfirmed notification
  (`zeroLost`); a stop that was answered clears the debt of a later one that
  failed (`owedErased`).
* `NotArmedWithoutRobotd`: a play that races the loss of the link does not leave
  an armed duck behind.
* `PerformanceClean`: nothing parked survives into another performance.
* `MutedSilent`: stop and panic win over a live puppet.
* `TorqueKept`: relax takes the torque only from an idle or loaded duck although
  no lock is held during its round trip. What makes it true is that only the
  receive thread arms.
* `CastTogether`: ducks that accepted the same commands follow one show clock
  once they have applied them, whatever their ticks' lateness.
* `EventsOnceUnpaused`, `MasterInStepUnpaused`: in a pass that was never paused
  every event fires once, and the master's show time is the cast's.

* `MuteHolds`: after a stop or a panic, a stream that never pauses for a deadman
  stays out. The code measures the quiet where packets are offered, so a mute
  does lapse under a live stream when packets wait for a deadman behind a round
  trip (of the stop itself, or of a load, a play, a relax, a change of mode, the
  end of a show after it), or when a relaxed duck drops them: `stays` is false
  from there on. Everything else that could end a mute is excluded.
* `ActionsOnce`, `NoActionAcrossMute`: a button is pressed at most once, and not
  after a stop that followed it, wherever on three threads it waits. An action
  already let through may still reach robotd after the stop. A copy of a packet
  that is first read `SEQ_RESET` or more after it was sent, with nothing else
  read in the meantime, may be taken for a new one: `stale` leaves those out.
* `RestartHeard`: a sender that starts again is heard, whatever its numbers,
  unless a straggler of its former run has renewed the number to be passed.
* `PromiseSpec` (of `CommandChannel`): at most once while a duck remembers;
  nothing is reported accepted that was not.
* `InOrder`: a duck does not carry an old command out after a new one, but for
  copies of what it had answered and its cache has lost, and stragglers of calls
  the master has given up.
* `ShowIsOn`: the master says that a show is on only if its whole cast accepted
  a play or a seek.
* `NobodyStranded`, `RequestsReturn`, `NothingKept`, `AnswersAreTrue`: every
  request is released once, by its own answer, a time-out or the loss of the
  link, and leaves nothing behind.
* `Reconnects`: a robotd that stays is connected in the end, one that is gone is
  not for ever taken for connected.
* `SavesHold`: as long as two saves of a document do not overlap it is whole and
  is what its savers were told. Two that overlap share `<name>.tmp`, and the code
  can then publish half of each.
* `DoneIsBaked`, `JobEndsOnce`, `EveryJobEnds`: a bake job ends once, and *done*
  means that its own show was baked and summarised.

What the violated runs show (`findings`): a play arms a limp duck when
robot.enable fails; a paused duck does not fault when robotd goes away; a pause
issued within the lead of a resume is acknowledged and dropped; an event next to
a pause is lost or fires twice; after a pause and resume the master is behind
its cast by the lead of the pause.

## 4. Proofs

Every theorem holds for all values of the constants that satisfy the module's
one assumption: `DuckAgentAssumption`, `ShowClockAssumption`,
`CommandAssumption`, `PuppetChannelAssumption` and `PuppetActionsAssumption`,
`RobotdClientAssumption`, `EditorAssumption`. They
say what the constants range over; that of the puppet also that the deadman is
shorter than the time after which numbers are forgotten, and that a sender
started again was away for at least that time (of the network and of the round
trips nothing is assumed); that of the
clock also that a call is over before a play would be refused for its lateness
(0.5 s of tries against a lead and 2 s).

The theorems about a cast have a hypothesis about the operator's scripts, which
may otherwise be of any length and number. `Careful`: no pause or seek right
after a resume, no pause or resume right after a seek. On a duck, whichever of
the two is applied first drops the other if that is parked by then, so whether
it is obeyed depends on where its ticks fall: `clock_pause` shows it.
`MasterStaysInStep` needs `Unfrozen` as well: a paused show is resumed or stopped
before the next play. `play()` and `seek()` do not clear `paused_show_time`, so
after play, pause, play the master still has the show time of the pause: it
refuses the next pause, and a resume, which the ducks acknowledge without doing
anything, moves the master's epoch and no duck's. The comments at
`showmaster.py` `resume` ("a no-op rather than a re-anchor") and `stop` ("A
frozen position must never outlive the transport it belonged to") say otherwise.
`PlainAssumption` in `MCShowClock` checks that the scripts of the `clock` run
satisfy both.

* `DuckAgentProofs!TypeCorrect`: `TypeOK` is inductive.
* `DuckAgentProofs!StopsAreCovered`: the invariant is `StopCovered` made
  inductive by what it needs of a stop under way: if a stop has been answered but
  not yet settled, clearing the debt must leave nothing held (`landed`). It is
  preserved action by action; the tick is split into its phases, each with a
  lemma, and the thread steps share one lemma on `StopPending`.
* `DuckAgentSafety!StaysSafe`: the conjunction of `PerformanceClean`,
  `MutedSilent`, *robot.relax is only asked for at rest* (`RelaxAtRest`) and *not
  armed unless connected or the loss not yet handled* (`LossHandled`) is
  inductive. `SafeStep` says what every step does to it, to the torque and to the
  protocol's variables at once, so that `CleanPerformances`, `MutesSilence`,
  `ArmedNeedsRobotd`, `TorqueIsKept` and the refinement `ImplementsProtocol`
  follow each in one step.

* `ShowClockProofs!StaysSound`: `Sound` says what a duck may have parked in each
  state, that its instants and show times are integers where they are used, and,
  for a pass that was never paused, that each event has fired once if the clock
  has passed it and not at all otherwise, counting those found and not yet
  handled (`Counted`). `ClockTypes` and `EventsFireOnce` follow without any
  hypothesis on the scripts.
* `ShowCastProofs!StaysOrdered`: the commands still in a script, the call under
  way and what is parked on a duck fit together (`Fits`, `Clashes`); a parked
  instant is within the lead of the last command (`ParkedBy`). `PausesHold`
  follows.
* `ShowCastProofs!StaysTogether`: each duck is on a *course*, the line of show
  time against time it is on or will turn to with what is parked (`Course`,
  `Turned`); ducks that were told the same are on one course (`OneCourse`). A
  tick applies what is parked and changes no course; a command changes that of
  every duck in the same way. `CastStaysTogether` follows.
* `MasterStaysInStep` adds `Thawed` (no play meets a stale `paused_show_time`)
  and `Followed`: the course of a duck that was not paused is the master's
  (`InLine`), before, during and after the call that changes both.

* `CommandChannelProofs!AlwaysKept`: the invariant `Kept` says that a datagram
  or an answer is of a call that was made, that a duck's cache is the tail of
  what it carried out and each entry an answer it gave, and that what a worker
  was told was said. From it follow the types, `ShowIsOn` and, step by step, the
  refinement `KeepsThePromise`. `CommandsInOrder` adds `InStep`: a command that
  was sent is the last one, or the duck has settled it or the master given it up.
* `PuppetProofs!StaysLatched`: `Latched` is `MuteHolds` made inductive by what
  the silence the channel has measured says about the one at the socket
  (`SilenceTrue`, `SilenceHushed`, `SilenceSeen`: they differ only while `away`),
  by a move being kept only through a change of mode (`MoveHeld`), and by the
  epoch every queued action carries (`Born`). `MutesHold` and
  `ActionsDieWithTheMute` follow.
* `PuppetProofs!RunsSucceed`: what is on the wire or in the socket of a former
  run of the sender was sent so long before the restart that it is a straggler
  when it is read, and a channel that has read no straggler of that run since has
  been silent long enough to forget its numbers (`Succession`, `Behind`).
  `RestartsAreHeard` follows.
* `PuppetProofs!StaysApart`: an action is in one place at a time, the channel,
  the tick's hand, the queue, under the check, or begun, unless it is of a stale
  packet (`Apart`); and a copy of a packet that was accepted meets a number not
  below its own, or is `SEQ_RESET` old by the time that number is forgotten
  (`Spent`). No tick begins with actions in hand (`HandFree`). `DosFireOnce`
  follows.
* `RobotdProofs!StaysLinked`: ids are in use by one request each (`Numbered`,
  `Held`), a socket that is open has a reader (`Reading`), and who waits waits on
  one or on someone about to wake it (`Waiting`). `StaysTruthful` adds that
  every line is on the wire once and every reply is what the daemon made of it;
  `RepliesAreTrue` follows.
* `EditorProofs!StaysKept`: inodes have one name (`Apart`), a save that is alone
  with its document holds the file it will rename and has written what it has
  got to (`OnItsWay`), and the document is what the saver expects (`Told`); a
  step of one save is local to its document (`LocalStored`). `FreeInode` counts:
  the model's inodes always suffice. For jobs, `Sound`.

Every safety invariant, action property and refinement that a passing run
checks is proved. Only model-checked: liveness (`EveryCallReturns`,
`RequestsReturn`, `Reconnects`, `EveryJobEnds`), which is out of the prover's
reach, as are ENABLED and what recursive definitions compute for every input.

## 5. Not modelled

* The Swift master (`SwarmMaster.swift`) and what stands on it: the OSC facade,
  the recorder, `swarmctl`. It is a second master on a reentrant actor, whose
  awaits need a module of their own; the hazards are listed without a property.
  Its wire protocol is the Python master's.
* The duck clock's offset estimation, the sampler, the validators and the bake's
  simulation: arithmetic on floating-point numbers. What other parts rely on (the
  open-left event window, a baker that reads once) is in their modules.
* Held sounds, telemetry and the lost-duck sweep: reports and retries of what
  the next message repeats.
* The shutdown of the agent and of its robotd client.
* The editor and the viewer, OSC and JSON coding, argument parsing, deployment
  scripts: user interface and files, no state that several actors share.

Worth doing next: the Swift master across its awaits.
