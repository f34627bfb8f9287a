# A TLA+ model of the claw

This directory models the program that turns a typed sentence into the motion of
a claw machine: the Python agent under `packages/agent`, the displays it sends
events to, and the firmware it drives. TLC checks every module on a small
instance. TLAPS proves every safety property that the passing runs check, for every
value of the constants: that the turn coordinator and the serial controller implement
their abstract contracts, that sessions do not overlap before the old one is closed or
its close given up, that a response has one continuation, that an emergency stop holds
and an interrupted turn falls silent, that the firmware bounds the descent and answers
every line. What stays with TLC is liveness.

Run a check with `tlc -config TurnCoordinator.cfg MCTurnCoordinator`, a proof with
`tlapm M.tla` for `Queues`, `TurnCoordinatorProofs`, `ServiceSessionProofs`,
`TurnModelProofs`, `HardwareToolsProofs`, `FirmwareProofs`, `TurnOutputsProofs` (a
minute at most each) or `ClawControllerProofs` (three minutes).
`PROJECT.json` maps every definition to its source lines and lists the runs, their
mutants, the findings and the hazards.

## The system

One asyncio process (`server.py`) accepts text over WebSockets, hands it to
`RealtimeClawVoiceServiceV2`, and broadcasts display events. The service holds
one session with the OpenAI Realtime API; the model answers with speech and tool
calls; tools move the machine through a serial line to an Arduino.

| Component | State | Operations | Talks to |
| --- | --- | --- | --- |
| Turn coordinator (`turn_coordinator.py`) | one-place queue, current turn and its phase, id counter, loop task | `submit`, `interrupt`, `finish`, `start`, `stop`, `_run` | calls back `cancel_response` and `start_response` of the service, and awaits them |
| Service (`service_v2.py`) | current session, `_stopping`, `_session_lock`, event, watch and reconnect tasks | `start`, `stop`, `submit_raw_text`, `_reset_failed_session`, `_reconnect_until_ready`, `_bridge_events`, `_watch_transport` | coordinator, SDK session, tools, audio, broadcaster |
| Turn-aware model (`turn_model.py`, handlers in `service_v2.py`) | responses and calls bound to turns, finished responses waiting for tool outputs, outputs sent | `on_event`, `send_event`, `_continue_after_tools` | server events in, tagged `response.create` out |
| Claw tools (`claw_tools.py`) | `_hardware_lock`, shielded execution tasks | the tools, `_physical`, `_run_physical`, `drain` | controller; asks the coordinator whether its turn is current |
| Controller facade (`controller.py`) | active backend | `start`, `stop`, one method per command | a backend |
| Serial controller (`legacy_controller.py`) | pending futures by command id, e-stop latch, cached machine state, reader thread | `_send`, `_handle_line`, `_resolve_future`, `halt`, `close` | firmware, line by line |
| Firmware (`claw_machine_V4_agent.ino`) | motion state, active command and its id, halt request, Z frame, limits, servo, drivers | `dispatchLine`, `serviceHalt`, one function per motion state | host, motors, switches |
| Broadcaster (`broadcaster.py`) and display store | clients; machine state, mood, steps | `broadcast`, `applyEvent` | browsers |
| Audio output (`audio_output.py`) | the stream, a lock | `write`, `close` | a worker thread per write |
| Display socket (`useDisplaySocket.ts`) | socket, at most 32 pending texts, backoff | `sendRawText`, flush, reconnect | server |

What is hard in each:

- *Coordinator.* Both callbacks are awaited with a turn half changed; interrupts
  from the loop, from resets and from outside overlap. Correct means: an
  interrupted turn is ineligible at once and for ever, a late interrupt does not
  touch the replacement, the newest command is not lost.
- *Service.* Three kinds of tasks notice the same failure at different times;
  starts, resets and the stop share one lock but read `_stopping` and `_session`
  outside it. Correct means: one session, failures attributed to the session
  that failed, recovery, a shutdown that ends.
- *Turn model.* `response.done`, tool outputs and the lagging bridge arrive in any
  order. Correct means: exactly one continuation, the turn over neither early nor
  never, books that empty.
- *Tools.* The SDK cancels coroutines while the machine moves. Correct means: one
  command at a time at the machine, only for the turn that asked.
- *Firmware.* Lines at any moment of a motion, halts, stuck motors, resets.
  Correct means: one answer per line, the descent bounded, the gantry homed only
  with the claw up.
- *Serial controller.* A worker thread per write, a reader thread and the event
  loop; answers after timeouts, two answers to one command, a cable that is pulled.
  Correct means: what a caller is told is what the machine did, an emergency stop
  is not undone by a line that comes late, every command returns.
- *Displays.* Several tasks broadcast at once, and a display that does not read
  holds its sender up. Correct means: an event of an old turn does not overwrite the
  state of the current one, and nobody is held up for ever.
- *Speaker.* Threads that outlive their timeout, behind one lock. Correct means: an
  interrupted turn falls silent, and one thread writes.
- *Display socket.* Texts queued over reconnects (not modelled).

## The modules

`LatestTextWins` is the contract of the coordinator: four variables, three
actions. `TurnCoordinator` implements it. `ServiceSession` composes the
coordinator with the session's tasks by `INSTANCE`: a step of the service that
calls the coordinator is conjoined with the coordinator's action.
`HardwareTools`, `TurnModel` and `Firmware` stand beside it; the first two see
the coordinator only through `is_current`.

`CommandChannel` is the contract of the serial controller: two variables, one
step. `ClawController` (the facade and its configuration) extends `SerialLink` (the
serial transport with the machine and the cable at its other end) and implements
it. `TurnOutputs` composes `Broadcaster` and `AudioOutput` with the tasks of the
service that use them.

`WaitQueue` is what `ServiceSession` and `HardwareTools` know of an `asyncio.Lock` whose
waiters may be cancelled; `Queues` holds the lemmas about queues that the proofs share.
Each proof module extends the module it is about.

All Python modules share one rule: asyncio switches tasks only at an `await`, so an
action is the code from one await to the next.

**TurnCoordinator.** `pending`, `turn`, `nextId` and `worker` are `_pending`,
`_turn`, `_next_id` and the place of `_task`; `held` and `interrupting` are local
variables that survive an await. A command is the number of its submission.
`submitted`, `begun` and `dropped` are histories for the properties.
`interrupt()` is two actions (`InterruptBegin`, `InterruptEnd`) per outside caller;
the loop's own is `TakeAndInterrupt` and, after its await, `CancelledThenBegin`,
whose clearing of the turn is overwritten in the same step by the new turn.

**ServiceSession.** `lockq` is `_session_lock` with its waiters in order, which is
how `asyncio.Lock` serves them. `place` says at which await each task is. A
connection attempt succeeds or fails (`MaxFailures`); a failed one awaits the close of
its half-open session under the lock (`OpenFails`, `Discarded`). A close succeeds or
is given up after its timeout ("stuck"): its connection is then in an unknown state, and
the next session may be opened beside it. `OneLiveSession` does not count such a
connection, because the code does not. What `_cancel_response`, `_emit` and the audio do is only the await
they are here; what they show and play, and the awaits of it, are `TurnOutputs`'.
`OpenFails` stands for every exception of `_open_session` including the
cancellation of the client that called it.

**HardwareTools.** A call is its coroutine (`caller`) and its shielded execution
task (`exec`); `lockq` is the hardware lock; `onWire` is what the machine really
works on, which no cancellation changes. The controller may also give up
(`CommandGivenUp`: TIMEOUT or a failed write): the execution ends "unanswered", its
caller is told of the failure, and the lock is free while the machine may still be at
work. `OneCommandAtATime` therefore counts the commands the controller still awaits
(`Awaited`), and `NoFalseCompletion` allows a caller whose command is still at work to
hear that failure and nothing else. That every command is answered or given up on is
assumed here and is `ToolsReturn` of `ClawController`; what the machine does with two
commands is `SerialLink`'s.

**TurnModel.** The listener hands an event to the model, then the service, then
the session; `inbox` is what it has not read. `HearDone` suspends the listener in
the send of a continuation, and the bridge gets the event afterwards.
`HandleDone` is `_handle_server_event` with `_finish_turn`; for a failed response
two display events are awaited before the turn is finished, which is one step here,
because `finish` looks at the identity again and an interrupt in between makes it
return without effect. Sends succeed: a failing send ends the session
(`ServiceSession`).

**Firmware.** One `Dispatch` per line, one `Tick` per pass through `loop()`. Z is
counted in steps, scaled down; X, Y, A and the servo only have events. `claw` is
where the claw really is, `slipped` says that motor and claw have parted (jam or
sinking). `Overshoot` is how far the claw travels into the switch while it is
debounced. `activeCmdId` 0 is `"-"`. AccelStepper's acceleration is not modelled.

**CommandChannel.** The machine does one thing at a time; a command is begun once,
and never after its caller has heard the end of it; success means done, failure
means not begun or stopped. "unknown" is for callers that gave up (a timeout, or
cancelled at the shutdown) and for those who got an exception of the port (ERR, or one
that `_send` does not catch): their command may still be carried out.

**SerialLink.** A command is the number `_id_counter` gave it. Its life is spread
over `call` (where its `_send` is), `fut` (its future), `pending` (the entry in
`_pending`), `writers` (its worker thread, which no cancellation stops), `wire` and
`rx` (the lines under way), `scheduled` (results handed to the loop by
`call_soon_threadsafe`) and `work` (what the machine did with it). The reader thread
looks at the future in `_resolve_future`; the loop sets it later, in `Resolves`.
`halt` answers every open future at once and leaves the entries in `_pending`, so
the machine's own answer makes a second result. The tools' lock is `tool`.
A thread's `write()` and `flush()` are two steps (`WriteLine`, then `FlushEnds` or
`FlushFails`): if the cable goes in between, the machine has the line and the caller an
ERR, or, on POSIX, a `termios.error`, which is not one of `SERIAL_EXCEPTIONS`, leaves the
entry in `_pending` and is "RAISED" here.
A timeout may fire whenever a caller waits. That is more than the constants of the
code allow in a quiet system, but a write may be late by any amount, and
`raise_claw` gives up after 15 s where the firmware gives up after 20 s.
`MOVE` stands for X, Y, Z, RAISE and HOME, `SERVO` for OPEN and CLOSE: they take the
same way and differ in positions, which are left out. `cached` and `moved` reduce
the machine's state to the last motion it had completed. ACK and EVT lines feed only
the log and the events of a result. The machine is `Firmware` seen from the line:
one command at a time, BUSY to others, HALT answered after the motion it ends, and a
boot loader that swallows what comes too early.

**ClawController.** `phase` is the life of the facade; the sim backend is
`SerialLink` with `_sim` set. `mode` becomes "spent" once the port is open, because
nothing reads the mode after that. A failed start in serial mode ends the agent
(`server.py`), so that "failed" has no successor. `Stop` is the service's stop as
far as the controller sees it: `drain()` cancels whoever still waits, `close()`
follows; the worker threads go on. A stopped controller is not started again by
anybody (`_ready_event`, which is never cleared, would then matter).

**Broadcaster.** A message takes its place in a client's stream when its broadcast
begins, so a display shows the last event sent to it (`shown`), even if it is slow;
`sending` is whom a sender still awaits. A stalled display is evicted when the
broadcast ends.

**AudioOutput.** All callers give up after the same `_audio_timeout` and
`asyncio.Lock` is first come, first served; so the first in line is the first to
time out, and `WriteFails` needs only the head of `audioq`. The thread of a write that
timed out stays in `threads` after the lock is released. There is one bridge per
session, and it plays one chunk at a time. Only a write runs in a thread: the calls that
open, stop and close the stream run on the event loop, and no timeout ends them. While
one lasts (`blocked`, ended by `DeviceReturns`, which nothing is obliged to) only
threads take steps.

**TurnOutputs.** The coordinator's loop (`loop`), the bridges (`bridge`) and the reset
of a failed session (`reset`), each step from one await of a display or of the
speaker to the next. Awaits that change neither are merged into the step after them.
The connection attempts that fail are `ServiceSession`'s. The last session of the
bound does not fail, since nobody could follow it. The events of the tools are left
out: `_emit` checks the turn in the step in which it sends them.

`MC*` modules say why their bounds are enough; they add only the values that a
`.cfg` cannot hold.

## The runs

| Run | Bounds | Shows |
| --- | --- | --- |
| `turns` | 2 interrupters, 4 commands; 3 247 states | safety, refinement and progress of the coordinator |
| `session` | 2 commands, 3 sessions, 1 failed attempt; 953 708 states, about two minutes | no session opened before the last one is closed or its close given up, late failures harmless, recovery, a stop that returns unless `_stopping` was cleared |
| `service_shutdown` | 1 command, 2 sessions | **violated**: stop() may never return |
| `service_orphan` | 1 command, 2 sessions, 1 failure | **violated**: a turn without a message |
| `tools` | 3 calls, 2 turns; 937 494 states | one command at a time awaited at the machine, for the turn that asked; none reported done or refused while it runs |
| `turn_model` | 2 turns, 3 calls; 233 952 states | one continuation, turns end whole, books empty |
| `firmware` | 3 lines, 1 upset, 2 steps of travel; 107 669 states | answers, bounds, homing order, termination |
| `controller` | 3 commands and a refresh; 2 256 910 states, three minutes | truthful results (refinement), an e-stop that holds, no future left behind, BUSY only after a timeout, no simulation by accident, every command returns |
| `outputs` | 2 turns, 2 sessions, 2 chunks, 1 display; 755 534 states | an interrupted turn falls silent, one thread writes, the next command is taken up whatever displays and writes do, if the audio library lets the event loop go |
| `stale_display` | the same with 1 chunk | **violated**: an old turn's "attract" over the new turn's "thinking" |
| `firmware_top_clamp` | 1 line | **violated**: an upward move that does not move |
| `firmware_stuck` | 1 line, 1 upset | **violated**: Z not resynchronized after a stuck homing |

The bounds reach the cases the properties are about: two overlapping interrupts
need two outside callers; a late failure needs a third session so that the second,
which it must not hurt, can itself fail; the race of two tool outputs with
`response.done`, and a call of the next turn beside it, need three calls; in the
firmware a motion, an interruption and the motion after it are three lines. In the
controller, three commands are a motion whose caller gave up, the one that meets it
on the machine or the HALT that ends it, and a query of the poller whose future
`halt()` answers; what holds for any number is proved. For the outputs, two turns
are one that replaces the other, and two sessions let the bridge of a failed one
outlive it with a thread that still writes while its successor gets in line.

### Fairness

- *Coordinator and service.* The event loop runs every ready task (weak fairness
  per task), and every await ends that has a timeout: the close of the speaker, the
  interrupt request, the display sends, the connection attempt and the session close
  (`asyncio.wait_for` in `service_v2.py` and `broadcaster.py`). `send_message` has
  none. `ServiceSession` therefore lets it hang, since recovery and shutdown must not
  depend on it; the coordinator's progress (`NewestTextStarts`) does depend on it, and
  assumes that the socket takes the message or fails. Nothing obliges
  anyone to submit, to stop, or a connection to fail. `asyncio.Lock` is first come,
  first served, so no strong fairness is needed.
- *Tools.* The same, and every controller command is answered or given up on.
- *Turn model.* The server ends what it starts; tools return.
- *Controller.* Timers fire, worker threads and the loop run (`Send`, `Loop`). The
  machine, the cable and the reader thread owe nothing: `ToolsReturn` holds on a pulled
  cable. That a write and a flush end at all, with an exception at worst, is an
  assumption about the driver: the port has no `write_timeout`, and the await of the
  write has none either.
- *Outputs.* While the event loop runs, every await of a display, of the speaker's lock
  or of a thread ends by its timeout, tasks go on, and a reconnect succeeds in the end.
  Browsers, the model behind the session and abandoned threads owe nothing, nor does
  the audio library: `NextTurnBegins` has the premise that each of its calls on the
  event loop returns (`[]<>~blocked`). Nothing in the code sees to that. A device that
  hangs in `stop()` stops the service, although "Speaker failure must not stop
  consuming model/tool/connection events" (`service_v2.py:360`); TLC finds the
  counterexample when the premise is dropped.
- *Firmware.* `loop()` runs for ever, so `Tick` and the servo are weakly fair.

### Deadlock

It is checked in all passing runs but `session` (`Settled` lets a stopped or
failed controller rest). There the service really can
stop: the counterexample of `service_shutdown`, and a close that timed out before
a stop, leave tasks waiting for each other for ever. Those states are what
`ShutdownCompletes` and `StopReturnsUnlessReopened` are about. The violation runs
switch the check off so that they report the property they are for.

## What the violations show

1. **stop() may never return** (`service_v2.py:127`). `_open_session` clears
   `_stopping` whoever calls it. A turn's `start()` that waits for the lock behind
   a reset gets it before `stop()` does and undoes the flag `stop()` has set; the
   event bridge, cancelled by `stop()`, then wants the lock `stop()` holds.
2. **A turn without a message** (`service_v2.py:387`). A failed `start()` in a turn
   resets "the session None"; if somebody reconnects first the reset returns early
   and the turn stays "responding".
3. **Upward moves that do nothing** (`.ino:474`). Before the first homing the
   clamp at zero swallows them, against the header's "No software top clamp".
4. **Z after a stuck homing** (`.ino:543`). `abortHomingStuck` does not
   resynchronize Z as `serviceHalt` does.

5. **A stale display** (`service_v2.py:349`). `_finish_turn` clears the turn and
   awaits two display events. While the first is on its way the next turn may begin
   and show "thinking"; the "attract" of the old turn then overwrites it, against
   `docs/realtime-agents-sdk-rewrite.md:117`.

Something the mutants show about a change that suggests itself. `halt` waits for the
hardware lock, and so for the motion it is meant to stop. Taking it out of the lock
is not enough (`haltUnlocked`): a motion's line that a worker thread has not
written yet can then be overtaken by the HALT, and the claw moves after the stop.

## What is proved

`TurnCoordinatorProofs` proves, for every set `Callers` and every positive
`MaxTexts`:

- `TypeCorrect`, `Ineligible`, `NewestKept`: the three invariants of the run;
- `LateInterrupt`: the action property;
- `Refinement`: `Spec` implies `LatestTextWins`'s `Spec` under the mapping
  `eligible <- Eligible`, `retired <- (1..nextId) \ {Eligible}`.

The only assumption is `MaxTextsAssumption`. None of the invariants is inductive.
`IInv` adds the order of the commands (what waits in the queue is newer than what
the loop holds, which is newer than anything begun or dropped), where the loop is
(its hand is full exactly while it awaits `cancel_response`, and then no turn
responds), and that no identity in a caller's hand is above `nextId`, so that the
next turn cannot be mistaken for the one being interrupted. `InitIInv` and
`NextIInv` show it inductive, with one step per action and `BeginTurnIInv` for the
part two actions share. The refinement's step simulation splits the actions in
three: invisible ones (`Invisible`), those that withdraw the turn (`Withdrawn`)
and those that begin one (`BeginTurnBegins`), the last using from `IInv` that
nothing is eligible while the loop awaits `cancel_response`.

`HardwareToolsProofs` proves, for every finite set `Calls` and every positive
`MaxTurns` (`CallsAssumption`):

- `MutualExclusion` (`OneCommandAtATime`): at most one command at the machine that the
  controller has not given up on;
- `HonestCompletion` (`NoFalseCompletion`): while the machine is at a command its caller
  has heard neither a success nor a refusal;
- `FreshCommand`: a command is sent only for the current turn.

That one command at a time is sent is not inductive either: it holds for two
reasons that take turns. Before `drain()` begins, a command at the machine is the
head of the lock's queue even if its coroutine is gone, unless it has been given up on
(`Locked`, `Shielded`); afterwards cancelled executions do release the lock with the
machine still moving, but no turn is current any more (`Bound`) and nothing new is sent.
`NothingElseOnWire` joins the two. That a second command may be there beside one that
was given up on is what the code does (`legacy_controller.py:657` among the hazards).
`TypeCorrect` (`TypeOK`) needs that the lock's queue holds exactly the executions that
have not released it, each once (`Queue`); `QueueWithout` is what a cancellation in the
middle of it does.

`ClawControllerProofs` proves, for every positive `MaxIds` (`MaxIdsAssumption`) and
any devices:

- `EmergencyStopHolds` (`HaltSticks`): once the machine has served the HALT of the
  current e-stop, no motion begins until the latch is reset. A HALT since the last
  reset means that the latch is set and that every motion is older (`Latched`). The
  danger is an older motion that is written after the HALT. A motion whose line is
  not written holds the tools' lock, which `halt` takes too (`Locked`); hence no such
  motion is older than a HALT (`Overtaken`), the wire keeps the order (`Ordered`), and
  behind a HALT that is done no older motion is left (`Swept`).
- `TypeCorrect` (`TypeOK`) and `Implements` (`TruthfulResults`): `Spec` implies
  `CommandChannel`'s `Spec` with `said <- Said` and `work` hidden for queries. `CInv`
  follows every report on a command from the machine to the caller: wherever it is (a
  line back, a result on its way to the loop, the future, the caller), it is right and
  the command's line is gone (`Reported`, `Right`). The machine takes each line once
  (`Once`). `halt()` answers futures for the machine; that this is harmless rests on
  `Held`: who waits for anything but a query has the tools' lock, and `halt` has it. (A
  caller driven out by an uncaught exception has left an open future behind: `Plain` sets
  its command apart, about which nobody will be told anything any more.)
  `CommandSteps` reads each step as the caller of one command sees it, and
  `StepSimulation` puts the commands together.
- `BusyExplained` (`BusyOnlyAfterGivingUp`). Whoever has an open future for anything
  but a query has the tools' lock and is the newest such command (`Own`, `Newest`);
  so a motion that the machine still works on when another command comes belongs to
  a caller who gave up, and that is on record (`Excused`). One argument covers
  callers who time out and those cancelled by the shutdown; who got an exception of the
  port has a port that is gone, and nobody hears a BUSY through that (`Severed`).
- `SimulationAllowed` (`NoSilentSimulation`): the controller simulates only as the
  mode allows (`Simulated`).
- `NothingForgotten` (`BooksEmpty`). As long as the service works, the line of a command
  in `_pending` is somewhere: with its thread, on the wire, at the machine, on the
  way back, or lost; and nobody but `halt()` has answered for it, unless a flush has
  driven its caller out (`Accounted`).
- `HomingShown` (`HomedShown`). `home_z` gives up the tools' lock only with the refresh
  answered (`Homing`). That this answer shows the homing is a matter of order all the
  way: motions reach the machine by their ids (`Row`), lines come back in the order in
  which they were written, and `cached` is behind all of them (`Views`), also when the
  port is closed or the cable pulled (`Ports`).

`FirmwareProofs` proves, for any travel, backoffs, distances, phase timeout, number
of lines and number of upsets (`TravelAssumption`, `PhaseAssumption`):

- `DescentHolds` (`DescentBounded`). One would expect this to need the two records
  of Z to agree (`RestPosition`), and so a timeout longer than any ascent. It does
  not: it is enough that the motor is never below the position the bounds are
  reckoned from, and on its way never beyond the pending target (`Frame`). A halt
  makes the two equal, a homing that is given up leaves the motor above, and
  neither the switch's debouncing nor a reset can put it below.
- `HomesRetracted` (`GantryHomesRetracted`): what is left of the backoff keeps the
  claw within it (`Retracted`); no slip is excluded here, because a spool that jams
  during the backoff leaves the claw even higher.
- `EveryLineAnswered` (`AnsweredOnce`): each line since the last reset is answered,
  or the active command, or the pending HALT, or a HALT overtaken (`Due`), and the
  active command and the pending HALT are not answered yet (`Active`, `Halting`).
- `RecordsAgree` (`RestPosition`): at rest, with Z known and no slip since, the two
  records of Z agree. This one does need that a phase of motion outlasts the longest
  travel: else a healthy homing could be given up half way. `PhaseAssumption` says so,
  from the 20 s and the step rate of the `.ino` (8000 steps against 2100 of travel), and
  `Settled` counts the ascent against the phase's clock.
  The property excludes every slip since Z was found, not only that of the homing
  under way: a slip and then a reset can leave the claw so deep that the next homing
  is stuck, which takes two upsets.
- `TypeCorrect` (`TypeOK`), with the state of motion determined by the active letter
  (`Lettered`).

`ServiceSessionProofs` proves, for every number of commands, sessions and failed attempts
(`BoundsAssumption`): `TypeCorrect` (`TypeOK`), `OneLive` (`OneLiveSession`), `DeadSession`
(`NoTurnOnDeadSession`) and the action property `LateFailure` (`LateFailureHarmless`). All
rest on the session lock: its queue is the set of tasks whose `place` says so, and whoever
is past the wait is at its head (`Lock`). From that, nobody connects while there is a
session, a connection that is open is the session's or is being closed, and who resets
a session has it to himself (`Life`). `OneLive` is about sessions and attempts that have
been neither closed nor given up: a close that times out leaves a connection that nobody
looks at again, and no theorem says that it is gone. `DeadSession` needs to know which session a message
on its way is for: while a turn is sent its message, its session is the current one
unless the turn has already been interrupted (`Heading`). Nothing about the coordinator
is proved twice: `StepCoordinates` shows that every step of the service is a step of the
coordinator or leaves it alone, so that the invariant and the step simulation of
`TurnCoordinatorProofs` hold here as they are; hence `NewestTextWins`: the service with
all its tasks still implements `LatestTextWins`.

`TurnModelProofs` proves, for every number of turns, responses and calls
(`BoundsAssumption`): `TypeCorrect` (`TypeOK`), `OneContinuationEach` (`OneContinuation`),
`NothingKept` (`NothingLeftBehind`) and the action property `WholeTurn`
(`FinishedTurnIsWhole`). A response is closed when the listener has heard its end and no
tool output is missing. Until then the books have each of its calls and it has no
continuation; from then on they have none of them, and it cannot open again, because
its events reach the listener in order (`Mail`, `Books`). The responses of a turn are a
chain in which all but the last are closed (`Chain`), which is why the bridge, however
late it is, finishes the turn at the right response.

`TurnOutputsProofs` proves, for every number of turns, sessions, chunks and displays
(`EmittersAssumption`, `MaxTurnsAssumption`, `MaxChunksAssumption`): `TypeCorrect`
(`TypeOK`), `InterruptedTurnFallsSilent` (`SpeechStops`) and `OneThreadWrites` (`OneWriter`).
Only the bridge of the session writes, and for the coordinator's turn (`Owned`); the
close of whoever interrupts that turn waits behind it (`Behind`), so that nothing is
written once the close is over (`Silent`). A thread that outlives its write has
disabled the speaker, and nobody writes after it (`Writing`). The part that is easily
overlooked is what else could make a bridge write: a response taken for one of the
current turn while a reset is under way (`Resetting`), and a bridge left over from a
failed session that finishes the turn of its successor (`Older`).

Only model-checked: all liveness (`NewestTextStarts`, `Recovers`,
`StopReturnsUnlessReopened`, `QueueMoves`, `TurnEnds`, `CommandsEnd`, `ToolsReturn`,
`NextTurnBegins`), since the prover treats neither fairness nor `ENABLED`. The bounds of
the runs therefore matter for these only. The proofs trust the models; the mutants of
the runs are what shows that the properties can fail.

## Not modelled

- *Display socket and store* (`useDisplaySocket.ts`, `applyEvent`): the bounded queue
  of pending texts in the browser. What an event does to a display is in
  `Broadcaster` (`shown`).
- *In the controller:* ACK and EVT lines, the values of positions and switches,
  `set_servo` and `ping` (no caller), a restart after `close`, `snapshot()` with the
  fields only it reads, `execute_plan` with its helpers (called by the earlier runtime
  alone).
- *In the tools:* `set_expression` and `get_state`, which touch no hardware.
- *In the speaker:* the choice among devices, and changes of rate or format, which the
  live program does not make.
- *Left out for good:* `realtime_service/service.py`, the earlier runtime that nothing
  imports; `web/src/_old`; the prompt, styles, sprites and page layout, which keep no
  state; the soak script and the mock server; lock files and generated assets.
