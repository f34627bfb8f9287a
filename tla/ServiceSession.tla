--------------------------- MODULE ServiceSession ---------------------------
(***************************************************************************)
(* agent/realtime_service/service_v2.py: the life of the SDK session.      *)
(*                                                                         *)
(* Who takes part, as asyncio tasks:                                       *)
(*   Client     a submit_raw_text() call of agent/server.py                *)
(*   Worker     the coordinator's loop, inside _start_turn                 *)
(*   Reconnect  _reconnect_until_ready                                     *)
(*   Stopper    stop(), called once by agent/server.py                     *)
(*   Events(s)  _bridge_events of session s                                *)
(*   Watch(s)   _watch_transport of session s                              *)
(*                                                                         *)
(* They share _session, _stopping and _session_lock.  asyncio.Lock serves  *)
(* its waiters in order, so the lock is the sequence of the tasks that     *)
(* want it and its head holds it.  The turn state is the coordinator's:    *)
(* its actions are taken from TurnCoordinator, and a step of the service   *)
(* that calls one of its methods is conjoined with that action.            *)
(***************************************************************************)
EXTENDS WaitQueue, FiniteSets

CONSTANTS MaxTexts,      \* bound on the number of submitted commands
          MaxSessions,   \* bound on the number of sessions ever connected
          MaxFailures    \* bound on the number of failed connection attempts

ASSUME BoundsAssumption ==
  /\ MaxTexts \in Nat \ {0}
  /\ MaxSessions \in Nat \ {0}
  /\ MaxFailures \in Nat

Sessions == 1..MaxSessions

Client == <<"client", 0>>
WorkerTask == <<"worker", 0>>
Reconnect == <<"reconnect", 0>>
Stopper == <<"stopper", 0>>
Events(s) == <<"events", s>>
Watch(s) == <<"watch", s>>

\* The tasks that may run _reset_failed_session, and those that call start().
Resetters == {WorkerTask} \cup {Events(s) : s \in Sessions}
                          \cup {Watch(s) : s \in Sessions}
Starters == {Client, WorkerTask, Reconnect}
Tasks == Starters \cup {Stopper} \cup Resetters

VARIABLES
  pending, turn, nextId, worker, held, interrupting, stopping, submitted,
  begun, dropped,       \* the coordinator (TurnCoordinator)
  session,              \* _session: number of the current session, 0 for None
  serviceStopping,      \* _stopping
  lockq,                \* _session_lock: holder first, then those who wait
  place,                \* per task, the await it is at
  opened,               \* number of sessions connected so far
  transport,            \* per session, its connection
  using,                \* the session _start_turn works with, 0 for None
  sent,                 \* <<turn, session>> of the last message accepted
  controllerStarted,    \* _controller_started
  failures              \* failed connection attempts so far

coordinatorVars == <<pending, turn, nextId, worker, held, interrupting,
                     stopping, submitted, begun, dropped>>
vars == <<coordinatorVars, session, serviceStopping, lockq, place, opened,
          transport, using, sent, controllerStarted, failures>>

TC == INSTANCE TurnCoordinator WITH Callers <- Resetters

Holds(t) == lockq # <<>> /\ Head(lockq) = t

FailedOf(t) == IF t = WorkerTask THEN using ELSE t[2]

\* The state after server.run() has awaited agent.start(): one session, its two
\* tasks and the coordinator's loop.
Init ==
  /\ pending = 0 /\ turn = TC!NoTurn /\ nextId = 0 /\ worker = "get"
  /\ held = 0 /\ interrupting = [t \in Resetters |-> 0] /\ stopping = FALSE
  /\ submitted = 0 /\ begun = 0 /\ dropped = 0
  /\ session = 1
  /\ serviceStopping = FALSE
  /\ lockq = <<>>
  /\ place = [t \in Tasks |->
                CASE t = Events(1) -> "run"
                  [] t = Watch(1) -> "wait"
                  [] t[1] \in {"events", "watch"} /\ t[2] # 1 -> "none"
                  [] OTHER -> "idle"]
  /\ opened = 1
  /\ transport = [s \in Sessions |-> IF s = 1 THEN "open" ELSE "none"]
  /\ using = 0
  /\ sent = <<0, 0>>
  /\ controllerStarted = TRUE
  /\ failures = 0

-----------------------------------------------------------------------------
\* start() and _open_session

\* Where an attempt to open a session, which has the lock, can be.
Attempts == {"connect", "discard", "abort"}

\* The lock is granted.  With a session there is nothing to do, and the caller
\* goes on without another await: the client submits, the worker keeps the
\* session it will send to, the reconnect loop ends.
StartFindsSession(t) ==
  /\ place[t] = "lock"
  /\ Holds(t)
  /\ session # 0
  /\ lockq' = Tail(lockq)
  /\ \/ t = Client /\ TC!Submit /\ place' = [place EXCEPT ![t] = "idle"]
        /\ UNCHANGED using
     \/ t = WorkerTask /\ place' = [place EXCEPT ![t] = "send"]
        /\ using' = session /\ UNCHANGED coordinatorVars
     \/ t = Reconnect /\ place' = [place EXCEPT ![t] = "idle"]
        /\ UNCHANGED <<using, coordinatorVars>>
  /\ UNCHANGED <<session, serviceStopping, opened, transport, sent,
                 controllerStarted, failures>>

\* _open_session up to its first await: _stopping is cleared first of all.
OpenBegin(t) ==
  /\ place[t] = "lock"
  /\ Holds(t)
  /\ session = 0
  /\ serviceStopping' = FALSE
  /\ place' = [place EXCEPT ![t] = "connect"]
  /\ UNCHANGED <<coordinatorVars, session, lockq, opened, transport, using,
                 sent, controllerStarted, failures>>

\* The session is entered: it becomes visible together with its two tasks, the
\* coordinator is started if it has no task, and the caller goes on as above.
OpenSucceeds(t) ==
  /\ place[t] = "connect"
  /\ opened < MaxSessions
  /\ opened' = opened + 1
  /\ session' = opened + 1
  /\ transport' = [transport EXCEPT ![opened + 1] = "open"]
  /\ controllerStarted' = TRUE
  /\ lockq' = Tail(lockq)
  /\ place' = [place EXCEPT ![t] = IF t = WorkerTask THEN "send" ELSE "idle",
                            ![Events(opened + 1)] = "run",
                            ![Watch(opened + 1)] = "wait"]
  /\ using' = IF t = WorkerTask THEN opened + 1 ELSE using
  /\ worker' = IF worker = "none" THEN "get" ELSE worker
  /\ submitted' = IF t = Client THEN submitted + 1 ELSE submitted
  /\ pending' = IF t = Client THEN submitted + 1 ELSE pending
  /\ UNCHANGED <<turn, nextId, held, interrupting, stopping, begun, dropped,
                 serviceStopping, sent, failures>>

\* The attempt fails (no key, controller, connection, timeout, cancellation):
\* the close of the half-open session is awaited, under the lock.
OpenFails(t) ==
  /\ place[t] = "connect"
  /\ failures < MaxFailures
  /\ failures' = failures + 1
  /\ controllerStarted' \in {controllerStarted, TRUE}
  /\ place' = [place EXCEPT ![t] = "discard"]
  /\ UNCHANGED <<coordinatorVars, session, serviceStopping, lockq, opened,
                 transport, using, sent>>

\* The close has returned, or has been given up after its timeout: nobody looks
\* at the half-open session again.  The client's call ends with the exception,
\* the reconnect loop sleeps, the worker goes to _reset_failed_session(None),
\* behind those who already wait for the lock.
Discarded(t) ==
  /\ place[t] = "discard"
  /\ \/ t = Client /\ place' = [place EXCEPT ![t] = "idle"]
        /\ lockq' = Tail(lockq) /\ UNCHANGED using
     \/ t = Reconnect /\ place' = [place EXCEPT ![t] = "sleep"]
        /\ lockq' = Tail(lockq) /\ UNCHANGED using
     \/ t = WorkerTask /\ place' = [place EXCEPT ![t] = "reset lock"]
        /\ lockq' = Append(Tail(lockq), t) /\ using' = 0
  /\ UNCHANGED <<coordinatorVars, session, serviceStopping, opened, transport,
                 sent, controllerStarted, failures>>

-----------------------------------------------------------------------------
\* submit_raw_text(), called by server.handle_client.  The server ends all its
\* client calls before it calls stop().

ClientSubmits ==
  /\ place[Client] = "idle"
  /\ place[Stopper] = "idle"
  /\ submitted < MaxTexts
  /\ place' = [place EXCEPT ![Client] = "lock"]
  /\ lockq' = Append(lockq, Client)
  /\ UNCHANGED <<coordinatorVars, session, serviceStopping, opened, transport,
                 using, sent, controllerStarted, failures>>

\* The client disconnects and its input task is cancelled in the lock's queue.
ClientCancelled ==
  /\ place[Client] = "lock"
  /\ place' = [place EXCEPT ![Client] = "idle"]
  /\ lockq' = Without(lockq, Client)
  /\ UNCHANGED <<coordinatorVars, session, serviceStopping, opened, transport,
                 using, sent, controllerStarted, failures>>

-----------------------------------------------------------------------------
\* The coordinator's loop and _start_turn

\* The loop takes a command and interrupts the current turn.
WorkerInterrupts ==
  /\ TC!TakeAndInterrupt
  /\ UNCHANGED <<session, serviceStopping, lockq, place, opened, transport,
                 using, sent, controllerStarted, failures>>

\* A turn begins: _start_turn calls start() and wants the lock.
TurnBegins ==
  /\ TC!TakeAndBegin \/ TC!CancelledThenBegin
  /\ place' = [place EXCEPT ![WorkerTask] = "lock"]
  /\ lockq' = Append(lockq, WorkerTask)
  /\ UNCHANGED <<session, serviceStopping, opened, transport, using, sent,
                 controllerStarted, failures>>

\* send_message is accepted; a connection whose loss nobody has noticed may
\* still take it.
SendSucceeds ==
  /\ place[WorkerTask] = "send"
  /\ transport[using] \in {"open", "lost"}
  /\ TC!Started
  /\ sent' = <<nextId, using>>
  /\ place' = [place EXCEPT ![WorkerTask] = "idle"]
  /\ UNCHANGED <<session, serviceStopping, lockq, opened, transport, using,
                 controllerStarted, failures>>

\* send_message raises; _start_turn resets the session it was using.  So that
\* recovery has a session to end with, the last one never fails.
SendFails ==
  /\ place[WorkerTask] = "send"
  /\ using < MaxSessions
  /\ ~stopping
  /\ place' = [place EXCEPT ![WorkerTask] = "reset lock"]
  /\ lockq' = Append(lockq, WorkerTask)
  /\ UNCHANGED <<coordinatorVars, session, serviceStopping, opened, transport,
                 using, sent, controllerStarted, failures>>

\* A final response.done finishes the turn (_handle_server_event).
ResponseDone ==
  /\ session # 0
  /\ place[Events(session)] = "run"
  /\ sent = <<turn.id, session>>
  /\ TC!Finish(turn.id)
  /\ UNCHANGED <<session, serviceStopping, lockq, place, opened, transport,
                 using, sent, controllerStarted, failures>>

-----------------------------------------------------------------------------
\* The connection, _bridge_events and _watch_transport

ConnectionLost(s) ==
  /\ transport[s] = "open"
  /\ s < MaxSessions
  /\ transport' = [transport EXCEPT ![s] = "lost"]
  /\ UNCHANGED <<coordinatorVars, session, serviceStopping, lockq, place,
                 opened, using, sent, controllerStarted, failures>>

\* The iterator raises, ends or yields an error event, or an event shows that
\* the session was replaced: the finally clause of _bridge_events.
EventsEnd(s) ==
  /\ place[Events(s)] = "run"
  /\ s < MaxSessions \/ session # s
  /\ IF serviceStopping
       THEN /\ place' = [place EXCEPT ![Events(s)] = "done"]
            /\ UNCHANGED lockq
       ELSE /\ place' = [place EXCEPT ![Events(s)] = "reset lock"]
            /\ lockq' = Append(lockq, Events(s))
  /\ UNCHANGED <<coordinatorVars, session, serviceStopping, opened, transport,
                 using, sent, controllerStarted, failures>>

\* transport_closed is set by the end of the model's listener, whoever ended it.
TransportClosed(s) ==
  /\ place[Watch(s)] = "wait"
  /\ transport[s] \in {"lost", "closed"}
  /\ IF serviceStopping \/ session # s
       THEN /\ place' = [place EXCEPT ![Watch(s)] = "done"]
            /\ UNCHANGED lockq
       ELSE /\ place' = [place EXCEPT ![Watch(s)] = "reset lock"]
            /\ lockq' = Append(lockq, Watch(s))
  /\ UNCHANGED <<coordinatorVars, session, serviceStopping, opened, transport,
                 using, sent, controllerStarted, failures>>

-----------------------------------------------------------------------------
\* _reset_failed_session

\* Where a task goes when its reset returns.
AfterReset(t) == IF t = WorkerTask THEN "idle" ELSE "done"

\* Back in _start_turn, the worker's start_response returns as well.
ReturnFromReset(t) ==
  IF t = WorkerTask THEN TC!Started ELSE UNCHANGED coordinatorVars

\* Somebody else has dealt with the failed session.
ResetTooLate(t) ==
  /\ place[t] = "reset lock"
  /\ Holds(t)
  /\ session # FailedOf(t)
  /\ lockq' = Tail(lockq)
  /\ place' = [place EXCEPT ![t] = AfterReset(t)]
  /\ ReturnFromReset(t)
  /\ UNCHANGED <<session, serviceStopping, opened, transport, using, sent,
                 controllerStarted, failures>>

\* Faulty variant: whatever session there is gets reset.
StillFailedUnchecked(t) ==
  /\ place[t] = "reset lock"
  /\ Holds(t)

\* The failed session is still the current one.
StillFailed(t) ==
  /\ place[t] = "reset lock"
  /\ Holds(t)
  /\ session = FailedOf(t)

\* The turn is interrupted first; cancel_response is awaited.
ResetInterrupts(t) ==
  /\ StillFailed(t)
  /\ TC!InterruptBegin(t)
  /\ place' = [place EXCEPT ![t] = "reset cancel"]
  /\ UNCHANGED <<session, serviceStopping, lockq, opened, transport, using,
                 sent, controllerStarted, failures>>

\* Faulty variant: the session is dropped without interrupting its turn.
ResetDropsWithoutInterrupt(t) ==
  /\ \/ StillFailed(t) /\ UNCHANGED coordinatorVars
     \/ place[t] = "reset cancel" /\ TC!InterruptEnd(t)
  /\ session' = 0
  /\ place' = [place EXCEPT ![t] = "reset close"]
  /\ UNCHANGED <<serviceStopping, lockq, opened, transport, using, sent,
                 controllerStarted, failures>>

\* The turn is over or there was none: the session is dropped and its close
\* awaited, then the display events.
ResetDropsSession(t) ==
  /\ \/ StillFailed(t) /\ turn = TC!NoTurn /\ UNCHANGED coordinatorVars
     \/ place[t] = "reset cancel" /\ TC!InterruptEnd(t)
  /\ session' = 0
  /\ place' = [place EXCEPT ![t] = "reset close"]
  /\ UNCHANGED <<serviceStopping, lockq, opened, transport, using, sent,
                 controllerStarted, failures>>

\* Faulty variant: the failed session is forgotten but not closed.
ClosedNever(s) == UNCHANGED transport

\* session.close() has returned, or has been given up after its timeout with
\* the connection in an unknown state.
Closed(s) ==
  IF s = 0 THEN UNCHANGED transport
           ELSE \E end \in {"closed", "stuck"} :
                  transport' = [transport EXCEPT ![s] = end]

\* Faulty variant: a second reconnect loop is started beside the first.
MayReconnectTwice == ~serviceStopping /\ session = 0

\* _schedule_reconnect: one reconnect task at most, none while stopping.
MayReconnect == ~serviceStopping /\ session = 0 /\ place[Reconnect] = "idle"

\* The lock is released and, in the same step, a reconnect scheduled.
ResetReturns(t) ==
  /\ place[t] = "reset close"
  /\ Closed(FailedOf(t))
  /\ lockq' = Tail(lockq)
  /\ place' = [place EXCEPT ![t] = AfterReset(t),
                 ![Reconnect] = IF MayReconnect THEN "check" ELSE @]
  /\ ReturnFromReset(t)
  /\ UNCHANGED <<session, serviceStopping, opened, using, sent,
                 controllerStarted, failures>>

-----------------------------------------------------------------------------
\* _reconnect_until_ready

\* Faulty variant: the loop ends after a failed attempt.
ReconnectChecksOnce ==
  /\ place[Reconnect] \in {"check", "sleep"}
  /\ IF serviceStopping \/ session # 0 \/ place[Reconnect] = "sleep"
       THEN /\ place' = [place EXCEPT ![Reconnect] = "idle"]
            /\ UNCHANGED lockq
       ELSE /\ place' = [place EXCEPT ![Reconnect] = "lock"]
            /\ lockq' = Append(lockq, Reconnect)
  /\ UNCHANGED <<coordinatorVars, session, serviceStopping, opened, transport,
                 using, sent, controllerStarted, failures>>

\* The loop condition, at the start and after every sleep.
ReconnectChecks ==
  /\ place[Reconnect] \in {"check", "sleep"}
  /\ IF serviceStopping \/ session # 0
       THEN /\ place' = [place EXCEPT ![Reconnect] = "idle"]
            /\ UNCHANGED lockq
       ELSE /\ place' = [place EXCEPT ![Reconnect] = "lock"]
            /\ lockq' = Append(lockq, Reconnect)
  /\ UNCHANGED <<coordinatorVars, session, serviceStopping, opened, transport,
                 using, sent, controllerStarted, failures>>

\* stop() cancelled the loop during a connection attempt: on the way out the
\* half-open session is closed, unless the close is given up or is itself what
\* was cancelled, and the lock released.
ReconnectAborted ==
  /\ place[Reconnect] = "abort"
  /\ place' = [place EXCEPT ![Reconnect] = "idle"]
  /\ lockq' = Tail(lockq)
  /\ UNCHANGED <<coordinatorVars, session, serviceStopping, opened, transport,
                 using, sent, controllerStarted, failures>>

-----------------------------------------------------------------------------
\* stop()

\* _stopping is set before the lock is taken.  A reconnect task is cancelled;
\* unless it has the lock for an attempt it ends at once.  Only then does stop()
\* queue for the lock.
StopCalled ==
  /\ place[Stopper] = "idle"
  /\ place[Client] = "idle"
  /\ serviceStopping' = TRUE
  /\ IF place[Reconnect] = "idle"
       THEN /\ place' = [place EXCEPT ![Stopper] = "stop lock"]
            /\ lockq' = Append(lockq, Stopper)
       ELSE /\ place' = [place EXCEPT ![Stopper] = "await reconnect",
                   ![Reconnect] = IF @ \in Attempts THEN "abort" ELSE "idle"]
            /\ lockq' = IF place[Reconnect] \in Attempts
                          THEN lockq ELSE Without(lockq, Reconnect)
  /\ UNCHANGED <<coordinatorVars, session, opened, transport, using, sent,
                 controllerStarted, failures>>

StopReconnectEnded ==
  /\ place[Stopper] = "await reconnect"
  /\ place[Reconnect] # "abort"
  /\ place' = [place EXCEPT ![Stopper] = "stop lock"]
  /\ lockq' = Append(lockq, Stopper)
  /\ UNCHANGED <<coordinatorVars, session, serviceStopping, opened, transport,
                 using, sent, controllerStarted, failures>>

\* With the lock, coordinator.stop() cancels the loop.
StopsCoordinator ==
  /\ place[Stopper] = "stop lock"
  /\ Holds(Stopper)
  /\ TC!StopBegin
  /\ place' = [place EXCEPT ![Stopper] = "await worker"]
  /\ UNCHANGED <<session, serviceStopping, lockq, opened, transport, using,
                 sent, controllerStarted, failures>>

\* The loop ends wherever it is; in the lock's queue it gives up its place.
WorkerEnds ==
  /\ TC!WorkerCancelled
  /\ place' = [place EXCEPT ![WorkerTask] = "idle"]
  /\ lockq' = Without(lockq, WorkerTask)
  /\ UNCHANGED <<session, serviceStopping, opened, transport, using, sent,
                 controllerStarted, failures>>

\* Faulty variant: the finally clause resets the session even while stopping.
StopsEventsWithReset ==
  LET e == Events(opened) IN
  /\ place[Stopper] = "await worker"
  /\ TC!StopEnd
  /\ IF place[e] = "run"
       THEN /\ place' = [place EXCEPT ![Stopper] = "await events",
                                      ![e] = "reset lock"]
            /\ lockq' = Append(lockq, e)
       ELSE /\ place' = [place EXCEPT ![Stopper] = "await events",
                                      ![e] = "done"]
            /\ lockq' = Without(lockq, e)
  /\ UNCHANGED <<session, serviceStopping, opened, transport, using, sent,
                 controllerStarted, failures>>

\* Then the newest event task is cancelled.  In its loop it runs the finally
\* clause, which looks at _stopping; in the lock's queue it just ends.
StopsEvents ==
  LET e == Events(opened) IN
  /\ place[Stopper] = "await worker"
  /\ TC!StopEnd
  /\ IF place[e] = "run" /\ ~serviceStopping
       THEN /\ place' = [place EXCEPT ![Stopper] = "await events",
                                      ![e] = "reset lock"]
            /\ lockq' = Append(lockq, e)
       ELSE /\ place' = [place EXCEPT ![Stopper] = "await events",
                                      ![e] = "done"]
            /\ lockq' = Without(lockq, e)
  /\ UNCHANGED <<session, serviceStopping, opened, transport, using, sent,
                 controllerStarted, failures>>

\* Then the session is closed, the tools drained, the controller stopped and
\* the lock released.
StopCloses ==
  /\ place[Stopper] = "await events"
  /\ place[Events(opened)] = "done"
  /\ session' = 0
  /\ Closed(session)
  /\ controllerStarted' = FALSE
  /\ lockq' = Tail(lockq)
  /\ place' = [place EXCEPT ![Stopper] = "await watch"]
  /\ UNCHANGED <<coordinatorVars, serviceStopping, opened, using, sent,
                 failures>>

\* Last, the newest transport watch is awaited.
StopReturns ==
  /\ place[Stopper] = "await watch"
  /\ place[Watch(opened)] = "done"
  /\ place' = [place EXCEPT ![Stopper] = "stopped"]
  /\ UNCHANGED <<coordinatorVars, session, serviceStopping, lockq, opened,
                 transport, using, sent, controllerStarted, failures>>

\* The process ends after stop() has returned and nothing is left to do.
Exit ==
  /\ place[Stopper] = "stopped"
  /\ UNCHANGED vars

-----------------------------------------------------------------------------
Start(t) == \/ StartFindsSession(t) \/ OpenBegin(t)
            \/ OpenSucceeds(t) \/ OpenFails(t) \/ Discarded(t)
Reset(t) == \/ ResetTooLate(t) \/ ResetInterrupts(t)
            \/ ResetDropsSession(t) \/ ResetReturns(t)
Loop == WorkerInterrupts \/ TurnBegins \/ WorkerEnds
Send == SendSucceeds \/ SendFails
Reconnecting == ReconnectChecks \/ ReconnectAborted
Stop == \/ StopReconnectEnded \/ StopsCoordinator \/ StopsEvents
        \/ StopCloses \/ StopReturns

Next ==
  \/ \E t \in Starters : Start(t)
  \/ \E t \in Resetters : Reset(t)
  \/ \E s \in Sessions :
       ConnectionLost(s) \/ EventsEnd(s) \/ TransportClosed(s)
  \/ ClientSubmits \/ ClientCancelled
  \/ Loop \/ Send \/ ResponseDone
  \/ Reconnecting
  \/ StopCalled \/ Stop \/ Exit

Spec == Init /\ [][Next]_vars

\* Ready tasks run, and every operation awaited under the lock has a timeout.
\* send_message has none, and is awaited without the lock: it may never return.
\* Nobody must submit, disconnect, lose a connection, answer or stop.
Fairness ==
  /\ \A t \in Starters : WF_vars(Start(t))
  /\ \A t \in Resetters : WF_vars(Reset(t))
  /\ \A s \in Sessions : WF_vars(TransportClosed(s))
  /\ WF_vars(Loop)
  /\ WF_vars(Reconnecting)
  /\ WF_vars(Stop)

FairSpec == Spec /\ Fairness

-----------------------------------------------------------------------------
Places == {"none", "idle", "lock", "connect", "discard", "send", "run", "wait",
           "reset lock", "reset cancel", "reset close", "check", "sleep",
           "abort", "done", "stop lock", "await reconnect", "await worker",
           "await events", "await watch", "stopped"}

\* Types, the coordinator's included; no task is in the lock's queue twice.
TypeOK ==
  /\ TC!TypeOK
  /\ session \in {0} \cup Sessions
  /\ serviceStopping \in BOOLEAN
  /\ lockq \in Seq(Tasks)
  /\ \A i, j \in 1..Len(lockq) : lockq[i] = lockq[j] => i = j
  /\ place \in [Tasks -> Places]
  /\ opened \in Sessions
  /\ transport \in [Sessions -> {"none", "open", "lost", "closed", "stuck"}]
  /\ using \in {0} \cup Sessions
  /\ sent \in ({0} \cup 1..MaxTexts) \X ({0} \cup Sessions)
  /\ controllerStarted \in BOOLEAN
  /\ failures \in 0..MaxFailures

\* "Session startup is serialized" (docs/realtime-v2-reliability.md:27): of the
\* sessions that have been opened, or are being opened, one at most has been
\* neither closed nor given up after the timeout of its close.  So a failed
\* session or attempt is closed, or its close given up, before another attempt
\* begins.  One that was given up is not counted: its connection is in an unknown
\* state and may be open beside the one that replaced it.
OneLiveSession ==
  LET live == {s \in Sessions : transport[s] \in {"open", "lost"}}
      opening == {t \in Starters : place[t] \in Attempts}
  IN  Cardinality(live) + Cardinality(opening) <= 1

\* A failure noticed late, by any of the three tasks that can notice one, takes
\* down the session that failed and never the one that has replaced it.
LateFailureHarmless ==
  [][session # 0 /\ session' # session
       => /\ session' = 0
          /\ \/ place[Stopper] = "await events"
             \/ \E t \in Resetters : place[t] # "reset close"
                                    /\ place'[t] = "reset close"
                                    /\ FailedOf(t) = session]_vars

\* No turn goes on responding once the session its message went to is gone:
\* a reset withdraws the turn before it drops the session, and a turn begun
\* during the reset goes to the next session.
NoTurnOnDeadSession ==
  turn.phase = "responding" /\ sent[1] = turn.id => sent[2] = session

\* "Invalidate the dead session, and immediately reconnect with bounded
\* exponential backoff" (docs/realtime-v2-reliability.md:18): after a loss of
\* the current connection there is an open session again, unless the service
\* is being stopped, whichever tasks notice the loss and in which order.
Recovers ==
  session # 0 /\ transport[session] = "lost"
    ~> \/ session # 0 /\ transport[session] = "open"
       \/ place[Stopper] # "idle"

\* stop() returns, provided nobody clears _stopping behind its back and the
\* session's close did not time out (which may leave transport_closed unset).
StopReturnsUnlessReopened ==
  place[Stopper] # "idle"
    ~> \/ place[Stopper] = "stopped"
       \/ ~serviceStopping
       \/ transport[opened] = "stuck"

\* The claim of docs/realtime-agents-sdk-rewrite.md:112 ("Shutdown closes the
\* active SDK session, cancels active local tasks, closes local audio output,
\* and stops the controller") as far as a close that works allows it.
ShutdownCompletes ==
  place[Stopper] # "idle"
    ~> place[Stopper] = "stopped" \/ transport[opened] = "stuck"

\* The claim of the same line that an unrecoverable session error returns to
\* attract: a turn whose start_response has returned has a message in the
\* session, so that it will be answered, fail or be withdrawn.
NoTurnWithoutMessage ==
  worker = "get" /\ turn.phase = "responding" => sent[1] = turn.id
=============================================================================
