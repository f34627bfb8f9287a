--------------------------- MODULE HardwareTools ----------------------------
(***************************************************************************)
(* agent/realtime_service/claw_tools.py: physical tool calls, serialized   *)
(* by one lock, each bound to the turn that asked for it.                  *)
(*                                                                         *)
(* A call is two asyncio tasks: the tool coroutine the SDK runs, and the   *)
(* execution task it creates and shields, which owns the lock while the    *)
(* controller works.  The SDK may cancel the first at any await (session   *)
(* close); only drain() cancels the second; the controller gives up on a   *)
(* command that is not answered in time.  Neither says anything about the  *)
(* machine, so the commands the machine is working on are kept apart from  *)
(* the tasks, in onWire.                                                   *)
(***************************************************************************)
EXTENDS WaitQueue, FiniteSets

CONSTANTS Calls,       \* the tool calls the model makes
          MaxTurns     \* bound on the number of turns

ASSUME CallsAssumption == IsFiniteSet(Calls) /\ MaxTurns \in Nat \ {0}

VARIABLES
  current,      \* the eligible turn, 0 when there is none (TurnCoordinator)
  lastTurn,     \* number of turns begun
  origin,       \* per call, the turn it is bound to (_tool_turns), 0 unbound
  caller,       \* per call, where its tool coroutine is
  exec,         \* per call, where its execution task is
  lockq,        \* _hardware_lock: its holder first, then those who wait
  onWire,       \* commands sent to the machine and not ended there
  drain,        \* where drain() is
  drained       \* the execution tasks drain() waits for

vars == <<current, lastTurn, origin, caller, exec, lockq, onWire, drain,
          drained>>

Turns == 1..MaxTurns

Init ==
  /\ current = 0
  /\ lastTurn = 0
  /\ origin = [c \in Calls |-> 0]
  /\ caller = [c \in Calls |-> "none"]
  /\ exec = [c \in Calls |-> "none"]
  /\ lockq = <<>>
  /\ onWire = {}
  /\ drain = "idle"
  /\ drained = {}

-----------------------------------------------------------------------------
\* The coordinator, as far as is_current() shows it.

TurnBegins ==
  /\ current = 0
  /\ lastTurn < MaxTurns
  /\ drain = "idle"
  /\ lastTurn' = lastTurn + 1
  /\ current' = lastTurn + 1
  /\ UNCHANGED <<origin, caller, exec, lockq, onWire, drain, drained>>

TurnEnds ==
  /\ current # 0
  /\ current' = 0
  /\ UNCHANGED <<lastTurn, origin, caller, exec, lockq, onWire, drain, drained>>

-----------------------------------------------------------------------------
\* The tool coroutine

\* _has_active_turn() in the context of the call (_invoking_turn).
IsCurrent(c) == current = origin[c]

\* invoke_for_turn: a call of a turn that is over is answered at once.  A motion
\* tool broadcasts its display events before it reaches _physical; the others
\* go there directly.
Invoke(c, t) ==
  /\ caller[c] = "none"
  /\ t <= lastTurn
  /\ origin' = [origin EXCEPT ![c] = t]
  /\ \/ t # current /\ caller' = [caller EXCEPT ![c] = "rejected"]
     \/ t = current /\ \E at \in {"motion", "emit"} :
                         caller' = [caller EXCEPT ![c] = at]
  /\ UNCHANGED <<current, lastTurn, exec, lockq, onWire, drain, drained>>

\* _physical up to its first broadcast.
PhysicalChecks(c) ==
  /\ caller[c] = "motion"
  /\ caller' = [caller EXCEPT ![c] = IF IsCurrent(c) THEN "emit" ELSE "rejected"]
  /\ UNCHANGED <<current, lastTurn, origin, exec, lockq, onWire, drain, drained>>

\* After the broadcast the execution task is created; the coroutine awaits its
\* shield.
CreateExecution(c) ==
  /\ caller[c] = "emit"
  /\ caller' = [caller EXCEPT ![c] = "wait"]
  /\ exec' = [exec EXCEPT ![c] = "queued"]
  /\ lockq' = Append(lockq, c)
  /\ UNCHANGED <<current, lastTurn, origin, onWire, drain, drained>>

\* The ends of an execution.
Ended == {"answered", "unanswered", "refused", "cancelled"}

\* The result, or the cancellation, of the execution reaches the coroutine.
Report(c) ==
  /\ caller[c] = "wait"
  /\ exec[c] \in Ended
  /\ caller' = [caller EXCEPT ![c] =
                  CASE exec[c] = "answered" -> "complete"
                    [] exec[c] = "unanswered" -> "failed"
                    [] exec[c] = "refused" -> "rejected"
                    [] OTHER -> "cancelled"]
  /\ UNCHANGED <<current, lastTurn, origin, exec, lockq, onWire, drain, drained>>

\* Faulty variant: the execution is awaited without a shield.
ToolCancelledUnshielded(c) ==
  /\ caller[c] \in {"motion", "emit", "wait"}
  /\ caller' = [caller EXCEPT ![c] = "cancelled"]
  /\ exec' = [exec EXCEPT ![c] =
                IF @ \in {"queued", "command"} THEN "cancelled" ELSE @]
  /\ lockq' = Without(lockq, c)
  /\ UNCHANGED <<current, lastTurn, origin, onWire, drain, drained>>

\* SDK session cleanup cancels the coroutine; the execution goes on.
ToolCancelled(c) ==
  /\ caller[c] \in {"motion", "emit", "wait"}
  /\ caller' = [caller EXCEPT ![c] = "cancelled"]
  /\ UNCHANGED <<current, lastTurn, origin, exec, lockq, onWire, drain, drained>>

-----------------------------------------------------------------------------
\* The execution task, _run_physical

Holds(c) == lockq # <<>> /\ Head(lockq) = c

\* Faulty variant: no second look at the turn once the lock is held.
LockGrantedUnchecked(c) ==
  /\ exec[c] = "queued"
  /\ Holds(c)
  /\ exec' = [exec EXCEPT ![c] = "command"]
  /\ onWire' = onWire \cup {c}
  /\ UNCHANGED <<current, lastTurn, origin, caller, lockq, drain, drained>>

\* Under the lock the turn is looked at again, and the command is dispatched in
\* the same step.
LockGranted(c) ==
  /\ exec[c] = "queued"
  /\ Holds(c)
  /\ IF IsCurrent(c)
       THEN /\ exec' = [exec EXCEPT ![c] = "command"]
            /\ onWire' = onWire \cup {c}
            /\ UNCHANGED lockq
       ELSE /\ exec' = [exec EXCEPT ![c] = "refused"]
            /\ lockq' = Tail(lockq)
            /\ UNCHANGED onWire
  /\ UNCHANGED <<current, lastTurn, origin, caller, drain, drained>>

\* Faulty variant: the lock is not released with the answer.
CommandAnsweredKeepsLock(c) ==
  /\ exec[c] = "command"
  /\ c \in onWire
  /\ exec' = [exec EXCEPT ![c] = "answered"]
  /\ onWire' = onWire \ {c}
  /\ UNCHANGED <<current, lastTurn, origin, caller, lockq, drain, drained>>

\* The machine answers in time and the controller call returns.
CommandAnswered(c) ==
  /\ exec[c] = "command"
  /\ c \in onWire
  /\ exec' = [exec EXCEPT ![c] = "answered"]
  /\ onWire' = onWire \ {c}
  /\ lockq' = Tail(lockq)
  /\ UNCHANGED <<current, lastTurn, origin, caller, drain, drained>>

\* Faulty variant: the controller's TIMEOUT is taken for an answer.
CommandGivenUpAnswers(c) ==
  /\ exec[c] = "command"
  /\ exec' = [exec EXCEPT ![c] = "answered"]
  /\ lockq' = Tail(lockq)
  /\ UNCHANGED <<current, lastTurn, origin, caller, onWire, drain, drained>>

\* The controller call returns, or raises, without the machine's answer: TIMEOUT,
\* or a failed write (_send).  The lock is released although the machine may
\* still be at the command: RAISE is given up after 15 s, the firmware goes on
\* for up to 20 s.
CommandGivenUp(c) ==
  /\ exec[c] = "command"
  /\ exec' = [exec EXCEPT ![c] = "unanswered"]
  /\ lockq' = Tail(lockq)
  /\ UNCHANGED <<current, lastTurn, origin, caller, onWire, drain, drained>>

\* The machine ends a command nobody waits for any more.
MachineFinishes(c) ==
  /\ exec[c] \in {"cancelled", "unanswered"}
  /\ c \in onWire
  /\ onWire' = onWire \ {c}
  /\ UNCHANGED <<current, lastTurn, origin, caller, exec, lockq, drain, drained>>

-----------------------------------------------------------------------------
\* drain(), called by stop() after the coordinator has been stopped

Running == {c \in Calls : exec[c] \in {"queued", "command"}}

DrainBegin ==
  /\ drain = "idle"
  /\ current = 0
  /\ drain' = IF Running = {} THEN "over" ELSE "wait"
  /\ drained' = Running
  /\ UNCHANGED <<current, lastTurn, origin, caller, exec, lockq, onWire>>

\* asyncio.wait returns when all are done, or after its timeout.
DrainWaited ==
  /\ drain = "wait"
  /\ drain' = IF drained \cap Running = {} THEN "over" ELSE "grace"
  /\ UNCHANGED <<current, lastTurn, origin, caller, exec, lockq, onWire, drained>>

\* A cancelled execution ends: waiting, it gives up its place; in a command, it
\* releases the lock although the machine has not answered.  A controller that
\* suppresses the cancellation just goes on.
ExecutionCancelled(c) ==
  /\ drain \in {"grace", "over"}
  /\ c \in drained \cap Running
  /\ exec' = [exec EXCEPT ![c] = "cancelled"]
  /\ lockq' = Without(lockq, c)
  /\ UNCHANGED <<current, lastTurn, origin, caller, onWire, drain, drained>>

\* The second, shorter wait is over.
DrainOver ==
  /\ drain = "grace"
  /\ drain' = "over"
  /\ UNCHANGED <<current, lastTurn, origin, caller, exec, lockq, onWire, drained>>

\* Nothing is left to do.
Quiet ==
  /\ drain = "over"
  /\ Running = {}
  /\ UNCHANGED vars

-----------------------------------------------------------------------------
Tool(c) == PhysicalChecks(c) \/ CreateExecution(c) \/ Report(c)
Execution(c) == LockGranted(c) \/ CommandAnswered(c) \/ CommandGivenUp(c)

Next ==
  \/ TurnBegins \/ TurnEnds
  \/ \E c \in Calls :
       \/ \E t \in Turns : Invoke(c, t)
       \/ Tool(c) \/ ToolCancelled(c)
       \/ Execution(c) \/ MachineFinishes(c) \/ ExecutionCancelled(c)
  \/ DrainBegin \/ DrainWaited \/ DrainOver
  \/ Quiet

Spec == Init /\ [][Next]_vars

\* Ready tasks run; every controller command is answered or given up on: its
\* write ends and its wait has a timeout (legacy_controller.py,
\* DEFAULT_TIMEOUT_S and HOME_TIMEOUT_S); asyncio.wait has a timeout.  Turns,
\* calls, cancellations and shutdown come or do not come.
Fairness ==
  /\ \A c \in Calls : WF_vars(Tool(c)) /\ WF_vars(Execution(c))
  /\ WF_vars(DrainWaited) /\ WF_vars(DrainOver)

FairSpec == Spec /\ Fairness

-----------------------------------------------------------------------------
\* Types; an execution is in the lock's queue exactly while it runs.
TypeOK ==
  /\ current \in {0} \cup Turns
  /\ lastTurn \in {0} \cup Turns
  /\ origin \in [Calls -> {0} \cup Turns]
  /\ caller \in [Calls -> {"none", "motion", "emit", "wait", "complete",
                           "failed", "rejected", "cancelled"}]
  /\ exec \in [Calls -> {"none", "queued", "command"} \cup Ended]
  /\ lockq \in Seq(Calls)
  /\ {lockq[i] : i \in 1..Len(lockq)} = Running
  /\ onWire \subseteq Calls
  /\ drain \in {"idle", "wait", "grace", "over"}
  /\ drained \subseteq Calls

\* The commands at the machine that the controller has not given up on.
Awaited == {c \in onWire : exec[c] # "unanswered"}

\* "No two controller command tools run concurrently"
\* (docs/realtime-agents-sdk-rewrite.md:118), counted at the machine: whatever
\* the SDK and the shutdown cancel, a command is sent only after the one before
\* it has been answered there or the controller has given up on it.  After a
\* TIMEOUT the machine may have two: it answers the second BUSY (SerialLink).
OneCommandAtATime == Cardinality(Awaited) <= 1

\* "Old tool waits for the controller lock during replacement"
\* (docs/realtime-v2-reliability.md:25): a command reaches the machine only
\* while the very turn that asked for it is current.
NoStaleCommand ==
  [][\A c \in Calls : c \in onWire' \ onWire => origin[c] = current']_vars

\* "An already-dispatched command is never claimed to have stopped merely
\* because an asyncio task was cancelled" (docs/realtime-agents-sdk-rewrite.md
\* :118): while the machine works on a command its coroutine returns neither that
\* it was carried out nor that it was never sent.  All it may return is the
\* controller's failure, TIMEOUT or ERR, which says neither.
NoFalseCompletion ==
  \A c \in onWire : caller[c] \notin {"complete", "rejected"}

\* Every physical call that is queued comes to an end, and so does drain():
\* cancelled coroutines and refused executions never leave the lock taken.
QueueMoves ==
  /\ \A c \in Calls :
       exec[c] = "queued" ~> exec[c] \in Ended
  /\ drain = "wait" ~> drain = "over"
=============================================================================
