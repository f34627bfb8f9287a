-------------------------- MODULE TurnCoordinator ---------------------------
(***************************************************************************)
(* agent/realtime_service/turn_coordinator.py: the single owner of the     *)
(* latest-text-wins turn state.                                            *)
(*                                                                         *)
(* One asyncio task runs the loop _run; other tasks of the service call    *)
(* submit, interrupt, finish, start and stop.  asyncio switches tasks only *)
(* at an await, so an action is the code from one await to the next.  The  *)
(* two callbacks are awaited: cancel_response between the marking and the  *)
(* clearing of an interrupted turn, start_response at the end of the loop. *)
(*                                                                         *)
(* A command is represented by the number of its submission, which makes   *)
(* "newer" the order of the integers.                                      *)
(***************************************************************************)
EXTENDS Integers

CONSTANTS Callers,    \* tasks that call interrupt() from outside the loop
          MaxTexts    \* bound on the number of submitted commands

ASSUME MaxTextsAssumption == MaxTexts \in Nat \ {0}

Texts == 1..MaxTexts
Ids == 1..MaxTexts    \* every turn takes a command, so ids are bounded too

VARIABLES
  pending,        \* _pending: the command in the one-place queue, 0 if empty
  turn,           \* _turn
  nextId,         \* _next_id
  worker,         \* where _task is
  held,           \* the command _run holds while it awaits cancel_response
  interrupting,   \* per caller, the interrupted_id it awaits, 0 when none
  stopping,       \* a stop() has cancelled _task and awaits its end
  submitted,      \* history: number of the newest submitted command
  begun,          \* history: number of the newest command made a turn
  dropped         \* history: newest command lost with a cancelled worker

vars == <<pending, turn, nextId, worker, held, interrupting, stopping,
          submitted, begun, dropped>>

NoTurn == [id |-> 0, text |-> 0, phase |-> "idle"]

Turn == [id : Ids, text : Texts, phase : {"responding", "interrupting"}]

\* "none": _task is None; "get", "cancel", "start": the await _run is at;
\* "dead": the task has ended and stop() has not yet forgotten it.
WorkerPlaces == {"none", "get", "cancel", "start", "dead"}

Init ==
  /\ pending = 0
  /\ turn = NoTurn
  /\ nextId = 0
  /\ worker = "none"
  /\ held = 0
  /\ interrupting = [c \in Callers |-> 0]
  /\ stopping = FALSE
  /\ submitted = 0
  /\ begun = 0
  /\ dropped = 0

-----------------------------------------------------------------------------
\* Operators of the class

IsCurrent(id) == turn.id = id /\ turn.phase = "responding"

\* Faulty variant: the turn stays eligible until cancel_response returns.
MarkedTooLate == turn

\* The first half of interrupt(): the turn is ineligible before any await.
Marked == [turn EXCEPT !.phase = "interrupting"]

\* Faulty variant: the check of the turn generation is missing.
ClearedWhateverIsCurrent(id) == NoTurn

\* The second half of interrupt(): only the turn it started against, and
\* only if it is still being interrupted, is cleared.
ClearedBy(id) ==
  IF turn.id = id /\ turn.phase = "interrupting" THEN NoTurn ELSE turn

Replacement(text) == [id |-> nextId + 1, text |-> text, phase |-> "responding"]

-----------------------------------------------------------------------------
\* Calls from other tasks of the service

\* start(): creates the task unless there is one.
Start ==
  /\ worker = "none"
  /\ worker' = "get"
  /\ UNCHANGED <<pending, turn, nextId, held, interrupting, stopping,
                 submitted, begun, dropped>>

\* Faulty variant: a full queue rejects the new command.
SubmitKeepsOld ==
  /\ submitted < MaxTexts
  /\ submitted' = submitted + 1
  /\ pending' = IF pending = 0 THEN submitted + 1 ELSE pending
  /\ UNCHANGED <<turn, nextId, worker, held, interrupting, stopping, begun,
                 dropped>>

\* submit(): a command already waiting is replaced.
Submit ==
  /\ submitted < MaxTexts
  /\ submitted' = submitted + 1
  /\ pending' = submitted + 1
  /\ UNCHANGED <<turn, nextId, worker, held, interrupting, stopping, begun,
                 dropped>>

\* Faulty variant: the early return without a turn is missing.
InterruptBeginWithoutTurn(c) ==
  /\ interrupting[c] = 0
  /\ turn' = Marked
  /\ interrupting' = [interrupting EXCEPT ![c] = turn.id]
  /\ UNCHANGED <<pending, nextId, worker, held, stopping, submitted, begun,
                 dropped>>

\* interrupt() up to its await; without a turn it returns at once.
InterruptBegin(c) ==
  /\ interrupting[c] = 0
  /\ turn # NoTurn
  /\ turn' = Marked
  /\ interrupting' = [interrupting EXCEPT ![c] = turn.id]
  /\ UNCHANGED <<pending, nextId, worker, held, stopping, submitted, begun,
                 dropped>>

\* interrupt() after cancel_response has returned.
InterruptEnd(c) ==
  /\ interrupting[c] # 0
  /\ turn' = ClearedBy(interrupting[c])
  /\ interrupting' = [interrupting EXCEPT ![c] = 0]
  /\ UNCHANGED <<pending, nextId, worker, held, stopping, submitted, begun,
                 dropped>>

\* finish(turn_id) for the current turn; for any other id it changes nothing.
Finish(id) ==
  /\ IsCurrent(id)
  /\ turn' = NoTurn
  /\ UNCHANGED <<pending, nextId, worker, held, interrupting, stopping,
                 submitted, begun, dropped>>

\* stop() up to its await.  The service calls it under its session lock, so
\* two calls never overlap.
StopBegin ==
  /\ worker # "none"
  /\ ~stopping
  /\ stopping' = TRUE
  /\ UNCHANGED <<pending, turn, nextId, worker, held, interrupting,
                 submitted, begun, dropped>>

\* stop() after the cancelled task has ended.  Neither the queue nor the id
\* counter is reset.
StopEnd ==
  /\ stopping
  /\ worker = "dead"
  /\ worker' = "none"
  /\ turn' = NoTurn
  /\ stopping' = FALSE
  /\ UNCHANGED <<pending, nextId, held, interrupting, submitted, begun,
                 dropped>>

-----------------------------------------------------------------------------
\* The loop _run

\* The command leaves the queue; the current turn is marked and its response
\* cancelled.  cancel_response is awaited with the command in hand.
TakeAndInterrupt ==
  /\ worker = "get"
  /\ ~stopping
  /\ pending # 0
  /\ turn # NoTurn
  /\ pending' = 0
  /\ held' = pending
  /\ turn' = Marked
  /\ worker' = "cancel"
  /\ UNCHANGED <<nextId, interrupting, stopping, submitted, begun, dropped>>

\* The new turn becomes current and start_response is called.
BeginTurn(text) ==
  /\ nextId' = nextId + 1
  /\ turn' = Replacement(text)
  /\ worker' = "start"
  /\ held' = 0
  /\ begun' = text

\* Faulty variant: the loop does not interrupt the current turn.
TakeAndBeginOverTurn ==
  /\ worker = "get"
  /\ ~stopping
  /\ pending # 0
  /\ BeginTurn(pending)
  /\ pending' = 0
  /\ UNCHANGED <<interrupting, stopping, submitted, dropped>>

\* With no turn to interrupt, _run goes from the queue to start_response
\* without an await.
TakeAndBegin ==
  /\ worker = "get"
  /\ ~stopping
  /\ pending # 0
  /\ turn = NoTurn
  /\ BeginTurn(pending)
  /\ pending' = 0
  /\ UNCHANGED <<interrupting, stopping, submitted, dropped>>

\* Faulty variant: the loop waits for somebody to clear the turn it interrupted.
CancelledThenBeginWaits ==
  /\ worker = "cancel"
  /\ ~stopping
  /\ turn = NoTurn
  /\ BeginTurn(held)
  /\ UNCHANGED <<pending, interrupting, stopping, submitted, dropped>>

\* cancel_response has returned: whatever interrupt() leaves, the assignment
\* that follows replaces it in the same step.
CancelledThenBegin ==
  /\ worker = "cancel"
  /\ ~stopping
  /\ BeginTurn(held)
  /\ UNCHANGED <<pending, interrupting, stopping, submitted, dropped>>

\* start_response has returned.
Started ==
  /\ worker = "start"
  /\ ~stopping
  /\ worker' = "get"
  /\ UNCHANGED <<pending, turn, nextId, held, interrupting, stopping,
                 submitted, begun, dropped>>

\* The cancelled task ends at the await it is at.  A command it holds is gone;
\* one still in the queue stays there (asyncio.Queue.get).
WorkerCancelled ==
  /\ stopping
  /\ worker \in {"get", "cancel", "start"}
  /\ worker' = "dead"
  /\ dropped' = IF worker = "cancel" THEN held ELSE dropped
  /\ held' = 0
  /\ UNCHANGED <<pending, turn, nextId, interrupting, stopping, submitted,
                 begun>>

-----------------------------------------------------------------------------
Worker ==
  \/ TakeAndInterrupt
  \/ TakeAndBegin
  \/ CancelledThenBegin
  \/ Started
  \/ WorkerCancelled

Next ==
  \/ Start
  \/ Submit
  \/ \E c \in Callers : InterruptBegin(c) \/ InterruptEnd(c)
  \/ \E id \in Ids : Finish(id)
  \/ StopBegin
  \/ StopEnd
  \/ Worker

Spec == Init /\ [][Next]_vars

\* The event loop runs every ready task, and both callbacks return: in the
\* service the close of the speaker, the interrupt request, the display
\* broadcast, the connection attempt and the session close have timeouts.  The
\* sending of the message has none; that the socket takes it or fails is assumed.
\* Nothing obliges anyone to submit, interrupt, finish, start or begin a stop.
Fairness ==
  /\ WF_vars(Worker)
  /\ WF_vars(StopEnd)
  /\ \A c \in Callers : WF_vars(InterruptEnd(c))

FairSpec == Spec /\ Fairness

-----------------------------------------------------------------------------
\* Types of the variables of the class and of the histories.
TypeOK ==
  /\ pending \in {0} \cup Texts
  /\ turn \in Turn \cup {NoTurn}
  /\ nextId \in {0} \cup Ids
  /\ worker \in WorkerPlaces
  /\ held \in {0} \cup Texts
  /\ interrupting \in [Callers -> {0} \cup Ids]
  /\ stopping \in BOOLEAN
  /\ submitted \in {0} \cup Texts
  /\ begun \in {0} \cup Texts
  /\ dropped \in {0} \cup Texts

\* A turn somebody is interrupting is not current, from before cancel_response
\* is called until long after it returns, whoever else interrupts, replaces or
\* finishes turns meanwhile (test_interrupt_invalidates_active_turn_before_
\* cancel, over all interleavings).
InterruptedNotCurrent ==
  /\ \A c \in Callers : interrupting[c] # 0 => ~IsCurrent(interrupting[c])
  /\ worker = "cancel" => turn.phase # "responding"

\* The newest command is never lost by replacement: it waits in the queue, is
\* in the loop's hand or has become a turn, unless a stop() cancelled the loop
\* while the loop held it.  After a stop() it may still be in the queue.
NewestTextKept ==
  submitted # 0 => submitted \in {pending, held, begun, dropped}

\* "Two interrupts overlap" (docs/realtime-v2-reliability.md:21): the end of an
\* interrupt clears no turn but the one it started against.
LateInterruptHarmless ==
  [][\A c \in Callers :
       interrupting[c] # 0 /\ interrupting'[c] = 0 /\ turn' # turn
         => turn.id = interrupting[c] /\ turn' = NoTurn]_vars

Running == worker # "none" /\ ~stopping

\* Once the loop stays up, every submitted command, or one submitted after it,
\* becomes a turn: neither overlapping interrupts and finishes nor the stops
\* and restarts before can wedge the loop or strand the queue.  The one
\* exception is a command a stop() took down with the loop.
NewestTextStarts ==
  <>[]Running =>
    \A n \in Texts : submitted = n ~> begun >= n \/ dropped >= n

-----------------------------------------------------------------------------
\* The coordinator implements the abstract latest-text-wins contract.  Every
\* identity handed out and not current has been retired.
Eligible == IF turn.phase = "responding" THEN turn.id ELSE 0

Abstract == INSTANCE LatestTextWins
              WITH eligible <- Eligible,
                   retired <- (1..nextId) \ {Eligible}

\* Every step of the coordinator begins a newer command with a fresh identity
\* while nothing is eligible, ends the eligible turn for good, or is invisible.
ImplementsLatestTextWins == Abstract!Spec
=============================================================================
