------------------------ MODULE HardwareToolsProofs -------------------------
(***************************************************************************)
(* For every finite set of calls and every number of turns: one awaited    *)
(* command at a time at the machine, no false completion, no stale         *)
(* command.                                                                *)
(*                                                                         *)
(* Two arguments meet.  Before drain() begins, a command at the machine    *)
(* belongs to the execution at the head of the lock's queue, whatever      *)
(* became of its coroutine, unless the controller gave up on it.           *)
(* Afterwards the queue says nothing any more (a cancelled execution       *)
(* releases the lock), but no turn is current, so no command can be sent.  *)
(***************************************************************************)
EXTENDS HardwareTools, Queues

\* The types the argument needs; what the queue holds once drain() has begun is
\* of no consequence.
Types ==
  /\ exec \in [Calls -> {"none", "queued", "command", "answered", "unanswered",
                         "refused", "cancelled"}]
  /\ caller \in [Calls -> {"none", "motion", "emit", "wait", "complete",
                           "failed", "rejected", "cancelled"}]
  /\ origin \in [Calls -> {0} \cup Turns]
  /\ lastTurn \in {0} \cup Turns
  /\ drain \in {"idle", "wait", "grace", "over"}
  /\ onWire \subseteq Calls

\* A bound call has a real turn; after the drain has begun there is none.
Bound ==
  /\ \A c \in Calls : caller[c] # "none" => origin[c] # 0
  /\ drain # "idle" => current = 0

\* How far the coroutine is and how far its execution is.
Shielded ==
  \A c \in Calls :
    /\ exec[c] # "none" => caller[c] \notin {"none", "motion", "emit"}
    /\ exec[c] \in {"queued", "command", "cancelled"} =>
         caller[c] \in {"wait", "cancelled"}
    /\ exec[c] = "unanswered" => caller[c] \in {"wait", "failed", "cancelled"}
    /\ c \in onWire => exec[c] \in {"command", "unanswered", "cancelled"}

\* Until drain() begins the lock protects the machine.
Locked ==
  drain = "idle" =>
    /\ lockq \in Seq(Calls)
    /\ \A c \in Calls : exec[c] # "cancelled"
    /\ \A c \in Calls : exec[c] = "command" => lockq # <<>> /\ Head(lockq) = c

Alone ==
  \A c, d \in onWire : exec[c] # "unanswered" /\ exec[d] # "unanswered" => c = d

IInv == Types /\ Bound /\ Shielded /\ Locked /\ Alone

USE CallsAssumption DEF Turns

\* The initial state satisfies the inductive invariant.
LEMMA InitIInv == Init => IInv
BY DEF Init, IInv, Types, Bound, Shielded, Locked, Alone

\* The steps of the coordinator and of the coroutine, which create executions but
\* send nothing.
LEMMA CoroutineIInv ==
  ASSUME IInv,
         \/ TurnBegins \/ TurnEnds
         \/ \E c \in Calls : (\E t \in Turns : Invoke(c, t))
                             \/ Tool(c) \/ ToolCancelled(c)
  PROVE  IInv'
<1> USE DEF IInv, Types, Bound, Shielded, Locked, Alone
<1>1. CASE TurnBegins
  BY <1>1 DEF TurnBegins
<1>2. CASE TurnEnds
  BY <1>2 DEF TurnEnds
<1>3. ASSUME NEW c \in Calls, NEW t \in Turns, Invoke(c, t)
      PROVE  IInv'
  BY <1>3 DEF Invoke
<1>4. ASSUME NEW c \in Calls, PhysicalChecks(c)
      PROVE  IInv'
  BY <1>4 DEF PhysicalChecks, IsCurrent
<1>5. ASSUME NEW c \in Calls, CreateExecution(c)
      PROVE  IInv'
  <2> USE <1>5 DEF CreateExecution
  <2>1. (Types /\ Bound /\ Shielded /\ Alone)'
    OBVIOUS
  <2>2. Locked'
    <3> SUFFICES ASSUME drain = "idle"
                 PROVE  /\ Append(lockq, c) \in Seq(Calls)
                        /\ \A d \in Calls : exec[d] = "command" =>
                             /\ Append(lockq, c) # <<>>
                             /\ Head(Append(lockq, c)) = d
      OBVIOUS
    <3>1. Append(lockq, c) \in Seq(Calls) /\ Append(lockq, c) # <<>>
      OBVIOUS
    <3>2. lockq # <<>> => Head(Append(lockq, c)) = Head(lockq)
      OBVIOUS
    <3> QED
      BY <3>1, <3>2
  <2> QED
    BY <2>1, <2>2
<1>6. ASSUME NEW c \in Calls, Report(c)
      PROVE  IInv'
  BY <1>6 DEF Report, Ended
<1>7. ASSUME NEW c \in Calls, ToolCancelled(c)
      PROVE  IInv'
  BY <1>7 DEF ToolCancelled
<1> QED
  BY <1>1, <1>2, <1>3, <1>4, <1>5, <1>6, <1>7 DEF Tool

\* A command leaves for the machine only while no other is awaited there: its turn
\* is current, so the drain has not begun, so any other would hold the lock.
LEMMA NothingElseAwaited ==
  ASSUME IInv, NEW c \in Calls, LockGranted(c), IsCurrent(c)
  PROVE  (\A d \in onWire : exec[d] = "unanswered") /\ drain = "idle"
<1> USE DEF IInv, LockGranted, IsCurrent
<1>1. origin[c] # 0
  BY DEF Shielded, Bound
<1>2. drain = "idle"
  BY <1>1 DEF Bound
<1>3. ASSUME NEW d \in onWire, exec[d] # "unanswered"
      PROVE  FALSE
  <2>1. d \in Calls /\ exec[d] = "command"
    BY <1>2, <1>3 DEF Types, Shielded, Locked
  <2>2. Head(lockq) = d
    BY <1>2, <2>1 DEF Locked
  <2> QED
    BY <2>1, <2>2 DEF Holds
<1> QED
  BY <1>2, <1>3

\* The steps of the execution task.
LEMMA ExecutionIInv ==
  ASSUME IInv, NEW c \in Calls,
         Execution(c) \/ MachineFinishes(c) \/ ExecutionCancelled(c)
  PROVE  IInv'
<1>1. CASE LockGranted(c) /\ IsCurrent(c)
  <2>1. (\A d \in onWire : exec[d] = "unanswered") /\ drain = "idle"
    BY <1>1, NothingElseAwaited
  <2> QED
    BY <1>1, <2>1
       DEF LockGranted, Holds, IInv, Types, Bound, Shielded, Locked, Alone
<1>2. CASE LockGranted(c) /\ ~IsCurrent(c)
  <2>1. /\ exec[c] = "queued" /\ exec' = [exec EXCEPT ![c] = "refused"]
        /\ lockq # <<>> /\ Head(lockq) = c /\ lockq' = Tail(lockq)
        /\ UNCHANGED <<onWire, current, lastTurn, origin, caller, drain, drained>>
    BY <1>2 DEF LockGranted, Holds
  <2>2. exec'[c] = "refused" /\ \A d \in Calls \ {c} : exec'[d] = exec[d]
    BY <2>1 DEF IInv, Types
  <2>3. Types' /\ Bound'
    BY <2>1 DEF IInv, Types, Bound
  <2>4. Shielded' /\ Alone'
    BY <2>1, <2>2 DEF IInv, Types, Shielded, Alone
  <2>5. Locked'
    BY <2>1, <2>2 DEF IInv, Locked
  <2> QED
    BY <2>3, <2>4, <2>5 DEF IInv
<1>3. CASE CommandAnswered(c)
  <2> USE <1>3 DEF CommandAnswered, IInv
  <2>1. (Types /\ Bound /\ Shielded /\ Alone)'
    BY DEF Types, Bound, Shielded, Alone
  <2>2. Locked'
    BY DEF Locked, Types
  <2> QED
    BY <2>1, <2>2
<1>4. CASE CommandGivenUp(c)
  <2> USE <1>4 DEF CommandGivenUp, IInv
  <2>1. (Types /\ Bound /\ Shielded /\ Alone)'
    BY DEF Types, Bound, Shielded, Alone
  <2>2. Locked'
    BY DEF Locked, Types
  <2> QED
    BY <2>1, <2>2
<1>5. CASE MachineFinishes(c)
  BY <1>5 DEF MachineFinishes, IInv, Types, Bound, Shielded, Locked, Alone
<1>6. CASE ExecutionCancelled(c)
  BY <1>6 DEF ExecutionCancelled, Running, IInv, Types, Bound, Shielded, Locked,
              Alone
<1> QED
  BY <1>1, <1>2, <1>3, <1>5, <1>6, <1>4 DEF Execution

\* Every step keeps the inductive invariant.
LEMMA NextIInv == IInv /\ [Next]_vars => IInv'
<1> SUFFICES ASSUME IInv, [Next]_vars
             PROVE  IInv'
  OBVIOUS
<1>1. CASE DrainBegin \/ DrainWaited \/ DrainOver
  BY <1>1 DEF DrainBegin, DrainWaited, DrainOver,
              IInv, Types, Bound, Shielded, Locked, Alone
<1>2. CASE Quiet \/ UNCHANGED vars
  BY <1>2 DEF Quiet, vars, IInv, Types, Bound, Shielded, Locked, Alone
<1> QED
  BY <1>1, <1>2, CoroutineIInv, ExecutionIInv DEF Next

\* So it holds always.
LEMMA InductiveInvariant == Spec => []IInv
BY InitIInv, NextIInv, PTL DEF Spec

-----------------------------------------------------------------------------
\* One awaited command at a time at the machine, whatever is cancelled: the
\* hardware correctness of docs/realtime-agents-sdk-rewrite.md:118, as far as the
\* controller's timeouts leave it.
THEOREM MutualExclusion == Spec => []OneCommandAtATime
<1>1. ASSUME IInv
      PROVE  OneCommandAtATime
  <2>1. CASE Awaited = {}
    BY <2>1, FS_EmptySet DEF OneCommandAtATime
  <2>2. CASE Awaited # {}
    <3>1. PICK c : Awaited = {c}
      BY <1>1, <2>2 DEF IInv, Alone, Awaited
    <3>2. Cardinality({c}) = 1
      BY FS_Singleton
    <3> QED
      BY <3>1, <3>2 DEF OneCommandAtATime
  <2> QED
    BY <2>1, <2>2
<1> QED
  BY <1>1, InductiveInvariant, PTL

\* No caller is told that a command the machine still works on was carried out, or
\* that it was never sent, not even after a TIMEOUT.
THEOREM HonestCompletion == Spec => []NoFalseCompletion
<1>1. IInv => NoFalseCompletion
  BY DEF IInv, Types, Shielded, NoFalseCompletion
<1> QED
  BY <1>1, InductiveInvariant, PTL

\* A command reaches the machine only in the second look at the turn, under the
\* lock, and that is the turn the call is bound to.
THEOREM FreshCommand == Spec => NoStaleCommand
<1>1. ASSUME [Next]_vars, NEW c \in Calls, c \in onWire' \ onWire
      PROVE  origin[c] = current'
  <2>1. PICK d \in Calls : LockGranted(d)
    <3>1. ~UNCHANGED onWire
      BY <1>1
    <3> QED
      BY <1>1, <3>1
         DEF Next, vars, TurnBegins, TurnEnds, Invoke, Tool, PhysicalChecks,
             CreateExecution, Report, ToolCancelled, Execution, CommandAnswered,
             CommandGivenUp, MachineFinishes, ExecutionCancelled, DrainBegin,
             DrainWaited, DrainOver, Quiet
  <2> QED
    BY <1>1, <2>1 DEF LockGranted, IsCurrent
<1>2. [Next]_vars =>
        [\A c \in Calls : c \in onWire' \ onWire => origin[c] = current']_vars
  BY <1>1
<1> QED
  BY <1>2, PTL DEF Spec, NoStaleCommand
-----------------------------------------------------------------------------
\* The lock's queue

\* It holds the executions that run, each once, and the one in a command is first.
Queue ==
  /\ lockq \in Seq(Calls) /\ Distinct(lockq)
  /\ \A c \in Calls : In(c, lockq) <=> exec[c] \in {"queued", "command"}
  /\ \A c \in Calls : exec[c] = "command" => lockq # <<>> /\ Head(lockq) = c

QInv == Queue /\ current \in {0} \cup Turns /\ drained \subseteq Calls

\* While the queue and the executions stay, so does what is said of them.
LEMMA QueueKept == Queue /\ UNCHANGED <<lockq, exec>> => Queue'
PROOF BY DEF Queue

\* An execution gets in line.
LEMMA CreateExecutionQueue ==
  ASSUME IInv, Queue, NEW c \in Calls, CreateExecution(c)
  PROVE  Queue'
PROOF
<1>1. /\ exec[c] = "none" /\ exec' = [exec EXCEPT ![c] = "queued"]
      /\ lockq' = Append(lockq, c) /\ DOMAIN exec = Calls
  BY DEF CreateExecution, IInv, Types, Shielded
<1>2. ~In(c, lockq) /\ lockq \in Seq(Calls) /\ Distinct(lockq)
  BY <1>1 DEF Queue
<1>3. /\ lockq' \in Seq(Calls) /\ Distinct(lockq') /\ lockq' # <<>>
      /\ \A u : In(u, lockq') <=> In(u, lockq) \/ u = c
      /\ lockq # <<>> => Head(lockq') = Head(lockq)
  BY <1>1, <1>2, QueueAppend
<1> QED BY <1>1, <1>3 DEF Queue

\* The first in line leaves: no other was in a command.
LEMMA HeadLeaves ==
  ASSUME IInv, Queue, NEW c \in Calls, lockq # <<>>, Head(lockq) = c,
         NEW e \in {"answered", "unanswered", "refused"},
         exec' = [exec EXCEPT ![c] = e],
         lockq' = Tail(lockq)
  PROVE  Queue'
PROOF
<1>1. DOMAIN exec = Calls /\ lockq \in Seq(Calls) /\ Distinct(lockq)
  BY DEF IInv, Types, Queue
<1>2. /\ lockq' \in Seq(Calls) /\ Distinct(lockq')
      /\ \A u : In(u, lockq') <=> In(u, lockq) /\ u # c
  BY <1>1, QueueTail
<1>3. \A d \in Calls : exec'[d] # "command"
  BY <1>1 DEF Queue
<1> QED BY <1>1, <1>2, <1>3 DEF Queue

\* A cancelled execution leaves wherever it stands.
LEMMA ExecutionCancelledQueue ==
  ASSUME IInv, Queue, NEW c \in Calls, ExecutionCancelled(c)
  PROVE  Queue'
PROOF
<1>1. /\ DOMAIN exec = Calls /\ lockq \in Seq(Calls) /\ Distinct(lockq)
      /\ exec' = [exec EXCEPT ![c] = "cancelled"] /\ lockq' = Without(lockq, c)
  BY DEF IInv, Types, Queue, ExecutionCancelled
<1>2. /\ lockq' \in Seq(Calls) /\ Distinct(lockq')
      /\ \A u : In(u, lockq') <=> In(u, lockq) /\ u # c
      /\ lockq # <<>> /\ Head(lockq) # c => lockq' # <<>> /\ Head(lockq') = Head(lockq)
  BY <1>1, QueueWithout
<1> QED BY <1>1, <1>2 DEF Queue

\* Every step keeps the queue.
LEMMA NextQInv == IInv /\ QInv /\ [Next]_vars => QInv'
PROOF
<1> SUFFICES ASSUME IInv, QInv, [Next]_vars PROVE QInv'
  OBVIOUS
<1>1. (current \in {0} \cup Turns)'
  <2>1. current \in {0} \cup Turns /\ lastTurn \in {0} \cup Turns /\ MaxTurns \in Nat
    BY DEF QInv, IInv, Types
  <2>2. CASE TurnBegins
    BY <2>1, <2>2 DEF TurnBegins
  <2>3. CASE UNCHANGED current \/ current' = 0
    BY <2>1, <2>3
  <2> QED
    BY <2>2, <2>3
       DEF Next, vars, TurnEnds, Invoke, Tool, PhysicalChecks, CreateExecution,
           Report, ToolCancelled, Execution, LockGranted, CommandAnswered,
           CommandGivenUp, MachineFinishes, ExecutionCancelled, DrainBegin,
           DrainWaited, DrainOver, Quiet
<1>2. (drained \subseteq Calls)'
  BY DEF QInv, Running, Next, vars, TurnBegins, TurnEnds, Invoke, Tool,
         PhysicalChecks, CreateExecution, Report, ToolCancelled, Execution,
         LockGranted, CommandAnswered, CommandGivenUp, MachineFinishes,
         ExecutionCancelled,
         DrainBegin, DrainWaited, DrainOver, Quiet
<1>3. Queue'
  <2> USE DEF QInv
  <2>1. CASE UNCHANGED <<lockq, exec>>
    BY <2>1, QueueKept
  <2>2. ASSUME NEW c \in Calls, CreateExecution(c) PROVE Queue'
    BY <2>2, CreateExecutionQueue
  <2>3. ASSUME NEW c \in Calls, LockGranted(c) PROVE Queue'
    <3>1. CASE IsCurrent(c)
      <4>1. /\ lockq # <<>> /\ Head(lockq) = c /\ exec[c] = "queued" /\ lockq' = lockq
            /\ exec' = [exec EXCEPT ![c] = "command"] /\ DOMAIN exec = Calls
        BY <2>3, <3>1 DEF LockGranted, Holds, IInv, Types
      <4> QED BY <4>1 DEF Queue
    <3>2. CASE ~IsCurrent(c)
      BY <2>3, <3>2, HeadLeaves DEF LockGranted, Holds
    <3> QED BY <3>1, <3>2
  <2>4. ASSUME NEW c \in Calls, CommandAnswered(c) PROVE Queue'
    BY <2>4, HeadLeaves DEF CommandAnswered, Queue
  <2>5. ASSUME NEW c \in Calls, ExecutionCancelled(c) PROVE Queue'
    BY <2>5, ExecutionCancelledQueue
  <2>6. ASSUME NEW c \in Calls, CommandGivenUp(c) PROVE Queue'
    BY <2>6, HeadLeaves DEF CommandGivenUp, Queue
  <2> QED
    BY <2>1, <2>2, <2>3, <2>4, <2>5, <2>6
       DEF Next, vars, TurnBegins, TurnEnds, Invoke, Tool, PhysicalChecks, Report,
           ToolCancelled, Execution, MachineFinishes, DrainBegin, DrainWaited,
           DrainOver, Quiet
<1> QED BY <1>1, <1>2, <1>3 DEF QInv

\* An execution is in the lock's queue exactly while it runs: neither a refusal,
\* nor an answer, nor drain() leaves the lock taken.
THEOREM TypeCorrect == Spec => []TypeOK
PROOF
<1>1. Init => QInv
  <2> SUFFICES ASSUME Init PROVE QInv
    OBVIOUS
  <2>1. lockq = <<>> /\ exec = [c \in Calls |-> "none"] /\ current = 0 /\ drained = {}
    BY DEF Init
  <2>2. <<>> \in Seq(Calls) /\ 1..Len(<<>>) = {}
    BY EmptySeq
  <2>3. Queue
    BY <2>1, <2>2 DEF Queue, Distinct, In
  <2> QED BY <2>1, <2>3 DEF QInv
<1>2. IInv /\ QInv /\ [Next]_vars => QInv'
  BY NextQInv
<1>3. IInv /\ QInv => TypeOK
  <2> SUFFICES ASSUME IInv, QInv PROVE TypeOK
    OBVIOUS
  <2>1. \A i \in 1..Len(lockq) : lockq[i] \in Calls
    BY ElementOfSeq DEF QInv, Queue
  <2>2. {lockq[i] : i \in 1..Len(lockq)} = Running
    BY <2>1 DEF QInv, Queue, In, Running
  <2> QED BY <2>2 DEF TypeOK, IInv, Types, QInv, Queue, Ended
<1> QED BY <1>1, <1>2, <1>3, InductiveInvariant, PTL DEF Spec
=============================================================================
