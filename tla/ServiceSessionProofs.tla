------------------------ MODULE ServiceSessionProofs ------------------------
(***************************************************************************)
(* For any number of commands, sessions and failed attempts: the types,    *)
(* one live session at a time, the harmlessness of a failure noticed late, *)
(* and that no turn goes on responding on a session that is gone.          *)
(*                                                                         *)
(* Everything rests on the session lock.  Lock says that the queue is the  *)
(* set of tasks whose place says so and that whoever is past the wait is   *)
(* at its head; Life says what its holder may find and leave.  The         *)
(* coordinator's part is not proved again: every step of the service is a  *)
(* step of TurnCoordinator (StepCoordinates), whose invariant and          *)
(* refinement then hold here (NextCoordinator, NewestTextWins).            *)
(***************************************************************************)
EXTENDS ServiceSession, Queues, FiniteSetTheorems, TLAPS

Coordinator == INSTANCE TurnCoordinatorProofs WITH Callers <- Resetters

Waiting == {"lock", "reset lock", "stop lock"}
Holding == {"connect", "discard", "abort", "reset cancel", "reset close",
            "await worker", "await events"}

\* Where each task can be.
PlacesOf(t) ==
  CASE t = Client -> {"idle", "lock", "connect", "discard"}
    [] t = WorkerTask -> {"idle", "lock", "connect", "discard", "send", "reset lock",
                          "reset cancel", "reset close"}
    [] t = Reconnect -> {"idle", "check", "lock", "connect", "discard", "sleep",
                         "abort"}
    [] t = Stopper -> {"idle", "stop lock", "await reconnect", "await worker",
                       "await events", "await watch", "stopped"}
    [] OTHER -> {"none", "run", "wait", "reset lock", "reset cancel",
                 "reset close", "done"}

Types ==
  /\ session \in {0} \cup Sessions
  /\ serviceStopping \in BOOLEAN
  /\ place \in [Tasks -> Places]
  /\ \A t \in Tasks : place[t] \in PlacesOf(t)
  /\ opened \in Sessions
  /\ transport \in [Sessions -> {"none", "open", "lost", "closed", "stuck"}]
  /\ using \in {0} \cup Sessions
  /\ sent \in ({0} \cup 1..MaxTexts) \X ({0} \cup Sessions)
  /\ controllerStarted \in BOOLEAN
  /\ failures \in 0..MaxFailures

\* The lock's queue, and who holds it.
Lock ==
  /\ lockq \in Seq(Tasks) /\ Distinct(lockq)
  /\ \A t \in Tasks : In(t, lockq) <=> place[t] \in Waiting \cup Holding
  /\ \A t \in Tasks : place[t] \in Holding => Holds(t)

\* The coordinator's loop is in start_response exactly while its task is in
\* _start_turn, and it is gone only after the stop.
LoopAt ==
  /\ worker = "start" <=> place[WorkerTask] # "idle"
  /\ worker = "none" => place[Stopper] \in {"await events", "await watch", "stopped"}
  /\ worker = "dead" => stopping
  /\ stopping <=> place[Stopper] = "await worker"
  /\ place[Stopper] = "await events" => worker = "none" /\ turn.phase # "responding"
  /\ place[Client] # "idle" => place[Stopper] = "idle" /\ submitted < MaxTexts

\* A connection that has been neither closed nor given up is the session's or is
\* being closed; nobody has an attempt going while there is a session, and who
\* resets it has it to itself.
Numbered ==
  /\ \A s \in Sessions : s > opened =>
       transport[s] = "none" /\ place[Events(s)] = "none" /\ place[Watch(s)] = "none"
  /\ session <= opened /\ using <= opened

Live ==
  \A s \in Sessions : transport[s] \in {"open", "lost"} =>
    s = session \/ \E t \in Resetters : place[t] = "reset close" /\ FailedOf(t) = s

Exclusive ==
  /\ \A t \in Starters : place[t] \in Attempts => session = 0
  /\ \A t \in Resetters : place[t] = "reset close" => session = 0
  /\ \A t \in Resetters : place[t] = "reset cancel" => session = FailedOf(t)

Life == Numbered /\ Live /\ Exclusive

\* Where the last message went, and the current turn's will go.
Sent ==
  /\ sent[1] <= nextId
  /\ sent[1] # 0 => sent[2] # 0
  /\ place[WorkerTask] = "send" => using # 0

Heading ==
  turn.phase = "responding" =>
    /\ place[WorkerTask] = "send" => using = session
    /\ \A t \in Resetters : place[t] = "reset cancel" =>
         place[WorkerTask] # "send" /\ sent[1] # turn.id

Message == Sent /\ Heading /\ NoTurnOnDeadSession

Sound == Types /\ Lock /\ LoopAt /\ Life /\ Message

SInv == Coordinator!IInv /\ Sound

-----------------------------------------------------------------------------
\* The bounds are numbers.
LEMMA Bounds ==
  /\ MaxTexts \in Nat \ {0} /\ MaxTexts \in Nat
  /\ MaxSessions \in Nat \ {0} /\ MaxSessions \in Nat /\ MaxFailures \in Nat
BY BoundsAssumption

USE Bounds

-----------------------------------------------------------------------------
\* The tasks are different tasks.
LEMMA TaskNames ==
  /\ Client # WorkerTask /\ Client # Reconnect /\ Client # Stopper
  /\ WorkerTask # Reconnect /\ WorkerTask # Stopper /\ Reconnect # Stopper
  /\ Starters \subseteq Tasks /\ Resetters \subseteq Tasks /\ Stopper \in Tasks
  /\ Client \in Starters /\ WorkerTask \in Starters /\ Reconnect \in Starters
  /\ WorkerTask \in Resetters
  /\ \A t \in Starters : t \in {Client, WorkerTask, Reconnect} /\ t # Stopper
  /\ \A t \in Resetters : t # Client /\ t # Reconnect /\ t # Stopper
  /\ \A s \in Sessions :
       /\ Events(s) \in Resetters /\ Watch(s) \in Resetters
       /\ Events(s) # WorkerTask /\ Watch(s) # WorkerTask
       /\ FailedOf(Events(s)) = s /\ FailedOf(Watch(s)) = s
  /\ \A r, s \in Sessions : /\ Events(r) # Watch(s)
                            /\ Events(r) = Events(s) => r = s
                            /\ Watch(r) = Watch(s) => r = s
  /\ \A t \in Tasks : t \in {Client, WorkerTask, Reconnect, Stopper}
                      \/ \E s \in Sessions : t = Events(s) \/ t = Watch(s)
BY DEF Tasks, Starters, Resetters, Client, WorkerTask, Reconnect, Stopper, Events,
       Watch, FailedOf

\* What a step that is not about the lock may do with a task.
Out(t) == place[t] \notin Waiting \cup Holding

Stays(t) ==
  \/ place'[t] = place[t]
  \/ Out(t) /\ Out(t)'
  \/ place[t] \in Holding /\ place'[t] \in Holding

\* Nobody's place in the queue changes.
LEMMA LockKept ==
  ASSUME Lock, lockq' = lockq, \A u \in Tasks : Stays(u)
  PROVE  Lock'
BY DEF Lock, Stays, Out, Holds

\* The lock is granted to the head of the queue.
LEMMA LockGranted ==
  ASSUME Lock, lockq' = lockq, NEW t \in Tasks, Holds(t),
         place[t] \in Waiting \cup Holding, place'[t] \in Waiting \cup Holding,
         \A u \in Tasks \ {t} : Stays(u)
  PROVE  Lock'
BY DEF Lock, Stays, Out, Holds

\* A task joins the queue.
LEMMA LockWanted ==
  ASSUME Lock, NEW t \in Tasks, Out(t), place'[t] \in Waiting,
         lockq' = Append(lockq, t), \A u \in Tasks \ {t} : Stays(u)
  PROVE  Lock'
PROOF
<1>1. lockq \in Seq(Tasks) /\ Distinct(lockq) /\ ~In(t, lockq)
  BY DEF Lock, Out
<1>2. /\ lockq' \in Seq(Tasks) /\ Distinct(lockq')
      /\ lockq' # <<>>
      /\ \A u : In(u, lockq') <=> In(u, lockq) \/ u = t
      /\ lockq # <<>> => Head(lockq') = Head(lockq)
  BY <1>1, QueueAppend
<1>3. Waiting \cap Holding = {}
  BY DEF Waiting, Holding
<1> QED BY <1>1, <1>2, <1>3 DEF Lock, Stays, Out, Holds

\* The holder leaves.
LEMMA LockReleased ==
  ASSUME Lock, NEW t \in Tasks, Holds(t), Out(t)', lockq' = Tail(lockq),
         \A u \in Tasks \ {t} : Stays(u)
  PROVE  Lock'
PROOF
<1>1. lockq \in Seq(Tasks) /\ Distinct(lockq) /\ lockq # <<>> /\ Head(lockq) = t
  BY DEF Lock, Holds
<1>2. /\ lockq' \in Seq(Tasks) /\ Distinct(lockq')
      /\ \A u : In(u, lockq') <=> In(u, lockq) /\ u # t
  BY <1>1, QueueTail
<1>3. \A u \in Tasks \ {t} : place[u] \notin Holding
  BY <1>1 DEF Lock, Holds
<1> QED BY <1>1, <1>2, <1>3 DEF Lock, Stays, Out

\* The holder leaves, and wants the lock again.
LEMMA LockRequeued ==
  ASSUME Lock, NEW t \in Tasks, Holds(t), place'[t] \in Waiting,
         lockq' = Append(Tail(lockq), t), \A u \in Tasks \ {t} : Stays(u),
         place[t] \in Holding
  PROVE  Lock'
PROOF
<1>1. lockq \in Seq(Tasks) /\ Distinct(lockq) /\ lockq # <<>> /\ Head(lockq) = t
  BY DEF Lock, Holds
<1> DEFINE q == Tail(lockq)
<1>2. /\ q \in Seq(Tasks) /\ Distinct(q) /\ ~In(t, q)
      /\ \A u : In(u, q) <=> In(u, lockq) /\ u # t
  BY <1>1, QueueTail
<1> HIDE DEF q
<1>3. /\ Append(q, t) \in Seq(Tasks) /\ Distinct(Append(q, t))
      /\ \A u : In(u, Append(q, t)) <=> In(u, q) \/ u = t
  BY <1>2, QueueAppend
<1>4. lockq' \in Seq(Tasks) /\ Distinct(lockq')
      /\ \A u : In(u, lockq') <=> In(u, lockq) \/ u = t
  BY <1>1, <1>2, <1>3, QueueTail DEF q
<1>5. \A u \in Tasks \ {t} : place[u] \notin Holding
  BY <1>1 DEF Lock, Holds
<1>6. Waiting \cap Holding = {}
  BY DEF Waiting, Holding
<1> QED BY <1>1, <1>4, <1>5, <1>6 DEF Lock, Stays, Out

\* A task is cancelled; if it waited it leaves the queue.
LEMMA LockGivenUp ==
  ASSUME Lock, NEW t \in Tasks, Out(t)', lockq' = Without(lockq, t),
         \A u \in Tasks \ {t} : Stays(u)
  PROVE  Lock'
PROOF
<1>1. lockq \in Seq(Tasks) /\ Distinct(lockq)
  BY DEF Lock
<1>2. /\ lockq' \in Seq(Tasks) /\ Distinct(lockq')
      /\ \A u : In(u, lockq') <=> In(u, lockq) /\ u # t
      /\ lockq # <<>> /\ Head(lockq) # t =>
           lockq' # <<>> /\ Head(lockq') = Head(lockq)
  BY <1>1, QueueWithout
<1> QED BY <1>1, <1>2 DEF Lock, Stays, Out, Holds
-----------------------------------------------------------------------------
\* The coordinator inside the service

\* The calls the service makes, and the loop's own steps, are the coordinator's.
LEMMA CallsAreSteps ==
  ASSUME turn \in Coordinator!Turn \cup {Coordinator!NoTurn},
         \/ TC!Start \/ TC!Submit \/ TC!Finish(turn.id) \/ TC!StopBegin \/ TC!StopEnd
         \/ \E t \in Resetters : TC!InterruptBegin(t) \/ TC!InterruptEnd(t)
         \/ TC!TakeAndInterrupt \/ TC!TakeAndBegin \/ TC!CancelledThenBegin
         \/ TC!Started \/ TC!WorkerCancelled
  PROVE  Coordinator!Next
PROOF
<1> USE DEF Coordinator!Next, Coordinator!Worker
<1>1. CASE TC!Start
  BY <1>1 DEF TC!Start, Coordinator!Start
<1>2. CASE TC!Submit
  BY <1>2 DEF TC!Submit, Coordinator!Submit
<1>3. CASE TC!Finish(turn.id)
  <2>1. turn.id \in Coordinator!Ids
    BY <1>3 DEF TC!Finish, TC!IsCurrent, Coordinator!Turn, Coordinator!NoTurn
  <2>2. Coordinator!Finish(turn.id)
    BY <1>3 DEF TC!Finish, TC!IsCurrent, TC!NoTurn, Coordinator!Finish,
                Coordinator!IsCurrent, Coordinator!NoTurn
  <2> QED BY <2>1, <2>2
<1>4. CASE TC!StopBegin
  BY <1>4 DEF TC!StopBegin, Coordinator!StopBegin
<1>5. CASE TC!StopEnd
  BY <1>5 DEF TC!StopEnd, TC!NoTurn, Coordinator!StopEnd, Coordinator!NoTurn
<1>6. ASSUME NEW t \in Resetters, TC!InterruptBegin(t)
      PROVE  Coordinator!Next
  BY <1>6 DEF TC!InterruptBegin, TC!Marked, TC!NoTurn, Coordinator!InterruptBegin,
              Coordinator!Marked, Coordinator!NoTurn
<1>7. ASSUME NEW t \in Resetters, TC!InterruptEnd(t)
      PROVE  Coordinator!Next
  BY <1>7 DEF TC!InterruptEnd, TC!ClearedBy, TC!NoTurn, Coordinator!InterruptEnd,
              Coordinator!ClearedBy, Coordinator!NoTurn
<1>8. CASE TC!TakeAndInterrupt
  BY <1>8 DEF TC!TakeAndInterrupt, TC!Marked, TC!NoTurn,
              Coordinator!TakeAndInterrupt, Coordinator!Marked, Coordinator!NoTurn
<1>9. CASE TC!TakeAndBegin
  BY <1>9 DEF TC!TakeAndBegin, TC!BeginTurn, TC!Replacement, TC!NoTurn,
              Coordinator!TakeAndBegin, Coordinator!BeginTurn,
              Coordinator!Replacement, Coordinator!NoTurn
<1>10. CASE TC!CancelledThenBegin
  BY <1>10 DEF TC!CancelledThenBegin, TC!BeginTurn, TC!Replacement,
               Coordinator!CancelledThenBegin, Coordinator!BeginTurn,
               Coordinator!Replacement
<1>11. CASE TC!Started
  BY <1>11 DEF TC!Started, Coordinator!Started
<1>12. CASE TC!WorkerCancelled
  BY <1>12 DEF TC!WorkerCancelled, Coordinator!WorkerCancelled
<1> QED BY <1>1, <1>2, <1>3, <1>4, <1>5, <1>6, <1>7, <1>8, <1>9, <1>10, <1>11, <1>12

\* Opening a session starts the loop or submits a command, never both.
LEMMA OpenCoordinates ==
  ASSUME SInv, NEW t \in Starters, OpenSucceeds(t)
  PROVE  Coordinator!Next \/ UNCHANGED coordinatorVars
PROOF
<1>1. CASE t = Client
  <2>1. worker # "none" /\ submitted < MaxTexts
    BY <1>1 DEF OpenSucceeds, SInv, Sound, LoopAt
  <2>2. Coordinator!Submit
    BY <1>1, <2>1 DEF OpenSucceeds, Coordinator!Submit
  <2> QED BY <2>2 DEF Coordinator!Next
<1>2. CASE t # Client /\ worker = "none"
  <2>1. Coordinator!Start
    BY <1>2 DEF OpenSucceeds, Coordinator!Start
  <2> QED BY <2>1 DEF Coordinator!Next
<1>3. CASE t # Client /\ worker # "none"
  BY <1>3 DEF OpenSucceeds, coordinatorVars
<1> QED BY <1>1, <1>2, <1>3

\* Every step of the service is a step of the coordinator or leaves it alone.
LEMMA StepCoordinates ==
  ASSUME SInv, [Next]_vars
  PROVE  Coordinator!Next \/ UNCHANGED coordinatorVars
PROOF
<1>1. turn \in Coordinator!Turn \cup {Coordinator!NoTurn}
  BY DEF SInv, Coordinator!IInv, Coordinator!TypeOK
<1>2. ASSUME NEW t \in Starters, Start(t)
      PROVE  Coordinator!Next \/ UNCHANGED coordinatorVars
  BY <1>1, <1>2, CallsAreSteps, OpenCoordinates
     DEF Start, StartFindsSession, OpenBegin, OpenFails, Discarded
<1>3. ASSUME NEW t \in Resetters, Reset(t)
      PROVE  Coordinator!Next \/ UNCHANGED coordinatorVars
  BY <1>1, <1>3, CallsAreSteps
     DEF Reset, ResetTooLate, ResetInterrupts, ResetDropsSession, ResetReturns,
         ReturnFromReset
<1>4. CASE Loop \/ Send \/ ResponseDone \/ Stop
  BY <1>1, <1>4, CallsAreSteps
     DEF Loop, WorkerInterrupts, TurnBegins, WorkerEnds, Send, SendSucceeds,
         SendFails, ResponseDone, Stop, StopReconnectEnded, StopsCoordinator,
         StopsEvents, StopCloses, StopReturns
<1>5. CASE \/ \E s \in Sessions :
                ConnectionLost(s) \/ EventsEnd(s) \/ TransportClosed(s)
           \/ ClientSubmits \/ ClientCancelled \/ Reconnecting \/ StopCalled
           \/ Exit \/ UNCHANGED vars
  BY <1>5 DEF ConnectionLost, EventsEnd, TransportClosed, ClientSubmits,
              ClientCancelled, Reconnecting, ReconnectChecks, ReconnectAborted,
              StopCalled, Exit, vars, coordinatorVars
<1> QED BY <1>2, <1>3, <1>4, <1>5 DEF Next

\* Hence its invariant holds in the service.
LEMMA NextCoordinator ==
  ASSUME SInv, [Next]_vars
  PROVE  Coordinator!IInv'
PROOF
<1>1. [Coordinator!Next]_(Coordinator!vars)
  BY StepCoordinates DEF coordinatorVars, Coordinator!vars
<1> QED BY <1>1, Coordinator!NextIInv DEF SInv, Coordinator!NextIInv
-----------------------------------------------------------------------------
\* The places of each task.
LEMMA PlacesEach ==
  /\ PlacesOf(Client) = {"idle", "lock", "connect", "discard"}
  /\ PlacesOf(WorkerTask) = {"idle", "lock", "connect", "discard", "send",
                             "reset lock", "reset cancel", "reset close"}
  /\ PlacesOf(Reconnect) = {"idle", "check", "lock", "connect", "discard", "sleep",
                            "abort"}
  /\ PlacesOf(Stopper) = {"idle", "stop lock", "await reconnect", "await worker",
                          "await events", "await watch", "stopped"}
  /\ \A t \in Resetters \ {WorkerTask} :
       PlacesOf(t) = {"none", "run", "wait", "reset lock", "reset cancel",
                      "reset close", "done"}
  /\ \A t \in Resetters : /\ "reset cancel" \in PlacesOf(t)
                           /\ "reset close" \in PlacesOf(t)
  /\ \A t \in Tasks : PlacesOf(t) \subseteq Places
BY TaskNames DEF PlacesOf, Places

\* What the invariant says of the coordinator's variables.
LEMMA CoordinatorFacts ==
  ASSUME Coordinator!IInv
  PROVE  /\ nextId \in Nat /\ nextId <= MaxTexts /\ submitted \in Nat
         /\ turn.phase = "responding" => turn.id = nextId /\ turn.id \in 1..MaxTexts
         /\ interrupting \in [Resetters -> Nat]
         /\ TC!NoTurn.phase = "idle"
         /\ turn = TC!NoTurn => turn.phase = "idle"
PROOF
<1>1. TC!NoTurn.phase = "idle" /\ Coordinator!NoTurn.phase = "idle"
  BY DEF TC!NoTurn, Coordinator!NoTurn
<1> QED BY <1>1
        DEF Coordinator!IInv, Coordinator!TypeOK, Coordinator!LoopState,
            Coordinator!Texts, Coordinator!Ids, Coordinator!Turn

\* The holder of the lock holds it alone.
LEMMA HolderAlone ==
  ASSUME Lock, NEW t \in Tasks, Holds(t), NEW u \in Tasks, u # t
  PROVE  place[u] \notin Holding
BY DEF Lock, Holds

\* No task of T comes to place p.
NoneEnters(T, p) == \A t \in T : place'[t] = p => place[t] = p

\* No attempt to open a session begins.
NoneTries == \A t \in Starters : place'[t] \in Attempts => place[t] \in Attempts

\* The connection of s is as it was, or has got lost.
MayGetLost(s) ==
  \/ transport'[s] = transport[s]
  \/ transport[s] = "open" /\ transport'[s] = "lost"

\* The numbers of two sessions.
LEMMA SessionNumbers == \A r, s \in Sessions : s > r => s # r
BY DEF Sessions

\* The worker works with a session that has been opened.
LEMMA UsingOpened ==
  ASSUME Numbered, Types, opened' = opened, using' \in {using, session, 0}
  PROVE  using' <= opened'
BY DEF Types, Sessions, Numbered

\* The same, in numbers.
LEMMA UsingNumber ==
  ASSUME Numbered, Types
  PROVE  /\ using <= opened /\ using \in Nat /\ opened \in Nat
         /\ \A s \in Sessions : s \in Nat
BY DEF Types, Sessions, Numbered

\* The session's number is one.
LEMMA SessionNumber ==
  ASSUME Types
  PROVE  session \in Nat /\ opened \in Nat /\ 0 <= opened /\ \A s \in Sessions : s \in Nat
BY DEF Types, Sessions

\* A close leaves the connection closed or stuck, and touches no other.
LEMMA ClosedShuts ==
  ASSUME Types, NEW f, Closed(f), NEW s \in Sessions, s # 0
  PROVE  /\ transport'[s] \in {"open", "lost"} =>
              transport[s] \in {"open", "lost"} /\ s # f
         /\ s # f => transport'[s] = transport[s]
PROOF
<1>1. CASE f = 0
  BY <1>1 DEF Closed
<1>2. CASE f # 0
  <2>1. PICK end \in {"closed", "stuck"} : transport' = [transport EXCEPT ![f] = end]
    BY <1>2 DEF Closed
  <2> QED BY <2>1 DEF Types
<1> QED BY <1>1, <1>2

\* Steps that leave the sessions alone.
LEMMA LifeKept ==
  ASSUME Life, Types, UNCHANGED <<session, opened>>, using' \in {using, session, 0},
         \/ using' = using
         \/ {place[WorkerTask], place'[WorkerTask]} \cap {"reset cancel", "reset close"} = {},
         \A s \in Sessions : MayGetLost(s),
         NoneTries, NoneEnters(Resetters, "reset cancel"),
         \A t \in Resetters \ {Events(opened)} : place[t] = "none" => place'[t] = "none",
         \A t \in Resetters : place'[t] = "reset close" <=> place[t] = "reset close"
  PROVE  Life'
PROOF
<1>1. \A t \in Resetters : \/ FailedOf(t)' = FailedOf(t)
                           \/ /\ place[t] \notin {"reset cancel", "reset close"}
                              /\ place'[t] \notin {"reset cancel", "reset close"}
  BY DEF FailedOf
<1>2. Numbered'
  <2>1. ASSUME NEW s \in Sessions, s > opened
        PROVE  /\ Events(s) \in Resetters \ {Events(opened)}
               /\ Watch(s) \in Resetters \ {Events(opened)}
    <3>1. opened \in Sessions /\ s # opened
      BY <2>1, SessionNumbers DEF Types
    <3> QED BY <3>1, TaskNames
  <2>2. using' <= opened'
    BY UsingOpened DEF Life
  <2> QED BY <2>1, <2>2 DEF MayGetLost, Life, Numbered
<1>3. Live'
  <2>1. ASSUME NEW s \in Sessions, transport'[s] \in {"open", "lost"}
        PROVE  s = session \/ \E t \in Resetters : place'[t] = "reset close"
                                                   /\ FailedOf(t) = s
    BY <2>1 DEF MayGetLost, Life, Live
  <2> QED BY <1>1, <2>1 DEF Live
<1>4. Exclusive'
  BY <1>1 DEF Life, Exclusive, NoneEnters, NoneTries
<1> QED BY <1>2, <1>3, <1>4 DEF Life

\* What has been sent stays sent.
LEMMA SentKept ==
  ASSUME Sent, Types, Coordinator!IInv, Coordinator!IInv', sent' = sent,
         using' = using \/ place'[WorkerTask] # "send",
         nextId' = nextId \/ nextId' >= nextId, NoneEnters({WorkerTask}, "send")
  PROVE  Sent'
PROOF
<1>1. nextId \in Nat /\ nextId' \in Nat
  BY DEF Coordinator!IInv, Coordinator!TypeOK, Coordinator!Ids
<1>2. sent[1] \in {0} \cup 1..MaxTexts
  BY DEF Types
<1>3. sent[1] \in Nat
  BY <1>2
<1>4. sent'[1] <= nextId'
  BY <1>1, <1>3 DEF Sent
<1> QED BY <1>4 DEF Sent, NoneEnters

\* Steps that send nothing and leave the session alone.
LEMMA MessageKept ==
  ASSUME Message, Types, Coordinator!IInv, Coordinator!IInv',
         UNCHANGED <<session, sent>>, using' = using \/ place'[WorkerTask] # "send",
         nextId' = nextId \/ nextId' >= nextId,
         turn' = turn \/ turn'.phase # "responding",
         NoneEnters({WorkerTask}, "send"), NoneEnters(Resetters, "reset cancel")
  PROVE  Message'
PROOF
<1>1. Sent'
  BY SentKept DEF Message
<1>2. Heading'
  BY DEF Message, Heading, NoneEnters
<1>3. NoTurnOnDeadSession'
  BY DEF Message, NoTurnOnDeadSession
<1> QED BY <1>1, <1>2, <1>3 DEF Message

\* Only t changes its place.
Moves(t, p) == place' = [place EXCEPT ![t] = p]

\* What such a step leaves alone.
LEMMA MovesFacts ==
  ASSUME Types, NEW t \in Tasks, NEW p \in PlacesOf(t), Moves(t, p)
  PROVE  /\ place' \in [Tasks -> Places]
         /\ \A u \in Tasks : place'[u] \in PlacesOf(u)
         /\ place'[t] = p
         /\ \A u \in Tasks \ {t} : place'[u] = place[u] /\ Stays(u)
         /\ \A u \in Resetters \ {t} : place'[u] = place[u]
         /\ \A u \in Starters \ {t} : place'[u] = place[u]
PROOF
<1>1. p \in Places /\ Starters \subseteq Tasks /\ Resetters \subseteq Tasks
  BY PlacesEach, TaskNames
<1>2. /\ place' \in [Tasks -> Places] /\ place'[t] = p
      /\ \A u \in Tasks \ {t} : place'[u] = place[u]
  BY <1>1 DEF Types, Moves
<1>3. \A u \in Tasks : place'[u] \in PlacesOf(u)
  BY <1>2 DEF Types
<1> QED BY <1>1, <1>2, <1>3 DEF Stays

\* Steps that leave the coordinator and the stop alone.
LEMMA LoopKept ==
  ASSUME LoopAt, UNCHANGED <<worker, stopping, submitted>>,
         turn' = turn \/ turn'.phase # "responding",
         place'[WorkerTask] = "idle" <=> place[WorkerTask] = "idle",
         place'[Stopper] = place[Stopper],
         place'[Client] = "idle" \/ place[Client] # "idle"
  PROVE  LoopAt'
BY DEF LoopAt

\* A task gives up, waits, or goes on without the session.
LEMMA QuietMove ==
  ASSUME SInv, Coordinator!IInv', NEW t \in Tasks, NEW p \in PlacesOf(t), Moves(t, p),
         p \notin {"send", "reset cancel", "reset close"},
         p \in Attempts => place[t] \in Attempts,
         place[t] \notin {"none", "reset close"},
         UNCHANGED <<session, opened, transport, sent>>,
         \/ using' = using
         \/ t = WorkerTask /\ place[t] # "reset cancel" /\ using' = 0,
         serviceStopping' \in BOOLEAN, controllerStarted' \in BOOLEAN,
         failures' \in 0..MaxFailures, nextId' = nextId \/ nextId' >= nextId,
         turn' = turn \/ turn'.phase # "responding",
         Lock', LoopAt'
  PROVE  Sound'
PROOF
<1>1. /\ Types /\ Lock /\ LoopAt /\ Life /\ Message /\ Coordinator!IInv
  BY DEF SInv, Sound
<1>2. /\ place' \in [Tasks -> Places]
      /\ \A u \in Tasks : place'[u] \in PlacesOf(u)
      /\ place'[t] = p
      /\ \A u \in Resetters \ {t} : place'[u] = place[u]
      /\ \A u \in Starters \ {t} : place'[u] = place[u]
  BY <1>1, MovesFacts
<1>3. Types'
  BY <1>1, <1>2 DEF Types
<1>4. /\ NoneTries /\ NoneEnters(Resetters, "reset cancel")
      /\ NoneEnters({WorkerTask}, "send")
      /\ \A u \in Resetters : place'[u] = "reset close" <=> place[u] = "reset close"
      /\ \A u \in Resetters : place[u] = "none" => place'[u] = "none"
  BY <1>2, TaskNames DEF NoneEnters, NoneTries, Attempts
<1>5. /\ \/ using' = using
         \/ {place[WorkerTask], place'[WorkerTask]} \cap {"reset cancel", "reset close"} = {}
      /\ using' = using \/ place'[WorkerTask] # "send"
  BY <1>2
<1>6. Life'
  <2>1. \A s \in Sessions : MayGetLost(s)
    BY DEF MayGetLost
  <2> QED BY <1>1, <1>4, <1>5, <2>1, LifeKept
<1>7. Message'
  BY <1>1, <1>4, <1>5, MessageKept
<1> QED BY <1>3, <1>6, <1>7 DEF Sound

-----------------------------------------------------------------------------
\* start()

\* There is a session: the caller goes on, and the lock is released.
LEMMA StartFindsSound ==
  ASSUME SInv, Coordinator!IInv', NEW t \in Starters, StartFindsSession(t)
  PROVE  Sound'
PROOF
<1>1. /\ Types /\ Lock /\ LoopAt /\ Life /\ Message /\ Coordinator!IInv
      /\ t \in Tasks /\ Holds(t) /\ place[t] = "lock" /\ lockq' = Tail(lockq)
      /\ UNCHANGED <<session, serviceStopping, opened, transport, sent,
                     controllerStarted, failures>>
  BY TaskNames DEF SInv, Sound, StartFindsSession
<1>2. PICK p \in PlacesOf(t) : Moves(t, p) /\ p \in {"idle", "send"}
                               /\ (t = WorkerTask <=> p = "send")
  BY PlacesEach, TaskNames DEF StartFindsSession, Moves
<1>3. /\ place' \in [Tasks -> Places]
      /\ \A u \in Tasks : place'[u] \in PlacesOf(u)
      /\ place'[t] = p
      /\ \A u \in Tasks \ {t} : place'[u] = place[u] /\ Stays(u)
      /\ \A u \in Resetters \ {t} : place'[u] = place[u]
      /\ \A u \in Starters \ {t} : place'[u] = place[u]
  BY <1>1, <1>2, MovesFacts
<1>4. Types'
  BY <1>1, <1>3 DEF Types, StartFindsSession
<1>5. Lock'
  <2>1. Out(t)'
    BY <1>2, <1>3 DEF Out, Waiting, Holding
  <2> QED BY <1>1, <1>3, <2>1, LockReleased
<1>6. LoopAt'
  <2>1. CASE t = Client
    <3>1. place'[Client] = "idle" /\ UNCHANGED <<worker, stopping, turn>>
          /\ place'[WorkerTask] = place[WorkerTask] /\ place'[Stopper] = place[Stopper]
      BY <1>2, <1>3, <2>1, TaskNames DEF StartFindsSession, TC!Submit
    <3> QED BY <1>1, <3>1 DEF LoopAt
  <2>2. CASE t # Client
    <3>1. /\ UNCHANGED <<worker, stopping, turn, submitted>>
          /\ place'[WorkerTask] = "idle" <=> place[WorkerTask] = "idle"
          /\ place'[Client] = place[Client] /\ place'[Stopper] = place[Stopper]
      BY <1>1, <1>2, <1>3, <2>2, TaskNames DEF StartFindsSession, coordinatorVars
    <3> QED BY <1>1, <3>1, LoopKept
  <2> QED BY <2>1, <2>2
<1>7. Life'
  <2>1. /\ NoneTries /\ NoneEnters(Resetters, "reset cancel")
        /\ \A u \in Resetters : place'[u] = "reset close" <=> place[u] = "reset close"
        /\ \A u \in Resetters : place[u] = "none" => place'[u] = "none"
    BY <1>1, <1>2, <1>3 DEF NoneEnters, NoneTries, Attempts
  <2>2. \/ using' = using
        \/ {place[WorkerTask], place'[WorkerTask]} \cap {"reset cancel", "reset close"} = {}
    BY <1>1, <1>2, <1>3 DEF StartFindsSession
  <2>3. using' \in {using, session, 0}
    BY <1>1, <1>2 DEF StartFindsSession
  <2>4. \A s \in Sessions : MayGetLost(s)
    BY <1>1 DEF MayGetLost
  <2> QED BY <1>1, <2>1, <2>2, <2>3, <2>4, LifeKept
<1>8. Message'
  <2>1. turn' = turn /\ nextId' = nextId
    BY DEF StartFindsSession, coordinatorVars, TC!Submit
  <2>2. CASE t # WorkerTask
    <3>1. /\ NoneEnters({WorkerTask}, "send") /\ NoneEnters(Resetters, "reset cancel")
          /\ using' = using
      BY <1>1, <1>2, <1>3, <2>2, TaskNames DEF NoneEnters, StartFindsSession
    <3> QED BY <1>1, <2>1, <3>1, MessageKept
  <2>3. CASE t = WorkerTask
    <3>1. using' = session /\ session # 0
      BY <2>3, TaskNames DEF StartFindsSession
    <3>2. \A u \in Resetters : place'[u] # "reset cancel"
      <4>1. \A u \in Resetters \ {t} : place[u] \notin Holding /\ place'[u] = place[u]
        BY <1>1, <1>3, HolderAlone, TaskNames
      <4>2. place'[t] # "reset cancel"
        BY <1>2, <1>3
      <4> QED BY <4>1, <4>2 DEF Holding
    <3> QED BY <1>1, <2>1, <3>1, <3>2 DEF Message, Sent, Heading, NoTurnOnDeadSession
  <2> QED BY <2>2, <2>3
<1> QED BY <1>4, <1>5, <1>6, <1>7, <1>8 DEF Sound

\* The holder connects.
LEMMA OpenBeginSound ==
  ASSUME SInv, Coordinator!IInv', NEW t \in Starters, OpenBegin(t)
  PROVE  Sound'
PROOF
<1>1. /\ Types /\ Lock /\ LoopAt /\ Life /\ Message /\ Coordinator!IInv
      /\ t \in Tasks /\ Holds(t) /\ place[t] = "lock" /\ lockq' = lockq /\ session = 0
      /\ UNCHANGED <<coordinatorVars, session, opened, transport, using, sent,
                     controllerStarted, failures>>
      /\ serviceStopping' = FALSE
  BY TaskNames DEF SInv, Sound, OpenBegin
<1>2. "connect" \in PlacesOf(t) /\ Moves(t, "connect")
  BY PlacesEach DEF OpenBegin, Moves, Starters
<1>3. /\ place' \in [Tasks -> Places]
      /\ \A u \in Tasks : place'[u] \in PlacesOf(u)
      /\ place'[t] = "connect"
      /\ \A u \in Tasks \ {t} : place'[u] = place[u] /\ Stays(u)
  BY <1>1, <1>2, MovesFacts
<1>4. Types'
  BY <1>1, <1>3 DEF Types
<1>5. Lock'
  <2>1. place[t] \in Waiting \cup Holding /\ place'[t] \in Waiting \cup Holding
    BY <1>1, <1>3 DEF Waiting, Holding
  <2> QED BY <1>1, <1>3, <2>1, LockGranted
<1>6. LoopAt'
  <2>1. UNCHANGED <<worker, stopping, submitted, turn>>
    BY <1>1 DEF coordinatorVars
  <2>2. /\ place'[Stopper] = place[Stopper]
        /\ place'[WorkerTask] = "idle" <=> place[WorkerTask] = "idle"
        /\ place'[Client] = "idle" \/ place[Client] # "idle"
    BY <1>1, <1>3, TaskNames
  <2> QED BY <1>1, <2>1, <2>2, LoopKept
<1>7. \A u \in Resetters : /\ place'[u] \in {"reset cancel", "reset close"} <=>
                              place[u] \in {"reset cancel", "reset close"}
                           /\ place'[u] = "reset close" <=> place[u] = "reset close"
                           /\ FailedOf(u)' = FailedOf(u)
  BY <1>1, <1>3, TaskNames DEF FailedOf
<1>8. Numbered'
  <2>1. \A u \in Resetters : place[u] = "none" => place'[u] = "none"
    BY <1>1, <1>3, TaskNames
  <2> QED BY <1>1, <2>1, TaskNames DEF Life, Numbered
<1>9. Live'
  BY <1>1, <1>7 DEF Life, Live
<1>10. Exclusive'
  BY <1>1, <1>7 DEF Life, Exclusive
<1>11. Message'
  <2>1. NoneEnters(Resetters, "reset cancel") /\ NoneEnters({WorkerTask}, "send")
    BY <1>1, <1>3, TaskNames DEF NoneEnters
  <2>2. UNCHANGED <<nextId, turn>>
    BY <1>1 DEF coordinatorVars
  <2> QED BY <1>1, <2>1, <2>2, MessageKept
<1> QED BY <1>4, <1>5, <1>6, <1>8, <1>9, <1>10, <1>11 DEF Sound, Life

\* The attempt fails; the holder awaits the close of its half-open session.
LEMMA OpenFailsSound ==
  ASSUME SInv, Coordinator!IInv', NEW t \in Starters, OpenFails(t)
  PROVE  Sound'
PROOF
<1>1. /\ Types /\ Lock /\ LoopAt
      /\ t \in Tasks /\ place[t] = "connect" /\ Moves(t, "discard")
      /\ UNCHANGED <<coordinatorVars, session, serviceStopping, lockq, opened,
                     transport, using, sent>>
      /\ controllerStarted' \in {controllerStarted, TRUE}
      /\ failures < MaxFailures /\ failures' = failures + 1
  BY TaskNames DEF SInv, Sound, OpenFails, Moves
<1>2. controllerStarted' \in BOOLEAN /\ failures' \in 0..MaxFailures
  <2>1. controllerStarted' \in BOOLEAN
    BY <1>1 DEF Types
  <2>2. failures \in 0..MaxFailures
    BY <1>1 DEF Types
  <2> QED BY <1>1, <2>1, <2>2
<1>3. "discard" \in PlacesOf(t)
  BY PlacesEach, TaskNames
<1>4. /\ place'[t] = "discard"
      /\ \A u \in Tasks \ {t} : place'[u] = place[u] /\ Stays(u)
  BY <1>1, <1>3, MovesFacts
<1>5. Lock'
  <2>1. Stays(t)
    BY <1>1, <1>4 DEF Stays, Holding
  <2> QED BY <1>1, <1>4, <2>1, LockKept
<1>6. UNCHANGED <<worker, stopping, submitted, turn, nextId>>
  BY <1>1 DEF coordinatorVars
<1>7. LoopAt'
  <2>1. /\ place'[Stopper] = place[Stopper]
        /\ place'[WorkerTask] = "idle" <=> place[WorkerTask] = "idle"
        /\ place'[Client] = "idle" \/ place[Client] # "idle"
    BY <1>1, <1>4, TaskNames
  <2> QED BY <1>1, <1>6, <2>1, LoopKept
<1>8. "discard" \in Attempts /\ place[t] \in Attempts
  BY <1>1 DEF Attempts
<1> QED BY <1>1, <1>2, <1>3, <1>5, <1>6, <1>7, <1>8, QuietMove DEF Types

\* The close is over, and the lock is released.
LEMMA DiscardedSound ==
  ASSUME SInv, Coordinator!IInv', NEW t \in Starters, Discarded(t)
  PROVE  Sound'
PROOF
<1>1. /\ Types /\ Lock /\ LoopAt /\ Life /\ Message /\ Coordinator!IInv
      /\ t \in Tasks /\ place[t] = "discard"
      /\ UNCHANGED <<coordinatorVars, session, serviceStopping, opened, transport,
                     sent, controllerStarted, failures>>
  BY TaskNames DEF SInv, Sound, Discarded
<1>2. PICK p \in PlacesOf(t) :
        /\ Moves(t, p)
        /\ \/ t = Client /\ p = "idle" /\ lockq' = Tail(lockq) /\ using' = using
           \/ t = Reconnect /\ p = "sleep" /\ lockq' = Tail(lockq) /\ using' = using
           \/ t = WorkerTask /\ p = "reset lock" /\ lockq' = Append(Tail(lockq), t)
              /\ using' = 0
  BY PlacesEach DEF Discarded, Moves
<1>3. /\ place'[t] = p
      /\ \A u \in Tasks \ {t} : place'[u] = place[u] /\ Stays(u)
  BY <1>1, <1>2, MovesFacts
<1>4. Lock'
  <2>1. place[t] \in Holding /\ Holds(t)
    BY <1>1 DEF Holding, Lock
  <2>2. CASE p # "reset lock"
    <3>1. Out(t)'
      BY <1>2, <1>3, <2>2 DEF Out, Waiting, Holding
    <3> QED BY <1>1, <1>2, <1>3, <2>1, <2>2, <3>1, LockReleased
  <2>3. CASE p = "reset lock"
    <3>1. place'[t] \in Waiting
      BY <1>3, <2>3 DEF Waiting
    <3> QED BY <1>1, <1>2, <1>3, <2>1, <2>3, <3>1, LockRequeued
  <2> QED BY <2>2, <2>3
<1>5. UNCHANGED <<worker, stopping, submitted, turn, nextId>>
  BY <1>1 DEF coordinatorVars
<1>6. LoopAt'
  <2>1. /\ place'[Stopper] = place[Stopper]
        /\ place'[WorkerTask] = "idle" <=> place[WorkerTask] = "idle"
        /\ place'[Client] = "idle" \/ place[Client] # "idle"
    BY <1>1, <1>2, <1>3, TaskNames
  <2> QED BY <1>1, <1>5, <2>1, LoopKept
<1>7. p \notin Attempts
  BY <1>2 DEF Attempts
<1> QED BY <1>1, <1>2, <1>4, <1>5, <1>6, <1>7, QuietMove DEF Types

\* The session appears with its two tasks; whoever opened it goes on.
LEMMA OpenSucceedsSound ==
  ASSUME SInv, Coordinator!IInv', NEW t \in Starters, OpenSucceeds(t)
  PROVE  Sound'
PROOF
<1>a. /\ Types /\ Lock /\ LoopAt /\ Life /\ Message /\ Coordinator!IInv
      /\ t \in Tasks /\ place[t] = "connect" /\ opened < MaxSessions
  BY TaskNames DEF SInv, Sound, OpenSucceeds
<1>b. PICK n \in Sessions : n = opened + 1
  BY <1>a DEF Types, Sessions
<1>1. /\ Types /\ Lock /\ LoopAt /\ Life /\ Message /\ Coordinator!IInv
      /\ t \in Tasks /\ place[t] = "connect" /\ opened < MaxSessions
      /\ opened' = n /\ session' = n /\ transport' = [transport EXCEPT ![n] = "open"]
      /\ lockq' = Tail(lockq)
      /\ using' = IF t = WorkerTask THEN n ELSE using
      /\ controllerStarted' = TRUE
      /\ UNCHANGED <<turn, nextId, stopping, serviceStopping, sent, failures>>
  BY <1>a, <1>b DEF OpenSucceeds
<1>2. n \in Sessions /\ n > opened /\ n # 0 /\ opened \in Nat
      /\ \A s \in Sessions : s > n => s > opened
  BY <1>1, <1>b DEF Types, Sessions
<1>3. Holds(t) /\ session = 0 /\ place[t] \in Holding
  BY <1>1 DEF Attempts, Holding, Lock, Life, Exclusive
<1>4. PICK p \in PlacesOf(t) :
        /\ place' = [place EXCEPT ![t] = p, ![Events(n)] = "run", ![Watch(n)] = "wait"]
        /\ p \in {"idle", "send"} /\ (t = WorkerTask <=> p = "send")
  BY <1>b, PlacesEach, TaskNames DEF OpenSucceeds
<1>5. /\ Events(n) \in Resetters /\ Watch(n) \in Resetters /\ Events(n) # Watch(n)
      /\ Events(n) # t /\ Watch(n) # t
      /\ Events(n) # WorkerTask /\ Watch(n) # WorkerTask
      /\ Resetters \subseteq Tasks /\ Starters \subseteq Tasks
  BY <1>2, TaskNames
<1>6. /\ place' \in [Tasks -> Places]
      /\ place'[t] = p /\ place'[Events(n)] = "run" /\ place'[Watch(n)] = "wait"
      /\ \A u \in Tasks \ {t, Events(n), Watch(n)} : place'[u] = place[u]
  BY <1>1, <1>4, <1>5, PlacesEach DEF Types
<1>7. place[Events(n)] = "none" /\ place[Watch(n)] = "none" /\ transport[n] = "none"
  BY <1>1, <1>2 DEF Life, Numbered
<1>8. Types'
  <2>1. "run" \in PlacesOf(Events(n)) /\ "wait" \in PlacesOf(Watch(n))
    BY <1>5, PlacesEach
  <2>2. \A u \in Tasks : place'[u] \in PlacesOf(u)
    BY <1>1, <1>4, <1>6, <2>1 DEF Types
  <2> QED BY <1>1, <1>2, <1>6, <2>2 DEF Types
<1>9. Lock'
  <2>1. Out(t)'
    BY <1>4, <1>6 DEF Out, Waiting, Holding
  <2>2. /\ Out(Events(n)) /\ Out(Watch(n)) /\ Out(Events(n))' /\ Out(Watch(n))'
    BY <1>6, <1>7 DEF Out, Waiting, Holding
  <2>3. \A u \in Tasks \ {t} : Stays(u)
    BY <1>6, <2>2 DEF Stays
  <2> QED BY <1>1, <1>3, <2>1, <2>3, LockReleased
<1>10. LoopAt'
  <2>1. place'[Stopper] = place[Stopper]
    BY <1>5, <1>6, TaskNames
  <2>2. worker' # "none" /\ (worker # "none" => worker' = worker)
        /\ (worker' = "start" <=> worker = "start") /\ (worker' = "dead" <=> worker = "dead")
    BY DEF OpenSucceeds
  <2>3. place'[WorkerTask] = "idle" <=> place[WorkerTask] = "idle"
    BY <1>1, <1>4, <1>5, <1>6, TaskNames
  <2>4. place'[Client] # "idle" => place[Client] # "idle" /\ submitted' = submitted
    <3>1. t = Client => place'[Client] = "idle"
      BY <1>4, <1>6, TaskNames
    <3>2. t # Client => place'[Client] = place[Client] /\ submitted' = submitted
      BY <1>5, <1>6, TaskNames DEF OpenSucceeds
    <3> QED BY <3>1, <3>2
  <2>5. place[Stopper] # "await events"
    BY <1>3, <1>1, TaskNames, HolderAlone DEF Holding
  <2> QED BY <1>1, <2>1, <2>2, <2>3, <2>4, <2>5 DEF LoopAt
<1>11. \A u \in Resetters : place'[u] \notin {"reset cancel", "reset close"}
  <2>1. \A u \in Resetters \ {t} : place[u] \notin Holding
    BY <1>1, <1>3, <1>5, HolderAlone
  <2> QED BY <1>4, <1>5, <1>6, <2>1 DEF Holding
<1>12. Numbered'
  <2>1. ASSUME NEW s \in Sessions, s > n
        PROVE  /\ transport'[s] = "none"
               /\ place'[Events(s)] = "none" /\ place'[Watch(s)] = "none"
    <3>1. /\ Events(s) \in Tasks \ {t, Events(n), Watch(n)}
          /\ Watch(s) \in Tasks \ {t, Events(n), Watch(n)}
      <4>1. s # n
        BY <1>2, <2>1 DEF Sessions
      <4>2. Events(s) # Stopper /\ Events(s) # t /\ Watch(s) # t
        BY TaskNames, <1>5
      <4> QED BY <1>2, <1>5, <4>1, <4>2, TaskNames
    <3>2. s > opened /\ s # n
      BY <1>2, <2>1 DEF Sessions
    <3> QED BY <1>1, <1>6, <3>1, <3>2 DEF Life, Numbered, Types
  <2>2. n <= n /\ using' <= n
    <3>1. using <= opened /\ using \in Nat
      BY <1>1 DEF Life, Numbered, Types, Sessions
    <3>2. n \in Nat
      BY <1>2 DEF Sessions
    <3>3. using <= n
      BY <1>2, <3>1, <3>2
    <3> QED BY <1>1, <3>2, <3>3
  <2> QED BY <1>1, <2>1, <2>2 DEF Numbered
<1>13. Live'
  <2>1. \A s \in Sessions \ {n} : transport[s] \notin {"open", "lost"}
    <3> SUFFICES ASSUME NEW s \in Sessions \ {n}, transport[s] \in {"open", "lost"}
                 PROVE  FALSE
      OBVIOUS
    <3>1. s # 0
      BY DEF Sessions
    <3>2. PICK u \in Resetters : place[u] = "reset close" /\ FailedOf(u) = s
      BY <1>1, <1>3, <3>1 DEF Life, Live
    <3>3. u # t
      BY <1>1, <3>2
    <3> QED BY <1>1, <1>3, <1>5, <3>2, <3>3, HolderAlone DEF Holding
  <2> QED BY <1>1, <2>1 DEF Live, Types
<1>14. Exclusive'
  <2>1. \A u \in Starters : place'[u] \notin Attempts
    <3>1. \A u \in Starters \ {t} : place[u] \notin Holding
      BY <1>1, <1>3, <1>5, HolderAlone
    <3>2. \A u \in Starters \ {t} : place'[u] = place[u]
      BY <1>2, <1>5, <1>6, TaskNames
    <3> QED BY <1>4, <1>6, <3>1, <3>2 DEF Holding, Attempts
  <2> QED BY <1>11, <2>1 DEF Exclusive
<1>15. Message'
  <2>1. sent[1] <= nextId /\ (sent[1] # 0 => sent[2] # 0)
    BY <1>1 DEF Message, Sent
  <2>2. turn.phase = "responding" => sent[1] # turn.id
    <3>1. turn.phase = "responding" => turn.id # 0
      BY <1>1, CoordinatorFacts
    <3> QED BY <1>1, <1>3, <2>1, <3>1 DEF Message, NoTurnOnDeadSession
  <2>3. place'[WorkerTask] = "send" => t = WorkerTask \/ (turn.phase # "responding" /\ using # 0)
    <3>1. t # WorkerTask => place'[WorkerTask] = place[WorkerTask]
      BY <1>5, <1>6, TaskNames
    <3> QED BY <1>1, <1>3, <3>1 DEF Message, Sent, Heading
  <2> QED BY <1>1, <1>2, <1>11, <2>1, <2>2, <2>3 DEF Message, Sent, Heading, NoTurnOnDeadSession
<1> QED BY <1>8, <1>9, <1>10, <1>12, <1>13, <1>14, <1>15 DEF Sound, Life

\* Several tasks move, none of them into or out of what the session depends on.
LEMMA QuietStep ==
  ASSUME SInv, Coordinator!IInv', place' \in [Tasks -> Places],
         \A u \in Tasks : place'[u] \in PlacesOf(u),
         UNCHANGED <<session, opened, transport, sent, using>>,
         serviceStopping' \in BOOLEAN, controllerStarted' \in BOOLEAN,
         failures' \in 0..MaxFailures, nextId' = nextId,
         turn' = turn \/ turn'.phase # "responding",
         NoneTries, NoneEnters(Resetters, "reset cancel"),
         NoneEnters({WorkerTask}, "send"),
         \A u \in Resetters \ {Events(opened)} : place[u] = "none" => place'[u] = "none",
         \A u \in Resetters : place'[u] = "reset close" <=> place[u] = "reset close",
         Lock', LoopAt'
  PROVE  Sound'
PROOF
<1>1. Types /\ Life /\ Message /\ Coordinator!IInv
  BY DEF SInv, Sound
<1>2. Types'
  BY <1>1 DEF Types
<1>3. Life'
  <2>1. \A s \in Sessions : MayGetLost(s)
    BY DEF MayGetLost
  <2> QED BY <1>1, <2>1, LifeKept
<1>4. Message'
  BY <1>1, MessageKept
<1> QED BY <1>2, <1>3, <1>4 DEF Sound

\* No task of the service moves; the connection may get lost.
LEMMA QuietService ==
  ASSUME SInv, Coordinator!IInv',
         UNCHANGED <<place, lockq, session, serviceStopping, opened, using, sent,
                     controllerStarted, failures>>,
         transport' \in [Sessions -> {"none", "open", "lost", "closed", "stuck"}],
         \A s \in Sessions : MayGetLost(s),
         nextId' = nextId, turn' = turn \/ turn'.phase # "responding", LoopAt'
  PROVE  Sound'
PROOF
<1>1. Types /\ Lock /\ Life /\ Message /\ Coordinator!IInv
  BY DEF SInv, Sound
<1>2. Types'
  BY <1>1 DEF Types
<1>3. Lock'
  <2>1. \A u \in Tasks : Stays(u)
    BY DEF Stays
  <2> QED BY <1>1, <2>1, LockKept
<1>4. /\ NoneTries /\ NoneEnters(Resetters, "reset cancel")
      /\ NoneEnters({WorkerTask}, "send")
  BY DEF NoneEnters, NoneTries, Attempts
<1>5. Life'
  BY <1>1, <1>4, LifeKept
<1>6. Message'
  BY <1>1, <1>4, MessageKept
<1> QED BY <1>2, <1>3, <1>5, <1>6 DEF Sound

-----------------------------------------------------------------------------
\* submit_raw_text()

\* The client queues for the lock.
LEMMA ClientSubmitsSound ==
  ASSUME SInv, Coordinator!IInv', ClientSubmits
  PROVE  Sound'
PROOF
<1>1. /\ Types /\ Lock /\ LoopAt /\ Client \in Tasks
      /\ place[Client] = "idle" /\ place[Stopper] = "idle" /\ submitted < MaxTexts
      /\ Moves(Client, "lock") /\ "lock" \in PlacesOf(Client)
      /\ lockq' = Append(lockq, Client)
      /\ UNCHANGED <<session, serviceStopping, opened, transport, using, sent,
                     controllerStarted, failures>>
  BY TaskNames, PlacesEach DEF SInv, Sound, ClientSubmits, Moves
<1>2. UNCHANGED <<worker, stopping, submitted, turn, nextId>>
  BY DEF ClientSubmits, coordinatorVars
<1>3. place'[Client] = "lock" /\ \A u \in Tasks \ {Client} : place'[u] = place[u] /\ Stays(u)
  BY <1>1, MovesFacts
<1>4. Lock'
  <2>1. Out(Client) /\ place'[Client] \in Waiting
    BY <1>1, <1>3 DEF Out, Waiting, Holding
  <2> QED BY <1>1, <1>3, <2>1, LockWanted
<1>5. LoopAt'
  <2>1. place'[Stopper] = place[Stopper] /\ place'[WorkerTask] = place[WorkerTask]
    BY <1>3, TaskNames
  <2> QED BY <1>1, <1>2, <2>1 DEF LoopAt
<1>6. place[Client] \notin {"none", "reset close"}
  BY <1>1
<1> QED BY <1>1, <1>2, <1>4, <1>5, <1>6, QuietMove DEF Types, Attempts

\* The client leaves the queue.
LEMMA ClientCancelledSound ==
  ASSUME SInv, Coordinator!IInv', ClientCancelled
  PROVE  Sound'
PROOF
<1>1. /\ Types /\ Lock /\ LoopAt /\ Client \in Tasks
      /\ place[Client] = "lock"
      /\ Moves(Client, "idle") /\ "idle" \in PlacesOf(Client)
      /\ lockq' = Without(lockq, Client)
      /\ UNCHANGED <<session, serviceStopping, opened, transport, using, sent,
                     controllerStarted, failures>>
  BY TaskNames, PlacesEach DEF SInv, Sound, ClientCancelled, Moves
<1>2. UNCHANGED <<worker, stopping, submitted, turn, nextId>>
  BY DEF ClientCancelled, coordinatorVars
<1>3. place'[Client] = "idle" /\ \A u \in Tasks \ {Client} : place'[u] = place[u] /\ Stays(u)
  BY <1>1, MovesFacts
<1>4. Lock'
  <2>1. Out(Client)'
    BY <1>3 DEF Out, Waiting, Holding
  <2> QED BY <1>1, <1>3, <2>1, LockGivenUp
<1>5. LoopAt'
  <2>1. /\ place'[Stopper] = place[Stopper] /\ place'[WorkerTask] = place[WorkerTask]
        /\ place'[Client] = "idle"
    BY <1>3, TaskNames
  <2> QED BY <1>1, <1>2, <2>1, LoopKept
<1>6. place[Client] \notin {"none", "reset close"}
  BY <1>1
<1> QED BY <1>1, <1>2, <1>4, <1>5, <1>6, QuietMove DEF Types, Attempts

-----------------------------------------------------------------------------
\* The coordinator's loop and _start_turn

\* The current turn is marked.
LEMMA WorkerInterruptsSound ==
  ASSUME SInv, Coordinator!IInv', WorkerInterrupts
  PROVE  Sound'
PROOF
<1>1. /\ Types /\ LoopAt
      /\ UNCHANGED <<session, serviceStopping, lockq, place, opened, transport,
                     using, sent, controllerStarted, failures>>
  BY DEF SInv, Sound, WorkerInterrupts
<1>2. worker = "get" /\ worker' = "cancel" /\ UNCHANGED <<stopping, submitted, nextId>>
  BY DEF WorkerInterrupts, TC!TakeAndInterrupt
<1>3. turn'.phase # "responding"
  <2>1. turn \in Coordinator!Turn
    BY DEF WorkerInterrupts, TC!TakeAndInterrupt, TC!NoTurn, Coordinator!NoTurn,
           SInv, Coordinator!IInv, Coordinator!TypeOK
  <2> QED BY <2>1 DEF WorkerInterrupts, TC!TakeAndInterrupt, TC!Marked, Coordinator!Turn
<1>4. LoopAt'
  BY <1>1, <1>2, <1>3 DEF LoopAt
<1> QED BY <1>1, <1>2, <1>3, <1>4, QuietService DEF Types, MayGetLost

\* A response ends the turn.
LEMMA ResponseDoneSound ==
  ASSUME SInv, Coordinator!IInv', ResponseDone
  PROVE  Sound'
PROOF
<1>1. /\ Types /\ LoopAt
      /\ UNCHANGED <<session, serviceStopping, lockq, place, opened, transport,
                     using, sent, controllerStarted, failures>>
  BY DEF SInv, Sound, ResponseDone
<1>2. UNCHANGED <<worker, stopping, submitted, nextId>>
  BY DEF ResponseDone, TC!Finish
<1>3. turn'.phase # "responding"
  BY DEF ResponseDone, TC!Finish, TC!NoTurn
<1>4. LoopAt'
  BY <1>1, <1>2, <1>3, LoopKept
<1> QED BY <1>1, <1>2, <1>3, <1>4, QuietService DEF Types, MayGetLost

\* A connection gets lost.
LEMMA ConnectionLostSound ==
  ASSUME SInv, Coordinator!IInv', NEW s \in Sessions, ConnectionLost(s)
  PROVE  Sound'
PROOF
<1>1. /\ Types /\ LoopAt
      /\ UNCHANGED <<session, serviceStopping, lockq, place, opened,
                     using, sent, controllerStarted, failures>>
  BY DEF SInv, Sound, ConnectionLost
<1>2. UNCHANGED <<worker, stopping, submitted, nextId, turn>>
  BY DEF ConnectionLost, coordinatorVars
<1>3. /\ transport' \in [Sessions -> {"none", "open", "lost", "closed", "stuck"}]
      /\ \A r \in Sessions : MayGetLost(r)
  BY <1>1 DEF ConnectionLost, MayGetLost, Types
<1>4. LoopAt'
  BY <1>1, <1>2, LoopKept
<1> QED BY <1>1, <1>2, <1>3, <1>4, QuietService

\* The message is refused; the worker queues to reset its session.
LEMMA SendFailsSound ==
  ASSUME SInv, Coordinator!IInv', SendFails
  PROVE  Sound'
PROOF
<1>1. /\ Types /\ Lock /\ LoopAt /\ WorkerTask \in Tasks
      /\ place[WorkerTask] = "send"
      /\ Moves(WorkerTask, "reset lock") /\ "reset lock" \in PlacesOf(WorkerTask)
      /\ lockq' = Append(lockq, WorkerTask)
      /\ UNCHANGED <<session, serviceStopping, opened, transport, using, sent,
                     controllerStarted, failures>>
  BY TaskNames, PlacesEach DEF SInv, Sound, SendFails, Moves
<1>2. UNCHANGED <<worker, stopping, submitted, turn, nextId>>
  BY DEF SendFails, coordinatorVars
<1>3. /\ place'[WorkerTask] = "reset lock"
      /\ \A u \in Tasks \ {WorkerTask} : place'[u] = place[u] /\ Stays(u)
  BY <1>1, MovesFacts
<1>4. Lock'
  <2>1. Out(WorkerTask) /\ place'[WorkerTask] \in Waiting
    BY <1>1, <1>3 DEF Out, Waiting, Holding
  <2> QED BY <1>1, <1>3, <2>1, LockWanted
<1>5. LoopAt'
  <2>1. place'[Stopper] = place[Stopper] /\ place'[Client] = place[Client]
    BY <1>3, TaskNames
  <2> QED BY <1>1, <1>2, <1>3, <2>1, LoopKept
<1>6. place[WorkerTask] \notin {"none", "reset close"}
  BY <1>1
<1> QED BY <1>1, <1>2, <1>4, <1>5, <1>6, QuietMove DEF Types, Attempts

-----------------------------------------------------------------------------
\* _bridge_events and _watch_transport

\* A task of a session ends, or queues to reset the session.
LEMMA SessionTaskSound ==
  ASSUME SInv, Coordinator!IInv', NEW t \in Resetters \ {WorkerTask},
         place[t] \in {"run", "wait"},
         \/ Moves(t, "done") /\ lockq' = lockq
         \/ Moves(t, "reset lock") /\ lockq' = Append(lockq, t),
         UNCHANGED <<coordinatorVars, session, serviceStopping, opened, transport,
                     using, sent, controllerStarted, failures>>
  PROVE  Sound'
PROOF
<1>1. Types /\ Lock /\ LoopAt /\ t \in Tasks
  BY TaskNames DEF SInv, Sound
<1>2. PICK p \in PlacesOf(t) :
        /\ Moves(t, p)
        /\ \/ p = "done" /\ lockq' = lockq
           \/ p = "reset lock" /\ lockq' = Append(lockq, t)
  BY PlacesEach
<1>3. place'[t] = p /\ \A u \in Tasks \ {t} : place'[u] = place[u] /\ Stays(u)
  BY <1>1, <1>2, MovesFacts
<1>4. UNCHANGED <<worker, stopping, submitted, turn, nextId>>
  BY DEF coordinatorVars
<1>5. Out(t)
  BY DEF Out, Waiting, Holding
<1>6. Lock'
  <2>1. CASE p = "done"
    <3>1. Stays(t)
      BY <1>3, <1>5, <2>1 DEF Out, Waiting, Holding, Stays
    <3> QED BY <1>1, <1>2, <1>3, <2>1, <3>1, LockKept
  <2>2. CASE p = "reset lock"
    <3>1. place'[t] \in Waiting
      BY <1>3, <2>2 DEF Waiting
    <3> QED BY <1>1, <1>2, <1>3, <1>5, <2>2, <3>1, LockWanted
  <2> QED BY <1>2, <2>1, <2>2
<1>7. LoopAt'
  <2>1. /\ place'[Stopper] = place[Stopper] /\ place'[Client] = place[Client]
        /\ place'[WorkerTask] = place[WorkerTask]
    BY <1>3, TaskNames
  <2> QED BY <1>1, <1>4, <2>1, LoopKept
<1>8. /\ place[t] \notin {"none", "reset close"}
      /\ p \notin {"connect", "send", "reset cancel", "reset close"}
  BY <1>2
<1> QED BY <1>1, <1>2, <1>4, <1>6, <1>7, <1>8, QuietMove DEF Types, Attempts

\* The event loop of a session ends.
LEMMA EventsEndSound ==
  ASSUME SInv, Coordinator!IInv', NEW s \in Sessions, EventsEnd(s)
  PROVE  Sound'
PROOF
<1>1. /\ Events(s) \in Resetters \ {WorkerTask} /\ place[Events(s)] \in {"run", "wait"}
      /\ \/ Moves(Events(s), "done") /\ lockq' = lockq
         \/ Moves(Events(s), "reset lock") /\ lockq' = Append(lockq, Events(s))
      /\ UNCHANGED <<coordinatorVars, session, serviceStopping, opened, transport,
                     using, sent, controllerStarted, failures>>
  BY TaskNames DEF EventsEnd, Moves
<1> QED BY <1>1, SessionTaskSound

\* The watch of a connection ends.
LEMMA TransportClosedSound ==
  ASSUME SInv, Coordinator!IInv', NEW s \in Sessions, TransportClosed(s)
  PROVE  Sound'
PROOF
<1>1. /\ Watch(s) \in Resetters \ {WorkerTask} /\ place[Watch(s)] \in {"run", "wait"}
      /\ \/ Moves(Watch(s), "done") /\ lockq' = lockq
         \/ Moves(Watch(s), "reset lock") /\ lockq' = Append(lockq, Watch(s))
      /\ UNCHANGED <<coordinatorVars, session, serviceStopping, opened, transport,
                     using, sent, controllerStarted, failures>>
  BY TaskNames DEF TransportClosed, Moves
<1> QED BY <1>1, SessionTaskSound

-----------------------------------------------------------------------------
\* _reset_failed_session

\* The worker's start_response returns with its reset; no other reset moves it.
LEMMA ReturnKeepsLoop ==
  ASSUME LoopAt, Types, NEW t \in Resetters, place'[t] = AfterReset(t),
         place[t] \in {"reset lock", "reset close"}, ReturnFromReset(t),
         place'[Stopper] = place[Stopper], place'[Client] = place[Client],
         t # WorkerTask => place'[WorkerTask] = place[WorkerTask]
  PROVE  LoopAt' /\ UNCHANGED <<turn, nextId>>
PROOF
<1>1. CASE t = WorkerTask
  <2>1. /\ worker = "start" /\ worker' = "get" /\ place'[WorkerTask] = "idle"
        /\ UNCHANGED <<stopping, submitted, turn, nextId>>
    BY <1>1 DEF ReturnFromReset, AfterReset, TC!Started
  <2> QED BY <2>1 DEF LoopAt
<1>2. CASE t # WorkerTask
  <2>1. UNCHANGED <<worker, stopping, submitted, turn, nextId>>
    BY <1>2 DEF ReturnFromReset, coordinatorVars
  <2> QED BY <1>2, <2>1, LoopKept
<1> QED BY <1>1, <1>2

\* Somebody else has reset the session.
LEMMA ResetTooLateSound ==
  ASSUME SInv, Coordinator!IInv', NEW t \in Resetters, ResetTooLate(t)
  PROVE  Sound'
PROOF
<1>1. /\ Types /\ Lock /\ LoopAt /\ t \in Tasks
      /\ place[t] = "reset lock" /\ Holds(t) /\ Moves(t, AfterReset(t))
      /\ lockq' = Tail(lockq) /\ ReturnFromReset(t)
      /\ UNCHANGED <<session, serviceStopping, opened, transport, using, sent,
                     controllerStarted, failures>>
  BY TaskNames DEF SInv, Sound, ResetTooLate, Moves
<1>2. AfterReset(t) \in PlacesOf(t) /\ AfterReset(t) \in {"idle", "done"}
  BY PlacesEach DEF AfterReset
<1>3. place'[t] = AfterReset(t) /\ \A u \in Tasks \ {t} : place'[u] = place[u] /\ Stays(u)
  BY <1>1, <1>2, MovesFacts
<1>4. Lock'
  <2>1. Out(t)'
    BY <1>2, <1>3 DEF Out, Waiting, Holding
  <2> QED BY <1>1, <1>3, <2>1, LockReleased
<1>5. LoopAt' /\ UNCHANGED <<turn, nextId>>
  <2>1. /\ place'[Stopper] = place[Stopper] /\ place'[Client] = place[Client]
        /\ t # WorkerTask => place'[WorkerTask] = place[WorkerTask]
    BY <1>3, TaskNames
  <2> QED BY <1>1, <1>3, <2>1, ReturnKeepsLoop
<1>6. /\ place[t] \notin {"none", "reset close"}
      /\ AfterReset(t) \notin {"connect", "send", "reset cancel", "reset close"}
  BY <1>1, <1>2
<1> QED BY <1>1, <1>2, <1>4, <1>5, <1>6, QuietMove DEF Types, Attempts

-----------------------------------------------------------------------------
\* _reconnect_until_ready

\* The loop ends or queues for the lock.
LEMMA ReconnectChecksSound ==
  ASSUME SInv, Coordinator!IInv', ReconnectChecks
  PROVE  Sound'
PROOF
<1>1. /\ Types /\ Lock /\ LoopAt /\ Reconnect \in Tasks
      /\ place[Reconnect] \in {"check", "sleep"}
      /\ UNCHANGED <<session, serviceStopping, opened, transport, using, sent,
                     controllerStarted, failures>>
  BY TaskNames DEF SInv, Sound, ReconnectChecks
<1>2. PICK p \in PlacesOf(Reconnect) :
        /\ Moves(Reconnect, p)
        /\ \/ p = "idle" /\ lockq' = lockq
           \/ p = "lock" /\ lockq' = Append(lockq, Reconnect)
  BY PlacesEach DEF ReconnectChecks, Moves
<1>3. /\ place'[Reconnect] = p
      /\ \A u \in Tasks \ {Reconnect} : place'[u] = place[u] /\ Stays(u)
  BY <1>1, <1>2, MovesFacts
<1>4. UNCHANGED <<worker, stopping, submitted, turn, nextId>>
  BY DEF ReconnectChecks, coordinatorVars
<1>5. Out(Reconnect)
  BY <1>1 DEF Out, Waiting, Holding
<1>6. Lock'
  <2>1. CASE p = "idle"
    <3>1. Stays(Reconnect)
      BY <1>3, <1>5, <2>1 DEF Out, Waiting, Holding, Stays
    <3> QED BY <1>1, <1>2, <1>3, <2>1, <3>1, LockKept
  <2>2. CASE p = "lock"
    <3>1. place'[Reconnect] \in Waiting
      BY <1>3, <2>2 DEF Waiting
    <3> QED BY <1>1, <1>2, <1>3, <1>5, <2>2, <3>1, LockWanted
  <2> QED BY <1>2, <2>1, <2>2
<1>7. LoopAt'
  <2>1. /\ place'[Stopper] = place[Stopper] /\ place'[Client] = place[Client]
        /\ place'[WorkerTask] = place[WorkerTask]
    BY <1>3, TaskNames
  <2> QED BY <1>1, <1>4, <2>1, LoopKept
<1>8. /\ place[Reconnect] \notin {"none", "reset close"}
      /\ p \notin {"connect", "send", "reset cancel", "reset close"}
  BY <1>1, <1>2
<1> QED BY <1>1, <1>2, <1>4, <1>6, <1>7, <1>8, QuietMove DEF Types, Attempts

\* The cancelled attempt is over.
LEMMA ReconnectAbortedSound ==
  ASSUME SInv, Coordinator!IInv', ReconnectAborted
  PROVE  Sound'
PROOF
<1>1. /\ Types /\ Lock /\ LoopAt /\ Reconnect \in Tasks
      /\ place[Reconnect] = "abort" /\ lockq' = Tail(lockq)
      /\ Moves(Reconnect, "idle") /\ "idle" \in PlacesOf(Reconnect)
      /\ UNCHANGED <<session, serviceStopping, opened, transport, using, sent,
                     controllerStarted, failures>>
  BY TaskNames, PlacesEach DEF SInv, Sound, ReconnectAborted, Moves
<1>2. UNCHANGED <<worker, stopping, submitted, turn, nextId>>
  BY DEF ReconnectAborted, coordinatorVars
<1>3. /\ place'[Reconnect] = "idle"
      /\ \A u \in Tasks \ {Reconnect} : place'[u] = place[u] /\ Stays(u)
  BY <1>1, MovesFacts
<1>4. Lock'
  <2>1. Holds(Reconnect) /\ Out(Reconnect)'
    BY <1>1, <1>3 DEF Out, Waiting, Holding, Lock
  <2> QED BY <1>1, <1>3, <2>1, LockReleased
<1>5. LoopAt'
  <2>1. /\ place'[Stopper] = place[Stopper] /\ place'[Client] = place[Client]
        /\ place'[WorkerTask] = place[WorkerTask]
    BY <1>3, TaskNames
  <2> QED BY <1>1, <1>2, <2>1, LoopKept
<1>6. place[Reconnect] \notin {"none", "reset close"}
  BY <1>1
<1> QED BY <1>1, <1>2, <1>4, <1>5, <1>6, QuietMove DEF Types, Attempts
-----------------------------------------------------------------------------
\* stop()

\* The reconnect loop has ended; stop() queues for the lock.
LEMMA StopReconnectEndedSound ==
  ASSUME SInv, Coordinator!IInv', StopReconnectEnded
  PROVE  Sound'
PROOF
<1>1. /\ Types /\ Lock /\ LoopAt /\ Stopper \in Tasks
      /\ place[Stopper] = "await reconnect"
      /\ Moves(Stopper, "stop lock") /\ "stop lock" \in PlacesOf(Stopper)
      /\ lockq' = Append(lockq, Stopper)
      /\ UNCHANGED <<session, serviceStopping, opened, transport, using, sent,
                     controllerStarted, failures>>
  BY TaskNames, PlacesEach DEF SInv, Sound, StopReconnectEnded, Moves
<1>2. UNCHANGED <<worker, stopping, submitted, turn, nextId>>
  BY DEF StopReconnectEnded, coordinatorVars
<1>3. /\ place'[Stopper] = "stop lock"
      /\ \A u \in Tasks \ {Stopper} : place'[u] = place[u] /\ Stays(u)
  BY <1>1, MovesFacts
<1>4. Lock'
  <2>1. Out(Stopper) /\ place'[Stopper] \in Waiting
    BY <1>1, <1>3 DEF Out, Waiting, Holding
  <2> QED BY <1>1, <1>3, <2>1, LockWanted
<1>5. LoopAt'
  <2>1. place'[WorkerTask] = place[WorkerTask] /\ place'[Client] = place[Client]
    BY <1>3, TaskNames
  <2> QED BY <1>1, <1>2, <1>3, <2>1 DEF LoopAt
<1>6. place[Stopper] \notin {"none", "reset close"}
  BY <1>1
<1> QED BY <1>1, <1>2, <1>4, <1>5, <1>6, QuietMove DEF Types, Attempts

\* With the lock, the coordinator's loop is cancelled.
LEMMA StopsCoordinatorSound ==
  ASSUME SInv, Coordinator!IInv', StopsCoordinator
  PROVE  Sound'
PROOF
<1>1. /\ Types /\ Lock /\ LoopAt /\ Stopper \in Tasks
      /\ place[Stopper] = "stop lock" /\ Holds(Stopper) /\ lockq' = lockq
      /\ Moves(Stopper, "await worker") /\ "await worker" \in PlacesOf(Stopper)
      /\ UNCHANGED <<session, serviceStopping, opened, transport, using, sent,
                     controllerStarted, failures>>
  BY TaskNames, PlacesEach DEF SInv, Sound, StopsCoordinator, Moves
<1>2. UNCHANGED <<worker, submitted, turn, nextId>> /\ stopping' = TRUE /\ worker # "none"
  BY DEF StopsCoordinator, TC!StopBegin
<1>3. /\ place'[Stopper] = "await worker"
      /\ \A u \in Tasks \ {Stopper} : place'[u] = place[u] /\ Stays(u)
  BY <1>1, MovesFacts
<1>4. Lock'
  <2>1. place[Stopper] \in Waiting \cup Holding /\ place'[Stopper] \in Waiting \cup Holding
    BY <1>1, <1>3 DEF Waiting, Holding
  <2> QED BY <1>1, <1>3, <2>1, LockGranted
<1>5. LoopAt'
  <2>1. place'[WorkerTask] = place[WorkerTask] /\ place'[Client] = place[Client]
    BY <1>3, TaskNames
  <2> QED BY <1>1, <1>2, <1>3, <2>1 DEF LoopAt
<1>6. place[Stopper] \notin {"none", "reset close"}
  BY <1>1
<1> QED BY <1>1, <1>2, <1>4, <1>5, <1>6, QuietMove DEF Types, Attempts

\* stop() returns.
LEMMA StopReturnsSound ==
  ASSUME SInv, Coordinator!IInv', StopReturns
  PROVE  Sound'
PROOF
<1>1. /\ Types /\ Lock /\ LoopAt /\ Stopper \in Tasks
      /\ place[Stopper] = "await watch" /\ lockq' = lockq
      /\ Moves(Stopper, "stopped") /\ "stopped" \in PlacesOf(Stopper)
      /\ UNCHANGED <<session, serviceStopping, opened, transport, using, sent,
                     controllerStarted, failures>>
  BY TaskNames, PlacesEach DEF SInv, Sound, StopReturns, Moves
<1>2. UNCHANGED <<worker, stopping, submitted, turn, nextId>>
  BY DEF StopReturns, coordinatorVars
<1>3. /\ place'[Stopper] = "stopped"
      /\ \A u \in Tasks \ {Stopper} : place'[u] = place[u] /\ Stays(u)
  BY <1>1, MovesFacts
<1>4. Lock'
  <2>1. Stays(Stopper)
    BY <1>1, <1>3 DEF Stays, Out, Waiting, Holding
  <2> QED BY <1>1, <1>3, <2>1, LockKept
<1>5. LoopAt'
  <2>1. place'[WorkerTask] = place[WorkerTask] /\ place'[Client] = place[Client]
    BY <1>3, TaskNames
  <2> QED BY <1>1, <1>2, <1>3, <2>1 DEF LoopAt
<1>6. place[Stopper] \notin {"none", "reset close"}
  BY <1>1
<1> QED BY <1>1, <1>2, <1>4, <1>5, <1>6, QuietMove DEF Types, Attempts

\* stop() is called: the reconnect loop is cancelled, connecting or not.
LEMMA StopCalledSound ==
  ASSUME SInv, Coordinator!IInv', StopCalled
  PROVE  Sound'
PROOF
<1>1. /\ Types /\ Lock /\ LoopAt /\ Stopper \in Tasks /\ Reconnect \in Tasks
      /\ Stopper # Reconnect /\ place[Stopper] = "idle" /\ place[Client] = "idle"
      /\ serviceStopping' = TRUE
      /\ UNCHANGED <<session, opened, transport, using, sent, controllerStarted, failures>>
  BY TaskNames DEF SInv, Sound, StopCalled
<1>2. UNCHANGED <<worker, stopping, submitted, turn, nextId>>
  BY DEF StopCalled, coordinatorVars
<1>3. PICK p \in PlacesOf(Stopper), r \in PlacesOf(Reconnect) :
        /\ place' = [place EXCEPT ![Stopper] = p, ![Reconnect] = r]
        /\ \/ /\ p = "stop lock" /\ r = "idle" /\ place[Reconnect] = "idle"
              /\ lockq' = Append(lockq, Stopper)
           \/ /\ p = "await reconnect" /\ r = "abort" /\ place[Reconnect] \in Attempts
              /\ lockq' = lockq
           \/ /\ p = "await reconnect" /\ r = "idle"
              /\ lockq' = Without(lockq, Reconnect)
  <2>1. CASE place[Reconnect] = "idle"
    <3>1. place' = [place EXCEPT ![Stopper] = "stop lock", ![Reconnect] = "idle"]
      BY <1>1, <2>1 DEF StopCalled, Types
    <3> QED BY <2>1, <3>1, PlacesEach DEF StopCalled
  <2>2. CASE place[Reconnect] \in Attempts
    <3>1. place' = [place EXCEPT ![Stopper] = "await reconnect", ![Reconnect] = "abort"]
      BY <1>1, <2>2 DEF StopCalled, Types, Attempts
    <3> QED BY <2>2, <3>1, PlacesEach DEF StopCalled
  <2>3. CASE place[Reconnect] \notin Attempts \cup {"idle"}
    <3>1. place' = [place EXCEPT ![Stopper] = "await reconnect", ![Reconnect] = "idle"]
      BY <1>1, <2>3 DEF StopCalled, Types
    <3> QED BY <2>3, <3>1, PlacesEach DEF StopCalled
  <2> QED BY <2>1, <2>2, <2>3
<1>4. /\ place' \in [Tasks -> Places]
      /\ place'[Stopper] = p /\ place'[Reconnect] = r
      /\ \A u \in Tasks \ {Stopper, Reconnect} : place'[u] = place[u] /\ Stays(u)
  BY <1>1, <1>3, PlacesEach DEF Types, Stays
<1>5. \A u \in Tasks : place'[u] \in PlacesOf(u)
  BY <1>1, <1>3, <1>4 DEF Types
<1>6. Out(Stopper)
  BY <1>1 DEF Out, Waiting, Holding
<1>7. Lock'
  <2>1. CASE p = "stop lock"
    <3>1. place'[Stopper] \in Waiting /\ Stays(Reconnect)
      BY <1>3, <1>4, <2>1 DEF Waiting, Stays
    <3> QED BY <1>1, <1>3, <1>4, <1>6, <2>1, <3>1, LockWanted
  <2>2. CASE p # "stop lock"
    <3>1. Stays(Stopper)
      BY <1>3, <1>4, <1>6, <2>2 DEF Stays, Out, Waiting, Holding
    <3>2. CASE r = "abort"
      <4>1. Stays(Reconnect)
        BY <1>3, <1>4, <3>2 DEF Stays, Holding, Attempts
      <4> QED BY <1>1, <1>3, <1>4, <2>2, <3>1, <3>2, <4>1, LockKept
    <3>3. CASE r = "idle"
      <4>1. Out(Reconnect)'
        BY <1>4, <3>3 DEF Out, Waiting, Holding
      <4> QED BY <1>1, <1>3, <1>4, <2>2, <3>1, <3>3, <4>1, LockGivenUp
    <3> QED BY <1>3, <2>2, <3>2, <3>3
  <2> QED BY <2>1, <2>2
<1>8. LoopAt'
  <2>1. place'[WorkerTask] = place[WorkerTask] /\ place'[Client] = place[Client]
    BY <1>4, TaskNames
  <2> QED BY <1>1, <1>2, <1>3, <1>4, <2>1 DEF LoopAt
<1>9. /\ \A u \in Resetters : place'[u] = place[u]
      /\ NoneTries
  BY <1>3, <1>4, TaskNames DEF NoneTries, Attempts
<1>10. /\ NoneTries /\ NoneEnters(Resetters, "reset cancel")
       /\ NoneEnters({WorkerTask}, "send")
  BY <1>9, TaskNames DEF NoneEnters, NoneTries, Attempts
<1> QED BY <1>1, <1>2, <1>4, <1>5, <1>7, <1>8, <1>9, <1>10, QuietStep DEF Types

\* The loop is cancelled wherever it is.  The stopper holds the lock, so it is
\* not in the middle of a reset.
LEMMA WorkerEndsSound ==
  ASSUME SInv, Coordinator!IInv', WorkerEnds
  PROVE  Sound'
PROOF
<1>1. /\ Types /\ Lock /\ LoopAt /\ WorkerTask \in Tasks /\ Stopper \in Tasks
      /\ Stopper # WorkerTask
      /\ Moves(WorkerTask, "idle") /\ "idle" \in PlacesOf(WorkerTask)
      /\ lockq' = Without(lockq, WorkerTask)
      /\ UNCHANGED <<session, serviceStopping, opened, transport, using, sent,
                     controllerStarted, failures>>
  BY TaskNames, PlacesEach DEF SInv, Sound, WorkerEnds, Moves
<1>2. /\ stopping /\ worker' = "dead"
      /\ UNCHANGED <<stopping, submitted, turn, nextId>>
  BY DEF WorkerEnds, TC!WorkerCancelled
<1>3. /\ place'[WorkerTask] = "idle"
      /\ \A u \in Tasks \ {WorkerTask} : place'[u] = place[u] /\ Stays(u)
  BY <1>1, MovesFacts
<1>4. place[Stopper] = "await worker" /\ Holds(Stopper)
  BY <1>1, <1>2 DEF LoopAt, Lock, Holding
<1>5. place[WorkerTask] \notin {"none", "reset close"}
  <2>1. place[WorkerTask] \notin Holding
    BY <1>1, <1>4, HolderAlone
  <2>2. place[WorkerTask] \in PlacesOf(WorkerTask)
    BY <1>1 DEF Types
  <2> QED BY <2>1, <2>2, PlacesEach DEF Holding
<1>6. Lock'
  <2>1. Out(WorkerTask)'
    BY <1>3 DEF Out, Waiting, Holding
  <2> QED BY <1>1, <1>3, <2>1, LockGivenUp
<1>7. LoopAt'
  <2>1. place'[Stopper] = place[Stopper] /\ place'[Client] = place[Client]
    BY <1>3, TaskNames
  <2> QED BY <1>1, <1>2, <1>3, <1>4, <2>1 DEF LoopAt
<1> QED BY <1>1, <1>2, <1>5, <1>6, <1>7, QuietMove DEF Types, Attempts

\* A turn begins, which no message has been sent for.
LEMMA TurnBeginsSound ==
  ASSUME SInv, Coordinator!IInv', TurnBegins
  PROVE  Sound'
PROOF
<1>1. /\ Types /\ Lock /\ LoopAt /\ Life /\ Message /\ Coordinator!IInv
      /\ WorkerTask \in Tasks
      /\ Moves(WorkerTask, "lock") /\ "lock" \in PlacesOf(WorkerTask)
      /\ lockq' = Append(lockq, WorkerTask)
      /\ UNCHANGED <<session, serviceStopping, opened, transport, using, sent,
                     controllerStarted, failures>>
  BY TaskNames, PlacesEach DEF SInv, Sound, TurnBegins, Moves
<1>2. /\ worker \in {"get", "cancel"} /\ worker' = "start" /\ ~stopping
      /\ UNCHANGED <<stopping, submitted>> /\ nextId' = nextId + 1
      /\ turn'.id = nextId + 1
  BY DEF TurnBegins, TC!TakeAndBegin, TC!CancelledThenBegin, TC!BeginTurn, TC!Replacement
<1>3. /\ place'[WorkerTask] = "lock"
      /\ \A u \in Tasks \ {WorkerTask} : place'[u] = place[u] /\ Stays(u)
      /\ place' \in [Tasks -> Places]
      /\ \A u \in Tasks : place'[u] \in PlacesOf(u)
  BY <1>1, MovesFacts
<1>4. place[WorkerTask] = "idle"
  BY <1>1, <1>2 DEF LoopAt
<1>5. Types'
  BY <1>1, <1>3 DEF Types
<1>6. Lock'
  <2>1. Out(WorkerTask) /\ place'[WorkerTask] \in Waiting
    BY <1>3, <1>4 DEF Out, Waiting, Holding
  <2> QED BY <1>1, <1>3, <2>1, LockWanted
<1>7. LoopAt'
  <2>1. place'[Stopper] = place[Stopper] /\ place'[Client] = place[Client]
    BY <1>3, TaskNames
  <2> QED BY <1>1, <1>2, <1>3, <2>1 DEF LoopAt
<1>8. Life'
  <2>1. /\ NoneTries /\ NoneEnters(Resetters, "reset cancel")
        /\ \A u \in Resetters : place[u] = "none" => place'[u] = "none"
        /\ \A u \in Resetters : place'[u] = "reset close" <=> place[u] = "reset close"
    BY <1>3, <1>4, TaskNames DEF NoneEnters, NoneTries, Attempts
  <2>2. \A s \in Sessions : MayGetLost(s)
    BY <1>1 DEF MayGetLost
  <2> QED BY <1>1, <2>1, <2>2, LifeKept
<1>9. Sent'
  <2>1. nextId' >= nextId
    BY <1>1, <1>2, CoordinatorFacts
  <2>2. NoneEnters({WorkerTask}, "send")
    BY <1>3 DEF NoneEnters
  <2> QED BY <1>1, <2>1, <2>2, SentKept DEF Message
<1>10. sent'[1] # turn'.id
  BY <1>1, <1>2, CoordinatorFacts DEF Message, Sent, Types
<1>11. Message'
  BY <1>3, <1>9, <1>10 DEF Message, Heading, NoTurnOnDeadSession
<1> QED BY <1>5, <1>6, <1>7, <1>8, <1>11 DEF Sound

\* The message is accepted by the current session: a reset would have withdrawn
\* the turn or waited.
LEMMA SendSucceedsSound ==
  ASSUME SInv, Coordinator!IInv', SendSucceeds
  PROVE  Sound'
PROOF
<1>1. /\ Types /\ Lock /\ LoopAt /\ Life /\ Message /\ Coordinator!IInv
      /\ WorkerTask \in Tasks /\ place[WorkerTask] = "send"
      /\ Moves(WorkerTask, "idle") /\ "idle" \in PlacesOf(WorkerTask)
      /\ sent' = <<nextId, using>>
      /\ UNCHANGED <<session, serviceStopping, lockq, opened, transport, using,
                     controllerStarted, failures>>
  BY TaskNames, PlacesEach DEF SInv, Sound, SendSucceeds, Moves
<1>2. /\ worker = "start" /\ worker' = "get"
      /\ UNCHANGED <<stopping, submitted, turn, nextId>>
  BY DEF SendSucceeds, TC!Started
<1>3. /\ place'[WorkerTask] = "idle"
      /\ \A u \in Tasks \ {WorkerTask} : place'[u] = place[u] /\ Stays(u)
      /\ place' \in [Tasks -> Places]
      /\ \A u \in Tasks : place'[u] \in PlacesOf(u)
  BY <1>1, MovesFacts
<1>4. nextId \in {0} \cup 1..MaxTexts /\ nextId <= nextId
  <2>1. nextId \in {0} \cup 1..MaxTexts
    BY <1>1 DEF Coordinator!IInv, Coordinator!TypeOK, Coordinator!Ids
  <2> QED BY <1>1, <2>1, CoordinatorFacts
<1>5. Types'
  BY <1>1, <1>3, <1>4 DEF Types
<1>6. Lock'
  <2>1. Stays(WorkerTask)
    BY <1>1, <1>3 DEF Stays, Out, Waiting, Holding
  <2> QED BY <1>1, <1>3, <2>1, LockKept
<1>7. LoopAt'
  <2>1. place'[Stopper] = place[Stopper] /\ place'[Client] = place[Client]
    BY <1>3, TaskNames
  <2> QED BY <1>1, <1>2, <1>3, <2>1 DEF LoopAt
<1>8. /\ NoneTries /\ NoneEnters(Resetters, "reset cancel")
      /\ \A u \in Resetters : place[u] = "none" => place'[u] = "none"
      /\ \A u \in Resetters : place'[u] = "reset close" <=> place[u] = "reset close"
  BY <1>1, <1>3, TaskNames DEF NoneEnters, NoneTries, Attempts
<1>9. Life'
  <2>1. \A s \in Sessions : MayGetLost(s)
    BY <1>1 DEF MayGetLost
  <2> QED BY <1>1, <1>8, <2>1, LifeKept
<1>10. Sent'
  BY <1>1, <1>2, <1>3, <1>4 DEF Message, Sent
<1>11. Heading'
  BY <1>1, <1>2, <1>3, <1>8 DEF Message, Heading, NoneEnters
<1>12. NoTurnOnDeadSession'
  BY <1>1, <1>2 DEF Message, Heading, NoTurnOnDeadSession
<1> QED BY <1>5, <1>6, <1>7, <1>9, <1>10, <1>11, <1>12 DEF Sound, Message

\* The holder marks the turn of the session it is about to drop.
LEMMA ResetInterruptsSound ==
  ASSUME SInv, Coordinator!IInv', NEW t \in Resetters, ResetInterrupts(t)
  PROVE  Sound'
PROOF
<1>1. /\ Types /\ Lock /\ LoopAt /\ Life /\ Message /\ Coordinator!IInv
      /\ t \in Tasks /\ place[t] = "reset lock" /\ Holds(t) /\ session = FailedOf(t)
      /\ Moves(t, "reset cancel")
      /\ UNCHANGED <<session, serviceStopping, lockq, opened, transport, using, sent,
                     controllerStarted, failures>>
  BY TaskNames DEF SInv, Sound, ResetInterrupts, StillFailed, Moves
<1>2. UNCHANGED <<worker, stopping, submitted, nextId>> /\ turn'.phase # "responding"
  <2>1. turn \in Coordinator!Turn
    BY <1>1 DEF ResetInterrupts, TC!InterruptBegin, TC!NoTurn, Coordinator!NoTurn,
                Coordinator!IInv, Coordinator!TypeOK
  <2> QED BY <2>1 DEF ResetInterrupts, TC!InterruptBegin, TC!Marked, Coordinator!Turn
<1>3. /\ place'[t] = "reset cancel"
      /\ \A u \in Tasks \ {t} : place'[u] = place[u] /\ Stays(u)
      /\ place' \in [Tasks -> Places]
      /\ \A u \in Tasks : place'[u] \in PlacesOf(u)
  <2>1. "reset cancel" \in PlacesOf(t)
    BY PlacesEach
  <2> QED BY <1>1, <2>1, MovesFacts
<1>4. Types'
  BY <1>1, <1>3 DEF Types
<1>5. Lock'
  <2>1. place[t] \in Waiting \cup Holding /\ place'[t] \in Waiting \cup Holding
    BY <1>1, <1>3 DEF Waiting, Holding
  <2> QED BY <1>1, <1>3, <2>1, LockGranted
<1>6. LoopAt'
  <2>1. /\ place'[Stopper] = place[Stopper] /\ place'[Client] = place[Client]
        /\ place'[WorkerTask] = "idle" <=> place[WorkerTask] = "idle"
    BY <1>1, <1>3, TaskNames
  <2> QED BY <1>1, <1>2, <2>1, LoopKept
<1>7. \A u \in Resetters : /\ place'[u] = "reset close" <=> place[u] = "reset close"
                           /\ place'[u] = "none" <=> place[u] = "none"
                           /\ FailedOf(u)' = FailedOf(u)
                           /\ u # t => place'[u] = place[u]
  BY <1>1, <1>3, TaskNames DEF FailedOf
<1>8. Numbered'
  BY <1>1, <1>7, TaskNames DEF Life, Numbered
<1>9. Live'
  BY <1>1, <1>7 DEF Life, Live
<1>10. Exclusive'
  <2>1. NoneTries
    BY <1>1, <1>3, TaskNames DEF NoneTries, Attempts
  <2> QED BY <1>1, <1>7, <2>1 DEF Life, Exclusive, NoneTries
<1>11. Message'
  <2>1. NoneEnters({WorkerTask}, "send")
    BY <1>1, <1>3, TaskNames DEF NoneEnters, NoneTries, Attempts
  <2>2. Sent'
    BY <1>1, <1>2, <2>1, SentKept DEF Message
  <2> QED BY <1>2, <2>2 DEF Message, Heading, NoTurnOnDeadSession
<1> QED BY <1>4, <1>5, <1>6, <1>8, <1>9, <1>10, <1>11 DEF Sound, Life

\* The session is dropped.  A turn that responds now has begun during the reset
\* and has sent nothing.
LEMMA ResetDropsSound ==
  ASSUME SInv, Coordinator!IInv', NEW t \in Resetters, ResetDropsSession(t)
  PROVE  Sound'
PROOF
<1>1. /\ Types /\ Lock /\ LoopAt /\ Life /\ Message /\ Coordinator!IInv
      /\ t \in Tasks /\ place[t] \in {"reset lock", "reset cancel"}
      /\ session' = 0 /\ Moves(t, "reset close")
      /\ UNCHANGED <<serviceStopping, lockq, opened, transport, using, sent,
                     controllerStarted, failures>>
  BY TaskNames DEF SInv, Sound, ResetDropsSession, StillFailed, Moves
<1>2. Holds(t) /\ session = FailedOf(t)
  BY <1>1 DEF ResetDropsSession, StillFailed, Lock, Holding, Life, Exclusive
<1>3. /\ UNCHANGED <<worker, stopping, submitted, nextId>>
      /\ turn' = turn \/ turn'.phase # "responding"
      /\ place[t] = "reset cancel" \/ turn'.phase # "responding"
  <2>1. CASE place[t] = "reset cancel" /\ TC!InterruptEnd(t)
    BY <2>1 DEF TC!InterruptEnd, TC!ClearedBy, TC!NoTurn
  <2>2. CASE turn = TC!NoTurn /\ UNCHANGED coordinatorVars
    BY <2>2 DEF TC!NoTurn, coordinatorVars
  <2> QED BY <2>1, <2>2 DEF ResetDropsSession
<1>4. "reset close" \in PlacesOf(t)
  BY PlacesEach
<1>5. /\ place'[t] = "reset close"
      /\ \A u \in Tasks \ {t} : place'[u] = place[u] /\ Stays(u)
      /\ place' \in [Tasks -> Places]
      /\ \A u \in Tasks : place'[u] \in PlacesOf(u)
  BY <1>1, <1>4, MovesFacts
<1>6. Types'
  BY <1>1, <1>5 DEF Types
<1>7. Lock'
  <2>1. place[t] \in Waiting \cup Holding /\ place'[t] \in Waiting \cup Holding
    BY <1>1, <1>5 DEF Waiting, Holding
  <2> QED BY <1>1, <1>2, <1>5, <2>1, LockGranted
<1>8. LoopAt'
  <2>1. /\ place'[Stopper] = place[Stopper] /\ place'[Client] = place[Client]
        /\ place'[WorkerTask] = "idle" <=> place[WorkerTask] = "idle"
    BY <1>1, <1>5, TaskNames
  <2> QED BY <1>1, <1>3, <2>1, LoopKept
<1>9. \A u \in Resetters : /\ FailedOf(u)' = FailedOf(u)
                           /\ place'[u] = "none" <=> place[u] = "none"
                           /\ place[u] = "reset close" => place'[u] = "reset close"
                           /\ place'[u] # "reset cancel"
  <2>1. \A u \in Resetters \ {t} : place'[u] = place[u] /\ place'[u] # "reset cancel"
    BY <1>1, <1>2, <1>5, HolderAlone, TaskNames DEF Holding
  <2>2. \A u \in Resetters : FailedOf(u)' = FailedOf(u)
    BY <1>1 DEF FailedOf
  <2> QED BY <1>1, <1>5, <2>1, <2>2
<1>10. Numbered'
  <2>1. 0 <= opened
    BY <1>1, SessionNumber
  <2> QED BY <1>1, <1>9, <2>1, TaskNames DEF Life, Numbered
<1>11. Live'
  BY <1>1, <1>2, <1>5, <1>9 DEF Life, Live
<1>12. Exclusive'
  BY <1>1, <1>9 DEF Exclusive
<1>13. Message'
  <2>1. place'[WorkerTask] = "send" => place[WorkerTask] = "send" /\ t # WorkerTask
    BY <1>1, <1>5, TaskNames
  <2>2. Sent'
    BY <1>1, <1>3, <2>1 DEF Message, Sent
  <2>3. turn'.phase = "responding" => /\ turn' = turn /\ place[WorkerTask] # "send"
                                      /\ sent[1] # turn.id
    BY <1>1, <1>3 DEF Message, Heading
  <2> QED BY <1>1, <1>9, <2>1, <2>2, <2>3 DEF Message, Heading, NoTurnOnDeadSession
<1> QED BY <1>6, <1>7, <1>8, <1>10, <1>11, <1>12, <1>13 DEF Sound, Life

\* The failed session is closed, the lock released and a reconnect scheduled.
LEMMA ResetReturnsSound ==
  ASSUME SInv, Coordinator!IInv', NEW t \in Resetters, ResetReturns(t)
  PROVE  Sound'
PROOF
<1>1. /\ Types /\ Lock /\ LoopAt /\ Life /\ Message /\ Coordinator!IInv
      /\ t \in Tasks /\ Reconnect \in Tasks /\ t # Reconnect
      /\ place[t] = "reset close" /\ lockq' = Tail(lockq)
      /\ Closed(FailedOf(t)) /\ ReturnFromReset(t)
      /\ UNCHANGED <<session, serviceStopping, opened, using, sent,
                     controllerStarted, failures>>
  BY TaskNames DEF SInv, Sound, ResetReturns
<1>2. Holds(t) /\ session = 0
  BY <1>1 DEF Lock, Holding, Life, Exclusive
<1>3. AfterReset(t) \in PlacesOf(t) /\ AfterReset(t) \in {"idle", "done"}
  BY PlacesEach DEF AfterReset
<1>4. PICK r \in PlacesOf(Reconnect) :
        /\ place' = [place EXCEPT ![t] = AfterReset(t), ![Reconnect] = r]
        /\ r = place[Reconnect] \/ (place[Reconnect] = "idle" /\ r = "check")
  <2>1. CASE MayReconnect
    <3>1. place' = [place EXCEPT ![t] = AfterReset(t), ![Reconnect] = "check"]
      BY <2>1 DEF ResetReturns
    <3> QED BY <2>1, <3>1, PlacesEach DEF MayReconnect
  <2>2. CASE ~MayReconnect
    <3>1. place' = [place EXCEPT ![t] = AfterReset(t), ![Reconnect] = place[Reconnect]]
      BY <1>1, <2>2 DEF ResetReturns, Types
    <3> QED BY <1>1, <3>1 DEF Types
  <2> QED BY <2>1, <2>2
<1>5. /\ place' \in [Tasks -> Places]
      /\ place'[t] = AfterReset(t) /\ place'[Reconnect] = r
      /\ \A u \in Tasks \ {t, Reconnect} : place'[u] = place[u]
  BY <1>1, <1>3, <1>4, PlacesEach DEF Types
<1>6. \A u \in Resetters \ {t} : place'[u] = place[u] /\ place[u] \notin Holding
  BY <1>1, <1>2, <1>5, HolderAlone, TaskNames
<1>7. Types'
  <2>1. \A u \in Tasks : place'[u] \in PlacesOf(u)
    BY <1>1, <1>3, <1>4, <1>5 DEF Types
  <2>2. transport' \in [Sessions -> {"none", "open", "lost", "closed", "stuck"}]
    BY <1>1 DEF Types, Closed
  <2> QED BY <1>1, <1>5, <2>1, <2>2 DEF Types
<1>8. Lock'
  <2>1. Out(t)'
    BY <1>3, <1>5 DEF Out, Waiting, Holding
  <2>2. Stays(Reconnect)
    BY <1>4, <1>5 DEF Stays, Out, Waiting, Holding
  <2>3. \A u \in Tasks \ {t} : Stays(u)
    BY <1>5, <2>2 DEF Stays
  <2> QED BY <1>1, <1>2, <2>1, <2>3, LockReleased
<1>9. LoopAt' /\ UNCHANGED <<turn, nextId>>
  <2>1. /\ place'[Stopper] = place[Stopper] /\ place'[Client] = place[Client]
        /\ t # WorkerTask => place'[WorkerTask] = place[WorkerTask]
    BY <1>5, TaskNames
  <2> QED BY <1>1, <1>5, <2>1, ReturnKeepsLoop
<1>10. Numbered'
  <2>1. ASSUME NEW s \in Sessions, s > opened
        PROVE  /\ transport'[s] = "none"
               /\ place'[Events(s)] = "none" /\ place'[Watch(s)] = "none"
    <3>1. transport[s] = "none" /\ place[Events(s)] = "none" /\ place[Watch(s)] = "none"
      BY <1>1, <2>1 DEF Life, Numbered
    <3>2. /\ Events(s) \in Resetters \ {t} /\ Watch(s) \in Resetters \ {t}
      BY <1>1, <3>1, TaskNames
    <3>3. s # FailedOf(t)
      <4>1. CASE t = WorkerTask
        <5>1. using <= opened /\ using \in Nat /\ opened \in Nat /\ s \in Nat
          BY <1>1, UsingNumber DEF Life
        <5> QED BY <2>1, <4>1, <5>1 DEF FailedOf
      <4>2. CASE t # WorkerTask
        <5>1. PICK q \in Sessions : t = Events(q) \/ t = Watch(q)
          BY <4>2 DEF Resetters
        <5> QED BY <3>2, <5>1, TaskNames
      <4> QED BY <4>1, <4>2
    <3> QED BY <1>1, <1>6, <3>1, <3>2, <3>3 DEF Closed, Types
  <2> QED BY <1>1, <2>1 DEF Life, Numbered
<1>11. \A u \in Resetters : place'[u] \notin {"reset cancel", "reset close"}
  BY <1>3, <1>5, <1>6 DEF Holding
<1>12. Live'
  <2>1. ASSUME NEW s \in Sessions, transport'[s] \in {"open", "lost"}
        PROVE  FALSE
    <3>2. s # 0
      BY DEF Sessions
    <3>1. transport[s] \in {"open", "lost"} /\ s # FailedOf(t)
      BY <1>1, <2>1, <3>2, ClosedShuts
    <3>3. PICK u \in Resetters : place[u] = "reset close" /\ FailedOf(u) = s
      BY <1>1, <1>2, <3>1, <3>2 DEF Life, Live
    <3> QED BY <1>6, <3>1, <3>3 DEF Holding
  <2> QED BY <2>1 DEF Live
<1>13. Exclusive'
  BY <1>1, <1>2, <1>11 DEF Exclusive
<1>14. Message'
  <2>1. NoneEnters({WorkerTask}, "send")
    BY <1>3, <1>5, TaskNames DEF NoneEnters
  <2>2. NoneEnters(Resetters, "reset cancel")
    BY <1>11 DEF NoneEnters
  <2> QED BY <1>1, <1>9, <2>1, <2>2, MessageKept
<1> QED BY <1>7, <1>8, <1>9, <1>10, <1>12, <1>13, <1>14 DEF Sound, Life
-----------------------------------------------------------------------------
\* The end of stop()

\* The coordinator has stopped; the newest event loop is cancelled.
LEMMA StopsEventsSound ==
  ASSUME SInv, Coordinator!IInv', StopsEvents
  PROVE  Sound'
PROOF
<1>1. PICK e \in Resetters : e = Events(opened) /\ e # WorkerTask
  BY TaskNames DEF SInv, Sound, Types
<1>2. /\ Types /\ Lock /\ LoopAt /\ Stopper \in Tasks /\ e \in Tasks /\ e # Stopper
      /\ place[Stopper] = "await worker"
      /\ UNCHANGED <<session, serviceStopping, opened, transport, using, sent,
                     controllerStarted, failures>>
  BY TaskNames DEF SInv, Sound, StopsEvents
<1>3. /\ worker = "dead" /\ worker' = "none" /\ ~stopping'
      /\ UNCHANGED <<submitted, nextId>> /\ turn'.phase # "responding"
  BY <1>2 DEF StopsEvents, TC!StopEnd, TC!NoTurn
<1>4. Holds(Stopper) /\ place[e] \notin Holding
  BY <1>2, HolderAlone DEF Lock, Holding
<1>5. PICK p \in PlacesOf(e) :
        /\ place' = [place EXCEPT ![Stopper] = "await events", ![e] = p]
        /\ \/ p = "done" /\ lockq' = Without(lockq, e)
           \/ p = "reset lock" /\ place[e] = "run" /\ lockq' = Append(lockq, e)
  <2>1. PlacesOf(e) = {"none", "run", "wait", "reset lock", "reset cancel",
                       "reset close", "done"}
    BY <1>1, PlacesEach
  <2> QED BY <1>1, <2>1 DEF StopsEvents
<1>6. /\ place' \in [Tasks -> Places]
      /\ place'[Stopper] = "await events" /\ place'[e] = p
      /\ \A u \in Tasks \ {Stopper, e} : place'[u] = place[u]
  BY <1>2, <1>5, PlacesEach DEF Types
<1>7. \A u \in Tasks : place'[u] \in PlacesOf(u)
  <2>1. "await events" \in PlacesOf(Stopper)
    BY PlacesEach
  <2> QED BY <1>2, <1>5, <1>6, <2>1 DEF Types
<1>8. Lock'
  <2>1. \A u \in Tasks \ {e} : Stays(u)
    <3>1. Stays(Stopper)
      BY <1>2, <1>6 DEF Stays, Holding
    <3> QED BY <1>6, <3>1 DEF Stays
  <2>2. CASE p = "done"
    <3>1. Out(e)'
      BY <1>6, <2>2 DEF Out, Waiting, Holding
    <3> QED BY <1>2, <1>5, <2>1, <2>2, <3>1, LockGivenUp
  <2>3. CASE p = "reset lock"
    <3>1. Out(e) /\ place'[e] \in Waiting
      BY <1>5, <1>6, <2>3 DEF Out, Waiting, Holding
    <3> QED BY <1>2, <1>5, <2>1, <2>3, <3>1, LockWanted
  <2> QED BY <1>5, <2>2, <2>3
<1>9. LoopAt'
  <2>1. place'[WorkerTask] = place[WorkerTask] /\ place'[Client] = place[Client]
    BY <1>1, <1>6, TaskNames
  <2> QED BY <1>2, <1>3, <1>6, <2>1 DEF LoopAt
<1>10. /\ \A u \in Resetters \ {e} : place'[u] = place[u]
       /\ place'[e] \notin {"reset cancel", "reset close"}
       /\ place[e] \notin {"reset cancel", "reset close"}
       /\ \A u \in Starters : place'[u] = place[u]
  <2>1. \A u \in Resetters : u # Stopper
    BY TaskNames
  <2>2. \A u \in Starters : u # Stopper /\ u # e
    BY <1>1, TaskNames
  <2> QED BY <1>4, <1>5, <1>6, <2>1, <2>2, TaskNames DEF Holding
<1>11. /\ NoneTries /\ NoneEnters(Resetters, "reset cancel")
       /\ NoneEnters({WorkerTask}, "send")
  BY <1>10, TaskNames DEF NoneEnters, NoneTries, Attempts
<1>12. /\ \A u \in Resetters \ {Events(opened)} : place[u] = "none" => place'[u] = "none"
       /\ \A u \in Resetters : place'[u] = "reset close" <=> place[u] = "reset close"
  BY <1>1, <1>10
<1> QED BY <1>2, <1>3, <1>6, <1>7, <1>8, <1>9, <1>11, <1>12, QuietStep DEF Types

\* The session is closed and the lock released.
LEMMA StopClosesSound ==
  ASSUME SInv, Coordinator!IInv', StopCloses
  PROVE  Sound'
PROOF
<1>1. /\ Types /\ Lock /\ LoopAt /\ Life /\ Message /\ Coordinator!IInv
      /\ Stopper \in Tasks /\ place[Stopper] = "await events"
      /\ session' = 0 /\ Closed(session) /\ controllerStarted' = FALSE
      /\ lockq' = Tail(lockq) /\ Moves(Stopper, "await watch")
      /\ UNCHANGED <<serviceStopping, opened, using, sent, failures>>
  BY TaskNames DEF SInv, Sound, StopCloses, Moves
<1>2. UNCHANGED <<worker, stopping, submitted, turn, nextId>>
  BY DEF StopCloses, coordinatorVars
<1>3. Holds(Stopper) /\ turn.phase # "responding"
  BY <1>1 DEF Lock, Holding, LoopAt
<1>4. "await watch" \in PlacesOf(Stopper)
  BY PlacesEach
<1>5. /\ place'[Stopper] = "await watch"
      /\ \A u \in Tasks \ {Stopper} : place'[u] = place[u] /\ Stays(u)
      /\ place' \in [Tasks -> Places]
      /\ \A u \in Tasks : place'[u] \in PlacesOf(u)
  BY <1>1, <1>4, MovesFacts
<1>6. /\ \A u \in Resetters : place'[u] = place[u] /\ place[u] \notin Holding
      /\ \A u \in Starters : place'[u] = place[u]
  BY <1>1, <1>3, <1>5, HolderAlone, TaskNames
<1>7. Types'
  <2>1. transport' \in [Sessions -> {"none", "open", "lost", "closed", "stuck"}]
    BY <1>1 DEF Types, Closed
  <2> QED BY <1>1, <1>5, <2>1 DEF Types
<1>8. Lock'
  <2>1. Out(Stopper)'
    BY <1>5 DEF Out, Waiting, Holding
  <2> QED BY <1>1, <1>3, <1>5, <2>1, LockReleased
<1>9. LoopAt'
  <2>1. place'[WorkerTask] = place[WorkerTask] /\ place'[Client] = place[Client]
    BY <1>5, TaskNames
  <2> QED BY <1>1, <1>2, <1>5, <2>1 DEF LoopAt
<1>10. Numbered'
  <2>1. ASSUME NEW s \in Sessions, s > opened
        PROVE  transport'[s] = "none"
    <3>1. transport[s] = "none" /\ session <= opened
      BY <1>1, <2>1 DEF Life, Numbered
    <3>2. s # session /\ s # 0
      <4>1. /\ opened \in Nat /\ s \in Nat /\ session \in Nat
        BY <1>1, SessionNumber
      <4> QED BY <2>1, <3>1, <4>1
    <3> QED BY <1>1, <3>1, <3>2, ClosedShuts
  <2>2. 0 <= opened
    BY <1>1, SessionNumber
  <2> QED BY <1>1, <1>6, <2>1, <2>2, TaskNames DEF Life, Numbered
<1>11. Live'
  <2>1. ASSUME NEW s \in Sessions, transport'[s] \in {"open", "lost"}
        PROVE  FALSE
    <3>1. s # 0
      BY DEF Sessions
    <3>2. transport[s] \in {"open", "lost"} /\ s # session
      BY <1>1, <2>1, <3>1, ClosedShuts
    <3>3. PICK u \in Resetters : place[u] = "reset close" /\ FailedOf(u) = s
      BY <1>1, <3>2 DEF Life, Live
    <3> QED BY <1>6, <3>3 DEF Holding
  <2> QED BY <2>1 DEF Live
<1>12. Exclusive'
  BY <1>1, <1>6 DEF Exclusive, Holding
<1>13. Message'
  <2>1. NoneEnters({WorkerTask}, "send")
    BY <1>6, TaskNames DEF NoneEnters
  <2>2. Sent'
    BY <1>1, <1>2, <2>1, SentKept DEF Message
  <2> QED BY <1>2, <1>3, <2>2 DEF Message, Heading, NoTurnOnDeadSession
<1> QED BY <1>7, <1>8, <1>9, <1>10, <1>11, <1>12, <1>13 DEF Sound, Life
-----------------------------------------------------------------------------
\* The invariant

\* The service after it has started.
LEMMA InitSInv == Init => SInv
PROOF
<1> SUFFICES ASSUME Init PROVE SInv
  OBVIOUS
<1>1. Coordinator!IInv
  <2>1. Coordinator!TypeOK
    BY DEF Init, TC!NoTurn, Coordinator!NoTurn, Coordinator!TypeOK, Coordinator!Ids,
           Coordinator!Texts, Coordinator!WorkerPlaces
  <2>2. Coordinator!TextOrder /\ Coordinator!NewestTextKept
    BY DEF Init, Coordinator!TextOrder, Coordinator!NewestTextKept
  <2>3. Coordinator!LoopState /\ Coordinator!InterruptState
    BY DEF Init, TC!NoTurn, Coordinator!NoTurn, Coordinator!LoopState,
           Coordinator!InterruptState
  <2> QED BY <2>1, <2>2, <2>3 DEF Coordinator!IInv
<1>2. 1 \in Sessions
  BY DEF Sessions
<1>3. /\ Events(1) \in Tasks /\ Watch(1) \in Tasks /\ Events(1) # Watch(1)
      /\ {Events(1), Watch(1)} \cap {Client, WorkerTask, Reconnect, Stopper} = {}
  BY <1>2, TaskNames
<1>4. /\ place \in [Tasks -> {"run", "wait", "none", "idle"}]
      /\ place[Events(1)] = "run" /\ place[Watch(1)] = "wait"
      /\ \A t \in {Client, WorkerTask, Reconnect, Stopper} : place[t] = "idle"
      /\ \A s \in Sessions \ {1} : place[Events(s)] = "none" /\ place[Watch(s)] = "none"
  <2>1. place \in [Tasks -> {"run", "wait", "none", "idle"}]
    BY DEF Init
  <2>2. place[Events(1)] = "run" /\ place[Watch(1)] = "wait"
    <3>1. /\ Events(1)[1] = "events" /\ Events(1)[2] = 1
          /\ Watch(1)[1] = "watch" /\ Watch(1)[2] = 1
      BY DEF Events, Watch
    <3> QED BY <1>3, <3>1 DEF Init
  <2>3. \A t \in {Client, WorkerTask, Reconnect, Stopper} :
          t[1] \notin {"events", "watch"} /\ t \in Tasks
    BY TaskNames DEF Client, WorkerTask, Reconnect, Stopper
  <2>4. \A t \in {Client, WorkerTask, Reconnect, Stopper} : place[t] = "idle"
    BY <1>3, <2>3 DEF Init
  <2>5. ASSUME NEW s \in Sessions \ {1}
        PROVE  place[Events(s)] = "none" /\ place[Watch(s)] = "none"
    <3>1. /\ Events(s) \in Tasks /\ Events(s)[1] = "events" /\ Events(s)[2] = s
          /\ Watch(s) \in Tasks /\ Watch(s)[1] = "watch" /\ Watch(s)[2] = s
      BY TaskNames DEF Events, Watch
    <3>2. Events(s) \notin {Events(1), Watch(1)} /\ Watch(s) \notin {Events(1), Watch(1)}
      BY <1>2, TaskNames
    <3> QED BY <3>1, <3>2 DEF Init
  <2> QED BY <2>1, <2>2, <2>4, <2>5
<1>5. \A t \in Tasks : place[t] \in PlacesOf(t)
  <2>1. \A s \in Sessions : /\ Events(s) \in Resetters \ {WorkerTask}
                            /\ Watch(s) \in Resetters \ {WorkerTask}
    BY TaskNames
  <2>2. \A s \in Sessions : /\ place[Events(s)] \in {"run", "none"}
                            /\ place[Watch(s)] \in {"wait", "none"}
    BY <1>4
  <2>3. ASSUME NEW s \in Sessions
        PROVE  /\ place[Events(s)] \in PlacesOf(Events(s))
               /\ place[Watch(s)] \in PlacesOf(Watch(s))
    <3>1. {PlacesOf(Events(s)), PlacesOf(Watch(s))} =
            {{"none", "run", "wait", "reset lock", "reset cancel", "reset close", "done"}}
      BY <2>1, PlacesEach
    <3> QED BY <2>2, <3>1
  <2> QED BY <1>4, <2>3, TaskNames, PlacesEach
<1>6. Types
  <2>1. place \in [Tasks -> Places]
    BY <1>4 DEF Places
  <2>2. /\ session \in {0} \cup Sessions /\ opened \in Sessions
        /\ using \in {0} \cup Sessions /\ failures \in 0..MaxFailures
        /\ serviceStopping \in BOOLEAN /\ controllerStarted \in BOOLEAN
    <3>1. /\ session = 1 /\ opened = 1 /\ using = 0 /\ failures = 0
          /\ serviceStopping = FALSE /\ controllerStarted = TRUE
      BY DEF Init
    <3>2. 0 \in 0..MaxFailures
      OBVIOUS
    <3> QED BY <1>2, <3>1, <3>2
  <2>3. sent \in ({0} \cup 1..MaxTexts) \X ({0} \cup Sessions)
    BY DEF Init
  <2>4. transport \in [Sessions -> {"none", "open", "lost", "closed", "stuck"}]
    BY DEF Init
  <2> QED BY <1>5, <2>1, <2>2, <2>3, <2>4 DEF Types
<1>7. Lock
  <2>1. lockq = <<>> /\ Len(lockq) = 0 /\ lockq \in Seq(Tasks)
    BY DEF Init
  <2>2. \A t : ~In(t, lockq)
    BY <2>1 DEF In
  <2>3. \A t \in Tasks : place[t] \notin Waiting \cup Holding
    BY <1>4 DEF Waiting, Holding
  <2> QED BY <2>1, <2>2, <2>3 DEF Lock, Distinct
<1>8. LoopAt
  BY <1>4 DEF Init, LoopAt, TC!NoTurn
<1>9. Life
  <2>1. Numbered
    <3>1. \A s \in Sessions : s > 1 => s \in Sessions \ {1}
      BY DEF Sessions
    <3> QED BY <1>4, <3>1 DEF Init, Numbered
  <2>2. Live
    BY DEF Init, Live
  <2>3. \A t \in Tasks : place[t] \notin Attempts \cup {"reset close", "reset cancel"}
    BY <1>4 DEF Attempts
  <2> QED BY <2>1, <2>2, <2>3, TaskNames DEF Life, Exclusive
<1>10. Message
  BY <1>4 DEF Init, Message, Sent, Heading, NoTurnOnDeadSession, TC!NoTurn
<1> QED BY <1>1, <1>6, <1>7, <1>8, <1>9, <1>10 DEF SInv, Sound

\* Every step preserves it.
LEMMA NextSInv == SInv /\ [Next]_vars => SInv'
PROOF
<1> SUFFICES ASSUME SInv, [Next]_vars PROVE Sound'
  BY NextCoordinator DEF SInv
<1>1. Coordinator!IInv'
  BY NextCoordinator
<1>2. ASSUME NEW t \in Starters, Start(t) PROVE Sound'
  BY <1>1, <1>2, StartFindsSound, OpenBeginSound, OpenSucceedsSound, OpenFailsSound,
     DiscardedSound
     DEF Start
<1>3. ASSUME NEW t \in Resetters, Reset(t) PROVE Sound'
  BY <1>1, <1>3, ResetTooLateSound, ResetInterruptsSound, ResetDropsSound,
     ResetReturnsSound DEF Reset
<1>4. ASSUME NEW s \in Sessions,
             ConnectionLost(s) \/ EventsEnd(s) \/ TransportClosed(s)
      PROVE  Sound'
  BY <1>1, <1>4, ConnectionLostSound, EventsEndSound, TransportClosedSound
<1>5. CASE ClientSubmits \/ ClientCancelled
  BY <1>1, <1>5, ClientSubmitsSound, ClientCancelledSound
<1>6. CASE Loop \/ Send \/ ResponseDone
  BY <1>1, <1>6, WorkerInterruptsSound, TurnBeginsSound, WorkerEndsSound,
     SendSucceedsSound, SendFailsSound, ResponseDoneSound DEF Loop, Send
<1>7. CASE Reconnecting
  BY <1>1, <1>7, ReconnectChecksSound, ReconnectAbortedSound DEF Reconnecting
<1>8. CASE StopCalled \/ Stop
  BY <1>1, <1>8, StopCalledSound, StopReconnectEndedSound, StopsCoordinatorSound,
     StopsEventsSound, StopClosesSound, StopReturnsSound DEF Stop
<1>9. CASE UNCHANGED vars
  <2>1. /\ UNCHANGED <<place, lockq, session, serviceStopping, opened, using, sent,
                       transport, controllerStarted, failures>>
        /\ UNCHANGED <<worker, stopping, submitted, turn, nextId>>
    BY <1>9 DEF vars, coordinatorVars
  <2>2. Types /\ LoopAt
    BY DEF SInv, Sound
  <2>3. LoopAt'
    BY <2>1, <2>2, LoopKept
  <2> QED BY <1>1, <2>1, <2>2, <2>3, QuietService DEF Types, MayGetLost
<1>10. CASE Exit
  BY <1>9, <1>10 DEF Exit
<1> QED BY <1>2, <1>3, <1>4, <1>5, <1>6, <1>7, <1>8, <1>9, <1>10 DEF Next

\* Hence it holds always.
LEMMA InductiveInvariant == Spec => []SInv
  BY InitSInv, NextSInv, PTL DEF Spec

-----------------------------------------------------------------------------
\* The types of the service and of its coordinator; nobody is in the lock's
\* queue twice.
THEOREM TypeCorrect == Spec => []TypeOK
PROOF
<1>1. SInv => TypeOK
  <2> SUFFICES ASSUME SInv PROVE TypeOK
    OBVIOUS
  <2>1. TC!TypeOK
    BY DEF SInv, Coordinator!IInv, TC!TypeOK, Coordinator!TypeOK, TC!Turn, TC!NoTurn,
           TC!Texts, TC!Ids, TC!WorkerPlaces, Coordinator!Turn, Coordinator!NoTurn,
           Coordinator!Texts, Coordinator!Ids, Coordinator!WorkerPlaces
  <2> QED BY <2>1 DEF SInv, Sound, Types, Lock, Distinct, TypeOK
<1> QED BY <1>1, InductiveInvariant, PTL

\* Two of them would need two holders of the lock.
LEMMA LiveAlone ==
  ASSUME SInv
  PROVE  /\ \A r, s \in Sessions :
              {transport[r], transport[s]} \subseteq {"open", "lost"} => r = s
         /\ \A t, u \in Starters : {place[t], place[u]} \subseteq Attempts => t = u
         /\ \A s \in Sessions, t \in Starters :
              ~(transport[s] \in {"open", "lost"} /\ place[t] \in Attempts)
PROOF
<1>1. Lock /\ Live /\ Exclusive
  BY DEF SInv, Sound, Life
<1>2. ASSUME NEW t \in Tasks, NEW u \in Tasks, place[t] \in Holding, place[u] \in Holding
      PROVE  t = u
  BY <1>1, <1>2, HolderAlone DEF Lock
<1>3. \A s \in Sessions : s # 0
  BY DEF Sessions
<1>4. Attempts \subseteq Holding /\ "reset close" \in Holding \ Attempts
  BY DEF Attempts, Holding
<1>5. /\ \A t, u \in Resetters : place[t] = "reset close" /\ place[u] = "reset close" => t = u
      /\ \A t, u \in Starters : place[t] \in Attempts /\ place[u] \in Attempts => t = u
      /\ \A t \in Resetters, u \in Starters :
           ~(place[t] = "reset close" /\ place[u] \in Attempts)
  BY <1>2, <1>4, TaskNames DEF Holding
<1> QED BY <1>1, <1>3, <1>5 DEF Live, Exclusive

\* "Session startup is serialized": of the sessions opened or being opened one at
\* most has been neither closed nor given up.
THEOREM OneLive == Spec => []OneLiveSession
PROOF
<1>1. SInv => OneLiveSession
  <2> SUFFICES ASSUME SInv PROVE OneLiveSession
    OBVIOUS
  <2> DEFINE live == {s \in Sessions : transport[s] \in {"open", "lost"}}
             opening == {t \in Starters : place[t] \in Attempts}
  <2>1. /\ \A r, s \in live : r = s
        /\ \A t, u \in opening : t = u
        /\ live = {} \/ opening = {}
    BY LiveAlone
  <2> HIDE DEF live, opening
  <2>2. /\ Cardinality(live) \in {0, 1} /\ (Cardinality(live) = 1 => live # {})
        /\ Cardinality(opening) \in {0, 1}
        /\ (Cardinality(opening) = 1 => opening # {})
    BY <2>1, AtMostOne
  <2>3. Cardinality(live) + Cardinality(opening) <= 1
    BY <2>1, <2>2
  <2> QED BY <2>3 DEF OneLiveSession, live, opening
<1> QED BY <1>1, InductiveInvariant, PTL

\* No turn responds on a session that is gone.
THEOREM DeadSession == Spec => []NoTurnOnDeadSession
PROOF
<1>1. SInv => NoTurnOnDeadSession
  BY DEF SInv, Sound, Message
<1> QED BY <1>1, InductiveInvariant, PTL

\* A session goes only with its own failure or with the stop.
LEMMA SessionGoes ==
  ASSUME SInv, [Next]_vars, session # 0, session' # session
  PROVE  /\ session' = 0
         /\ \/ place[Stopper] = "await events"
            \/ \E t \in Resetters : place[t] # "reset close"
                                    /\ place'[t] = "reset close"
                                    /\ FailedOf(t) = session
PROOF
<1>1. Types /\ Exclusive
  BY DEF SInv, Sound, Life
<1>2. ASSUME NEW t \in Starters PROVE ~Start(t)
  BY <1>1 DEF Start, StartFindsSession, OpenBegin, OpenSucceeds, OpenFails, Discarded,
         Exclusive, Attempts
<1>3. ASSUME NEW t \in Resetters, Reset(t) PROVE ResetDropsSession(t)
  BY <1>3 DEF Reset, ResetTooLate, ResetInterrupts, ResetReturns
<1>4. ASSUME NEW t \in Resetters, ResetDropsSession(t)
      PROVE  /\ session' = 0 /\ place[t] # "reset close" /\ place'[t] = "reset close"
             /\ FailedOf(t) = session
  BY <1>1, <1>4, TaskNames DEF ResetDropsSession, StillFailed, Exclusive, Types
<1>5. CASE StopCloses
  BY <1>5 DEF StopCloses
<1>6. ~(\E s \in Sessions : ConnectionLost(s) \/ EventsEnd(s) \/ TransportClosed(s))
  BY DEF ConnectionLost, EventsEnd, TransportClosed
<1>7. ~ClientSubmits /\ ~ClientCancelled /\ ~Loop /\ ~Send /\ ~ResponseDone
  BY DEF ClientSubmits, ClientCancelled, Loop, WorkerInterrupts, TurnBegins,
         WorkerEnds, Send, SendSucceeds, SendFails, ResponseDone
<1>8. ~Reconnecting /\ ~StopCalled /\ ~Exit /\ ~(UNCHANGED vars)
  BY DEF Reconnecting, ReconnectChecks, ReconnectAborted, StopCalled, Exit, vars
<1>9. Stop => StopCloses
  BY DEF Stop, StopReconnectEnded, StopsCoordinator, StopsEvents, StopReturns
<1> QED BY <1>2, <1>3, <1>4, <1>5, <1>6, <1>7, <1>8, <1>9 DEF Next

\* A failure noticed late takes down the session that failed and no other.
THEOREM LateFailure == Spec => LateFailureHarmless
PROOF
<1>1. SInv /\ [Next]_vars
        => [session # 0 /\ session' # session
              => /\ session' = 0
                 /\ \/ place[Stopper] = "await events"
                    \/ \E t \in Resetters : place[t] # "reset close"
                                            /\ place'[t] = "reset close"
                                            /\ FailedOf(t) = session]_vars
  BY SessionGoes
<1> QED BY <1>1, InductiveInvariant, PTL DEF Spec, LateFailureHarmless
\* With all its tasks the service keeps the promise of its coordinator: it is
\* LatestTextWins, whichever sessions fail and whoever interrupts.
THEOREM NewestTextWins == Spec => Coordinator!ImplementsLatestTextWins
PROOF
<1>1. Init => Coordinator!Abstract!Init
  <2> SUFFICES ASSUME Init PROVE Coordinator!Abstract!Init
    OBVIOUS
  <2>1. Coordinator!Eligible = 0 /\ (1..nextId) \ {Coordinator!Eligible} = {}
    BY DEF Init, TC!NoTurn, Coordinator!Eligible
  <2> QED BY <2>1 DEF Init, Coordinator!Abstract!Init
<1>2. SInv /\ [Next]_vars
        => [Coordinator!Abstract!Next]_(Coordinator!Abstract!vars)
  <2> SUFFICES ASSUME SInv, [Next]_vars
               PROVE  [Coordinator!Abstract!Next]_(Coordinator!Abstract!vars)
    OBVIOUS
  <2>1. [Coordinator!Next]_(Coordinator!vars)
    BY StepCoordinates DEF coordinatorVars, Coordinator!vars
  <2> QED BY <2>1, Coordinator!StepSimulation DEF SInv, Coordinator!StepSimulation
<1> QED
  BY <1>1, <1>2, InductiveInvariant, PTL
  DEF Spec, Coordinator!ImplementsLatestTextWins, Coordinator!Abstract!Spec
=============================================================================
