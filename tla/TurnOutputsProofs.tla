-------------------------- MODULE TurnOutputsProofs --------------------------
(***************************************************************************)
(* What a turn shows and says, for any number of displays, sessions, turns *)
(* and chunks: an interrupted turn falls silent, and one thread at a time  *)
(* writes to the speaker.                                                  *)
(*                                                                         *)
(* Only the bridge of the session writes, and it writes for the turn that  *)
(* the coordinator has (Owned): the reset of a failed session closes the   *)
(* speaker before it drops the session, and a new turn begins after the    *)
(* close of the old one.  A close waits behind whatever is being written   *)
(* (Behind), so that nothing is written any more when it is over (Silent). *)
(* A thread that outlives its write has disabled the speaker (Writing).    *)
(*                                                                         *)
(* For this a response must not be taken for one of the current turn while *)
(* a reset is underway (Resetting), and a bridge left over from a failed   *)
(* session must not finish the turn of its successor (Older).              *)
(***************************************************************************)
EXTENDS TurnOutputs, Queues

USE EmittersAssumption, MaxTurnsAssumption, MaxChunksAssumption

\* What the displays may show when t turns have begun.
Events(t) == [state : {"none", "attract", "thinking", "error"}, of : 0..t]

DisplayTypes ==
  /\ clients \subseteq Clients
  /\ socket \in [Clients -> {"away", "joining", "reading", "stalled"}]
  /\ \A c \in Clients : c \in clients => socket[c] # "away"
  /\ sending \in [Emitters -> {<<>>} \cup {<<S>> : S \in SUBSET Clients}]
  /\ shown \in [Clients -> Events(lastTurn)]

AudioTypes ==
  /\ play_audio \in BOOLEAN /\ stream \in BOOLEAN
  /\ threads \subseteq 1..chunks /\ chunks \in 0..MaxChunks
  /\ chunk \in [Bridges -> 0..chunks] /\ of \in [Bridges -> 0..lastTurn]
  /\ bridge \in [Bridges -> {"off", "read", "write", "closing", "failed",
                             "finished", "attract"}]

TaskTypes ==
  /\ text \in BOOLEAN /\ interrupting \in BOOLEAN
  /\ lastTurn \in 0..MaxTurns
  /\ turn \in 0..lastTurn /\ asked \in 0..lastTurn /\ hand \in 0..lastTurn
  /\ interrupting => turn # 0
  /\ loop \in {"idle", "close", "clear", "cleared", "start", "transcript",
               "thinking"}
  /\ target \in Bridges \cup {None} /\ session \in Bridges \cup {None}
  /\ reset \in {"idle", "close", "clear", "cleared", "error", "attract"}

Queue == audioq \in Seq(Emitters) /\ Distinct(audioq)

\* Who is in line for the speaker.
InLine(w) ==
  \/ w \in Bridges /\ bridge[w] \in {"write", "closing"}
  \/ w = Loop /\ loop = "close"
  \/ w = Reset /\ reset = "close"

Line == \A w : In(w, audioq) <=> InLine(w)

Owned ==
  \A b \in Bridges : bridge[b] = "write" =>
    /\ session = b /\ turn # 0 /\ of[b] = turn
    /\ interrupting => loop = "close" \/ reset = "close"

Behind ==
  \A b \in Bridges : bridge[b] = "write" =>
    \A w \in {Loop, Reset} : Before(b, w, audioq)

Silent ==
  loop \in {"clear", "cleared"} \/ reset \notin {"idle", "close"} =>
    \A b \in Bridges : bridge[b] # "write"

Writing ==
  /\ \A j, k \in threads : j = k
  /\ \A b \in Bridges :
       bridge[b] = "write" => threads \subseteq {chunk[b]} /\ chunk[b] # 0
  /\ threads # {} =>
       ~play_audio \/ \E b \in Bridges : bridge[b] = "write"

\* The coordinator has the newest turn, or none, and room for the next.
Turns ==
  /\ turn \in {0, lastTurn}
  /\ Cancelling => current = 0 /\ lastTurn < MaxTurns
                   /\ (text => lastTurn + 1 < MaxTurns)
  /\ text => lastTurn < MaxTurns

Sessions ==
  /\ session # None => bridge[session] # "off"
  /\ loop \in {"transcript", "thinking"} => target \in Bridges /\ bridge[target] # "off"

Resetting ==
  /\ reset # "idle" => current = 0 \/ asked # current
  /\ reset \in {"error", "attract"} => session = None
  /\ reset \in {"close", "clear", "cleared"} =>
       /\ turn = hand => interrupting
       /\ loop \in {"transcript", "thinking"} => current = 0
       /\ \A b \in Bridges : of[b] <= hand

Older ==
  \A b \in Bridges :
    /\ current # 0 /\ of[b] = current => session = b
    /\ bridge[b] = "failed" => of[b] # 0

Speaking == AudioTypes /\ Queue /\ Line /\ Behind /\ Writing
Control == TaskTypes /\ Owned /\ Silent /\ Turns /\ Sessions /\ Resetting /\ Older
IInv == DisplayTypes /\ Speaking /\ Control /\ blocked \in BOOLEAN

-----------------------------------------------------------------------------
\* The parts make up the type invariant.
LEMMA Parts == IInv => TypeOK
PROOF
<1> SUFFICES ASSUME IInv PROVE TypeOK
  OBVIOUS
<1>1. \A c \in Clients : shown[c].of \in 0..lastTurn
  BY DEF IInv, DisplayTypes, Events
<1>2. {audioq[n] : n \in 1..Len(audioq)} =
        {b \in Bridges : bridge[b] \in {"write", "closing"}}
        \cup {w \in {Loop} : loop = "close"} \cup {w \in {Reset} : reset = "close"}
  <2>1. \A w : w \in {audioq[n] : n \in 1..Len(audioq)} <=> InLine(w)
    BY DEF IInv, Speaking, Line, In
  <2>2. \A w : InLine(w) <=>
          w \in {b \in Bridges : bridge[b] \in {"write", "closing"}}
                \cup {v \in {Loop} : loop = "close"} \cup {v \in {Reset} : reset = "close"}
    BY DEF InLine
  <2> QED BY <2>1, <2>2
<1> QED BY <1>1, <1>2 DEF IInv, DisplayTypes, Speaking, AudioTypes, Control, TaskTypes,
                          TypeOK

\* The initial state satisfies the inductive invariant.
LEMMA InitIInv == Init => IInv
PROOF
<1> SUFFICES ASSUME Init PROVE IInv
  OBVIOUS
<1>1. DisplayTypes
  BY DEF Init, BroadcasterInit, NoState, DisplayTypes, Events
<1>2. AudioTypes /\ Writing
  <2>1. /\ 0 \in 0..MaxChunks /\ chunks = 0 /\ lastTurn = 0 /\ threads = {}
        /\ [b \in Bridges |-> 0] \in [Bridges -> 0..0]
    BY DEF Init, AudioInit
  <2> QED BY <2>1 DEF Init, AudioInit, AudioTypes, Writing
<1>3. audioq = <<>> /\ audioq \in Seq(Emitters) /\ Len(audioq) = 0
  BY DEF Init, AudioInit
<1>4. Queue /\ Line /\ Behind
  BY <1>3 DEF Init, AudioInit, Queue, Distinct, Line, In, InLine, Behind
<1>5. Control
  <2>1. 0 \in 0..MaxTurns /\ 0 \in 0..0
    OBVIOUS
  <2>2. TaskTypes
    BY <2>1 DEF Init, TaskTypes
  <2>3. current = 0 /\ \A b \in Bridges : bridge[b] = "off"
    BY DEF Init, AudioInit, current
  <2> QED BY <2>2, <2>3 DEF Init, Control, Owned, Silent, Turns, Cancelling, Sessions,
                      Resetting, Older
<1>6. blocked \in BOOLEAN
  BY DEF Init, AudioInit
<1> QED BY <1>1, <1>2, <1>4, <1>5, <1>6 DEF IInv, Speaking

-----------------------------------------------------------------------------
\* The displays

\* A broadcast puts an event of a turn begun so far on the displays.
LEMMA BroadcastTypes ==
  ASSUME DisplayTypes, lastTurn' = lastTurn, NEW e, NEW event \in Events(lastTurn),
         Broadcast(e, event)
  PROVE  DisplayTypes'
BY DEF DisplayTypes, Broadcast

\* Every step leaves the displays in order.
LEMMA NextDisplays ==
  ASSUME IInv, [Next]_vars
  PROVE  DisplayTypes'
PROOF
<1>1. /\ DisplayTypes /\ lastTurn \in Nat /\ turn \in 0..lastTurn
      /\ of \in [Bridges -> 0..lastTurn]
  BY DEF IInv, Speaking, AudioTypes, Control, TaskTypes
<1>2. /\ NoState \in Events(lastTurn) /\ Attract \in Events(lastTurn)
      /\ \A t \in 0..lastTurn : /\ Event("thinking", t) \in Events(lastTurn)
                                /\ Event("attract", t) \in Events(lastTurn)
                                /\ Event("error", t) \in Events(lastTurn)
  BY <1>1 DEF Events, NoState, Attract, Event
<1>3. CASE UNCHANGED displayVars /\ lastTurn' \in {lastTurn, lastTurn + 1}
  <2>1. Events(lastTurn) \subseteq Events(lastTurn')
    BY <1>1, <1>3 DEF Events
  <2> QED BY <1>1, <1>3, <2>1 DEF DisplayTypes, displayVars
<1>4. ASSUME lastTurn' = lastTurn, NEW e,
             \/ Broadcast(e, NoState) \/ Broadcast(e, Attract)
             \/ \E t \in 0..lastTurn : \/ Broadcast(e, Event("thinking", t))
                                       \/ Broadcast(e, Event("attract", t))
                                       \/ Broadcast(e, Event("error", t))
      PROVE  DisplayTypes'
  BY <1>1, <1>2, <1>4, BroadcastTypes
<1>5. CASE Submit \/ LoopSteps
  <2>1. CASE Submit \/ TakeIdle \/ TakeAndCancel \/ SpeakerClosed \/ Cancelled \/ Sent
    BY <1>3, <2>1 DEF Submit, TakeIdle, TakeAndCancel, SpeakerClosed, Cancelled, Begins,
                      Sent
  <2>2. CASE ClearEmotion \/ StartTranscript \/ StartThinking
    <3>1. lastTurn \in 0..lastTurn /\ lastTurn' = lastTurn
      BY <1>1, <2>2 DEF ClearEmotion, StartTranscript, StartThinking
    <3> QED BY <1>4, <2>2, <3>1 DEF ClearEmotion, StartTranscript, StartThinking
  <2> QED BY <1>5, <2>1, <2>2 DEF LoopSteps
<1>6. CASE ResetInterrupts \/ ResetFindsNoTurn \/ ResetSteps
  <2>1. CASE ResetInterrupts \/ ResetClosed \/ ResetEnds
    BY <1>3, <2>1 DEF ResetInterrupts, ResetClosed, ResetEnds
  <2>2. CASE ResetFindsNoTurn \/ ResetClearsEmotion \/ ResetDrops \/ ResetAttract
    <3>1. 0 \in 0..lastTurn /\ lastTurn' = lastTurn
      BY <1>1, <2>2 DEF ResetFindsNoTurn, ResetClearsEmotion, ResetDrops, ResetAttract
    <3> QED BY <1>4, <2>2, <3>1 DEF ResetFindsNoTurn, DropsSession, ResetClearsEmotion,
                                    ResetDrops, ResetAttract
  <2> QED BY <1>6, <2>1, <2>2 DEF ResetSteps
<1>7. ASSUME NEW b \in Bridges,
             Opens(b) \/ BridgeAudio(b) \/ BridgeDone(b) \/ BridgeShows(b) \/ Plays(b)
      PROVE  DisplayTypes'
  <2>1. of[b] \in 0..lastTurn /\ current \in 0..lastTurn /\ lastTurn' = lastTurn
    BY <1>1, <1>7 DEF current, Opens, BridgeAudio, BridgeDone, BridgeShows,
                      BridgeFinishes, BridgeAttract, BridgeReadsOn, Plays, taskVars
  <2>2. CASE Opens(b) \/ BridgeAudio(b) \/ BridgeReadsOn(b) \/ Plays(b)
    BY <1>3, <2>1, <2>2 DEF Opens, BridgeAudio, BridgeReadsOn, Plays
  <2>3. CASE BridgeDone(b)
    BY <1>4, <2>1, <2>3 DEF BridgeDone, Finishes
  <2>4. CASE BridgeFinishes(b)
    BY <1>3, <1>4, <2>1, <2>4 DEF BridgeFinishes, Finishes
  <2>5. CASE BridgeAttract(b)
    BY <1>4, <2>1, <2>5 DEF BridgeAttract
  <2> QED BY <1>7, <2>2, <2>3, <2>4, <2>5 DEF BridgeShows
<1>8. ASSUME NEW e \in Emitters, Sends(e)
      PROVE  DisplayTypes'
  BY <1>1, <1>8 DEF Sends, BroadcastEnds, taskVars, DisplayTypes, Stale
<1>9. ASSUME NEW c \in Clients, Browses(c)
      PROVE  DisplayTypes'
  BY <1>1, <1>2, <1>9 DEF Browses, Browser, Joins, Greets, Leaves, Stalls, taskVars,
                          DisplayTypes
<1>10. CASE \E k \in 1..MaxChunks : Lingers(k)
  BY <1>3, <1>10 DEF Lingers, taskVars
<1>11. CASE UNCHANGED vars
  BY <1>3, <1>11 DEF vars, taskVars
<1>12. CASE DeviceReturns /\ UNCHANGED <<displayVars, taskVars>>
  BY <1>3, <1>12 DEF taskVars
<1> QED BY <1>5, <1>6, <1>7, <1>8, <1>9, <1>10, <1>11, <1>12 DEF Next, OnEventLoop

-----------------------------------------------------------------------------
\* The line for the speaker

\* Somebody gets in line.
LEMMA JoinsQueue ==
  ASSUME Queue, Line, NEW w \in Emitters, ~InLine(w), audioq' = Append(audioq, w),
         \A u : InLine(u)' <=> InLine(u) \/ u = w
  PROVE  Queue' /\ Line'
PROOF
<1>1. audioq \in Seq(Emitters) /\ Distinct(audioq) /\ ~In(w, audioq)
  BY DEF Queue, Line
<1>2. /\ Append(audioq, w) \in Seq(Emitters) /\ Distinct(Append(audioq, w))
      /\ \A u : In(u, Append(audioq, w)) <=> In(u, audioq) \/ u = w
  BY <1>1, QueueAppend
<1>3. \A u : In(u, audioq)' <=> In(u, Append(audioq, w))
  BY DEF In
<1> QED BY <1>2, <1>3 DEF Queue, Line

\* Whoever holds the lock gives it up.
LEMMA LeavesQueue ==
  ASSUME Queue, Line, NEW w, Holds(w), audioq' = Tail(audioq),
         \A u : InLine(u)' <=> InLine(u) /\ u # w
  PROVE  Queue' /\ Line'
PROOF
<1>1. audioq \in Seq(Emitters) /\ Distinct(audioq) /\ audioq # <<>> /\ Head(audioq) = w
  BY DEF Queue, Holds
<1>2. /\ Tail(audioq) \in Seq(Emitters) /\ Distinct(Tail(audioq))
      /\ \A u : In(u, Tail(audioq)) <=> In(u, audioq) /\ u # w
  BY <1>1, QueueTail
<1>3. \A u : In(u, audioq)' <=> In(u, Tail(audioq))
  BY DEF In
<1> QED BY <1>2, <1>3 DEF Queue, Line

\* Whoever holds the lock gets in line again.
LEMMA RejoinsQueue ==
  ASSUME Queue, Line, NEW w \in Emitters, Holds(w),
         audioq' = Append(Tail(audioq), w), \A u : InLine(u)' <=> InLine(u)
  PROVE  Queue' /\ Line'
PROOF
<1>1. audioq \in Seq(Emitters) /\ Distinct(audioq) /\ audioq # <<>> /\ Head(audioq) = w
  BY DEF Queue, Holds
<1> DEFINE t == Tail(audioq)
<1>2. /\ t \in Seq(Emitters) /\ Distinct(t) /\ In(w, audioq) /\ ~In(w, t)
      /\ \A u : In(u, t) <=> In(u, audioq) /\ u # w
  BY <1>1, QueueTail
<1> HIDE DEF t
<1>3. /\ Append(t, w) \in Seq(Emitters) /\ Distinct(Append(t, w))
      /\ \A u : In(u, Append(t, w)) <=> In(u, t) \/ u = w
  BY <1>2, QueueAppend
<1>4. \A u : In(u, audioq)' <=> In(u, Append(t, w))
  BY DEF In, t
<1>5. audioq' = Append(t, w)
  BY DEF t
<1> QED BY <1>2, <1>3, <1>4, <1>5 DEF Queue, Line

\* A close gets in line behind whatever is being written.
LEMMA CloseBehind ==
  ASSUME Queue, Behind, NEW e \in {Loop, Reset}, audioq' = Append(audioq, e),
         bridge' = bridge
  PROVE  Behind'
PROOF
<1> SUFFICES ASSUME NEW b \in Bridges, bridge[b] = "write", NEW w \in {Loop, Reset}
             PROVE  Before(b, w, Append(audioq, e))
  BY DEF Behind, Before
<1>1. /\ audioq \in Seq(Emitters) /\ e \in Emitters /\ e # b
      /\ Before(b, w, audioq)
  BY DEF Queue, Behind
<1> QED BY <1>1, BeforeAppend

\* Something is written when no close is in line.
LEMMA WriteBehind ==
  ASSUME Queue, Line, Behind, loop # "close", reset # "close", NEW e \in Bridges,
         audioq' = Append(audioq, e), \A b \in Bridges \ {e} : bridge'[b] = bridge[b]
  PROVE  Behind'
PROOF
<1> SUFFICES ASSUME NEW b \in Bridges, NEW w \in {Loop, Reset}
             PROVE  Before(b, w, Append(audioq, e))
  BY DEF Behind, Before
<1>1. audioq \in Seq(Emitters) /\ e \in Emitters /\ e # w /\ ~In(w, audioq)
  BY DEF Queue, Line, InLine
<1>2. Before(b, w, audioq)
  BY <1>1 DEF Before, In
<1> QED BY <1>1, <1>2, BeforeAppend

\* The lock is given up.
LEMMA LeaveBehind ==
  ASSUME Queue, Behind, audioq # <<>>, NEW e \in Bridges,
         audioq' \in {Tail(audioq), Append(Tail(audioq), e)},
         \A b \in Bridges : bridge'[b] = "write" => bridge[b] = "write",
         audioq' # Tail(audioq) => bridge'[e] # "write"
  PROVE  Behind'
PROOF
<1> SUFFICES ASSUME NEW b \in Bridges, bridge'[b] = "write", NEW w \in {Loop, Reset}
             PROVE  Before(b, w, audioq')
  BY DEF Behind, Before
<1> DEFINE t == Tail(audioq)
<1>1. audioq \in Seq(Emitters) /\ Before(b, w, audioq)
  BY DEF Queue, Behind
<1>2. t \in Seq(Emitters) /\ Before(b, w, t)
  BY <1>1, BeforeTail
<1> HIDE DEF t
<1>3. CASE audioq' = t
  BY <1>2, <1>3
<1>4. CASE audioq' = Append(t, e) /\ e # b
  <2>1. e \in Emitters
    OBVIOUS
  <2>2. Before(b, w, Append(t, e))
    BY <1>2, <1>4, <2>1, BeforeAppend
  <2> QED BY <1>4, <2>2
<1> QED BY <1>3, <1>4 DEF t

\* When a close has the lock nothing is being written any more.
LEMMA CloseSilences ==
  ASSUME Queue, Line, Behind, NEW w \in {Loop, Reset}, Holds(w), NEW b \in Bridges
  PROVE  bridge[b] # "write"
PROOF
<1> SUFFICES ASSUME bridge[b] = "write" PROVE FALSE
  OBVIOUS
<1>1. In(b, audioq)
  BY DEF Line, InLine
<1>2. audioq \in Seq(Emitters) /\ audioq # <<>> /\ Head(audioq) = w
  BY DEF Queue, Holds
<1>3. Before(b, w, audioq)
  BY DEF Behind
<1> QED BY <1>1, <1>2, <1>3, BeforeTail

\* A step that leaves the speaker and its line alone.
LEMMA ShowsSpeaking ==
  ASSUME Speaking, AudioTypes',
         UNCHANGED <<play_audio, stream, audioq, chunks, chunk, threads>>,
         loop' = "close" <=> loop = "close", reset' = "close" <=> reset = "close",
         \A b \in Bridges : \/ bridge'[b] = bridge[b]
                            \/ {bridge[b], bridge'[b]} \cap {"write", "closing"} = {}
  PROVE  Speaking'
PROOF
<1>1. \A u : InLine(u)' <=> InLine(u)
  BY DEF InLine
<1>2. \A u : In(u, audioq)' <=> In(u, audioq)
  BY DEF In
<1>3. Line' /\ Queue'
  BY <1>1, <1>2 DEF Speaking, Line, Queue
<1>4. \A b \in Bridges : bridge'[b] = "write" <=> bridge[b] = "write"
  OBVIOUS
<1>5. Behind' /\ Writing'
  BY <1>4 DEF Speaking, Behind, Before, Writing
<1> QED BY <1>3, <1>5 DEF Speaking

\* A step of which the speaker learns nothing.
LEMMA IrrelevantSpeaking ==
  ASSUME Speaking, UNCHANGED audioVars, lastTurn \in Nat,
         lastTurn' \in {lastTurn, lastTurn + 1},
         loop' = "close" <=> loop = "close", reset' = "close" <=> reset = "close"
  PROVE  Speaking'
PROOF
<1>1. 0..lastTurn \subseteq 0..lastTurn'
  OBVIOUS
<1>2. AudioTypes'
  BY <1>1 DEF Speaking, AudioTypes, audioVars
<1> QED BY <1>2, ShowsSpeaking DEF audioVars
-----------------------------------------------------------------------------
\* The coordinator's loop

\* A text is submitted.
LEMMA SubmitIInv ==
  ASSUME IInv, Submit
  PROVE  Speaking' /\ Control'
PROOF
<1>1. Speaking /\ Control /\ lastTurn \in Nat
  BY DEF IInv, Control, TaskTypes
<1>2. Speaking'
  BY <1>1, IrrelevantSpeaking DEF Submit
<1>3. Control'
  BY <1>1 DEF Submit, audioVars, Control, TaskTypes, Owned, Silent, Turns, Cancelling,
              current, Sessions, Resetting, Older
<1> QED BY <1>2, <1>3

\* A new turn begins when nothing is being written.
LEMMA BeginsIInv ==
  ASSUME IInv, Begins, loop \in {"idle", "cleared"}, text' \in {FALSE, text},
         loop = "idle" => text /\ ~text', \A b \in Bridges : bridge[b] # "write"
  PROVE  Speaking' /\ Control'
PROOF
<1>1. /\ Speaking /\ Control /\ lastTurn \in Nat /\ lastTurn < MaxTurns
      /\ text' => lastTurn + 1 < MaxTurns
  <2>1. Speaking /\ Control /\ lastTurn \in Nat /\ text \in BOOLEAN
    BY DEF IInv, Control, TaskTypes
  <2>2. CASE loop = "idle"
    BY <2>1, <2>2 DEF Control, Turns
  <2>3. CASE loop = "cleared"
    <3>1. /\ Cancelling /\ Turns
      BY <2>1, <2>3 DEF Cancelling, Control
    <3>2. lastTurn < MaxTurns /\ (text => lastTurn + 1 < MaxTurns)
      BY <3>1 DEF Turns
    <3>3. text' => text
      BY Zenon
    <3> QED BY <2>1, <3>2, <3>3
  <2> QED BY <2>1, <2>2, <2>3
<1>2. Speaking'
  BY <1>1, IrrelevantSpeaking DEF Begins
<1>3. /\ lastTurn' = lastTurn + 1 /\ turn' = lastTurn + 1 /\ current' = lastTurn + 1
      /\ interrupting' = FALSE /\ loop' = "start" /\ ~Cancelling'
      /\ UNCHANGED <<bridge, of, target, session, asked, reset, hand>>
  BY DEF Begins, audioVars, Cancelling, current
<1>4. \A b \in Bridges : of[b] \in 0..lastTurn
  BY <1>1 DEF Speaking, AudioTypes
<1>5. TaskTypes'
  <2>1. /\ TaskTypes /\ text' \in BOOLEAN
    BY <1>1 DEF Control, TaskTypes
  <2>2. /\ lastTurn + 1 \in 0..MaxTurns /\ lastTurn + 1 \in 0..(lastTurn + 1)
        /\ lastTurn + 1 # 0 /\ 0..lastTurn \subseteq 0..(lastTurn + 1)
    BY <1>1
  <2> QED BY <1>3, <2>1, <2>2 DEF TaskTypes
<1>6. Resetting' /\ Older'
  BY <1>1, <1>3, <1>4 DEF Control, TaskTypes, Resetting, Older
<1>7. Owned' /\ Silent' /\ Turns' /\ Sessions'
  BY <1>1, <1>3 DEF Control, TaskTypes, Owned, Silent, Turns, Sessions
<1> QED BY <1>2, <1>5, <1>6, <1>7 DEF Control

\* The steps of the coordinator's loop.
LEMMA LoopIInv ==
  ASSUME IInv, LoopSteps
  PROVE  Speaking' /\ Control'
PROOF
<1>1. /\ Speaking /\ Control /\ lastTurn \in Nat /\ lastTurn' \in {lastTurn, lastTurn + 1}
  BY DEF IInv, Control, TaskTypes, LoopSteps, TakeIdle, TakeAndCancel, SpeakerClosed,
         ClearEmotion, Cancelled, Begins, StartTranscript, StartThinking, Sent
<1>2. CASE TakeIdle
  <2>1. /\ Begins /\ loop = "idle" /\ text /\ text' = FALSE /\ turn = 0
    BY <1>2 DEF TakeIdle
  <2>2. \A b \in Bridges : bridge[b] # "write"
    BY <1>1, <2>1 DEF Control, Owned
  <2> QED BY <2>1, <2>2, BeginsIInv
<1>3. CASE Cancelled
  <2>1. Begins /\ loop = "cleared" /\ text' = text
    BY <1>3 DEF Cancelled
  <2>2. \A b \in Bridges : bridge[b] # "write"
    BY <1>1, <2>1 DEF Control, Silent
  <2> QED BY <2>1, <2>2, BeginsIInv
<1>4. CASE TakeAndCancel
  <2>1. /\ audioq' = Append(audioq, Loop) /\ loop = "idle" /\ loop' = "close"
        /\ text /\ ~text' /\ turn # 0 /\ interrupting' = TRUE /\ text' = FALSE
        /\ UNCHANGED <<play_audio, stream, chunks, chunk, bridge, of, threads, turn,
                       lastTurn, target, session, asked, reset, hand>>
    BY <1>4 DEF TakeAndCancel, CloseBegins
  <2>2. Loop \in Emitters /\ ~InLine(Loop) /\ \A u : InLine(u)' <=> InLine(u) \/ u = Loop
    BY <2>1 DEF InLine
  <2>3. Queue' /\ Line' /\ Behind'
    BY <1>1, <2>1, <2>2, JoinsQueue, CloseBehind DEF Speaking
  <2>4. AudioTypes' /\ Writing'
    BY <1>1, <2>1 DEF Speaking, AudioTypes, Writing
  <2>5. current' = 0
    BY <2>1 DEF current
  <2>6. Control'
    BY <1>1, <2>1, <2>5 DEF Control, TaskTypes, Owned, Silent, Turns, Cancelling,
                            Sessions, Resetting, Older
  <2> QED BY <2>3, <2>4, <2>6 DEF Speaking
<1>5. CASE SpeakerClosed
  <2>1. /\ Holds(Loop) /\ audioq' = Tail(audioq) /\ loop = "close" /\ loop' = "clear"
        /\ stream' \in {FALSE, stream}
        /\ UNCHANGED <<play_audio, chunks, chunk, bridge, of, threads, text, turn,
                       interrupting, lastTurn, target, session, asked, reset, hand>>
    BY <1>5 DEF SpeakerClosed, Closes
  <2>2. \A u : InLine(u)' <=> InLine(u) /\ u # Loop
    BY <2>1 DEF InLine
  <2>3. \A b \in Bridges : bridge[b] # "write"
    BY <1>1, <2>1, CloseSilences DEF Speaking
  <2>4. Queue' /\ Line' /\ Behind'
    BY <1>1, <2>1, <2>2, <2>3, LeavesQueue DEF Speaking, Behind
  <2>5. AudioTypes' /\ Writing'
    BY <1>1, <2>1 DEF Speaking, AudioTypes, Writing
  <2>6. current' = current /\ (Cancelling' <=> Cancelling)
    BY <2>1 DEF current, Cancelling
  <2>7. Control'
    BY <1>1, <2>1, <2>3, <2>6 DEF Control, TaskTypes, Owned, Silent, Turns, Sessions,
                                  Resetting, Older
  <2> QED BY <2>4, <2>5, <2>7 DEF Speaking
<1>6. CASE ClearEmotion
  <2>1. Speaking'
    BY <1>1, <1>6, IrrelevantSpeaking DEF ClearEmotion
  <2> QED BY <1>1, <1>6, <2>1
          DEF ClearEmotion, audioVars, Control, TaskTypes, Owned, Silent, Turns,
              Cancelling, current, Sessions, Resetting, Older
<1>7. CASE StartTranscript
  <2>1. Speaking'
    BY <1>1, <1>7, IrrelevantSpeaking DEF StartTranscript
  <2> QED BY <1>1, <1>7, <2>1
          DEF StartTranscript, audioVars, Control, TaskTypes, Owned, Silent, Turns,
              Cancelling, current, Sessions, Resetting, Older
<1>8. CASE StartThinking
  <2>1. Speaking'
    BY <1>1, <1>8, IrrelevantSpeaking DEF StartThinking
  <2> QED BY <1>1, <1>8, <2>1
          DEF StartThinking, audioVars, Control, TaskTypes, Owned, Silent, Turns,
              Cancelling, current, Sessions, Resetting, Older
<1>9. CASE Sent
  <2>1. Speaking'
    BY <1>1, <1>9, IrrelevantSpeaking DEF Sent
  <2> QED BY <1>1, <1>9, <2>1
          DEF Sent, audioVars, Control, TaskTypes, Owned, Silent, Turns,
              Cancelling, current, Sessions, Resetting, Older
<1> QED BY <1>2, <1>3, <1>4, <1>5, <1>6, <1>7, <1>8, <1>9 DEF LoopSteps

-----------------------------------------------------------------------------
\* The reset of a failed session

\* The reset marks the turn and gets in line for the speaker.
LEMMA ResetInterruptsIInv ==
  ASSUME IInv, ResetInterrupts
  PROVE  Speaking' /\ Control'
PROOF
<1>1. Speaking /\ Control /\ turn = lastTurn
  BY DEF IInv, Control, Turns, ResetInterrupts
<1>2. /\ audioq' = Append(audioq, Reset) /\ reset = "idle" /\ reset' = "close"
      /\ session # None /\ turn # 0 /\ interrupting' = TRUE /\ hand' = turn
      /\ UNCHANGED <<play_audio, stream, chunks, chunk, bridge, of, threads, text, turn,
                     lastTurn, loop, target, session, asked>>
  BY DEF ResetInterrupts, Fails, CloseBegins
<1>3. Reset \in Emitters /\ ~InLine(Reset) /\ \A u : InLine(u)' <=> InLine(u) \/ u = Reset
  BY <1>2 DEF InLine
<1>4. Queue' /\ Line' /\ Behind'
  BY <1>1, <1>2, <1>3, JoinsQueue, CloseBehind DEF Speaking
<1>5. AudioTypes' /\ Writing'
  BY <1>1, <1>2 DEF Speaking, AudioTypes, Writing
<1>6. current' = 0 /\ \A b \in Bridges : of[b] <= turn
  BY <1>1, <1>2 DEF current, Speaking, AudioTypes
<1>7. Control'
  BY <1>1, <1>2, <1>6 DEF Control, TaskTypes, Owned, Silent, Turns, Cancelling, Sessions,
                          Resetting, Older
<1> QED BY <1>4, <1>5, <1>7 DEF Speaking

\* The reset has closed the speaker: nothing is written any more.
LEMMA ResetClosedIInv ==
  ASSUME IInv, ResetClosed
  PROVE  Speaking' /\ Control'
PROOF
<1>1. Speaking /\ Control
  BY DEF IInv
<1>2. /\ Holds(Reset) /\ audioq' = Tail(audioq) /\ reset = "close" /\ reset' = "clear"
      /\ stream' \in {FALSE, stream}
      /\ UNCHANGED <<play_audio, chunks, chunk, bridge, of, threads, text, turn,
                     interrupting, lastTurn, loop, target, session, asked, hand>>
  BY DEF ResetClosed, Closes
<1>3. \A u : InLine(u)' <=> InLine(u) /\ u # Reset
  BY <1>2 DEF InLine
<1>4. \A b \in Bridges : bridge[b] # "write"
  BY <1>1, <1>2, CloseSilences DEF Speaking
<1>5. Queue' /\ Line' /\ Behind'
  BY <1>1, <1>2, <1>3, <1>4, LeavesQueue DEF Speaking, Behind
<1>6. AudioTypes' /\ Writing'
  BY <1>1, <1>2 DEF Speaking, AudioTypes, Writing
<1>7. current' = current /\ (Cancelling' <=> Cancelling)
  BY <1>2 DEF current, Cancelling
<1>8. Control'
  BY <1>1, <1>2, <1>4, <1>7 DEF Control, TaskTypes, Owned, Silent, Turns, Sessions,
                                Resetting, Older
<1> QED BY <1>5, <1>6, <1>8 DEF Speaking

\* The reset shows something, drops the session, or ends.
LEMMA ResetIInv ==
  ASSUME IInv, ResetFindsNoTurn \/ ResetSteps
  PROVE  Speaking' /\ Control'
PROOF
<1>1. Speaking /\ Control /\ lastTurn \in Nat
  BY DEF IInv, Control, TaskTypes
<1>2. CASE ResetFindsNoTurn
  <2>1. Speaking'
    BY <1>1, <1>2, IrrelevantSpeaking DEF ResetFindsNoTurn, Fails, DropsSession
  <2> QED BY <1>1, <1>2, <2>1
          DEF ResetFindsNoTurn, Fails, DropsSession, audioVars, Control, TaskTypes, Owned,
              Silent, Turns, Cancelling, current, Sessions, Resetting, Older
<1>3. CASE ResetClearsEmotion
  <2>1. Speaking'
    BY <1>1, <1>3, IrrelevantSpeaking DEF ResetClearsEmotion
  <2> QED BY <1>1, <1>3, <2>1
          DEF ResetClearsEmotion, audioVars, Control, TaskTypes, Owned,
              Silent, Turns, Cancelling, current, Sessions, Resetting, Older
<1>4. CASE ResetDrops
  <2>1. Speaking'
    BY <1>1, <1>4, IrrelevantSpeaking DEF ResetDrops, DropsSession
  <2>2. /\ reset = "cleared" /\ reset' = "error" /\ session' = None /\ asked' = 0
        /\ hand' = 0 /\ UNCHANGED <<bridge, of, text, lastTurn, loop, target>>
        /\ \/ turn = hand /\ interrupting /\ turn' = 0 /\ interrupting' = FALSE
           \/ turn # hand /\ turn' = turn /\ interrupting' = interrupting
    BY <1>1, <1>4 DEF ResetDrops, DropsSession, audioVars, Control, Resetting, TaskTypes
  <2>3. /\ current' = 0 \/ (current' = current /\ turn > hand)
        /\ TaskTypes /\ turn \in Nat /\ hand \in Nat
    <3>1. TaskTypes /\ turn \in {0, lastTurn} /\ turn \in Nat /\ hand \in 0..lastTurn
      BY <1>1 DEF Control, TaskTypes, Turns
    <3>2. CASE turn' = 0
      BY <2>2, <3>1, <3>2 DEF current
    <3>3. CASE turn' # 0
      <4>1. turn # hand /\ turn' = turn /\ interrupting' = interrupting /\ turn = lastTurn
        BY <2>2, <3>1, <3>3
      <4> QED BY <3>1, <4>1 DEF current
    <3> QED BY <3>1, <3>2, <3>3
  <2>4. \A b \in Bridges : of[b] \in Nat /\ of[b] <= hand
    BY <1>1, <2>2 DEF Speaking, AudioTypes, Control, Resetting
  <2>5. \A b \in Bridges : bridge[b] # "write"
    BY <1>1, <2>2 DEF Control, Silent
  <2>6. TaskTypes'
    <3>1. 0 \in 0..lastTurn
      BY <1>1
    <3>2. CASE turn' = 0 /\ interrupting' = FALSE
      BY <2>2, <2>3, <3>1, <3>2 DEF TaskTypes
    <3>3. CASE turn' = turn /\ interrupting' = interrupting
      BY <2>2, <2>3, <3>1, <3>3 DEF TaskTypes
    <3> QED BY <2>2, <3>2, <3>3
  <2>7. Older'
    <3>1. ASSUME NEW b \in Bridges, current' # 0, of[b] = current'
          PROVE  FALSE
      <4>1. of[b] = turn /\ turn > hand
        BY <2>3, <3>1 DEF current
      <4> QED BY <2>3, <2>4, <4>1
    <3> QED BY <1>1, <2>2, <3>1 DEF Control, Older
  <2>8. Owned' /\ Silent' /\ Sessions' /\ Resetting' /\ Turns'
    BY <1>1, <2>2, <2>3, <2>5 DEF Control, TaskTypes, Owned, Silent, Sessions, Resetting,
                                  Turns, Cancelling
  <2> QED BY <2>1, <2>6, <2>7, <2>8 DEF Control
<1>5. CASE ResetAttract
  <2>1. Speaking'
    BY <1>1, <1>5, IrrelevantSpeaking DEF ResetAttract
  <2> QED BY <1>1, <1>5, <2>1
          DEF ResetAttract, audioVars, Control, TaskTypes, Owned,
              Silent, Turns, Cancelling, current, Sessions, Resetting, Older
<1>6. CASE ResetEnds
  <2>1. Speaking'
    BY <1>1, <1>6, IrrelevantSpeaking DEF ResetEnds
  <2> QED BY <1>1, <1>6, <2>1
          DEF ResetEnds, audioVars, Control, TaskTypes, Owned,
              Silent, Turns, Cancelling, current, Sessions, Resetting, Older
<1> QED BY <1>2, <1>3, <1>4, <1>5, <1>6, ResetClosedIInv DEF ResetSteps
-----------------------------------------------------------------------------
\* The session and its bridge

\* A response is heard only while no reset is underway and no close awaited, and
\* then nobody writes but the bridge that hears it.
LEMMA Responding ==
  ASSUME IInv, NEW b \in Bridges, Responds(b)
  PROVE  /\ reset = "idle" /\ ~Cancelling /\ ~interrupting
         /\ turn # 0 /\ current = turn /\ session = b /\ bridge[b] = "read"
         /\ \A c \in Bridges : bridge[c] # "write"
PROOF
<1>1. current # 0 /\ asked = current /\ session = b /\ bridge[b] = "read" /\ Control
  BY DEF Responds, IInv
<1>2. ~interrupting /\ current = turn
  BY <1>1 DEF current
<1>3. reset = "idle"
  BY <1>1 DEF Control, Resetting, TaskTypes
<1>4. ~Cancelling
  BY <1>1 DEF Control, Turns
<1>5. \A c \in Bridges : bridge[c] # "write"
  BY <1>1 DEF Control, Owned
<1> QED BY <1>1, <1>2, <1>3, <1>4, <1>5

\* A session is opened.
LEMMA OpensIInv ==
  ASSUME IInv, NEW b \in Bridges, Opens(b)
  PROVE  Speaking' /\ Control'
PROOF
<1>1. /\ Speaking /\ Control
      /\ session = None /\ session' = b /\ reset = "idle" /\ bridge[b] = "off"
      /\ bridge' = [bridge EXCEPT ![b] = "read"]
      /\ UNCHANGED <<play_audio, stream, audioq, chunks, chunk, of, threads, text, turn,
                     interrupting, lastTurn, loop, target, asked, reset, hand>>
  BY DEF IInv, Opens, At
<1>2. bridge'[b] = "read" /\ \A c \in Bridges \ {b} : bridge'[c] = bridge[c]
  BY <1>1 DEF Speaking, AudioTypes
<1>3. AudioTypes'
  BY <1>1 DEF Speaking, AudioTypes
<1>4. Speaking'
  BY <1>1, <1>2, <1>3, ShowsSpeaking
<1>5. current' = current /\ (Cancelling' <=> Cancelling) /\ None \notin Bridges
  BY <1>1 DEF current, Cancelling
<1>6. Control'
  BY <1>1, <1>2, <1>5 DEF Control, TaskTypes, Owned, Silent, Turns, Sessions, Resetting,
                          Older
<1> QED BY <1>4, <1>6

\* The bridge writes speech of the current turn.
LEMMA BridgeAudioIInv ==
  ASSUME IInv, NEW b \in Bridges, BridgeAudio(b)
  PROVE  Speaking' /\ Control'
PROOF
<1>1. Speaking /\ Control /\ Responds(b)
  BY DEF IInv, BridgeAudio
<1>2. /\ reset = "idle" /\ ~Cancelling /\ ~interrupting
      /\ turn # 0 /\ current = turn /\ session = b /\ bridge[b] = "read"
      /\ \A c \in Bridges : bridge[c] # "write"
  BY <1>1, Responding
<1>3. /\ play_audio /\ chunks < MaxChunks /\ chunks' = chunks + 1
      /\ chunk' = [chunk EXCEPT ![b] = chunks + 1] /\ of' = [of EXCEPT ![b] = turn]
      /\ bridge' = [bridge EXCEPT ![b] = "write"]
      /\ audioq' = Append(audioq, b)
      /\ UNCHANGED <<play_audio, stream, threads, text, turn, interrupting, lastTurn,
                     loop, target, session, asked, reset, hand>>
  BY <1>2 DEF BridgeAudio, WriteBegins, At, taskVars
<1>4. /\ bridge'[b] = "write" /\ chunk'[b] = chunks + 1 /\ of'[b] = turn
      /\ \A c \in Bridges \ {b} : bridge'[c] = bridge[c] /\ of'[c] = of[c]
  BY <1>1, <1>3 DEF Speaking, AudioTypes
<1>5. loop \notin {"close", "clear", "cleared"}
  BY <1>2 DEF Cancelling
<1>6. Queue' /\ Line' /\ Behind'
  <2>1. b \in Emitters /\ ~InLine(b) /\ \A u : InLine(u)' <=> InLine(u) \/ u = b
    BY <1>2, <1>3, <1>4 DEF InLine
  <2>2. Queue' /\ Line'
    BY <1>1, <1>3, <2>1, JoinsQueue DEF Speaking
  <2> QED BY <1>1, <1>2, <1>3, <1>4, <1>5, <2>2, WriteBehind DEF Speaking
<1>7. AudioTypes'
  <2>1. /\ chunks \in Nat /\ chunks + 1 \in 0..MaxChunks /\ chunks + 1 \in 0..(chunks + 1)
        /\ 0..chunks \subseteq 0..(chunks + 1) /\ 1..chunks \subseteq 1..(chunks + 1)
        /\ turn \in 0..lastTurn
    BY <1>1, <1>3 DEF Speaking, AudioTypes, Control, TaskTypes
  <2>2. chunk' \in [Bridges -> 0..(chunks + 1)]
    BY <1>1, <1>3, <2>1 DEF Speaking, AudioTypes
  <2> QED BY <1>1, <1>3, <2>1, <2>2 DEF Speaking, AudioTypes
<1>8. Writing'
  <2>1. threads = {} /\ chunks \in Nat
    BY <1>1, <1>2, <1>3 DEF Speaking, Writing, AudioTypes
  <2> QED BY <1>2, <1>3, <1>4, <2>1 DEF Writing
<1>9. current' = turn /\ ~Cancelling'
  BY <1>2, <1>3 DEF current, Cancelling
<1>10. Control'
  BY <1>1, <1>2, <1>3, <1>4, <1>5, <1>9
     DEF Control, TaskTypes, Owned, Silent, Turns, Sessions, Resetting, Older
<1> QED BY <1>6, <1>7, <1>8, <1>10 DEF Speaking

\* The session's bridge is done with the current turn.
LEMMA FinishesIInv ==
  ASSUME IInv, NEW b \in Bridges, NEW t, Finishes(b, t), t = current, current # 0,
         session = b, bridge[b] \in {"read", "failed"}, reset = "idle",
         UNCHANGED <<play_audio, stream, audioq, chunks, chunk, threads, text,
                     interrupting, lastTurn, loop, target, session, asked, reset, hand>>
  PROVE  Speaking' /\ Control'
PROOF
<1>1. /\ Speaking /\ Control /\ turn' = 0 /\ ~interrupting /\ t = turn
      /\ bridge' = [bridge EXCEPT ![b] = "finished"] /\ of' = [of EXCEPT ![b] = t]
  BY DEF IInv, Finishes, At, current
<1>2. /\ bridge'[b] = "finished" /\ of'[b] = t
      /\ \A c \in Bridges \ {b} : bridge'[c] = bridge[c] /\ of'[c] = of[c]
  BY <1>1 DEF Speaking, AudioTypes
<1>3. AudioTypes'
  BY <1>1 DEF Speaking, AudioTypes, Control, TaskTypes
<1>4. Speaking'
  BY <1>1, <1>2, <1>3, ShowsSpeaking
<1>5. current' = 0 /\ (Cancelling' <=> Cancelling)
  BY <1>1 DEF current, Cancelling
<1>6. \A c \in Bridges : bridge'[c] # "write"
  BY <1>1, <1>2 DEF Control, Owned
<1>7. TaskTypes'
  <2>1. 0 \in 0..lastTurn
    BY <1>1 DEF Control, TaskTypes
  <2> QED BY <1>1, <2>1 DEF Control, TaskTypes
<1>8. Turns'
  BY <1>1, <1>5 DEF Control, Turns
<1>9. Owned' /\ Silent' /\ Sessions' /\ Resetting' /\ Older'
  BY <1>1, <1>2, <1>5, <1>6 DEF Control, Owned, Silent, Sessions, Resetting, Older
<1> QED BY <1>4, <1>7, <1>8, <1>9 DEF Control

\* The last response of a turn is done, or has failed.
LEMMA BridgeDoneIInv ==
  ASSUME IInv, NEW b \in Bridges, BridgeDone(b)
  PROVE  Speaking' /\ Control'
PROOF
<1>1. /\ Speaking /\ Control /\ Responds(b)
      /\ UNCHANGED <<play_audio, stream, audioq, chunks, chunk, threads, text,
                     interrupting, lastTurn, loop, target, session, asked, reset, hand>>
  BY DEF IInv, BridgeDone
<1>2. /\ reset = "idle" /\ ~Cancelling /\ ~interrupting
      /\ turn # 0 /\ current = turn /\ session = b /\ bridge[b] = "read"
      /\ \A c \in Bridges : bridge[c] # "write"
  BY <1>1, Responding
<1>3. CASE Finishes(b, current)
  BY <1>1, <1>2, <1>3, FinishesIInv
<1>4. CASE ~Finishes(b, current)
  <2>1. /\ turn' = turn /\ bridge' = [bridge EXCEPT ![b] = "failed"]
        /\ of' = [of EXCEPT ![b] = turn]
    BY <1>2, <1>4 DEF BridgeDone, At
  <2>2. /\ bridge'[b] = "failed" /\ of'[b] = turn
        /\ \A c \in Bridges \ {b} : bridge'[c] = bridge[c] /\ of'[c] = of[c]
    BY <1>1, <2>1 DEF Speaking, AudioTypes
  <2>3. AudioTypes'
    BY <1>1, <2>1 DEF Speaking, AudioTypes, Control, TaskTypes
  <2>4. Speaking'
    BY <1>1, <1>2, <2>2, <2>3, ShowsSpeaking
  <2>5. current' = current /\ (Cancelling' <=> Cancelling)
    BY <1>1, <2>1 DEF current, Cancelling
  <2>6. TaskTypes' /\ Turns'
    BY <1>1, <2>1, <2>5 DEF Control, TaskTypes, Turns
  <2>7. Owned' /\ Silent' /\ Sessions' /\ Resetting' /\ Older'
    BY <1>1, <1>2, <2>1, <2>2, <2>5 DEF Control, Owned, Silent, Sessions, Resetting, Older
  <2> QED BY <2>4, <2>6, <2>7 DEF Control
<1> QED BY <1>3, <1>4

\* A bridge goes on with its events; of the turn nothing changes.
LEMMA ShowsIInv ==
  ASSUME IInv, NEW b \in Bridges, bridge[b] \in {"failed", "finished", "attract"},
         NEW where \in {"read", "attract"}, At(b, where),
         UNCHANGED <<play_audio, stream, audioq, chunks, chunk, of, threads, taskVars>>
  PROVE  Speaking' /\ Control'
PROOF
<1>1. /\ Speaking /\ Control /\ bridge' = [bridge EXCEPT ![b] = where]
      /\ UNCHANGED <<text, turn, interrupting, lastTurn, loop, target, session, asked,
                     reset, hand>>
  BY DEF IInv, At, taskVars
<1>2. bridge'[b] = where /\ \A c \in Bridges \ {b} : bridge'[c] = bridge[c]
  BY <1>1 DEF Speaking, AudioTypes
<1>3. AudioTypes'
  BY <1>1 DEF Speaking, AudioTypes
<1>4. Speaking'
  BY <1>1, <1>2, <1>3, ShowsSpeaking
<1>5. current' = current /\ (Cancelling' <=> Cancelling)
  BY <1>1 DEF current, Cancelling
<1>6. Control'
  BY <1>1, <1>2, <1>5 DEF Control, TaskTypes, Owned, Silent, Turns, Sessions, Resetting,
                          Older
<1> QED BY <1>4, <1>6

\* A bridge shows the end of a turn.  If the turn it has failed in is still the
\* current one, the bridge is the session's and no reset is underway.
LEMMA BridgeShowsIInv ==
  ASSUME IInv, NEW b \in Bridges, BridgeShows(b)
  PROVE  Speaking' /\ Control'
PROOF
<1>1. Speaking /\ Control
  BY DEF IInv
<1>2. CASE BridgeFinishes(b) /\ current = of[b]
  <2>1. /\ bridge[b] = "failed" /\ Finishes(b, of[b])
        /\ UNCHANGED <<play_audio, stream, audioq, chunks, chunk, threads, text,
                       interrupting, lastTurn, loop, target, session, asked, reset, hand>>
    BY <1>2 DEF BridgeFinishes
  <2>2. current # 0 /\ session = b /\ current = turn /\ ~interrupting
    BY <1>1, <1>2, <2>1 DEF Control, Older, current
  <2>3. reset \notin {"error", "attract"}
    BY <1>1, <2>2 DEF Control, Resetting
  <2>4. reset \notin {"close", "clear", "cleared"}
    <3> SUFFICES ASSUME reset \in {"close", "clear", "cleared"} PROVE FALSE
      OBVIOUS
    <3>1. of[b] <= hand /\ turn # hand
      BY <1>1, <2>2 DEF Control, Resetting
    <3>2. turn = lastTurn /\ hand \in 0..lastTurn /\ lastTurn \in Nat
      BY <1>1, <2>2 DEF Control, Turns, TaskTypes
    <3> QED BY <1>2, <2>2, <3>1, <3>2
  <2>5. reset = "idle"
    BY <1>1, <2>3, <2>4 DEF Control, TaskTypes
  <2> QED BY <1>2, <2>1, <2>2, <2>5, FinishesIInv
<1>3. CASE BridgeFinishes(b) /\ current # of[b]
  BY <1>3, ShowsIInv DEF BridgeFinishes, taskVars
<1>4. CASE BridgeAttract(b)
  BY <1>4, ShowsIInv DEF BridgeAttract
<1>5. CASE BridgeReadsOn(b)
  BY <1>5, ShowsIInv DEF BridgeReadsOn
<1> QED BY <1>2, <1>3, <1>4, <1>5 DEF BridgeShows

-----------------------------------------------------------------------------
\* The speaker

\* What the speaker does changes nothing for the tasks.
LEMMA SpeakerControl ==
  ASSUME Control, UNCHANGED <<taskVars, of>>,
         \A b \in Bridges : bridge'[b] = bridge[b] \/ bridge'[b] \in {"read", "closing"}
  PROVE  Control'
PROOF
<1>1. /\ UNCHANGED <<text, turn, interrupting, lastTurn, loop, target, session, asked,
                     reset, hand, of>>
  BY DEF taskVars
<1>2. current' = current /\ (Cancelling' <=> Cancelling)
  BY <1>1 DEF current, Cancelling
<1> QED BY <1>1, <1>2 DEF Control, TaskTypes, Owned, Silent, Turns, Sessions, Resetting,
                          Older

\* The steps of a write and of a bridge's close.
LEMMA PlaysIInv ==
  ASSUME IInv, NEW b \in Bridges, Plays(b)
  PROVE  Speaking' /\ Control'
PROOF
<1>1. /\ Speaking /\ Control /\ UNCHANGED taskVars /\ Speaker(b)
      /\ UNCHANGED <<chunks, chunk, of, loop, reset, lastTurn>>
  BY DEF IInv, Plays, Speaker, WriteStarts, WriteEnds, WriteFails, BridgeCloses, Closes,
         taskVars
<1>2. /\ AudioTypes /\ Queue /\ Line /\ Behind /\ Writing
      /\ threads \subseteq 1..chunks /\ chunk[b] \in 0..chunks /\ chunks \in Nat
  BY <1>1 DEF Speaking, AudioTypes
<1>3. CASE WriteStarts(b)
  <2>1. /\ bridge[b] = "write" /\ stream' = TRUE /\ threads' = threads \cup {chunk[b]}
        /\ UNCHANGED <<play_audio, audioq, bridge>>
    BY <1>3 DEF WriteStarts
  <2>2. threads' = {chunk[b]} /\ chunk[b] \in 1..chunks
    <3>1. threads \subseteq {chunk[b]} /\ chunk[b] # 0
      BY <1>2, <2>1 DEF Writing
    <3>2. threads' = {chunk[b]}
      BY <2>1, <3>1
    <3>3. chunk[b] \in 1..chunks
      BY <1>2, <3>1
    <3> QED BY <3>2, <3>3
  <2>3. AudioTypes'
    BY <1>1, <1>2, <2>1, <2>2 DEF AudioTypes
  <2>4. \A c \in Bridges : bridge[c] = "write" => c = b
    BY <1>1, <2>1 DEF Control, Owned
  <2>5. Writing'
    BY <1>1, <1>2, <2>1, <2>2, <2>4 DEF Writing
  <2>6. (\A u : InLine(u)' <=> InLine(u)) /\ (\A u : In(u, audioq)' <=> In(u, audioq))
    BY <1>1, <2>1 DEF InLine, In
  <2>7. Queue' /\ Line' /\ Behind'
    BY <1>2, <2>1, <2>6 DEF Queue, Line, Behind, Before
  <2>8. Control'
    BY <1>1, <2>1, SpeakerControl
  <2> QED BY <2>3, <2>5, <2>7, <2>8 DEF Speaking
<1>4. CASE WriteEnds(b)
  <2>1. /\ bridge[b] = "write" /\ Holds(b) /\ audioq' = Tail(audioq)
        /\ threads' = threads \ {chunk[b]} /\ bridge' = [bridge EXCEPT ![b] = "read"]
        /\ UNCHANGED <<play_audio, stream>>
    BY <1>4 DEF WriteEnds, At
  <2>2. threads' = {}
    BY <1>2, <2>1 DEF Writing
  <2>3. bridge'[b] = "read" /\ \A c \in Bridges \ {b} : bridge'[c] = bridge[c]
    BY <1>2, <2>1 DEF AudioTypes
  <2>4. AudioTypes'
    BY <1>1, <1>2, <2>1, <2>2 DEF AudioTypes
  <2>5. Writing'
    BY <1>1, <1>2, <2>2, <2>3 DEF Writing
  <2>6. \A u : InLine(u)' <=> InLine(u) /\ u # b
    BY <1>1, <2>1, <2>3 DEF InLine
  <2>7. Queue' /\ Line'
    BY <1>2, <2>1, <2>6, LeavesQueue
  <2>8. Behind'
    BY <1>2, <2>1, <2>3, LeaveBehind DEF Holds
  <2>9. Control'
    BY <1>1, <2>3, SpeakerControl
  <2> QED BY <2>4, <2>5, <2>7, <2>8, <2>9 DEF Speaking
<1>5. CASE WriteFails(b)
  <2>1. /\ bridge[b] = "write" /\ Holds(b) /\ audioq' = Append(Tail(audioq), b)
        /\ threads' \subseteq threads /\ bridge' = [bridge EXCEPT ![b] = "closing"]
        /\ play_audio' = FALSE /\ stream' = stream
    BY <1>5 DEF WriteFails, At
  <2>2. bridge'[b] = "closing" /\ \A c \in Bridges \ {b} : bridge'[c] = bridge[c]
    BY <1>2, <2>1 DEF AudioTypes
  <2>3. AudioTypes'
    BY <1>1, <1>2, <2>1 DEF AudioTypes
  <2>4. Writing'
    BY <1>1, <1>2, <2>1, <2>2 DEF Writing
  <2>5. \A u : InLine(u)' <=> InLine(u)
    BY <1>1, <2>1, <2>2 DEF InLine
  <2>6. b \in Emitters
    OBVIOUS
  <2>7. Queue' /\ Line'
    BY <1>2, <2>1, <2>5, <2>6, RejoinsQueue
  <2>8. Behind'
    BY <1>2, <2>1, <2>2, LeaveBehind DEF Holds
  <2>9. Control'
    BY <1>1, <2>2, SpeakerControl
  <2> QED BY <2>3, <2>4, <2>7, <2>8, <2>9 DEF Speaking
<1>6. CASE BridgeCloses(b)
  <2>1. /\ bridge[b] = "closing" /\ Holds(b) /\ audioq' = Tail(audioq)
        /\ stream' \in {FALSE, stream} /\ bridge' = [bridge EXCEPT ![b] = "read"]
        /\ UNCHANGED <<play_audio, threads>>
    BY <1>6 DEF BridgeCloses, Closes, At
  <2>2. bridge'[b] = "read" /\ \A c \in Bridges \ {b} : bridge'[c] = bridge[c]
    BY <1>2, <2>1 DEF AudioTypes
  <2>3. AudioTypes'
    BY <1>1, <1>2, <2>1 DEF AudioTypes
  <2>4. Writing'
    BY <1>1, <1>2, <2>1, <2>2 DEF Writing
  <2>5. \A u : InLine(u)' <=> InLine(u) /\ u # b
    BY <1>1, <2>1, <2>2 DEF InLine
  <2>6. Queue' /\ Line'
    BY <1>2, <2>1, <2>5, LeavesQueue
  <2>7. Behind'
    BY <1>2, <2>1, <2>2, LeaveBehind DEF Holds
  <2>8. Control'
    BY <1>1, <2>2, SpeakerControl
  <2> QED BY <2>3, <2>4, <2>6, <2>7, <2>8 DEF Speaking
<1> QED BY <1>1, <1>3, <1>4, <1>5, <1>6 DEF Speaker

\* A thread that nobody awaits comes to its end, or the device lets the loop go.
LEMMA LingersIInv ==
  ASSUME IInv, \/ \E k \in 1..MaxChunks : Lingers(k)
               \/ DeviceReturns /\ UNCHANGED <<displayVars, taskVars>>
  PROVE  Speaking' /\ Control'
PROOF
<1>1. /\ Speaking /\ Control /\ UNCHANGED taskVars /\ threads' \subseteq threads
      /\ UNCHANGED <<play_audio, stream, audioq, chunks, chunk, bridge, of, loop, reset,
                     lastTurn>>
  BY DEF IInv, Lingers, ThreadEnds, DeviceReturns, taskVars
<1>2. Control'
  BY <1>1, SpeakerControl
<1>3. AudioTypes' /\ Writing'
  BY <1>1 DEF Speaking, AudioTypes, Writing
<1>4. (\A u : InLine(u)' <=> InLine(u)) /\ (\A u : In(u, audioq)' <=> In(u, audioq))
  BY <1>1 DEF InLine, In
<1>5. Queue' /\ Line' /\ Behind'
  BY <1>1, <1>4 DEF Speaking, Queue, Line, Behind, Before
<1> QED BY <1>2, <1>3, <1>5 DEF Speaking

-----------------------------------------------------------------------------
\* The event loop is inside a call or not.
LEMMA NextDevice ==
  ASSUME IInv, [Next]_vars
  PROVE  blocked' \in BOOLEAN
PROOF
<1>1. blocked \in BOOLEAN /\ stream \in BOOLEAN
  BY DEF IInv, Speaking, AudioTypes
<1>2. CASE UNCHANGED blocked
  BY <1>1, <1>2
<1>3. ASSUME NEW who, Closes(who)
      PROVE  blocked' \in BOOLEAN
  BY <1>1, <1>3 DEF Closes, CallsDevice
<1>4. CASE LoopSteps
  BY <1>2, <1>3, <1>4 DEF LoopSteps, TakeIdle, Begins, TakeAndCancel, SpeakerClosed,
                          ClearEmotion, Cancelled, StartTranscript, StartThinking, Sent,
                          audioVars
<1>5. CASE ResetInterrupts \/ ResetFindsNoTurn \/ ResetSteps
  BY <1>2, <1>3, <1>5 DEF ResetInterrupts, ResetFindsNoTurn, ResetSteps, ResetClosed,
                          ResetClearsEmotion, ResetDrops, ResetAttract, ResetEnds,
                          audioVars
<1>6. ASSUME NEW b \in Bridges, Plays(b)
      PROVE  blocked' \in BOOLEAN
  BY <1>1, <1>3, <1>6 DEF Plays, Speaker, WriteStarts, WriteEnds, WriteFails,
                          BridgeCloses, CallsDevice
<1>7. ASSUME NEW b \in Bridges,
             Opens(b) \/ BridgeAudio(b) \/ BridgeDone(b) \/ BridgeShows(b)
      PROVE  blocked' \in BOOLEAN
  BY <1>2, <1>7 DEF Opens, BridgeAudio, WriteBegins, BridgeDone, BridgeShows,
                    BridgeFinishes, BridgeAttract, BridgeReadsOn
<1>8. CASE \/ Submit
           \/ \E e \in Emitters : Sends(e)
           \/ \E c \in Clients : Browses(c)
           \/ \E k \in 1..MaxChunks : Lingers(k)
           \/ UNCHANGED vars
  BY <1>2, <1>8 DEF Submit, Sends, Browses, Lingers, ThreadEnds, vars, audioVars
<1>9. CASE DeviceReturns
  BY <1>9 DEF DeviceReturns
<1> QED BY <1>4, <1>5, <1>6, <1>7, <1>8, <1>9 DEF Next, OnEventLoop

\* Every step preserves the inductive invariant.
LEMMA NextIInv == IInv /\ [Next]_vars => IInv'
PROOF
<1> SUFFICES ASSUME IInv, [Next]_vars PROVE Speaking' /\ Control'
  BY NextDisplays, NextDevice DEF IInv
<1>1. CASE UNCHANGED <<audioVars, taskVars>>
  <2>1. /\ Speaking /\ Control /\ lastTurn \in Nat
        /\ UNCHANGED <<lastTurn, loop, reset, bridge, of>>
    BY <1>1 DEF IInv, Control, TaskTypes, audioVars, taskVars
  <2> QED BY <1>1, <2>1, IrrelevantSpeaking, SpeakerControl
<1>2. CASE UNCHANGED vars
  BY <1>1, <1>2 DEF vars
<1>3. CASE \/ \E e \in Emitters : Sends(e)
           \/ \E c \in Clients : Browses(c)
  BY <1>1, <1>3 DEF Sends, Browses
<1> QED BY <1>2, <1>3, SubmitIInv, LoopIInv, ResetInterruptsIInv, ResetIInv, OpensIInv,
           BridgeAudioIInv, BridgeDoneIInv, BridgeShowsIInv, PlaysIInv, LingersIInv
        DEF Next, OnEventLoop

\* The invariant holds in every reachable state.
LEMMA Inductive == Spec => []IInv
BY InitIInv, NextIInv, PTL DEF Spec

\* The types of what a turn shows and says.
THEOREM TypeCorrect == Spec => []TypeOK
BY Inductive, Parts, PTL

\* An interrupted turn falls silent: whoever interrupted it closes the speaker
\* behind whatever is still written of it (service_v2.py, _cancel_response and
\* _reset_failed_session).
THEOREM InterruptedTurnFallsSilent == Spec => []SpeechStops
PROOF
<1>1. IInv => SpeechStops
  <2> SUFFICES ASSUME IInv, NEW n \in 1..Len(audioq), audioq[n] \in Bridges,
                      bridge[audioq[n]] = "write", of[audioq[n]] # current
               PROVE  \E k \in (n + 1)..Len(audioq) : audioq[k] \in {Loop, Reset}
    BY DEF SpeechStops
  <2> PICK b \in Bridges : b = audioq[n]
    OBVIOUS
  <2>1. interrupting /\ (loop = "close" \/ reset = "close")
    BY DEF IInv, Control, Owned, current
  <2>2. PICK w \in {Loop, Reset} : InLine(w)
    BY <2>1 DEF InLine
  <2>3. PICK k \in 1..Len(audioq) : audioq[k] = w
    BY <2>2 DEF IInv, Speaking, Line, In
  <2>4. n < k
    BY <2>3 DEF IInv, Speaking, Behind, Before
  <2>5. Len(audioq) \in Nat
    BY DEF IInv, Speaking, Queue
  <2> QED BY <2>3, <2>4, <2>5
<1> QED BY <1>1, Inductive, PTL

\* One thread at a time writes to the speaker (audio_output.py, write).
THEOREM OneThreadWrites == Spec => []OneWriter
PROOF
<1>1. IInv => OneWriter
  <2> SUFFICES ASSUME IInv PROVE Cardinality(threads) <= 1
    BY DEF OneWriter
  <2>1. \A j, k \in threads : j = k
    BY DEF IInv, Speaking, Writing
  <2>2. Cardinality(threads) \in {0, 1}
    BY <2>1, AtMostOne
  <2> QED BY <2>2
<1> QED BY <1>1, Inductive, PTL
=============================================================================
