---------------------------- MODULE TurnOutputs ------------------------------
(***************************************************************************)
(* What a turn shows and says: the display events and the speech of        *)
(* agent/realtime_service/service_v2.py while turns replace each other and *)
(* sessions fail.  Composes Broadcaster and AudioOutput with the tasks     *)
(* that use them: the coordinator's loop, the event bridge of each         *)
(* session, and the reset of a failed session.  Every event is awaited, so *)
(* that a slow display holds its sender up, and only its sender.           *)
(*                                                                         *)
(* Transcripts, moods and effects leave the machine state alone: NoState.  *)
(* Awaits without an effect on displays or speaker (the interrupt request, *)
(* the message, the close of the session) are part of the step after them. *)
(***************************************************************************)
EXTENDS Broadcaster, AudioOutput

CONSTANTS Loop, Reset,  \* the tasks besides the bridges
          None,         \* no session
          MaxTurns      \* bound on the turns

ASSUME EmittersAssumption ==
  /\ Emitters = Bridges \cup {Loop, Reset}
  /\ Loop # Reset /\ {Loop, Reset, None} \cap Bridges = {}

ASSUME MaxTurnsAssumption == MaxTurns \in Nat

VARIABLES
  text,          \* a text waits in the coordinator's queue
  turn,          \* the coordinator's turn, 0 for None
  interrupting,  \* its phase is INTERRUPTING
  lastTurn,      \* turns begun
  loop,          \* where the coordinator's loop is
  target,        \* the session start() gave the loop
  session,       \* the session, named by its bridge, or None
  asked,         \* the turn whose message the session has, 0 for none
  reset,         \* where the reset is; it has the session lock until it is idle
  hand           \* the turn the reset interrupts, 0 for none

taskVars == <<text, turn, interrupting, lastTurn, loop, target, session, asked,
              reset, hand>>
vars == <<displayVars, audioVars, taskVars>>

Event(s, t) == [state |-> s, of |-> t]

current == IF interrupting THEN 0 ELSE turn

Init ==
  /\ BroadcasterInit /\ AudioInit
  /\ text = FALSE /\ turn = 0 /\ interrupting = FALSE /\ lastTurn = 0
  /\ loop = "idle" /\ target = None
  /\ session = None /\ asked = 0
  /\ reset = "idle" /\ hand = 0

Cancelling == loop \in {"close", "clear", "cleared"}

\* A newer text would take the place of the one that waits.
Submit ==
  /\ ~text
  /\ IF Cancelling THEN lastTurn + 1 < MaxTurns ELSE lastTurn < MaxTurns
  /\ text' = TRUE
  /\ UNCHANGED <<displayVars, audioVars, turn, interrupting, lastTurn, loop,
                 target, session, asked, reset, hand>>

-----------------------------------------------------------------------------
\* The coordinator's loop: interrupt with _cancel_response, then _start_turn

Begins ==
  /\ lastTurn' = lastTurn + 1 /\ turn' = lastTurn + 1
  /\ interrupting' = FALSE
  /\ loop' = "start"
  /\ UNCHANGED <<displayVars, audioVars, target, session, asked, reset, hand>>

TakeIdle ==
  /\ loop = "idle" /\ text /\ turn = 0
  /\ text' = FALSE
  /\ Begins

\* The turn is ineligible before the speaker is closed.
TakeAndCancel ==
  /\ loop = "idle" /\ text /\ turn # 0
  /\ text' = FALSE /\ interrupting' = TRUE
  /\ CloseBegins(Loop)
  /\ loop' = "close"
  /\ UNCHANGED <<displayVars, play_audio, stream, chunks, chunk, bridge, of,
                 threads, blocked, turn, lastTurn, target, session, asked, reset,
                 hand>>

SpeakerClosed ==
  /\ loop = "close"
  /\ Closes(Loop) /\ UNCHANGED bridge
  /\ loop' = "clear"
  /\ UNCHANGED <<displayVars, text, turn, interrupting, lastTurn, target, session,
                 asked, reset, hand>>

\* The response is cancelled, or the request for that has timed out.
ClearEmotion ==
  /\ loop = "clear"
  /\ Broadcast(Loop, NoState)
  /\ loop' = "cleared"
  /\ UNCHANGED <<audioVars, text, turn, interrupting, lastTurn, target, session,
                 asked, reset, hand>>

Cancelled ==
  /\ loop = "cleared" /\ Free(Loop)
  /\ Begins
  /\ UNCHANGED text

\* start() waits for the session lock, and for a session.
StartTranscript ==
  /\ loop = "start" /\ reset = "idle" /\ session # None
  /\ target' = session
  /\ Broadcast(Loop, NoState)
  /\ loop' = "transcript"
  /\ UNCHANGED <<audioVars, text, turn, interrupting, lastTurn, session, asked,
                 reset, hand>>

\* Whether the turn is still current is not looked at.
StartThinking ==
  /\ loop = "transcript"
  /\ Broadcast(Loop, Event("thinking", lastTurn))
  /\ loop' = "thinking"
  /\ UNCHANGED <<audioVars, text, turn, interrupting, lastTurn, target, session,
                 asked, reset, hand>>

\* The message is sent; or the session it is meant for is no more.
Sent ==
  /\ loop = "thinking" /\ Free(Loop)
  /\ loop' = "idle"
  /\ asked' = IF target = session THEN lastTurn ELSE asked
  /\ UNCHANGED <<displayVars, audioVars, text, turn, interrupting, lastTurn,
                 target, session, reset, hand>>

LoopSteps ==
  \/ TakeIdle \/ TakeAndCancel \/ SpeakerClosed \/ ClearEmotion \/ Cancelled
  \/ StartTranscript \/ StartThinking \/ Sent

-----------------------------------------------------------------------------
\* The session and its event bridge

\* A session is opened, by the reconnect task or by start(); its attempts that
\* fail are part of ServiceSession.
Opens(b) ==
  /\ reset = "idle" /\ session = None
  /\ bridge[b] = "off"
  /\ session' = b
  /\ At(b, "read")
  /\ UNCHANGED <<displayVars, play_audio, stream, audioq, chunks, chunk, of,
                 threads, blocked, text, turn, interrupting, lastTurn, loop,
                 target, asked, reset, hand>>

\* A response of the current turn has something for this bridge.
Responds(b) ==
  /\ session = b /\ bridge[b] = "read"
  /\ current # 0 /\ asked = current

\* Faulty variant: the speech of an older turn is played, too.
BridgeAudioUnchecked(b) ==
  /\ session = b /\ bridge[b] = "read" /\ asked # 0
  /\ WriteBegins(b, asked)
  /\ UNCHANGED <<displayVars, taskVars>>

\* Speech; that of an older turn is dropped (_response_is_current).
BridgeAudio(b) ==
  /\ Responds(b)
  /\ WriteBegins(b, current)
  /\ UNCHANGED <<displayVars, taskVars>>

\* finish() takes effect at once, then the events follow.
Finishes(b, t) ==
  /\ turn' = 0
  /\ Broadcast(b, NoState)
  /\ At(b, "finished")
  /\ of' = [of EXCEPT ![b] = t]

\* The last response of the turn is done; a failed one shows an error first.
BridgeDone(b) ==
  /\ Responds(b)
  /\ \/ Finishes(b, current)
     \/ /\ Broadcast(b, Event("error", current))
        /\ At(b, "failed")
        /\ of' = [of EXCEPT ![b] = current]
        /\ UNCHANGED turn
  /\ UNCHANGED <<play_audio, stream, audioq, chunks, chunk, threads, blocked,
                 text, interrupting, lastTurn, loop, target, session, asked,
                 reset, hand>>

\* After the error finish() looks at the turn again.
BridgeFinishes(b) ==
  /\ bridge[b] = "failed" /\ Free(b)
  /\ IF current = of[b]
       THEN Finishes(b, of[b])
       ELSE At(b, "read") /\ UNCHANGED <<displayVars, of, turn>>
  /\ UNCHANGED <<play_audio, stream, audioq, chunks, chunk, threads, blocked,
                 text, interrupting, lastTurn, loop, target, session, asked,
                 reset, hand>>

\* _finish_turn does not ask what has happened in the meantime.
BridgeAttract(b) ==
  /\ bridge[b] = "finished"
  /\ Broadcast(b, Event("attract", of[b]))
  /\ At(b, "attract")
  /\ UNCHANGED <<play_audio, stream, audioq, chunks, chunk, of, threads, blocked,
                 taskVars>>

BridgeReadsOn(b) ==
  /\ bridge[b] = "attract" /\ Free(b)
  /\ At(b, "read")
  /\ UNCHANGED <<displayVars, play_audio, stream, audioq, chunks, chunk, of,
                 threads, blocked, taskVars>>

BridgeShows(b) == BridgeFinishes(b) \/ BridgeAttract(b) \/ BridgeReadsOn(b)

-----------------------------------------------------------------------------
\* _reset_failed_session, which holds the session lock

DropsSession ==
  /\ session' = None /\ asked' = 0 /\ hand' = 0
  /\ Broadcast(Reset, Event("error", 0))
  /\ reset' = "error"

\* The session has failed, and somebody has noticed.  The last one of the bound
\* does not fail.
Fails ==
  /\ reset = "idle" /\ session # None
  /\ \E b \in Bridges : bridge[b] = "off"

ResetInterrupts ==
  /\ Fails /\ turn # 0
  /\ interrupting' = TRUE /\ hand' = turn
  /\ CloseBegins(Reset)
  /\ reset' = "close"
  /\ UNCHANGED <<displayVars, play_audio, stream, chunks, chunk, bridge, of,
                 threads, blocked, text, turn, lastTurn, loop, target, session,
                 asked>>

ResetFindsNoTurn ==
  /\ Fails /\ turn = 0
  /\ DropsSession
  /\ UNCHANGED <<audioVars, text, turn, interrupting, lastTurn, loop, target>>

ResetClosed ==
  /\ reset = "close"
  /\ Closes(Reset) /\ UNCHANGED bridge
  /\ reset' = "clear"
  /\ UNCHANGED <<displayVars, text, turn, interrupting, lastTurn, loop, target,
                 session, asked, hand>>

ResetClearsEmotion ==
  /\ reset = "clear"
  /\ Broadcast(Reset, NoState)
  /\ reset' = "cleared"
  /\ UNCHANGED <<audioVars, text, turn, interrupting, lastTurn, loop, target,
                 session, asked, hand>>

\* interrupt() clears the turn only if it still is the one it has marked.
ResetDrops ==
  /\ reset = "cleared"
  /\ LET clears == turn = hand /\ interrupting
     IN  /\ turn' = IF clears THEN 0 ELSE turn
         /\ interrupting' = (interrupting /\ ~clears)
  /\ DropsSession
  /\ UNCHANGED <<audioVars, text, lastTurn, loop, target>>

\* The effect and the mood in between leave the machine state alone.
ResetAttract ==
  /\ reset = "error"
  /\ Broadcast(Reset, Attract)
  /\ reset' = "attract"
  /\ UNCHANGED <<audioVars, text, turn, interrupting, lastTurn, loop, target,
                 session, asked, hand>>

ResetEnds ==
  /\ reset = "attract" /\ Free(Reset)
  /\ reset' = "idle"
  /\ UNCHANGED <<displayVars, audioVars, text, turn, interrupting, lastTurn,
                 loop, target, session, asked, hand>>

ResetSteps ==
  ResetClosed \/ ResetClearsEmotion \/ ResetDrops \/ ResetAttract \/ ResetEnds

-----------------------------------------------------------------------------
Sends(e) == BroadcastEnds(e) /\ UNCHANGED <<audioVars, taskVars>>
Plays(b) == Speaker(b) /\ UNCHANGED <<displayVars, taskVars>>
Browses(c) == Browser(c) /\ UNCHANGED <<audioVars, taskVars>>
Lingers(k) == ThreadEnds(k) /\ UNCHANGED <<displayVars, taskVars>>

\* All of this is done by the one event loop; it is the loop, too, that sees what
\* browsers do.
OnEventLoop ==
  \/ Submit \/ LoopSteps
  \/ ResetInterrupts \/ ResetFindsNoTurn \/ ResetSteps
  \/ \E e \in Emitters : Sends(e)
  \/ \E c \in Clients : Browses(c)
  \/ \E b \in Bridges :
       Opens(b) \/ BridgeAudio(b) \/ BridgeDone(b) \/ BridgeShows(b) \/ Plays(b)

Next ==
  \/ ~blocked /\ OnEventLoop
  \/ DeviceReturns /\ UNCHANGED <<displayVars, taskVars>>
  \/ \E k \in 1..MaxChunks : Lingers(k)

Spec == Init /\ [][Next]_vars

\* While the event loop runs, every await of a display, of the lock of the speaker
\* or of a thread ends by its timeout, tasks go on, and a reconnect succeeds in
\* the end.  Browsers, the model behind the session and threads that nobody awaits
\* owe nothing, nor does the audio library: a call of it on the loop may last.
Fairness ==
  /\ WF_vars(~blocked /\ LoopSteps) /\ WF_vars(~blocked /\ ResetSteps)
  /\ \A e \in Emitters : WF_vars(~blocked /\ Sends(e))
  /\ \A b \in Bridges :
       WF_vars(~blocked /\ Opens(b)) /\ WF_vars(~blocked /\ Plays(b))

FairSpec == Spec /\ Fairness

-----------------------------------------------------------------------------
\* Types; a turn that is being interrupted exists, and whoever holds the speaker's
\* lock is waiting for it.
TypeOK ==
  /\ clients \subseteq Clients
  /\ socket \in [Clients -> {"away", "joining", "reading", "stalled"}]
  /\ \A c \in Clients : c \in clients => socket[c] # "away"
  /\ sending \in [Emitters -> {<<>>} \cup {<<S>> : S \in SUBSET Clients}]
  /\ \A c \in Clients : shown[c].of \in 0..lastTurn
  /\ {play_audio, stream, blocked} \subseteq BOOLEAN
  /\ threads \subseteq 1..chunks /\ chunks \in 0..MaxChunks
  /\ chunk \in [Bridges -> 0..chunks] /\ of \in [Bridges -> 0..lastTurn]
  /\ bridge \in [Bridges -> {"off", "read", "write", "closing", "failed",
                             "finished", "attract"}]
  /\ {audioq[n] : n \in 1..Len(audioq)} =
       {b \in Bridges : bridge[b] \in {"write", "closing"}}
       \cup {w \in {Loop} : loop = "close"} \cup {w \in {Reset} : reset = "close"}
  /\ {text, interrupting} \subseteq BOOLEAN
  /\ lastTurn \in 0..MaxTurns /\ {turn, asked, hand} \subseteq 0..lastTurn
  /\ interrupting => turn # 0
  /\ loop \in {"idle", "close", "clear", "cleared", "start", "transcript",
               "thinking"}
  /\ {target, session} \subseteq Bridges \cup {None}
  /\ reset \in {"idle", "close", "clear", "cleared", "error", "attract"}

\* An interrupted turn falls silent: whatever a bridge still writes of a turn that
\* is not current any more has the close of whoever interrupted it behind it in
\* the line, also when sessions and with them bridges have changed.  (Not a thread
\* that has outlived its write: nobody waits for that one, and no close can.)
SpeechStops ==
  \A n \in 1..Len(audioq) :
    audioq[n] \in Bridges /\ bridge[audioq[n]] = "write" =>
      \/ of[audioq[n]] = current
      \/ \E k \in (n + 1)..Len(audioq) : audioq[k] \in {Loop, Reset}

\* One thread at a time writes to the speaker, although a thread outlives the
\* timeout of its write and the bridge of a failed session that of its session.
OneWriter == Cardinality(threads) <= 1

\* A command is taken up whatever displays and speaker do: neither a client that
\* stops reading nor a write that never ends holds the coordinator's loop for ever,
\* nor a line of those who wait for the lock.  This holds as long as every call of
\* the audio library on the event loop returns; one that does not, when a device
\* hangs in stop(), say, stops the whole service (audio_output.py:161-164).
NextTurnBegins == []<>~blocked => (text ~> ~text)

\* "An event associated with an invalidated turn must never overwrite state for
\* the current turn" (docs/realtime-agents-sdk-rewrite.md:117).
NoStaleEvent ==
  [][\A c \in Clients :
       /\ shown[c].of # 0 /\ shown[c].of = current
       /\ shown'[c].of # 0
       => shown'[c].of >= shown[c].of]_vars
=============================================================================
