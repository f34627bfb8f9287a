----------------------------- MODULE AudioOutput -----------------------------
(***************************************************************************)
(* agent/common/audio_output.py with _write_audio and _close_audio of      *)
(* agent/realtime_service/service_v2.py: one speaker stream behind one     *)
(* lock, written in worker threads that no timeout stops.                  *)
(*                                                                         *)
(* Event bridges (one per session) write, one chunk at a time, and close   *)
(* after a failure; whoever cancels a response closes.  All of them give   *)
(* up after the same _audio_timeout, and the lock serves them in the order *)
(* in which they called: whoever is first in line is the first whose time  *)
(* is over.  A chunk is its number; the format never changes here.         *)
(*                                                                         *)
(* Only a write goes to a thread.  The stream is looked up, opened, stopped*)
(* and closed on the event loop itself: while such a call lasts, and no    *)
(* timeout ends it, the loop does nothing else (blocked).                  *)
(***************************************************************************)
EXTENDS Naturals, Sequences, FiniteSets

CONSTANTS Bridges,    \* the sessions' event bridges
          MaxChunks   \* bound on the chunks of speech

ASSUME MaxChunksAssumption == MaxChunks \in Nat

VARIABLES
  play_audio,  \* _play_audio
  stream,      \* the stream is open
  audioq,      \* _lock: its holder first, then those who wait
  chunks,      \* chunks of speech so far
  chunk,       \* per bridge, the chunk it has come to
  bridge,      \* per bridge: off, read, write, closing, or showing events
  of,          \* per bridge, the turn it last acted for
  threads,     \* chunks a worker thread is writing
  blocked      \* the event loop is inside a call of the audio library

audioVars == <<play_audio, stream, audioq, chunks, chunk, bridge, of, threads,
               blocked>>

AudioInit ==
  /\ play_audio \in BOOLEAN
  /\ stream = FALSE
  /\ audioq = <<>>
  /\ chunks = 0
  /\ chunk = [b \in Bridges |-> 0]
  /\ bridge = [b \in Bridges |-> "off"]
  /\ of = [b \in Bridges |-> 0]
  /\ threads = {}
  /\ blocked = FALSE

Holds(who) == audioq # <<>> /\ Head(audioq) = who
At(b, where) == bridge' = [bridge EXCEPT ![b] = where]

\* The last thing a step does, if it calls the device at all: the loop is free
\* when the call returns, at once or later.
CallsDevice(called) == blocked' \in {FALSE, called}

DeviceReturns ==
  /\ blocked
  /\ blocked' = FALSE
  /\ UNCHANGED <<play_audio, stream, audioq, chunks, chunk, bridge, of, threads>>

\* _write_audio is called, for a turn, and gets in line.
WriteBegins(b, turn) ==
  /\ bridge[b] = "read" /\ chunks < MaxChunks
  /\ play_audio
  /\ chunks' = chunks + 1
  /\ chunk' = [chunk EXCEPT ![b] = chunks + 1]
  /\ of' = [of EXCEPT ![b] = turn]
  /\ At(b, "write")
  /\ audioq' = Append(audioq, b)
  /\ UNCHANGED <<play_audio, stream, threads, blocked>>

\* The lock is held, the stream opened if it was not, and a thread writes.
WriteStarts(b) ==
  /\ bridge[b] = "write" /\ Holds(b) /\ chunk[b] \notin threads
  /\ stream' = TRUE
  /\ threads' = threads \cup {chunk[b]}
  /\ CallsDevice(~stream)
  /\ UNCHANGED <<play_audio, audioq, chunks, chunk, bridge, of>>

\* The thread returns, or there was no device to open.
WriteEnds(b) ==
  /\ bridge[b] = "write" /\ Holds(b)
  /\ CallsDevice(~stream)
  /\ chunk[b] \in threads \/ ~stream
  /\ threads' = threads \ {chunk[b]}
  /\ audioq' = Tail(audioq)
  /\ At(b, "read")
  /\ UNCHANGED <<play_audio, stream, chunks, chunk, of>>

\* Faulty variant: the speaker stays enabled after a failure.
WriteFailsPlaysOn(b) ==
  /\ bridge[b] = "write" /\ Holds(b)
  /\ threads' \in {threads, threads \ {chunk[b]}}
  /\ CallsDevice(~stream)
  /\ audioq' = Append(Tail(audioq), b)
  /\ At(b, "closing")
  /\ UNCHANGED <<play_audio, stream, chunks, chunk, of>>

\* Opening or writing raises; or the time is over, and then the lock is given up
\* although the thread goes on.  The speaker is disabled from now on, and the
\* bridge closes it.
WriteFails(b) ==
  /\ bridge[b] = "write" /\ Holds(b)
  /\ threads' \in {threads, threads \ {chunk[b]}}
  /\ CallsDevice(~stream)
  /\ play_audio' = FALSE
  /\ audioq' = Append(Tail(audioq), b)
  /\ At(b, "closing")
  /\ UNCHANGED <<stream, chunks, chunk, of>>

\* A thread that nobody awaits any more comes to its end.
ThreadEnds(k) ==
  /\ k \in threads
  /\ \A b \in Bridges : bridge[b] = "write" => chunk[b] # k
  /\ threads' = threads \ {k}
  /\ UNCHANGED <<play_audio, stream, audioq, chunks, chunk, bridge, of, blocked>>

CloseBegins(who) == audioq' = Append(audioq, who)

\* _close_audio: close() under the lock, by stop() and close() of the stream; or
\* its time is over in line, with the time of those who were before it.
Closes(who) ==
  /\ Holds(who)
  /\ stream' \in {FALSE, stream}
  /\ CallsDevice(stream /\ ~stream')
  /\ audioq' = Tail(audioq)
  /\ UNCHANGED <<play_audio, chunks, chunk, of, threads>>

BridgeCloses(b) == bridge[b] = "closing" /\ Closes(b) /\ At(b, "read")

Speaker(b) ==
  WriteStarts(b) \/ WriteEnds(b) \/ WriteFails(b) \/ BridgeCloses(b)
=============================================================================
