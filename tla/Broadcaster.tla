---------------------------- MODULE Broadcaster -----------------------------
(***************************************************************************)
(* agent/common/broadcaster.py and handle_client of agent/server.py:       *)
(* display events sent to every connected client, by several tasks at      *)
(* once, each of which awaits its own broadcast.                           *)
(*                                                                         *)
(* A message takes its place in a client's stream when its broadcast       *)
(* begins, so what a client shows is the last event sent to it; a client   *)
(* that does not read only delays whoever sends.  Events are               *)
(* [state, of]: the machine state and the turn it is about, 0 for none;    *)
(* events that leave the machine state alone are NoState.                  *)
(***************************************************************************)
EXTENDS Naturals, FiniteSets

CONSTANTS Clients,   \* display clients
          Emitters   \* tasks that send display events

VARIABLES
  clients,   \* _clients
  socket,    \* per client: away, joining (not greeted yet), reading or stalled
  shown,     \* per client, the machine state it shows
  sending    \* per emitter, whom its broadcast still awaits, <<>> for nobody

displayVars == <<clients, socket, shown, sending>>

NoState == [state |-> "none", of |-> 0]
Attract == [state |-> "attract", of |-> 0]

\* Not sending: <<>>; otherwise <<the clients of the snapshot>>.
Free(e) == sending[e] = <<>>

BroadcasterInit ==
  /\ clients = {}
  /\ socket = [c \in Clients |-> "away"]
  /\ shown = [c \in Clients |-> NoState]
  /\ sending = [e \in Emitters |-> <<>>]

\* broadcast() up to its gather: the clients of this moment get the message.
Broadcast(e, event) ==
  /\ Free(e)
  /\ sending' = [sending EXCEPT ![e] = <<clients>>]
  /\ shown' = [c \in Clients |-> IF c \in clients /\ event # NoState
                                   THEN event ELSE shown[c]]
  /\ UNCHANGED <<clients, socket>>

Stale(e) == {c \in sending[e][1] : socket[c] \in {"away", "stalled"}}

\* Faulty variant: sends have no timeout.
BroadcastEndsUnbounded(e) ==
  /\ ~Free(e)
  /\ \A c \in Stale(e) : socket[c] = "away"
  /\ clients' = clients \ Stale(e)
  /\ socket' = [c \in Clients |-> IF c \in Stale(e) THEN "away" ELSE socket[c]]
  /\ sending' = [sending EXCEPT ![e] = <<>>]
  /\ UNCHANGED shown

\* Faulty variant: stale clients are closed and stay registered.
BroadcastEndsKeepsClients(e) ==
  /\ ~Free(e)
  /\ socket' = [c \in Clients |-> IF c \in Stale(e) THEN "away" ELSE socket[c]]
  /\ sending' = [sending EXCEPT ![e] = <<>>]
  /\ UNCHANGED <<clients, shown>>

\* All sends have succeeded, failed or timed out; the stale clients are removed
\* and closed.
BroadcastEnds(e) ==
  /\ ~Free(e)
  /\ clients' = clients \ Stale(e)
  /\ socket' = [c \in Clients |-> IF c \in Stale(e) THEN "away" ELSE socket[c]]
  /\ sending' = [sending EXCEPT ![e] = <<>>]
  /\ UNCHANGED shown

-----------------------------------------------------------------------------
\* handle_client, and what browsers do

Joins(c) ==
  /\ socket[c] = "away" /\ c \notin clients
  /\ clients' = clients \cup {c}
  /\ socket' = [socket EXCEPT ![c] = "joining"]
  /\ shown' = [shown EXCEPT ![c] = NoState]
  /\ UNCHANGED sending

\* The greeting is sent after the client has been added: a broadcast may have
\* come before it.
Greets(c) ==
  /\ socket[c] = "joining"
  /\ socket' = [socket EXCEPT ![c] = "reading"]
  /\ shown' = [shown EXCEPT ![c] = Attract]
  /\ UNCHANGED <<clients, sending>>

\* The connection ends: the finally of handle_client.
Leaves(c) ==
  /\ c \in clients
  /\ clients' = clients \ {c}
  /\ socket' = [socket EXCEPT ![c] = "away"]
  /\ UNCHANGED <<shown, sending>>

\* A browser stops reading, and perhaps reads again before it is evicted.
Stalls(c) ==
  /\ socket[c] \in {"reading", "stalled"}
  /\ socket' = [socket EXCEPT ![c] = IF @ = "reading" THEN "stalled"
                                                      ELSE "reading"]
  /\ UNCHANGED <<clients, shown, sending>>

Browser(c) == Joins(c) \/ Greets(c) \/ Leaves(c) \/ Stalls(c)
=============================================================================
