------------------------------ MODULE TurnModel -----------------------------
(***************************************************************************)
(* agent/realtime_service/turn_model.py with the handlers of               *)
(* service_v2.py that share its events: which turn a model response        *)
(* belongs to, when tool results are continued, and when a turn is over.   *)
(*                                                                         *)
(* Four kinds of tasks interleave: the WebSocket listener, which hands     *)
(* every server event to the model, then to the service, then to the SDK   *)
(* session; one task per tool call; the bridge, which gets the same events *)
(* through a queue; and the coordinator's worker, which sends the user's   *)
(* message.  The server runs one response at a time and answers through    *)
(* the WebSocket, in order.  One session; ServiceSession has the others.   *)
(***************************************************************************)
EXTENDS Integers, Sequences, FiniteSets

CONSTANTS MaxTurns,   \* bound on the number of turns
          MaxCalls    \* bound on the number of tool calls the model makes

ASSUME BoundsAssumption == MaxTurns \in Nat \ {0} /\ MaxCalls \in Nat

VARIABLES
  current,        \* the eligible turn, 0 when there is none (TurnCoordinator)
  lastTurn,       \* number of turns begun
  input,          \* where the worker is with the message of turn lastTurn
  resp,           \* the responses asked for: turn tag, the response whose
                  \* tools it continues (0 for a user message), and status
  calls,          \* the tool calls: their response, and how far they are
  cancel,         \* a response.cancel is on its way to the server
  inbox,          \* server events on their way to the listener
  listener,       \* the response.done the listener is suspended in, or 0
  bridge,         \* response.done events queued for the bridge
  responseTurns,  \* responses bound to their turn (_response_turns)
  toolTurns,      \* calls bound to their turn (_tool_turns)
  toolResponses,  \* calls whose response is known (_tool_responses)
  finished,       \* responses waiting for tool outputs (_finished_responses)
  sentOutputs     \* _sent_tool_outputs

coordinator == <<current, lastTurn, input>>
service == <<responseTurns, toolTurns>>
model == <<toolResponses, finished, sentOutputs>>
vars == <<coordinator, resp, calls, cancel, inbox, listener, bridge, service,
          model>>

Turns == 1..MaxTurns
Responses == 1..Len(resp)
CallIds == 1..Len(calls)
CallsOf(r) == {c \in CallIds : calls[c].resp = r}
TurnOf(c) == resp[calls[c].resp].turn

Ended == {"completed", "failed", "cancelled"}

\* _create_response: the turn travels with the request as metadata.
Request(turn, after) ==
  Append(resp, [turn |-> turn, after |-> after, status |-> "requested"])

Init ==
  /\ current = 0 /\ lastTurn = 0 /\ input = "idle"
  /\ resp = <<>> /\ calls = <<>>
  /\ cancel = FALSE /\ inbox = <<>> /\ listener = 0 /\ bridge = <<>>
  /\ responseTurns = {} /\ toolTurns = {}
  /\ toolResponses = {} /\ finished = {} /\ sentOutputs = {}

-----------------------------------------------------------------------------
\* The coordinator and its worker

TurnBegins ==
  /\ current = 0 /\ input = "idle" /\ lastTurn < MaxTurns
  /\ lastTurn' = lastTurn + 1
  /\ current' = lastTurn + 1
  /\ input' = "begun"
  /\ UNCHANGED <<resp, calls, cancel, inbox, listener, bridge, service, model>>

\* send_event(RealtimeModelSendUserInput): the turn is looked up, and the
\* message is dropped when there is none.
SendUserInput ==
  /\ input = "begun"
  /\ input' = IF current = 0 THEN "idle" ELSE "item"
  /\ UNCHANGED <<current, lastTurn, resp, calls, cancel, inbox, listener,
                 bridge, service, model>>

\* The item is on the wire; the response is asked for under the turn looked up
\* before, current or not.
AskForResponse ==
  /\ input = "item"
  /\ input' = "idle"
  /\ resp' = Request(lastTurn, 0)
  /\ UNCHANGED <<current, lastTurn, calls, cancel, inbox, listener, bridge,
                 service, model>>

\* interrupt(): the turn is over at once; the cancellation is sent if the SDK
\* sees a response to cancel and the socket takes it in time.
Interrupt ==
  /\ current # 0
  /\ current' = 0
  /\ cancel' \in {cancel, TRUE}
  /\ UNCHANGED <<lastTurn, input, resp, calls, inbox, listener, bridge, service,
                 model>>

-----------------------------------------------------------------------------
\* The server

Active == {r \in Responses : resp[r].status = "active"}

ServerStarts(r) ==
  /\ ~cancel /\ Active = {}
  /\ resp[r].status = "requested"
  /\ resp' = [resp EXCEPT ![r].status = "active"]
  /\ inbox' = Append(inbox, <<"created", r>>)
  /\ UNCHANGED <<coordinator, calls, cancel, listener, bridge, service, model>>

ServerCalls(r) ==
  /\ r \in Active
  /\ Len(calls) < MaxCalls
  /\ calls' = Append(calls, [resp |-> r, place |-> "announced"])
  /\ inbox' = Append(inbox, <<"call", Len(calls) + 1>>)
  /\ UNCHANGED <<coordinator, resp, cancel, listener, bridge, service, model>>

\* "incomplete" is treated by the code as "failed" is.
ServerEnds(r) ==
  /\ r \in Active
  /\ \E status \in {"completed", "failed"} :
       resp' = [resp EXCEPT ![r].status = status]
  /\ inbox' = Append(inbox, <<"done", r>>)
  /\ UNCHANGED <<coordinator, calls, cancel, listener, bridge, service, model>>

\* With no active response the server answers response_cancel_not_active, which
\* the bridge ignores.
ServerCancels ==
  /\ cancel
  /\ cancel' = FALSE
  /\ resp' = [r \in Responses |-> IF r \in Active
                THEN [resp[r] EXCEPT !.status = "cancelled"] ELSE resp[r]]
  /\ inbox' = IF Active = {} THEN inbox
              ELSE Append(inbox, <<"done", CHOOSE r \in Active : TRUE>>)
  /\ UNCHANGED <<coordinator, calls, listener, bridge, service, model>>

-----------------------------------------------------------------------------
\* _continue_after_tools(r), with the books as the caller has left them

\* Faulty variant: the first tool result is continued.
ContinueAtFirstOutput(r, fin, sent) ==
  IF r \in fin
    THEN /\ finished' = fin \ {r}
         /\ sentOutputs' = sent \ CallsOf(r)
         /\ toolResponses' = toolResponses \ CallsOf(r)
         /\ resp' = IF resp[r].status = "completed" /\ resp[r].turn = current
                      THEN Request(resp[r].turn, r) ELSE resp
    ELSE /\ finished' = fin
         /\ sentOutputs' = sent
         /\ UNCHANGED <<toolResponses, resp>>

\* Faulty variant: an interrupted turn leaves before the books are cleared.
ContinueLeavesEarly(r, fin, sent) ==
  IF r \in fin /\ CallsOf(r) \subseteq sent /\ resp[r].turn = current
    THEN /\ finished' = fin \ {r}
         /\ sentOutputs' = sent \ CallsOf(r)
         /\ toolResponses' = toolResponses \ CallsOf(r)
         /\ resp' = IF resp[r].status = "completed"
                      THEN Request(resp[r].turn, r) ELSE resp
    ELSE /\ finished' = fin
         /\ sentOutputs' = sent
         /\ UNCHANGED <<toolResponses, resp>>

Continue(r, fin, sent) ==
  IF r \in fin /\ CallsOf(r) \subseteq sent
    THEN /\ finished' = fin \ {r}
         /\ sentOutputs' = sent \ CallsOf(r)
         /\ toolResponses' = toolResponses \ CallsOf(r)
         /\ resp' = IF resp[r].status = "completed" /\ resp[r].turn = current
                      THEN Request(resp[r].turn, r) ELSE resp
    ELSE /\ finished' = fin
         /\ sentOutputs' = sent
         /\ UNCHANGED <<toolResponses, resp>>

-----------------------------------------------------------------------------
\* The listener: the model's on_event, then the service's, then the session's

Hears(event) == listener = 0 /\ inbox # <<>> /\ Head(inbox) = event
                /\ inbox' = Tail(inbox)

HearCreated(r) ==
  /\ Hears(<<"created", r>>)
  /\ responseTurns' = responseTurns \cup {r}
  /\ UNCHANGED <<coordinator, resp, calls, cancel, listener, bridge, toolTurns,
                 model>>

\* response.output_item.done; the session then starts the tool's task.
HearCall(c) ==
  /\ Hears(<<"call", c>>)
  /\ toolResponses' = toolResponses \cup {c}
  /\ toolTurns' = IF calls[c].resp \in responseTurns THEN toolTurns \cup {c}
                                                     ELSE toolTurns
  /\ calls' = [calls EXCEPT ![c].place = "dispatched"]
  /\ UNCHANGED <<coordinator, resp, cancel, listener, bridge, responseTurns,
                 finished, sentOutputs>>

\* Faulty variant: only a tool output looks for a continuation.
HearDoneRecordsOnly(r) ==
  /\ Hears(<<"done", r>>)
  /\ finished' = IF CallsOf(r) # {} THEN finished \cup {r} ELSE finished
  /\ bridge' = Append(bridge, r)
  /\ UNCHANGED <<coordinator, resp, calls, cancel, listener, service,
                 toolResponses, sentOutputs>>

\* The continuation is sent by the listener itself, which is suspended in it:
\* the bridge gets the event only afterwards.
HearDone(r) ==
  /\ Hears(<<"done", r>>)
  /\ IF CallsOf(r) # {} THEN Continue(r, finished \cup {r}, sentOutputs)
                        ELSE UNCHANGED <<resp, model>>
  /\ IF resp' = resp
       THEN bridge' = Append(bridge, r) /\ UNCHANGED listener
       ELSE listener' = r /\ UNCHANGED bridge
  /\ UNCHANGED <<coordinator, calls, cancel, service>>

ListenerResumes ==
  /\ listener # 0
  /\ bridge' = Append(bridge, listener)
  /\ listener' = 0
  /\ UNCHANGED <<coordinator, resp, calls, cancel, inbox, service, model>>

-----------------------------------------------------------------------------
\* A tool call's task

\* invoke_for_turn; a result of an interrupted turn's tool is sent as well.
InvokeTool(c) ==
  /\ calls[c].place = "dispatched"
  /\ LET eligible == c \in toolTurns /\ TurnOf(c) = current
     IN  /\ calls' = [calls EXCEPT ![c].place =
                        IF eligible THEN "running" ELSE "output"]
         /\ toolTurns' = IF eligible THEN toolTurns ELSE toolTurns \ {c}
  /\ UNCHANGED <<coordinator, resp, cancel, inbox, listener, bridge,
                 responseTurns, model>>

\* Faulty variant: the call stays bound to its turn.
ToolReturnsBound(c) ==
  /\ calls[c].place = "running"
  /\ calls' = [calls EXCEPT ![c].place = "output"]
  /\ UNCHANGED <<coordinator, resp, cancel, inbox, listener, bridge, service,
                 model>>

\* The tool returns and send_event(RealtimeModelSendToolOutput) is entered.
ToolReturns(c) ==
  /\ calls[c].place = "running"
  /\ calls' = [calls EXCEPT ![c].place = "output"]
  /\ toolTurns' = toolTurns \ {c}
  /\ UNCHANGED <<coordinator, resp, cancel, inbox, listener, bridge,
                 responseTurns, model>>

\* The output is on the wire.
OutputSent(c) ==
  /\ calls[c].place = "output"
  /\ calls' = [calls EXCEPT ![c].place = "sent"]
  /\ IF c \in toolResponses
       THEN Continue(calls[c].resp, finished, sentOutputs \cup {c})
       ELSE /\ sentOutputs' = sentOutputs \cup {c}
            /\ UNCHANGED <<resp, toolResponses, finished>>
  /\ UNCHANGED <<coordinator, cancel, inbox, listener, bridge, service>>

-----------------------------------------------------------------------------
\* The bridge, _handle_server_event and _finish_turn

\* Faulty variant: every response ends its turn.
HandleDoneAlways ==
  /\ bridge # <<>>
  /\ LET r == Head(bridge)
     IN  /\ responseTurns' = responseTurns \ {r}
         /\ current' = IF r \in responseTurns /\ resp[r].turn = current
                         THEN 0 ELSE current
  /\ bridge' = Tail(bridge)
  /\ UNCHANGED <<lastTurn, input, resp, calls, cancel, inbox, listener,
                 toolTurns, model>>

\* A response that did not complete, or that made no call, ends its turn.
HandleDone ==
  /\ bridge # <<>>
  /\ LET r == Head(bridge)
     IN  /\ responseTurns' = responseTurns \ {r}
         /\ current' = IF /\ r \in responseTurns
                          /\ resp[r].turn = current
                          /\ resp[r].status # "completed" \/ CallsOf(r) = {}
                         THEN 0 ELSE current
  /\ bridge' = Tail(bridge)
  /\ UNCHANGED <<lastTurn, input, resp, calls, cancel, inbox, listener,
                 toolTurns, model>>

-----------------------------------------------------------------------------
Quiet ==
  /\ current = 0 /\ input = "idle"
  /\ ~cancel /\ inbox = <<>> /\ listener = 0 /\ bridge = <<>>
  /\ \A r \in Responses : resp[r].status \in Ended
  /\ \A c \in CallIds : calls[c].place = "sent"

\* Every turn has been taken and everything has settled.
Over == Quiet /\ lastTurn = MaxTurns /\ UNCHANGED vars

Worker == SendUserInput \/ AskForResponse
Server == ServerCancels \/ \E r \in Responses : ServerStarts(r) \/ ServerEnds(r)
Listener ==
  \/ \E r \in Responses : HearCreated(r) \/ HearDone(r)
  \/ \E c \in CallIds : HearCall(c)
  \/ ListenerResumes
Tool(c) == InvokeTool(c) \/ ToolReturns(c) \/ OutputSent(c)

Next ==
  \/ TurnBegins \/ Worker \/ Interrupt
  \/ Server \/ \E r \in Responses : ServerCalls(r)
  \/ Listener
  \/ \E c \in CallIds : Tool(c)
  \/ HandleDone
  \/ Over

Spec == Init /\ [][Next]_vars

\* Ready tasks run, tools return (their commands time out) and the server ends
\* what it starts.  Whether it calls tools, fails or is interrupted is open.
Fairness ==
  /\ WF_vars(Worker) /\ WF_vars(Server) /\ WF_vars(Listener)
  /\ WF_vars(HandleDone)
  /\ \A c \in 1..MaxCalls : WF_vars(c \in CallIds /\ Tool(c))

FairSpec == Spec /\ Fairness

-----------------------------------------------------------------------------
\* Types; the books only name what is underway.
TypeOK ==
  /\ current \in {0, lastTurn} /\ lastTurn \in {0} \cup Turns
  /\ input \in {"idle", "begun", "item"}
  /\ resp \in Seq([turn : Turns, after : 0..Len(resp),
                   status : {"requested", "active"} \cup Ended])
  /\ calls \in Seq([resp : Responses,
                    place : {"announced", "dispatched", "running", "output",
                             "sent"}])
  /\ cancel \in BOOLEAN
  /\ Cardinality(Active) <= 1
  /\ listener \in {0} \cup Responses
  /\ bridge \in Seq(Responses)
  /\ responseTurns \subseteq {r \in Responses : resp[r].status # "requested"}
  /\ toolTurns \subseteq
       {c \in CallIds : calls[c].place \in {"dispatched", "running"}}
  /\ finished \subseteq {r \in Responses : resp[r].status \in Ended}
  /\ toolResponses \subseteq CallIds
  /\ sentOutputs \subseteq {c \in CallIds : calls[c].place = "sent"}

\* "One response can contain several tools. Wait for the server's complete
\* inventory and all results so they produce exactly one continuation"
\* (turn_model.py:87): a response is continued once at most, and by then every
\* one of its tool results has been sent, whichever of the listener and the
\* tools' tasks came last.
OneContinuation ==
  \A r \in Responses :
    LET continuations == {n \in Responses : resp[n].after = r}
    IN  /\ Cardinality(continuations) <= 1
        /\ continuations # {} => \A c \in CallsOf(r) : calls[c].place = "sent"

\* "agent_end means ONE response ended" (service_v2.py:338): when the bridge
\* ends a turn for a completed response, nothing of that turn is left to come,
\* no tool at work and no response asked for, although the bridge lags behind
\* the listener and the tools.
FinishedTurnIsWhole ==
  [][HandleDone /\ current' # current /\ resp[Head(bridge)].status = "completed"
       => /\ \A c \in CallIds : TurnOf(c) = current => calls[c].place = "sent"
          /\ \A r \in Responses : resp[r].turn = current => resp[r].status \in Ended
    ]_vars

\* Once everything has settled no dictionary or set of the model and of the
\* service names a past response or call: a session that lives for days does
\* not grow with the turns interrupted in it.
NothingLeftBehind ==
  Quiet => /\ responseTurns = {} /\ toolTurns = {}
           /\ toolResponses = {} /\ finished = {} /\ sentOutputs = {}

\* No turn stays eligible for ever (the display would say "thinking", the next
\* command would have to interrupt it): the last tool output and the
\* response.done race, and one of them always asks for the continuation.
TurnEnds == \A t \in Turns : current = t ~> current # t
=============================================================================
