-------------------------- MODULE TurnModelProofs --------------------------
(***************************************************************************)
(* For any number of turns, responses and tool calls: the types of the     *)
(* books, one continuation per response and only when all its tools have   *)
(* answered, nothing left in the books once everything has settled, and    *)
(* that a turn ends only when it is whole.                                 *)
(*                                                                         *)
(* A response is Closed when the listener has heard its end and no tool    *)
(* output is missing.  Until then the books have each of its calls (Books) *)
(* and it has no continuation (Chain); then they have none, and it never   *)
(* opens again, since its events reach the listener in order (Mail).  The  *)
(* responses of a turn are a chain in which all but the last are closed.   *)
(***************************************************************************)
EXTENDS TurnModel, Queues, FiniteSetTheorems

Statuses == {"requested", "active"} \cup Ended
CallPlaces == {"announced", "dispatched", "running", "output", "sent"}

Created(r) == <<"created", r>>
Call(c) == <<"call", c>>
Done(r) == <<"done", r>>
Mails == {"created", "call", "done"} \X Nat

RespRecords == [turn : Turns, after : Nat, status : Statuses]
CallRecords == [resp : Nat, place : CallPlaces]

\* Types that do not depend on the state.
Shape ==
  /\ current \in {0, lastTurn} /\ lastTurn \in {0} \cup Turns
  /\ input \in {"idle", "begun", "item"} /\ (input # "idle" => lastTurn # 0)
  /\ resp \in Seq(RespRecords)
  /\ calls \in Seq(CallRecords)
  /\ cancel \in BOOLEAN
  /\ inbox \in Seq(Mails) /\ Distinct(inbox)
  /\ listener \in Nat /\ bridge \in Seq(Nat)

\* What names a response or a call names one there is.
Names ==
  /\ \A c \in CallIds : calls[c].resp \in Responses
  /\ listener \in {0} \cup Responses
  /\ \A i \in 1..Len(bridge) : bridge[i] \in Responses
  /\ \A r, s \in Active : r = s

\* The events on their way: a response's start ahead of its end, and a call
\* exactly until the session starts its task.
Mail ==
  /\ \A r \in Nat : In(Created(r), inbox) =>
       /\ r \in Responses /\ resp[r].status # "requested"
       /\ resp[r].status = "active" \/ In(Done(r), inbox)
  /\ \A r \in Nat : In(Done(r), inbox) => r \in Responses /\ resp[r].status \in Ended
  /\ \A r \in Nat : Before(Created(r), Done(r), inbox)
  /\ \A c \in Nat : In(Call(c), inbox) <=> c \in CallIds /\ calls[c].place = "announced"

Heard(r) == resp[r].status \in Ended /\ ~In(Done(r), inbox)
Closed(r) == Heard(r) /\ r \notin finished

Books ==
  /\ \A r \in finished : r \in Responses /\ Heard(r) /\ ~(CallsOf(r) \subseteq sentOutputs)
  /\ toolTurns \subseteq {c \in CallIds : calls[c].place \in {"dispatched", "running"}}
  /\ toolResponses \subseteq CallIds
  /\ sentOutputs \subseteq {c \in CallIds : calls[c].place = "sent"}
  /\ \A r \in Responses : \A c \in CallsOf(r) :
       IF Closed(r)
         THEN calls[c].place = "sent" /\ c \notin toolResponses \cup sentOutputs
         ELSE /\ calls[c].place # "announced" => c \in toolResponses
              /\ calls[c].place = "sent" => c \in sentOutputs

\* A response is bound until the bridge has seen its end.
Bound ==
  \A r \in responseTurns :
    /\ r \in Responses /\ resp[r].status # "requested"
    /\ \/ resp[r].status = "active" \/ In(Done(r), inbox)
       \/ listener = r \/ In(r, bridge)

Last(r) == \A n \in Responses : resp[n].after # r

\* The responses of a turn: each continues one that is closed, none is continued
\* twice, and one is the last.
Chain ==
  /\ \A n \in Responses : resp[n].after \in {0} \cup Responses
  /\ \A n, r \in Responses : resp[n].after = r => Closed(r) /\ CallsOf(r) # {}
  /\ \A m, n \in Responses : resp[m].after = resp[n].after /\ resp[n].after # 0 => m = n
  /\ \A m, n \in Responses : resp[m].turn = resp[n].turn /\ Last(m) /\ Last(n) => m = n
  /\ \A r \in Responses : resp[r].turn <= lastTurn
                          /\ (input # "idle" => resp[r].turn # lastTurn)

IInv == Shape /\ Names /\ Mail /\ Books /\ Bound /\ Chain

-----------------------------------------------------------------------------
\* How the sequences of responses and calls change

\* The bounds are numbers.
LEMMA Bounds == MaxTurns \in Nat \ {0} /\ MaxCalls \in Nat
PROOF BY BoundsAssumption

\* Every response and every call is a record, and their numbers are numbers.
LEMMA Records ==
  ASSUME Shape
  PROVE  /\ Len(resp) \in Nat /\ Len(calls) \in Nat
         /\ Responses \subseteq Nat /\ CallIds \subseteq Nat
         /\ \A r \in Responses : resp[r] \in RespRecords
         /\ \A c \in CallIds : calls[c] \in CallRecords
         /\ lastTurn \in Nat
PROOF
<1>1. Len(resp) \in Nat /\ \A r \in 1..Len(resp) : resp[r] \in RespRecords
  BY LenProperties, ElementOfSeq DEF Shape
<1>2. Len(calls) \in Nat /\ \A c \in 1..Len(calls) : calls[c] \in CallRecords
  BY LenProperties, ElementOfSeq DEF Shape
<1>3. lastTurn \in Nat
  BY Bounds DEF Shape, Turns
<1> QED BY <1>1, <1>2, <1>3 DEF Responses, CallIds

\* What is true when a response has been asked for.
Grown ==
  /\ resp' \in Seq(RespRecords)
  /\ \A r \in Responses : r \in 1..Len(resp') /\ resp'[r] = resp[r]
  /\ \A r \in 1..Len(resp') : r \in Responses \/ resp'[r].status = "requested"

\* A response is asked for at the end of the sequence.
LEMMA Requested ==
  ASSUME Shape, NEW t \in Turns, NEW a \in Nat, resp' = Request(t, a)
  PROVE  /\ Grown /\ Len(resp) + 1 \notin Responses
         /\ 1..Len(resp') = Responses \cup {Len(resp) + 1}
         /\ resp'[Len(resp) + 1] = [turn |-> t, after |-> a, status |-> "requested"]
PROOF
<1> DEFINE e == [turn |-> t, after |-> a, status |-> "requested"]
<1>1. e \in RespRecords /\ e.status = "requested"
  BY DEF RespRecords, Statuses
<1>2. resp \in Seq(RespRecords) /\ resp' = Append(resp, e) /\ Len(resp) \in Nat
  BY Records DEF Shape, Request
<1> HIDE DEF e
<1>3. /\ resp' \in Seq(RespRecords) /\ Len(resp') = Len(resp) + 1
      /\ \A r \in 1..Len(resp) : resp'[r] = resp[r]
      /\ resp'[Len(resp) + 1] = e
  BY <1>1, <1>2, AppendProperties
<1>4. 1..Len(resp') = 1..Len(resp) \cup {Len(resp) + 1} /\ Len(resp) + 1 \notin 1..Len(resp)
  BY <1>2, <1>3
<1>5. Grown
  BY <1>1, <1>3, <1>4 DEF Grown, Responses
<1> QED BY <1>3, <1>4, <1>5 DEF Responses, e

\* A response changes its status.
LEMMA Restated ==
  ASSUME Shape, NEW x \in Responses, NEW s \in Statuses,
         resp' = [resp EXCEPT ![x].status = s]
  PROVE  /\ resp' \in Seq(RespRecords) /\ Len(resp') = Len(resp)
         /\ \A r \in Responses : resp'[r].turn = resp[r].turn /\ resp'[r].after = resp[r].after
         /\ resp'[x].status = s
         /\ \A r \in Responses : r # x => resp'[r].status = resp[r].status
PROOF
<1>1. resp \in Seq(RespRecords) /\ Len(resp) \in Nat /\ x \in 1..Len(resp)
      /\ resp[x] \in RespRecords
  BY Records DEF Shape, Responses
<1>2. [resp[x] EXCEPT !.status = s] \in RespRecords
      /\ [resp[x] EXCEPT !.status = s].status = s
      /\ [resp[x] EXCEPT !.status = s].turn = resp[x].turn
      /\ [resp[x] EXCEPT !.status = s].after = resp[x].after
  BY <1>1 DEF RespRecords
<1>3. PICK e \in RespRecords : /\ resp' = [resp EXCEPT ![x] = e] /\ e.status = s
                               /\ e.turn = resp[x].turn /\ e.after = resp[x].after
  BY <1>2
<1>4. /\ resp' \in Seq(RespRecords) /\ Len(resp') = Len(resp)
      /\ \A r \in 1..Len(resp) : resp'[r] = IF r = x THEN e ELSE resp[r]
  BY <1>1, <1>3, ExceptSeq
<1> QED BY <1>1, <1>3, <1>4 DEF Responses

\* A call moves on.
LEMMA Placed ==
  ASSUME Shape, NEW x \in CallIds, NEW p \in CallPlaces,
         calls' = [calls EXCEPT ![x].place = p]
  PROVE  /\ calls' \in Seq(CallRecords) /\ Len(calls') = Len(calls)
         /\ \A c \in CallIds : calls'[c].resp = calls[c].resp
         /\ calls'[x].place = p
         /\ \A c \in CallIds : c # x => calls'[c].place = calls[c].place
PROOF
<1>1. calls \in Seq(CallRecords) /\ Len(calls) \in Nat /\ x \in 1..Len(calls)
      /\ calls[x] \in CallRecords
  BY Records DEF Shape, CallIds
<1>2. [calls[x] EXCEPT !.place = p] \in CallRecords
      /\ [calls[x] EXCEPT !.place = p].place = p
      /\ [calls[x] EXCEPT !.place = p].resp = calls[x].resp
  BY <1>1 DEF CallRecords
<1>3. PICK e \in CallRecords : /\ calls' = [calls EXCEPT ![x] = e] /\ e.place = p
                               /\ e.resp = calls[x].resp
  BY <1>2
<1>4. /\ calls' \in Seq(CallRecords) /\ Len(calls') = Len(calls)
      /\ \A c \in 1..Len(calls) : calls'[c] = IF c = x THEN e ELSE calls[c]
  BY <1>1, <1>3, ExceptSeq
<1> QED BY <1>1, <1>3, <1>4 DEF CallIds
-----------------------------------------------------------------------------
\* What keeps the chains

\* No response is asked for, and what is closed stays closed.
LEMMA ChainKept ==
  ASSUME Chain, 1..Len(resp') = Responses,
         \A r \in Responses : resp'[r].turn = resp[r].turn /\ resp'[r].after = resp[r].after,
         \A r \in Responses : Closed(r) => Closed(r)',
         \A r \in Responses : CallsOf(r) # {} => CallsOf(r)' # {},
         lastTurn' = lastTurn, input' \in {"idle", input}
  PROVE  Chain'
PROOF
<1>1. Responses' = Responses
  BY DEF Responses
<1>2. \A r \in Responses : Last(r)' <=> Last(r)
  BY <1>1 DEF Last
<1>3. (\A n \in Responses : resp[n].after \in {0} \cup Responses)'
  BY <1>1 DEF Chain
<1>4. (\A n, r \in Responses : resp[n].after = r => Closed(r) /\ CallsOf(r) # {})'
  <2> SUFFICES ASSUME NEW n \in Responses, NEW r \in Responses, resp'[n].after = r
               PROVE  Closed(r)' /\ CallsOf(r)' # {}
    BY <1>1
  <2>1. Closed(r) /\ CallsOf(r) # {}
    BY DEF Chain
  <2> QED BY <2>1
<1>5. (\A m, n \in Responses : resp[m].after = resp[n].after /\ resp[n].after # 0 => m = n)'
  BY <1>1 DEF Chain
<1>6. (\A m, n \in Responses : resp[m].turn = resp[n].turn /\ Last(m) /\ Last(n) => m = n)'
  <2> SUFFICES ASSUME NEW m \in Responses, NEW n \in Responses,
                      resp'[m].turn = resp'[n].turn, Last(m)', Last(n)'
               PROVE  m = n
    BY <1>1
  <2> QED BY <1>2 DEF Chain
<1>7. (\A r \in Responses : resp[r].turn <= lastTurn
                            /\ (input # "idle" => resp[r].turn # lastTurn))'
  BY <1>1 DEF Chain
<1> QED BY <1>3, <1>4, <1>5, <1>6, <1>7 DEF Chain

\* A response that closes is continued.
LEMMA ChainContinued ==
  ASSUME Shape, Chain, NEW x \in Responses, ~Closed(x), Closed(x)', CallsOf(x)' # {},
         resp' = Request(resp[x].turn, x),
         \A r \in Responses : Closed(r) => Closed(r)',
         \A r \in Responses : CallsOf(r) # {} => CallsOf(r)' # {},
         UNCHANGED coordinator
  PROVE  Chain'
PROOF
<1> DEFINE y == Len(resp) + 1
<1>1. /\ Len(resp) \in Nat /\ Responses \subseteq Nat /\ lastTurn \in Nat
      /\ resp[x].turn \in Turns /\ 0 \notin Turns /\ 0 \notin Responses /\ y # 0
  BY Records DEF RespRecords, Turns, Responses
<1>2. /\ Grown /\ y \notin Responses /\ Responses' = Responses \cup {y}
      /\ resp'[y].turn = resp[x].turn /\ resp'[y].after = x
  <2>1. x \in Nat
    BY <1>1
  <2>2. Grown /\ y \notin Responses /\ 1..Len(resp') = Responses \cup {y}
        /\ resp'[y] = [turn |-> resp[x].turn, after |-> x, status |-> "requested"]
    BY Requested, <1>1, <2>1
  <2> QED BY <2>2 DEF Responses
<1> HIDE DEF y
<1>3. \A r \in Responses : resp'[r] = resp[r]
  BY <1>2 DEF Grown
<1>4. \A n \in Responses : resp[n].after # x /\ resp[n].after # y
  BY <1>1, <1>2 DEF Chain
<1>5. Last(x)
  BY <1>4 DEF Last
<1>6. /\ \A r \in Responses : Last(r)' => Last(r)
      /\ ~Last(x)'
  BY <1>2, <1>3 DEF Last
<1>7. (\A n \in Responses : resp[n].after \in {0} \cup Responses)'
  BY <1>2, <1>3 DEF Chain
<1>8. (\A n, r \in Responses : resp[n].after = r => Closed(r) /\ CallsOf(r) # {})'
  <2> SUFFICES ASSUME NEW n \in Responses', NEW r \in Responses', resp'[n].after = r
               PROVE  Closed(r)' /\ CallsOf(r)' # {}
    OBVIOUS
  <2>1. CASE n = y
    BY <1>2, <2>1
  <2>2. CASE n # y
    <3>1. n \in Responses /\ resp[n].after = r /\ r # y
      BY <1>2, <1>3, <1>4, <2>2
    <3>2. r \in Responses
      BY <1>2, <3>1
    <3>3. Closed(r) /\ CallsOf(r) # {}
      BY <3>1, <3>2 DEF Chain
    <3> QED BY <3>2, <3>3
  <2> QED BY <2>1, <2>2
<1>9. (\A m, n \in Responses : resp[m].after = resp[n].after /\ resp[n].after # 0 => m = n)'
  <2> SUFFICES ASSUME NEW m \in Responses', NEW n \in Responses',
                      resp'[m].after = resp'[n].after, resp'[n].after # 0
               PROVE  m = n
    OBVIOUS
  <2>1. CASE m # y /\ n # y
    BY <1>2, <1>3, <2>1 DEF Chain
  <2>2. CASE m = y \/ n = y
    BY <1>2, <1>3, <1>4, <2>2
  <2> QED BY <2>1, <2>2
<1>10. (\A m, n \in Responses : resp[m].turn = resp[n].turn /\ Last(m) /\ Last(n) => m = n)'
  <2> SUFFICES ASSUME NEW m \in Responses', NEW n \in Responses',
                      resp'[m].turn = resp'[n].turn, Last(m)', Last(n)'
               PROVE  m = n
    OBVIOUS
  <2>1. \A r \in Responses : resp[r].turn = resp[x].turn /\ Last(r) => r = x
    BY <1>5 DEF Chain
  <2>2. CASE m # y /\ n # y
    BY <1>2, <1>3, <1>6, <2>2 DEF Chain
  <2>3. CASE m = y \/ n = y
    BY <1>2, <1>3, <1>6, <2>1, <2>3
  <2> QED BY <2>2, <2>3
<1>11. (\A r \in Responses : resp[r].turn <= lastTurn
                            /\ (input # "idle" => resp[r].turn # lastTurn))'
  BY <1>2, <1>3, <1>1 DEF Chain, coordinator
<1> QED BY <1>7, <1>8, <1>9, <1>10, <1>11 DEF Chain
-----------------------------------------------------------------------------
\* What keeps the other books

\* Nothing is asked for.
LEMMA NotGrown ==
  ASSUME Shape, resp' = resp PROVE Grown /\ 1..Len(resp') = Responses
PROOF BY DEF Shape, Grown, Responses

\* The names stay names when the sequence of responses grows.
LEMMA NamesKept ==
  ASSUME Names, Grown, 1..Len(calls') = CallIds,
         \A c \in CallIds : calls'[c].resp = calls[c].resp,
         listener' \in {0} \cup Responses,
         \A i \in 1..Len(bridge') : bridge'[i] \in Responses
  PROVE  Names'
PROOF
<1>1. Responses \subseteq Responses' /\ CallIds' = CallIds
  BY DEF Grown, Responses, CallIds
<1>2. \A r \in Active' : r \in Active
  BY DEF Grown, Responses, Active
<1>3. (\A c \in CallIds : calls[c].resp \in Responses)'
  BY <1>1 DEF Names
<1>4. (\A i \in 1..Len(bridge) : bridge[i] \in Responses)' /\ (listener \in {0} \cup Responses)'
  BY <1>1
<1>5. (\A r, s \in Active : r = s)'
  BY <1>2 DEF Names
<1> QED BY <1>3, <1>4, <1>5 DEF Names

\* Events leave the queue in their order.
LEMMA MailKept ==
  ASSUME Mail, Grown,
         \A e : In(e, inbox') => In(e, inbox),
         \A r \in Nat : In(Created(r), inbox') /\ In(Done(r), inbox) => In(Done(r), inbox'),
         \A r \in Nat : Before(Created(r), Done(r), inbox'),
         \A c \in Nat : In(Call(c), inbox') <=>
                          c \in 1..Len(calls') /\ calls'[c].place = "announced"
  PROVE  Mail'
PROOF
<1>1. \A r \in Responses : r \in Responses' /\ resp'[r] = resp[r]
  BY DEF Grown, Responses
<1>2. ASSUME NEW r \in Nat, In(Created(r), inbox')
      PROVE  /\ r \in Responses' /\ resp'[r].status # "requested"
             /\ resp'[r].status = "active" \/ In(Done(r), inbox')
  <2>1. /\ r \in Responses /\ resp[r].status # "requested"
        /\ resp[r].status = "active" \/ In(Done(r), inbox)
    BY <1>2 DEF Mail
  <2> QED BY <1>1, <1>2, <2>1
<1>3. ASSUME NEW r \in Nat, In(Done(r), inbox')
      PROVE  r \in Responses' /\ resp'[r].status \in Ended
  <2>1. r \in Responses /\ resp[r].status \in Ended
    BY <1>3 DEF Mail
  <2> QED BY <1>1, <2>1
<1>4. \A c \in Nat : In(Call(c), inbox') <=> c \in CallIds' /\ calls'[c].place = "announced"
  BY DEF CallIds
<1> QED BY <1>2, <1>3, <1>4 DEF Mail, Ended

\* The bindings of responses on their way to the bridge are kept.
LEMMA BoundKept ==
  ASSUME Bound, Grown, responseTurns' \subseteq responseTurns,
         \A r \in responseTurns' :
           In(Done(r), inbox) \/ listener = r \/ In(r, bridge)
             => In(Done(r), inbox') \/ listener' = r \/ In(r, bridge')
  PROVE  Bound'
PROOF
<1> SUFFICES ASSUME NEW r \in responseTurns'
             PROVE  /\ r \in Responses' /\ resp'[r].status # "requested"
                    /\ \/ resp'[r].status = "active" \/ In(Done(r), inbox')
                       \/ listener' = r \/ In(r, bridge')
  BY DEF Bound
<1>1. /\ r \in Responses /\ resp[r].status # "requested"
      /\ \/ resp[r].status = "active" \/ In(Done(r), inbox)
         \/ listener = r \/ In(r, bridge)
  BY DEF Bound
<1>2. r \in Responses' /\ resp'[r] = resp[r]
  BY <1>1 DEF Grown, Responses
<1> QED BY <1>1, <1>2

\* While no event and no call moves, the books are as good as before.
LEMMA BooksKept ==
  ASSUME Names, Books, Grown, UNCHANGED <<calls, inbox, toolTurns, model>>
  PROVE  /\ Books'
         /\ \A r \in Responses : Closed(r) => Closed(r)'
         /\ \A r \in Nat : CallsOf(r)' = CallsOf(r)
PROOF
<1>1. CallIds' = CallIds /\ (\A r \in Nat : CallsOf(r)' = CallsOf(r))
      /\ (\A r : CallsOf(r)' = {c \in CallIds : calls[c].resp = r})
  BY DEF CallIds, CallsOf
<1>2. \A r \in Responses : r \in Responses' /\ resp'[r] = resp[r]
  BY DEF Grown, Responses
<1>3. \A r \in Responses : (Heard(r)' <=> Heard(r)) /\ (Closed(r)' <=> Closed(r))
  BY <1>2 DEF Heard, Closed, model
<1>4. (\A r \in finished : r \in Responses /\ Heard(r) /\ ~(CallsOf(r) \subseteq sentOutputs))'
  <2> SUFFICES ASSUME NEW r \in finished
               PROVE  r \in Responses' /\ Heard(r)' /\ ~(CallsOf(r)' \subseteq sentOutputs)
    BY DEF model
  <2>1. r \in Responses /\ Heard(r) /\ ~(CallsOf(r) \subseteq sentOutputs)
    BY DEF Books
  <2> QED BY <1>1, <1>2, <1>3, <2>1 DEF CallsOf
<1>5. (\A r \in Responses : \A c \in CallsOf(r) :
       IF Closed(r)
         THEN calls[c].place = "sent" /\ c \notin toolResponses \cup sentOutputs
         ELSE /\ calls[c].place # "announced" => c \in toolResponses
              /\ calls[c].place = "sent" => c \in sentOutputs)'
  <2> SUFFICES ASSUME NEW r \in Responses', NEW c \in CallsOf(r)'
               PROVE  IF Closed(r)'
                        THEN calls[c].place = "sent" /\ c \notin toolResponses \cup sentOutputs
                        ELSE /\ calls[c].place # "announced" => c \in toolResponses
                             /\ calls[c].place = "sent" => c \in sentOutputs
    BY DEF model
  <2>1. c \in CallIds /\ calls[c].resp = r /\ r \in Responses
    BY <1>1 DEF Names
  <2>2. c \in CallsOf(r)
    BY <2>1 DEF CallsOf
  <2> QED BY <1>3, <2>1, <2>2 DEF Books
<1>6. (/\ toolTurns \subseteq {c \in CallIds : calls[c].place \in {"dispatched", "running"}}
       /\ toolResponses \subseteq CallIds
       /\ sentOutputs \subseteq {c \in CallIds : calls[c].place = "sent"})'
  BY <1>1 DEF Books, model
<1> QED BY <1>1, <1>3, <1>4, <1>5, <1>6 DEF Books
-----------------------------------------------------------------------------
\* The coordinator and its worker

\* While only the coordinator moves, a turn is given no response but by
\* AskForResponse.
LEMMA CoordinatorMoves ==
  ASSUME IInv, UNCHANGED <<resp, calls, inbox, listener, bridge, service, model>>,
         cancel' \in BOOLEAN, current' \in {0, lastTurn'}, lastTurn' \in {0} \cup Turns,
         input' \in {"idle", "begun", "item"}, input' # "idle" => lastTurn' # 0,
         \/ lastTurn' = lastTurn /\ (input' # "idle" => input # "idle")
         \/ lastTurn' = lastTurn + 1
  PROVE  IInv'
PROOF
<1>1. Shape'
  BY DEF IInv, Shape, Turns
<1>2. Names' /\ Mail' /\ Books' /\ Bound'
  BY DEF IInv, Names, Mail, Books, Bound, Responses, CallIds, CallsOf, Active, Heard,
         Closed, service, model
<1>3. /\ Responses' = Responses
      /\ \A r \in Responses : (Closed(r)' <=> Closed(r)) /\ CallsOf(r)' = CallsOf(r)
                              /\ (Last(r)' <=> Last(r))
  BY DEF Responses, CallIds, CallsOf, Heard, Closed, Last, model
<1>4. \A r \in Responses : resp[r].turn <= lastTurn' /\ (input' # "idle" => resp[r].turn # lastTurn')
  <2> SUFFICES ASSUME NEW r \in Responses
               PROVE  resp[r].turn <= lastTurn' /\ (input' # "idle" => resp[r].turn # lastTurn')
    OBVIOUS
  <2>1. resp[r].turn \in Nat /\ lastTurn \in Nat
    BY Records DEF IInv, RespRecords, Turns
  <2>2. resp[r].turn <= lastTurn /\ (input # "idle" => resp[r].turn # lastTurn)
    BY DEF IInv, Chain
  <2> QED BY <2>1, <2>2
<1>5. Chain'
  BY <1>3, <1>4 DEF IInv, Chain
<1> QED BY <1>1, <1>2, <1>5 DEF IInv

\* A turn begins without a response.
LEMMA TurnBeginsSound == ASSUME IInv, TurnBegins PROVE IInv'
PROOF
<1>1. /\ lastTurn \in Nat /\ lastTurn < MaxTurns /\ lastTurn' = lastTurn + 1
      /\ current' = lastTurn + 1 /\ input' = "begun"
      /\ UNCHANGED <<resp, calls, inbox, listener, bridge, service, model>>
  BY Records DEF IInv, TurnBegins
<1>2. cancel' \in BOOLEAN
  BY DEF IInv, Shape, TurnBegins
<1>3. lastTurn' \in Turns /\ lastTurn' # 0
  BY <1>1, Bounds DEF Turns
<1> QED BY <1>1, <1>2, <1>3, CoordinatorMoves

\* The message is dropped, or its response is still to be asked for.
LEMMA SendUserInputSound == ASSUME IInv, SendUserInput PROVE IInv'
PROOF
<1>1. /\ current \in {0, lastTurn} /\ lastTurn \in {0} \cup Turns /\ lastTurn # 0
      /\ cancel \in BOOLEAN /\ input = "begun" /\ input' \in {"idle", "item"}
      /\ UNCHANGED <<current, lastTurn, cancel, resp, calls, inbox, listener, bridge, service, model>>
  BY DEF IInv, Shape, SendUserInput
<1> QED BY <1>1, CoordinatorMoves

\* Interrupting touches no book.
LEMMA InterruptSound == ASSUME IInv, Interrupt PROVE IInv'
PROOF
<1>1. /\ lastTurn \in {0} \cup Turns /\ current' \in {0, lastTurn} /\ cancel' \in BOOLEAN
      /\ input \in {"idle", "begun", "item"} /\ (input # "idle" => lastTurn # 0)
      /\ UNCHANGED <<lastTurn, input, resp, calls, inbox, listener, bridge, service, model>>
  BY DEF IInv, Shape, Interrupt
<1> QED BY <1>1, CoordinatorMoves

\* The first response of a turn begins its chain.
LEMMA AskForResponseSound == ASSUME IInv, AskForResponse PROVE IInv'
PROOF
<1> DEFINE y == Len(resp) + 1
<1>1. /\ input = "item" /\ input' = "idle" /\ resp' = Request(lastTurn, 0)
      /\ UNCHANGED <<current, lastTurn, calls, cancel, inbox, listener, bridge, service, model>>
      /\ Shape /\ Names /\ Mail /\ Books /\ Bound /\ Chain
  BY DEF IInv, AskForResponse
<1>2. lastTurn \in Turns /\ lastTurn \in Nat /\ Len(resp) \in Nat
      /\ Responses \subseteq Nat \ {0} /\ y # 0
  BY <1>1, Records DEF Shape, Responses
<1>3. /\ Grown /\ y \notin Responses /\ 1..Len(resp') = Responses \cup {y}
      /\ resp'[y].turn = lastTurn /\ resp'[y].after = 0
  <2>1. 0 \in Nat
    OBVIOUS
  <2>2. Grown /\ y \notin Responses /\ 1..Len(resp') = Responses \cup {y}
        /\ resp'[y] = [turn |-> lastTurn, after |-> 0, status |-> "requested"]
    BY <1>1, <1>2, <2>1, Requested
  <2> QED BY <2>2
<1> HIDE DEF y
<1>4. Responses' = Responses \cup {y} /\ \A r \in Responses : resp'[r] = resp[r]
  BY <1>3 DEF Responses, Grown
<1>5. Shape'
  BY <1>1, <1>3 DEF Shape, Grown
<1>6. Names'
  BY <1>1, <1>3, NamesKept DEF CallIds, Names
<1>7. Mail'
  BY <1>1, <1>3, MailKept DEF Mail, CallIds
<1>8. Bound'
  BY <1>1, <1>3, BoundKept DEF service
<1>9. /\ Books' /\ \A r \in Responses : Closed(r) => Closed(r)'
      /\ \A r \in Nat : CallsOf(r)' = CallsOf(r)
  BY <1>1, <1>3, BooksKept DEF service
<1>10. \A n \in Responses : resp[n].after # y /\ resp[n].turn # lastTurn
  BY <1>1, <1>2, <1>3 DEF Chain
<1>11. \A r \in Responses : Last(r)' <=> Last(r)
  BY <1>2, <1>3, <1>4 DEF Last
<1>12. (\A n \in Responses : resp[n].after \in {0} \cup Responses)'
  BY <1>1, <1>3, <1>4 DEF Chain
<1>13. (\A n, r \in Responses : resp[n].after = r => Closed(r) /\ CallsOf(r) # {})'
  <2> SUFFICES ASSUME NEW n \in Responses', NEW r \in Responses', resp'[n].after = r
               PROVE  Closed(r)' /\ CallsOf(r)' # {}
    OBVIOUS
  <2>1. n # y
    BY <1>2, <1>3, <1>4, n \in Responses'
  <2>2. n \in Responses /\ resp[n].after = r /\ r \in Responses
    BY <1>4, <1>10, <2>1
  <2>3. Closed(r) /\ CallsOf(r) # {}
    BY <1>1, <2>2 DEF Chain
  <2> QED BY <1>2, <1>9, <2>2, <2>3
<1>14. (\A m, n \in Responses : resp[m].after = resp[n].after /\ resp[n].after # 0 => m = n)'
  BY <1>1, <1>3, <1>4 DEF Chain
<1>15. (\A m, n \in Responses : resp[m].turn = resp[n].turn /\ Last(m) /\ Last(n) => m = n)'
  <2> SUFFICES ASSUME NEW m \in Responses', NEW n \in Responses',
                      resp'[m].turn = resp'[n].turn, Last(m)', Last(n)'
               PROVE  m = n
    OBVIOUS
  <2>1. CASE m # y /\ n # y
    BY <1>1, <1>4, <1>11, <2>1 DEF Chain
  <2>2. CASE m = y \/ n = y
    BY <1>3, <1>4, <1>10, <2>2
  <2> QED BY <2>1, <2>2
<1>16. (\A r \in Responses : resp[r].turn <= lastTurn
                            /\ (input # "idle" => resp[r].turn # lastTurn))'
  BY <1>1, <1>2, <1>3, <1>4 DEF Chain
<1>17. Chain'
  BY <1>12, <1>13, <1>14, <1>15, <1>16 DEF Chain
<1> QED BY <1>5, <1>6, <1>7, <1>8, <1>9, <1>17 DEF IInv
-----------------------------------------------------------------------------
\* The server

\* Events of different kinds, or of different responses or calls, are different.
LEMMA Events ==
  /\ \A r, s : Created(r) # Done(s) /\ Created(r) # Call(s) /\ Done(r) # Call(s)
  /\ \A r, s : Created(r) = Created(s) => r = s
  /\ \A r, s : Done(r) = Done(s) => r = s
  /\ \A r, s : Call(r) = Call(s) => r = s
  /\ \A r \in Nat : Created(r) \in Mails /\ Done(r) \in Mails /\ Call(r) \in Mails
PROOF BY DEF Created, Done, Call, Mails

\* The server starts or ends a response, and says so: nothing is heard of it yet.
LEMMA ServerMoves ==
  ASSUME IInv, NEW x \in Responses, NEW s \in Statuses, NEW e,
         resp' = [resp EXCEPT ![x].status = s], inbox' = Append(inbox, e),
         UNCHANGED <<coordinator, calls, listener, bridge, service, model>>,
         cancel' \in BOOLEAN,
         \/ e = Created(x) /\ s = "active" /\ resp[x].status = "requested" /\ Active = {}
         \/ e = Done(x) /\ s \in Ended /\ resp[x].status = "active"
  PROVE  IInv'
PROOF
<1>1. Shape /\ Names /\ Mail /\ Books /\ Bound /\ Chain /\ x \in Nat
  BY Records DEF IInv
<1>2. /\ resp' \in Seq(RespRecords) /\ Len(resp') = Len(resp)
      /\ \A r \in Responses : resp'[r].turn = resp[r].turn /\ resp'[r].after = resp[r].after
      /\ resp'[x].status = s
      /\ \A r \in Responses : r # x => resp'[r].status = resp[r].status
  BY <1>1, Restated
<1>3. Responses' = Responses /\ 1..Len(resp') = Responses
  BY <1>2 DEF Responses
<1>4. e \in Mails /\ ~In(e, inbox)
  <2>1. In(Created(x), inbox) => resp[x].status # "requested"
    BY <1>1 DEF Mail
  <2>2. In(Done(x), inbox) => resp[x].status # "active"
    BY <1>1 DEF Mail, Ended
  <2> QED BY <1>1, <2>1, <2>2, Events
<1>5. /\ inbox' \in Seq(Mails) /\ Distinct(inbox')
      /\ \A u : In(u, inbox') <=> In(u, inbox) \/ u = e
  <2>1. inbox \in Seq(Mails) /\ Distinct(inbox)
    BY <1>1 DEF Shape
  <2> QED BY <1>4, <2>1, QueueAppend
<1>6. \A r \in Responses : (Heard(r)' <=> Heard(r)) /\ (Closed(r)' <=> Closed(r))
  <2> SUFFICES ASSUME NEW r \in Responses PROVE Heard(r)' <=> Heard(r)
    BY DEF Closed, model
  <2>1. CASE r = x
    BY <1>2, <1>5, <2>1 DEF Heard, Ended
  <2>2. CASE r # x
    <3>1. e # Done(r)
      BY <2>2, Events
    <3> QED BY <1>2, <1>5, <2>2, <3>1 DEF Heard
  <2> QED BY <2>1, <2>2
<1>7. CallIds' = CallIds /\ \A r : CallsOf(r)' = CallsOf(r)
  BY DEF CallIds, CallsOf
<1>8. Shape'
  BY <1>1, <1>2, <1>5 DEF Shape, coordinator
<1>9. Names'
  <2>1. \A r \in Active' : r = x \/ r \in Active
    BY <1>2, <1>3 DEF Active
  <2>2. x \in Active' => Active = {}
    BY <1>2 DEF Active, Ended
  <2>3. x \notin Active' => Active' \subseteq Active
    BY <2>1
  <2>4. (\A m, n \in Active : m = n)'
    BY <1>1, <2>1, <2>2, <2>3 DEF Names
  <2> QED BY <1>1, <1>3, <1>7, <2>4 DEF Names
<1>10. Mail'
  <2>1. ASSUME NEW r \in Nat, In(Created(r), inbox')
        PROVE  /\ r \in Responses' /\ resp'[r].status # "requested"
               /\ resp'[r].status = "active" \/ In(Done(r), inbox')
    <3>1. CASE r = x
      BY <1>2, <1>3, <1>5, <3>1 DEF Ended
    <3>2. CASE r # x
      <4>1. In(Created(r), inbox)
        BY <1>5, <2>1, <3>2, Events
      <4>2. /\ r \in Responses /\ resp[r].status # "requested"
            /\ resp[r].status = "active" \/ In(Done(r), inbox)
        BY <1>1, <4>1 DEF Mail
      <4> QED BY <1>2, <1>3, <1>5, <3>2, <4>2
    <3> QED BY <3>1, <3>2
  <2>2. ASSUME NEW r \in Nat, In(Done(r), inbox')
        PROVE  r \in Responses' /\ resp'[r].status \in Ended
    <3>1. CASE e = Done(r)
      BY <1>2, <1>3, <3>1, Events
    <3>2. CASE e # Done(r)
      <4>1. r \in Responses /\ resp[r].status \in Ended
        BY <1>1, <1>5, <2>2, <3>2 DEF Mail
      <4>2. r # x
        BY <4>1 DEF Ended
      <4> QED BY <1>2, <1>3, <4>1, <4>2
    <3> QED BY <3>1, <3>2
  <2>3. ASSUME NEW r \in Nat
        PROVE  Before(Created(r), Done(r), inbox')
    <3>1. inbox \in Seq(Mails) /\ Before(Created(r), Done(r), inbox)
      BY <1>1 DEF Shape, Mail
    <3>2. e # Created(r) \/ (e # Done(r) /\ ~In(Done(r), inbox))
      <4>1. CASE e = Created(r)
        <5>1. resp[r].status = "requested"
          BY <4>1, Events
        <5>2. ~In(Done(r), inbox)
          BY <1>1, <5>1 DEF Mail, Ended
        <5> QED BY <4>1, <5>2, Events
      <4> QED BY <4>1
    <3> QED BY <1>4, <3>1, <3>2, BeforeAppend
  <2>4. \A c \in Nat : In(Call(c), inbox') <=> c \in CallIds' /\ calls'[c].place = "announced"
    <3>1. \A c : e # Call(c)
      BY Events
    <3>2. \A c \in Nat : In(Call(c), inbox) <=> c \in CallIds /\ calls[c].place = "announced"
      BY <1>1 DEF Mail
    <3> QED BY <1>5, <1>7, <3>1, <3>2
  <2> QED BY <2>1, <2>2, <2>3, <2>4 DEF Mail, Ended
<1>11. Books'
  <2>1. (\A r \in finished : r \in Responses /\ Heard(r) /\ ~(CallsOf(r) \subseteq sentOutputs))'
    BY <1>1, <1>3, <1>6, <1>7 DEF Books, model
  <2>2. (\A r \in Responses : \A c \in CallsOf(r) :
         IF Closed(r)
           THEN calls[c].place = "sent" /\ c \notin toolResponses \cup sentOutputs
           ELSE /\ calls[c].place # "announced" => c \in toolResponses
                /\ calls[c].place = "sent" => c \in sentOutputs)'
    BY <1>1, <1>3, <1>6, <1>7 DEF Books, model
  <2> QED BY <1>1, <1>7, <2>1, <2>2 DEF Books, model, service
<1>12. Bound'
  <2> SUFFICES ASSUME NEW r \in responseTurns
               PROVE  /\ r \in Responses' /\ resp'[r].status # "requested"
                      /\ \/ resp'[r].status = "active" \/ In(Done(r), inbox')
                         \/ listener' = r \/ In(r, bridge')
    BY DEF Bound, service
  <2>1. /\ r \in Responses /\ resp[r].status # "requested"
        /\ \/ resp[r].status = "active" \/ In(Done(r), inbox)
           \/ listener = r \/ In(r, bridge)
    BY <1>1 DEF Bound
  <2>2. CASE r = x
    BY <1>2, <1>3, <1>5, <2>1, <2>2 DEF Ended
  <2>3. CASE r # x
    BY <1>2, <1>3, <1>5, <2>1, <2>3
  <2> QED BY <2>2, <2>3
<1>13. Chain'
  BY <1>1, <1>2, <1>3, <1>6, <1>7, ChainKept DEF coordinator
<1> QED BY <1>8, <1>9, <1>10, <1>11, <1>12, <1>13 DEF IInv

\* The server runs one response at a time.
LEMMA ServerStartsSound == ASSUME IInv, NEW r \in Responses, ServerStarts(r) PROVE IInv'
PROOF
<1>1. "active" \in Statuses /\ cancel' \in BOOLEAN
  BY DEF Statuses, IInv, Shape, ServerStarts
<1>2. /\ resp' = [resp EXCEPT ![r].status = "active"] /\ inbox' = Append(inbox, Created(r))
      /\ UNCHANGED <<coordinator, calls, listener, bridge, service, model>>
      /\ resp[r].status = "requested" /\ Active = {}
  BY DEF ServerStarts, Created
<1> QED BY <1>1, <1>2, ServerMoves

\* A response ends by itself.
LEMMA ServerEndsSound == ASSUME IInv, NEW r \in Responses, ServerEnds(r) PROVE IInv'
PROOF
<1>1. PICK s \in {"completed", "failed"} : resp' = [resp EXCEPT ![r].status = s]
  BY DEF ServerEnds
<1>2. s \in Statuses /\ s \in Ended /\ cancel' \in BOOLEAN
  BY DEF Statuses, Ended, IInv, Shape, ServerEnds
<1>3. /\ inbox' = Append(inbox, Done(r))
      /\ UNCHANGED <<coordinator, calls, listener, bridge, service, model>>
      /\ resp[r].status = "active"
  BY DEF ServerEnds, Done, Active
<1> QED BY <1>1, <1>2, <1>3, ServerMoves

\* A cancellation ends the response there is, if there is one.
LEMMA ServerCancelsSound == ASSUME IInv, ServerCancels PROVE IInv'
PROOF
<1>1. /\ cancel' = FALSE /\ UNCHANGED <<coordinator, calls, listener, bridge, service, model>>
      /\ resp' = [r \in Responses |-> IF r \in Active
                    THEN [resp[r] EXCEPT !.status = "cancelled"] ELSE resp[r]]
      /\ inbox' = IF Active = {} THEN inbox
                  ELSE Append(inbox, Done(CHOOSE r \in Active : TRUE))
  BY DEF ServerCancels, Done
<1>2. resp \in Seq(RespRecords) /\ Len(resp) \in Nat /\ \A r \in Responses : resp[r] \in RespRecords
  BY Records DEF IInv, Shape
<1>3. resp = [r \in Responses |-> resp[r]]
  BY <1>2, SeqDef DEF Responses
<1>4. CASE Active = {}
  <2>1. resp' = resp /\ inbox' = inbox
    BY <1>1, <1>3, <1>4
  <2>2. current \in {0, lastTurn} /\ lastTurn \in {0} \cup Turns
        /\ input \in {"idle", "begun", "item"} /\ (input # "idle" => lastTurn # 0)
    BY DEF IInv, Shape
  <2> QED BY <1>1, <2>1, <2>2, CoordinatorMoves DEF coordinator
<1>5. CASE Active # {}
  <2>1. PICK x \in Active : x = CHOOSE r \in Active : TRUE
    BY <1>5
  <2>2. x \in Responses /\ resp[x].status = "active" /\ \A r \in Active : r = x
    BY DEF Active, IInv, Names
  <2>3. resp' = [resp EXCEPT ![x] = [resp[x] EXCEPT !.status = "cancelled"]]
    <3> DEFINE e == [resp[x] EXCEPT !.status = "cancelled"]
    <3>1. \A r \in Responses : resp'[r] = IF r = x THEN e ELSE resp[r]
      BY <1>1, <2>1, <2>2
    <3> HIDE DEF e
    <3>2. resp' = [r \in Responses |-> IF r = x THEN e ELSE resp[r]]
      BY <1>1, <3>1
    <3>3. [resp EXCEPT ![x] = e] = [r \in Responses |-> IF r = x THEN e ELSE resp[r]]
      BY <1>3
    <3>4. resp' = [resp EXCEPT ![x] = e]
      BY <3>2, <3>3
    <3> QED BY <3>4 DEF e
  <2>4. resp' = [resp EXCEPT ![x].status = "cancelled"]
    BY <2>3
  <2>5. inbox' = Append(inbox, Done(x)) /\ "cancelled" \in Statuses /\ "cancelled" \in Ended
        /\ cancel' \in BOOLEAN
    BY <1>1, <1>5, <2>1 DEF Statuses, Ended
  <2> QED BY <1>1, <2>2, <2>4, <2>5, ServerMoves
<1> QED BY <1>4, <1>5

\* A response makes a call: it has not ended, so it is not closed.
LEMMA ServerCallsSound == ASSUME IInv, NEW x \in Responses, ServerCalls(x) PROVE IInv'
PROOF
<1> DEFINE y == Len(calls) + 1
           e == [resp |-> x, place |-> "announced"]
<1>1. Shape /\ Names /\ Mail /\ Books /\ Bound /\ Chain
  BY DEF IInv
<1>2. /\ resp[x].status = "active" /\ x \in Nat /\ y \in Nat /\ y \notin CallIds
      /\ calls' = Append(calls, e) /\ inbox' = Append(inbox, Call(y))
      /\ UNCHANGED <<coordinator, resp, cancel, listener, bridge, service, model>>
  BY Records, <1>1 DEF ServerCalls, Active, Call, CallIds
<1>3. calls \in Seq(CallRecords) /\ e \in CallRecords
  BY <1>1, <1>2 DEF Shape, CallRecords, CallPlaces
<1>4. e.resp = x /\ e.place = "announced"
  OBVIOUS
<1> HIDE DEF e
<1>5. /\ calls' \in Seq(CallRecords) /\ Len(calls') = y /\ calls'[y] = e
      /\ \A c \in CallIds : calls'[c] = calls[c]
  BY <1>2, <1>3, AppendProperties DEF CallIds
<1>6. CallIds' = CallIds \cup {y} /\ 1..Len(calls') = CallIds \cup {y}
  BY <1>2, <1>5, Records, <1>1 DEF CallIds
<1> HIDE DEF y
<1>7. ~In(Call(y), inbox)
  BY <1>1, <1>2 DEF Mail
<1>8. /\ inbox' \in Seq(Mails) /\ Distinct(inbox')
      /\ \A u : In(u, inbox') <=> In(u, inbox) \/ u = Call(y)
  <2>1. inbox \in Seq(Mails) /\ Distinct(inbox) /\ Call(y) \in Mails
    BY <1>1, <1>2, Events DEF Shape
  <2> QED BY <1>2, <1>7, <2>1, QueueAppend
<1>9. Responses' = Responses /\ \A r : (Heard(r)' <=> Heard(r)) /\ (Closed(r)' <=> Closed(r))
  BY <1>2, <1>8, Events DEF Responses, Heard, Closed, model
<1>10. ~Closed(x) /\ x \notin finished
  BY <1>1, <1>2 DEF Closed, Heard, Ended, Books
<1>11. \A r : CallsOf(r)' = IF r = x THEN CallsOf(r) \cup {y} ELSE CallsOf(r)
  BY <1>4, <1>5, <1>6 DEF CallsOf
<1>12. Shape'
  BY <1>1, <1>2, <1>5, <1>8 DEF Shape, coordinator
<1>13. Names'
  BY <1>1, <1>2, <1>4, <1>5, <1>6, <1>9 DEF Names, Active
<1>14. Mail'
  <2>1. \A r \in Nat : Before(Created(r), Done(r), inbox')
    <3> SUFFICES ASSUME NEW r \in Nat PROVE Before(Created(r), Done(r), inbox')
      OBVIOUS
    <3>1. inbox \in Seq(Mails) /\ Before(Created(r), Done(r), inbox) /\ Call(y) \in Mails
          /\ Call(y) # Created(r)
      BY <1>1, <1>2, Events DEF Shape, Mail
    <3> QED BY <1>2, <3>1, BeforeAppend
  <2>2. \A r : (In(Created(r), inbox') <=> In(Created(r), inbox))
               /\ (In(Done(r), inbox') <=> In(Done(r), inbox))
    BY <1>8, Events
  <2>3. \A c \in Nat : In(Call(c), inbox') <=> c \in CallIds' /\ calls'[c].place = "announced"
    <3>1. \A c \in Nat : In(Call(c), inbox) <=> c \in CallIds /\ calls[c].place = "announced"
      BY <1>1 DEF Mail
    <3>2. \A c : Call(c) = Call(y) <=> c = y
      BY Events
    <3> QED BY <1>2, <1>4, <1>5, <1>6, <1>8, <3>1, <3>2
  <2> QED BY <1>1, <1>2, <1>9, <2>1, <2>2, <2>3 DEF Mail
<1>15. Books'
  <2>1. (\A r \in finished : r \in Responses /\ Heard(r) /\ ~(CallsOf(r) \subseteq sentOutputs))'
    BY <1>1, <1>2, <1>9, <1>10, <1>11 DEF Books, model
  <2>2. (\A r \in Responses : \A c \in CallsOf(r) :
         IF Closed(r)
           THEN calls[c].place = "sent" /\ c \notin toolResponses \cup sentOutputs
           ELSE /\ calls[c].place # "announced" => c \in toolResponses
                /\ calls[c].place = "sent" => c \in sentOutputs)'
    <3> SUFFICES ASSUME NEW r \in Responses, NEW c \in CallsOf(r)'
                 PROVE  IF Closed(r)'
                          THEN calls'[c].place = "sent" /\ c \notin toolResponses \cup sentOutputs
                          ELSE /\ calls'[c].place # "announced" => c \in toolResponses
                               /\ calls'[c].place = "sent" => c \in sentOutputs
      BY <1>2, <1>9 DEF model
    <3>1. CASE r = x /\ c = y
      BY <1>4, <1>5, <1>9, <1>10, <3>1
    <3>2. CASE ~(r = x /\ c = y)
      <4>1. c \in CallsOf(r)
        BY <1>11, <3>2
      <4>2. calls'[c] = calls[c]
        BY <1>5, <4>1 DEF CallsOf
      <4> QED BY <1>1, <1>9, <4>1, <4>2 DEF Books
    <3> QED BY <3>1, <3>2
  <2>3. (/\ toolTurns \subseteq {c \in CallIds : calls[c].place \in {"dispatched", "running"}}
         /\ toolResponses \subseteq CallIds
         /\ sentOutputs \subseteq {c \in CallIds : calls[c].place = "sent"})'
    BY <1>1, <1>2, <1>5, <1>6 DEF Books, model, service
  <2> QED BY <2>1, <2>2, <2>3 DEF Books
<1>16. Bound'
  BY <1>1, <1>2, <1>8, <1>9 DEF Bound, service
<1>17. Chain'
  <2>1. \A r \in Responses : CallsOf(r) # {} => CallsOf(r)' # {}
    BY <1>11
  <2> QED BY <1>1, <1>2, <1>9, <2>1, ChainKept DEF coordinator, Responses
<1> QED BY <1>12, <1>13, <1>14, <1>15, <1>16, <1>17 DEF IInv
-----------------------------------------------------------------------------
\* _continue_after_tools

\* Asking for a continuation adds a response, or nothing.
LEMMA ContinueGrows ==
  ASSUME Shape, NEW x \in Responses, NEW fin, NEW sent, Continue(x, fin, sent)
  PROVE  Grown /\ resp' \in {resp, Request(resp[x].turn, x)}
PROOF
<1>1. x \in Nat /\ resp[x].turn \in Turns
  BY Records DEF RespRecords
<1>2. resp' \in {resp, Request(resp[x].turn, x)}
  BY DEF Continue
<1>3. CASE resp' = resp
  BY <1>2, <1>3, NotGrown
<1>4. CASE resp' = Request(resp[x].turn, x)
  BY <1>1, <1>2, <1>4, Requested
<1> QED BY <1>2, <1>3, <1>4

\* The books of a response are cleared exactly when its end has been heard and
\* all its outputs are sent, and then it is continued.  The caller has already
\* heard an end (fin) or sent an output (sent).
LEMMA ContinueSound ==
  ASSUME IInv, NEW x \in Responses, NEW fin, NEW sent, Continue(x, fin, sent),
         1..Len(calls') = CallIds, \A c \in CallIds : calls'[c].resp = calls[c].resp,
         \A r \in fin : r \in Responses /\ Heard(r)' /\ (r = x \/ ~(CallsOf(r) \subseteq sent)),
         toolTurns' \subseteq {c \in CallIds : calls'[c].place \in {"dispatched", "running"}},
         sent \subseteq {c \in CallIds : calls'[c].place = "sent"},
         \A r \in Responses : \A c \in CallsOf(r) :
           IF Heard(r)' /\ r \notin fin
             THEN calls'[c].place = "sent" /\ c \notin toolResponses \cup sent
             ELSE /\ calls'[c].place # "announced" => c \in toolResponses
                  /\ calls'[c].place = "sent" => c \in sent,
         CallsOf(x) # {}, ~Closed(x),
         \A r \in Responses : Closed(r) => Heard(r)' /\ r \notin fin,
         UNCHANGED coordinator
  PROVE  Books' /\ Chain'
PROOF
<1>1. Shape /\ Names /\ Books /\ Chain
  BY DEF IInv
<1>2. Grown /\ resp' \in {resp, Request(resp[x].turn, x)}
  BY <1>1, ContinueGrows
<1>3. CallIds' = CallIds /\ \A r : CallsOf(r)' = CallsOf(r)
  BY DEF CallIds, CallsOf
<1>4. Responses \subseteq Responses' /\ \A r \in Responses' : r \notin Responses => resp'[r].status = "requested"
  BY <1>2 DEF Grown, Responses
<1>5. \A c \in CallIds : calls[c].resp \in Responses
  BY <1>1 DEF Names
<1> DEFINE fires == x \in fin /\ CallsOf(x) \subseteq sent
<1>6. CASE ~fires
  <2>1. finished' = fin /\ sentOutputs' = sent /\ toolResponses' = toolResponses /\ resp' = resp
    BY <1>6 DEF Continue
  <2>2. \A r : Closed(r)' <=> Heard(r)' /\ r \notin fin
    BY <2>1 DEF Closed
  <2>3. (\A r \in finished : r \in Responses /\ Heard(r) /\ ~(CallsOf(r) \subseteq sentOutputs))'
    BY <1>3, <1>4, <1>6, <2>1
  <2>4. (\A r \in Responses : \A c \in CallsOf(r) :
         IF Closed(r)
           THEN calls[c].place = "sent" /\ c \notin toolResponses \cup sentOutputs
           ELSE /\ calls[c].place # "announced" => c \in toolResponses
                /\ calls[c].place = "sent" => c \in sentOutputs)'
    BY <1>3, <2>1, <2>2 DEF Responses
  <2>5. (toolResponses \subseteq CallIds)'
    BY <1>1, <1>3, <2>1 DEF Books
  <2>6. Books'
    BY <1>3, <2>1, <2>3, <2>4, <2>5 DEF Books
  <2>7. Chain'
    BY <1>1, <1>3, <2>1, <2>2, ChainKept DEF coordinator, Responses
  <2> QED BY <2>6, <2>7
<1>7. CASE fires
  <2>1. /\ finished' = fin \ {x} /\ sentOutputs' = sent \ CallsOf(x)
        /\ toolResponses' = toolResponses \ CallsOf(x)
    BY <1>7 DEF Continue
  <2>2. \A r \in Responses : Closed(r)' <=> Heard(r)' /\ (r = x \/ r \notin fin)
    BY <1>7, <2>1 DEF Closed
  <2>3. Closed(x)'
    BY <1>7, <2>2
  <2>4. (\A r \in finished : r \in Responses /\ Heard(r) /\ ~(CallsOf(r) \subseteq sentOutputs))'
    BY <1>3, <1>4, <2>1
  <2>5. (\A r \in Responses : \A c \in CallsOf(r) :
         IF Closed(r)
           THEN calls[c].place = "sent" /\ c \notin toolResponses \cup sentOutputs
           ELSE /\ calls[c].place # "announced" => c \in toolResponses
                /\ calls[c].place = "sent" => c \in sentOutputs)'
    <3> SUFFICES ASSUME NEW r \in Responses', NEW c \in CallsOf(r)
                 PROVE  IF Closed(r)'
                          THEN calls'[c].place = "sent" /\ c \notin toolResponses' \cup sentOutputs'
                          ELSE /\ calls'[c].place # "announced" => c \in toolResponses'
                               /\ calls'[c].place = "sent" => c \in sentOutputs'
      BY <1>3
    <3>1. r \in Responses /\ c \in CallIds /\ calls[c].resp = r
      BY <1>5 DEF CallsOf
    <3>2. CASE r = x
      BY <1>7, <2>1, <2>3, <3>1, <3>2
    <3>3. CASE r # x
      <4>1. c \notin CallsOf(x)
        BY <3>1, <3>3 DEF CallsOf
      <4>2. Closed(r)' <=> Heard(r)' /\ r \notin fin
        BY <2>2, <3>1, <3>3
      <4> QED BY <2>1, <3>1, <4>1, <4>2
    <3> QED BY <3>2, <3>3
  <2>6. (toolResponses \subseteq CallIds)' /\ (sentOutputs \subseteq {c \in CallIds : calls[c].place = "sent"})'
    BY <1>1, <1>3, <2>1 DEF Books
  <2>7. Books'
    BY <1>3, <2>4, <2>5, <2>6 DEF Books
  <2>8. Chain'
    <3>1. /\ \A r \in Responses : Closed(r) => Closed(r)'
          /\ \A r \in Responses : CallsOf(r) # {} => CallsOf(r)' # {}
      BY <1>3, <2>2
    <3>2. CASE resp' = resp
      BY <1>1, <3>1, <3>2, ChainKept DEF coordinator, Responses
    <3>3. CASE resp' = Request(resp[x].turn, x)
      BY <1>1, <1>3, <2>3, <3>1, <3>3, ChainContinued
    <3> QED BY <1>2, <3>2, <3>3
  <2> QED BY <2>7, <2>8
<1> QED BY <1>6, <1>7
-----------------------------------------------------------------------------
\* The listener

\* The event at the head is heard, and gone.
LEMMA Heads ==
  ASSUME IInv, NEW e, Hears(e)
  PROVE  /\ inbox' \in Seq(Mails) /\ Distinct(inbox') /\ In(e, inbox) /\ listener = 0
         /\ \A u : In(u, inbox') <=> In(u, inbox) /\ u # e
         /\ \A r \in Nat : Before(Created(r), Done(r), inbox')
         /\ \A r \in Nat : e = Done(r) => ~In(Created(r), inbox)
PROOF
<1>1. /\ inbox \in Seq(Mails) /\ Distinct(inbox) /\ inbox # <<>> /\ Head(inbox) = e
      /\ inbox' = Tail(inbox) /\ listener = 0
  BY DEF IInv, Shape, Hears
<1>2. /\ inbox' \in Seq(Mails) /\ Distinct(inbox') /\ In(e, inbox)
      /\ \A u : In(u, inbox') <=> In(u, inbox) /\ u # e
  BY <1>1, QueueTail
<1>3. ASSUME NEW r \in Nat
      PROVE  Before(Created(r), Done(r), inbox') /\ (e = Done(r) => ~In(Created(r), inbox))
  <2>1. Before(Created(r), Done(r), inbox)
    BY DEF IInv, Mail
  <2> QED BY <1>1, <2>1, BeforeTail
<1> QED BY <1>1, <1>2, <1>3

\* The response is bound as long as its end is to come.
LEMMA HearCreatedSound == ASSUME IInv, NEW x \in Responses, HearCreated(x) PROVE IInv'
PROOF
<1>1. /\ Shape /\ Names /\ Mail /\ Books /\ Bound /\ Chain /\ x \in Nat
      /\ Hears(Created(x)) /\ responseTurns' = responseTurns \cup {x}
      /\ UNCHANGED <<coordinator, resp, calls, cancel, listener, bridge, toolTurns, model>>
  BY Records DEF IInv, HearCreated, Created
<1>2. /\ inbox' \in Seq(Mails) /\ Distinct(inbox') /\ In(Created(x), inbox)
      /\ \A u : In(u, inbox') <=> In(u, inbox) /\ u # Created(x)
      /\ \A r \in Nat : Before(Created(r), Done(r), inbox')
  BY <1>1, Heads
<1>3. \A r : /\ In(Done(r), inbox') <=> In(Done(r), inbox)
             /\ In(Call(r), inbox') <=> In(Call(r), inbox)
  BY <1>2, Events
<1>4. Grown /\ Responses' = Responses /\ CallIds' = CallIds
      /\ \A r : (Heard(r)' <=> Heard(r)) /\ (Closed(r)' <=> Closed(r)) /\ CallsOf(r)' = CallsOf(r)
  BY <1>1, <1>3, NotGrown DEF Responses, CallIds, CallsOf, Heard, Closed, model
<1>5. Shape'
  BY <1>1, <1>2 DEF Shape, coordinator
<1>6. Names'
  BY <1>1, <1>4 DEF Names, Active
<1>7. Mail'
  BY <1>1, <1>2, <1>3, <1>4, MailKept DEF CallIds, Mail
<1>8. Books'
  BY <1>1, <1>4 DEF Books, model
<1>9. Bound'
  <2>1. x \in Responses /\ resp[x].status # "requested"
        /\ (resp[x].status = "active" \/ In(Done(x), inbox))
    BY <1>1, <1>2 DEF Mail
  <2> QED BY <1>1, <1>3, <1>4, <2>1 DEF Bound
<1>10. Chain'
  BY <1>1, <1>4, ChainKept DEF coordinator, Responses
<1> QED BY <1>5, <1>6, <1>7, <1>8, <1>9, <1>10 DEF IInv

\* The call is in the books before its tool can answer.
LEMMA HearCallSound == ASSUME IInv, NEW x \in CallIds, HearCall(x) PROVE IInv'
PROOF
<1>1. /\ Shape /\ Names /\ Mail /\ Books /\ Bound /\ Chain /\ x \in Nat
      /\ Hears(Call(x)) /\ toolResponses' = toolResponses \cup {x}
      /\ toolTurns' \in {toolTurns \cup {x}, toolTurns}
      /\ calls' = [calls EXCEPT ![x].place = "dispatched"]
      /\ UNCHANGED <<coordinator, resp, cancel, listener, bridge, responseTurns, finished, sentOutputs>>
      /\ "dispatched" \in CallPlaces
  BY Records DEF IInv, HearCall, Call, CallPlaces
<1>2. /\ inbox' \in Seq(Mails) /\ Distinct(inbox') /\ In(Call(x), inbox)
      /\ \A u : In(u, inbox') <=> In(u, inbox) /\ u # Call(x)
      /\ \A r \in Nat : Before(Created(r), Done(r), inbox')
  BY <1>1, Heads
<1>3. calls[x].place = "announced" /\ x \notin sentOutputs
  BY <1>1, <1>2 DEF Mail, Books
<1>4. /\ calls' \in Seq(CallRecords) /\ Len(calls') = Len(calls)
      /\ \A c \in CallIds : calls'[c].resp = calls[c].resp
      /\ calls'[x].place = "dispatched"
      /\ \A c \in CallIds : c # x => calls'[c].place = calls[c].place
  BY <1>1, Placed
<1>5. \A r : /\ In(Done(r), inbox') <=> In(Done(r), inbox)
             /\ In(Created(r), inbox') <=> In(Created(r), inbox)
             /\ In(Call(r), inbox') <=> In(Call(r), inbox) /\ r # x
  BY <1>2, Events
<1>6. Grown /\ Responses' = Responses /\ CallIds' = CallIds /\ 1..Len(calls') = CallIds
      /\ \A r : (Heard(r)' <=> Heard(r)) /\ (Closed(r)' <=> Closed(r)) /\ CallsOf(r)' = CallsOf(r)
  BY <1>1, <1>4, <1>5, NotGrown DEF Responses, CallIds, CallsOf, Heard, Closed
<1>7. Shape'
  BY <1>1, <1>2, <1>4 DEF Shape, coordinator
<1>8. Names'
  BY <1>1, <1>4, <1>6 DEF Names, Active
<1>9. Mail'
  <2>1. \A c \in Nat : In(Call(c), inbox') <=> c \in CallIds' /\ calls'[c].place = "announced"
    BY <1>1, <1>4, <1>5, <1>6 DEF Mail
  <2> QED BY <1>1, <1>2, <1>5, <1>6, <2>1, MailKept DEF CallIds
<1>10. Books'
  <2>1. (\A r \in finished : r \in Responses /\ Heard(r) /\ ~(CallsOf(r) \subseteq sentOutputs))'
    BY <1>1, <1>6 DEF Books
  <2>2. (\A r \in Responses : \A c \in CallsOf(r) :
         IF Closed(r)
           THEN calls[c].place = "sent" /\ c \notin toolResponses \cup sentOutputs
           ELSE /\ calls[c].place # "announced" => c \in toolResponses
                /\ calls[c].place = "sent" => c \in sentOutputs)'
    <3> SUFFICES ASSUME NEW r \in Responses, NEW c \in CallsOf(r)
                 PROVE  IF Closed(r)
                          THEN calls'[c].place = "sent" /\ c \notin toolResponses' \cup sentOutputs
                          ELSE /\ calls'[c].place # "announced" => c \in toolResponses'
                               /\ calls'[c].place = "sent" => c \in sentOutputs
      BY <1>1, <1>6
    <3>1. IF Closed(r)
            THEN calls[c].place = "sent" /\ c \notin toolResponses \cup sentOutputs
            ELSE /\ calls[c].place # "announced" => c \in toolResponses
                 /\ calls[c].place = "sent" => c \in sentOutputs
      BY <1>1 DEF Books
    <3>2. c \in CallIds
      BY DEF CallsOf
    <3>3. CASE c = x
      BY <1>1, <1>3, <1>4, <3>1, <3>3
    <3>4. CASE c # x
      BY <1>1, <1>4, <3>1, <3>2, <3>4
    <3> QED BY <3>3, <3>4
  <2>3. (/\ toolTurns \subseteq {c \in CallIds : calls[c].place \in {"dispatched", "running"}}
         /\ toolResponses \subseteq CallIds
         /\ sentOutputs \subseteq {c \in CallIds : calls[c].place = "sent"})'
    <3>1. \A c \in toolTurns' : c \in CallIds /\ calls'[c].place \in {"dispatched", "running"}
      BY <1>1, <1>4 DEF Books
    <3>2. \A c \in sentOutputs : c \in CallIds /\ calls'[c].place = "sent"
      BY <1>1, <1>3, <1>4 DEF Books
    <3> QED BY <1>1, <1>6, <3>1, <3>2 DEF Books
  <2> QED BY <2>1, <2>2, <2>3 DEF Books
<1>11. Bound'
  BY <1>1, <1>5, <1>6 DEF Bound
<1>12. Chain'
  BY <1>1, <1>6, ChainKept DEF coordinator, Responses
<1> QED BY <1>7, <1>8, <1>9, <1>10, <1>11, <1>12 DEF IInv

\* The bridge's queue, which is not known to be without repetitions.
LEMMA Handed ==
  ASSUME NEW q \in Seq(Nat), NEW x \in Nat
  PROVE  /\ Append(q, x) \in Seq(Nat)
         /\ \A u : In(u, Append(q, x)) <=> In(u, q) \/ u = x
         /\ \A i \in 1..Len(Append(q, x)) : In(Append(q, x)[i], q) \/ Append(q, x)[i] = x
         /\ q # <<>> => /\ Tail(q) \in Seq(Nat)
                        /\ \A u : In(u, q) => In(u, Tail(q)) \/ u = Head(q)
                        /\ \A i \in 1..Len(Tail(q)) : In(Tail(q)[i], q)
PROOF
<1>1. /\ Append(q, x) \in Seq(Nat) /\ Len(q) \in Nat /\ Len(Append(q, x)) = Len(q) + 1
      /\ \A i \in 1..Len(q) : Append(q, x)[i] = q[i]
      /\ Append(q, x)[Len(q) + 1] = x
  BY AppendProperties, LenProperties
<1>2. \A i \in 1..Len(Append(q, x)) : i \in 1..Len(q) \/ i = Len(q) + 1
  BY <1>1
<1>3. \A i \in 1..Len(q) : i \in 1..Len(Append(q, x))
  BY <1>1
<1>4. Len(q) + 1 \in 1..Len(Append(q, x))
  BY <1>1
<1>5. \A i \in 1..Len(Append(q, x)) : In(Append(q, x)[i], q) \/ Append(q, x)[i] = x
  BY <1>1, <1>2 DEF In
<1>6. \A u : In(u, Append(q, x)) <=> In(u, q) \/ u = x
  BY <1>1, <1>2, <1>3, <1>4 DEF In
<1>7. ASSUME q # <<>>
      PROVE  /\ Tail(q) \in Seq(Nat)
             /\ \A u : In(u, q) => In(u, Tail(q)) \/ u = Head(q)
             /\ \A i \in 1..Len(Tail(q)) : In(Tail(q)[i], q)
  <2>1. /\ Tail(q) \in Seq(Nat) /\ Len(q) \in Nat \ {0} /\ Len(Tail(q)) = Len(q) - 1
        /\ \A i \in 1..(Len(q) - 1) : Tail(q)[i] = q[i + 1]
        /\ Head(q) = q[1]
    BY <1>7, HeadTailProperties, EmptySeq
  <2>2. ASSUME NEW i \in 1..Len(q), i # 1
        PROVE  i - 1 \in 1..(Len(q) - 1) /\ (i - 1) + 1 = i
    BY <2>1, <2>2
  <2>3. ASSUME NEW i \in 1..Len(q)
        PROVE  In(q[i], Tail(q)) \/ q[i] = Head(q)
    BY <2>1, <2>2 DEF In
  <2>4. ASSUME NEW i \in 1..Len(Tail(q))
        PROVE  In(Tail(q)[i], q)
    <3>1. i + 1 \in 1..Len(q) /\ Tail(q)[i] = q[i + 1]
      BY <2>1
    <3> QED BY <3>1 DEF In
  <2> QED BY <2>1, <2>3, <2>4 DEF In
<1> QED BY <1>1, <1>5, <1>6, <1>7

\* The end of a response closes it, or waits for the outputs that are missing.
LEMMA HearDoneSound == ASSUME IInv, NEW x \in Responses, HearDone(x) PROVE IInv'
PROOF
<1>1. /\ Shape /\ Names /\ Mail /\ Books /\ Bound /\ Chain /\ x \in Nat
      /\ Hears(Done(x)) /\ UNCHANGED <<coordinator, calls, cancel, service>>
      /\ \/ bridge' = Append(bridge, x) /\ listener' = listener
         \/ listener' = x /\ bridge' = bridge
  BY Records DEF IInv, HearDone, Done
<1>2. /\ inbox' \in Seq(Mails) /\ Distinct(inbox') /\ In(Done(x), inbox) /\ listener = 0
      /\ \A u : In(u, inbox') <=> In(u, inbox) /\ u # Done(x)
      /\ \A r \in Nat : Before(Created(r), Done(r), inbox')
      /\ ~In(Created(x), inbox)
  BY <1>1, Heads
<1>3. resp[x].status \in Ended /\ ~Heard(x) /\ ~Closed(x) /\ x \notin finished
  BY <1>1, <1>2 DEF Mail, Heard, Closed, Books
<1>4. Grown
  BY <1>1, NotGrown, ContinueGrows DEF HearDone
<1>5. CallIds' = CallIds /\ \A r : CallsOf(r)' = CallsOf(r)
  BY <1>1 DEF CallIds, CallsOf
<1>6. \A r \in Responses : Heard(r)' <=> Heard(r) \/ r = x
  <2> SUFFICES ASSUME NEW r \in Responses PROVE Heard(r)' <=> Heard(r) \/ r = x
    OBVIOUS
  <2>1. resp'[r] = resp[r]
    BY <1>4 DEF Grown
  <2>2. In(Done(r), inbox') <=> In(Done(r), inbox) /\ r # x
    BY <1>2, Events
  <2> QED BY <1>3, <2>1, <2>2 DEF Heard
<1>7. \A r \in Responses \ {x} : \A c \in CallsOf(r) : c \notin CallsOf(x)
  BY DEF CallsOf
<1>8. Books' /\ Chain'
  <2>1. CASE CallsOf(x) = {}
    <3>1. UNCHANGED <<resp, model>>
      BY <1>1, <2>1 DEF HearDone
    <3>2. Responses' = Responses /\ \A r \in Responses : Closed(r)' <=> Closed(r) \/ r = x
      BY <1>3, <1>6, <3>1 DEF Closed, model, Responses
    <3>3. Chain'
      BY <1>1, <1>5, <3>1, <3>2, ChainKept DEF coordinator, Responses
    <3>4. (\A r \in finished : r \in Responses /\ Heard(r) /\ ~(CallsOf(r) \subseteq sentOutputs))'
      BY <1>1, <1>5, <1>6, <3>1, <3>2 DEF Books, model
    <3>5. (\A r \in Responses : \A c \in CallsOf(r) :
           IF Closed(r)
             THEN calls[c].place = "sent" /\ c \notin toolResponses \cup sentOutputs
             ELSE /\ calls[c].place # "announced" => c \in toolResponses
                  /\ calls[c].place = "sent" => c \in sentOutputs)'
      BY <1>1, <1>5, <2>1, <3>1, <3>2 DEF Books, model
    <3>6. Books'
      BY <1>1, <1>5, <3>1, <3>4, <3>5 DEF Books, model, service
    <3> QED BY <3>3, <3>6
  <2>2. CASE CallsOf(x) # {}
    <3>1. Continue(x, finished \cup {x}, sentOutputs)
      BY <1>1, <2>2 DEF HearDone
    <3>2. \A r \in finished \cup {x} :
            r \in Responses /\ Heard(r)' /\ (r = x \/ ~(CallsOf(r) \subseteq sentOutputs))
      BY <1>1, <1>6 DEF Books
    <3>3. \A r \in Responses : \A c \in CallsOf(r) :
           IF Heard(r)' /\ r \notin finished \cup {x}
             THEN calls'[c].place = "sent" /\ c \notin toolResponses \cup sentOutputs
             ELSE /\ calls'[c].place # "announced" => c \in toolResponses
                  /\ calls'[c].place = "sent" => c \in sentOutputs
      <4> SUFFICES ASSUME NEW r \in Responses, NEW c \in CallsOf(r)
                   PROVE  IF Heard(r)' /\ r \notin finished \cup {x}
                            THEN calls[c].place = "sent" /\ c \notin toolResponses \cup sentOutputs
                            ELSE /\ calls[c].place # "announced" => c \in toolResponses
                                 /\ calls[c].place = "sent" => c \in sentOutputs
        BY <1>1
      <4>1. Heard(r)' /\ r \notin finished \cup {x} <=> Closed(r)
        BY <1>3, <1>6 DEF Closed
      <4> QED BY <1>1, <4>1 DEF Books
    <3>4. \A r \in Responses : Closed(r) => Heard(r)' /\ r \notin finished \cup {x}
      BY <1>3, <1>6 DEF Closed
    <3>5. /\ 1..Len(calls') = CallIds /\ \A c \in CallIds : calls'[c].resp = calls[c].resp
          /\ toolTurns' \subseteq {c \in CallIds : calls'[c].place \in {"dispatched", "running"}}
          /\ sentOutputs \subseteq {c \in CallIds : calls'[c].place = "sent"}
          /\ UNCHANGED coordinator
      BY <1>1 DEF CallIds, Books, service
    <3> QED BY <1>3, <2>2, <3>1, <3>2, <3>3, <3>4, <3>5, ContinueSound
  <2> QED BY <2>1, <2>2
<1>9. bridge \in Seq(Nat) /\ listener \in Nat
  BY <1>1 DEF Shape
<1>10. /\ bridge' \in Seq(Nat) /\ listener' \in {0, x}
       /\ \A i \in 1..Len(bridge') : bridge'[i] \in Responses
       /\ \A u : In(u, bridge) => In(u, bridge')
       /\ In(x, bridge') \/ listener' = x
  <2>1. \A u : In(u, bridge) => u \in Responses
    BY <1>1 DEF Names, In
  <2>2. CASE bridge' = Append(bridge, x) /\ listener' = listener
    BY <1>1, <1>2, <1>9, <2>1, <2>2, Handed
  <2>3. CASE listener' = x /\ bridge' = bridge
    BY <1>1, <1>9, <2>3 DEF Names
  <2> QED BY <1>1, <2>2, <2>3
<1>11. Shape'
  BY <1>1, <1>2, <1>4, <1>10 DEF Shape, coordinator, Grown
<1>12. Names'
  BY <1>1, <1>4, <1>5, <1>10, NamesKept DEF CallIds
<1>13. Mail'
  <2>1. \A r \in Nat : In(Created(r), inbox') /\ In(Done(r), inbox) => In(Done(r), inbox')
    BY <1>2, Events
  <2>2. \A c \in Nat : In(Call(c), inbox') <=> c \in 1..Len(calls') /\ calls'[c].place = "announced"
    <3>1. \A c \in Nat : In(Call(c), inbox) <=> c \in CallIds /\ calls[c].place = "announced"
      BY <1>1 DEF Mail
    <3> QED BY <1>1, <1>2, <3>1, Events DEF CallIds
  <2> QED BY <1>1, <1>2, <1>4, <2>1, <2>2, MailKept
<1>14. Bound'
  <2>1. \A r \in responseTurns' : In(Done(r), inbox) \/ listener = r \/ In(r, bridge)
          => In(Done(r), inbox') \/ listener' = r \/ In(r, bridge')
    <3> SUFFICES ASSUME NEW r \in responseTurns',
                        In(Done(r), inbox) \/ listener = r \/ In(r, bridge)
                 PROVE  In(Done(r), inbox') \/ listener' = r \/ In(r, bridge')
      OBVIOUS
    <3>1. r \in Responses /\ r # 0
      BY <1>1, Records DEF Bound, service, Responses
    <3>2. In(Done(r), inbox) => In(Done(r), inbox') \/ r = x
      BY <1>2, Events
    <3> QED BY <1>2, <1>10, <3>1, <3>2
  <2> QED BY <1>1, <1>4, <2>1, BoundKept DEF service
<1> QED BY <1>8, <1>11, <1>12, <1>13, <1>14 DEF IInv

\* The bridge gets the event when the continuation has been sent.
LEMMA ListenerResumesSound == ASSUME IInv, ListenerResumes PROVE IInv'
PROOF
<1>1. /\ Shape /\ Names /\ Mail /\ Books /\ Bound /\ Chain
      /\ listener \in Nat \ {0} /\ listener \in Responses /\ bridge \in Seq(Nat)
      /\ bridge' = Append(bridge, listener) /\ listener' = 0
      /\ UNCHANGED <<coordinator, resp, calls, cancel, inbox, service, model>>
  BY DEF IInv, Shape, Names, ListenerResumes
<1>2. Grown /\ 1..Len(resp') = Responses
  BY <1>1, NotGrown
<1>3. /\ bridge' \in Seq(Nat) /\ \A i \in 1..Len(bridge') : bridge'[i] \in Responses
      /\ \A u : In(u, bridge') <=> In(u, bridge) \/ u = listener
  <2>1. \A u : In(u, bridge) => u \in Responses
    BY <1>1 DEF Names, In
  <2> QED BY <1>1, <2>1, Handed
<1>4. Shape'
  BY <1>1, <1>3 DEF Shape, coordinator
<1>5. Names'
  BY <1>1, <1>2, <1>3, NamesKept DEF CallIds
<1>6. Mail'
  BY <1>1, <1>2, MailKept DEF Mail, CallIds
<1>7. Bound'
  BY <1>1, <1>2, <1>3, BoundKept DEF service
<1>8. /\ Books' /\ \A r \in Responses : Closed(r) => Closed(r)'
      /\ \A r \in Nat : CallsOf(r)' = CallsOf(r)
  BY <1>1, <1>2, BooksKept DEF service
<1>9. Responses \subseteq Nat
  BY <1>1, Records
<1>10. Chain'
  BY <1>1, <1>2, <1>8, <1>9, ChainKept DEF coordinator
<1> QED BY <1>4, <1>5, <1>6, <1>7, <1>8, <1>10 DEF IInv
-----------------------------------------------------------------------------
\* The tools' tasks

\* A tool's task runs the tool, or has an output to send.
LEMMA ToolMoves ==
  ASSUME IInv, NEW x \in CallIds, NEW p \in {"running", "output"},
         calls[x].place \in {"dispatched", "running"},
         calls' = [calls EXCEPT ![x].place = p],
         toolTurns' \subseteq toolTurns, x \in toolTurns' => p = "running",
         UNCHANGED <<coordinator, resp, cancel, inbox, listener, bridge, responseTurns, model>>
  PROVE  IInv'
PROOF
<1>1. /\ Shape /\ Names /\ Mail /\ Books /\ Bound /\ Chain /\ p \in CallPlaces
  BY DEF IInv, CallPlaces
<1>2. /\ calls' \in Seq(CallRecords) /\ Len(calls') = Len(calls)
      /\ \A c \in CallIds : calls'[c].resp = calls[c].resp
      /\ calls'[x].place = p
      /\ \A c \in CallIds : c # x => calls'[c].place = calls[c].place
  BY <1>1, Placed
<1>3. Grown /\ Responses' = Responses /\ CallIds' = CallIds /\ 1..Len(calls') = CallIds
      /\ \A r : (Heard(r)' <=> Heard(r)) /\ (Closed(r)' <=> Closed(r)) /\ CallsOf(r)' = CallsOf(r)
  BY <1>1, <1>2, NotGrown DEF Responses, CallIds, CallsOf, Heard, Closed, model
<1>4. /\ \A c \in CallIds : calls'[c].place = "announced" <=> calls[c].place = "announced"
      /\ \A c \in CallIds : calls'[c].place = "sent" <=> calls[c].place = "sent"
  BY <1>2
<1>5. Shape'
  BY <1>1, <1>2 DEF Shape, coordinator
<1>6. Names'
  BY <1>1, <1>2, <1>3 DEF Names, Active
<1>7. Mail'
  BY <1>1, <1>3, <1>4, MailKept DEF Mail
<1>8. Books'
  <2>1. (\A r \in finished : r \in Responses /\ Heard(r) /\ ~(CallsOf(r) \subseteq sentOutputs))'
    BY <1>1, <1>3 DEF Books, model
  <2>2. (\A r \in Responses : \A c \in CallsOf(r) :
         IF Closed(r)
           THEN calls[c].place = "sent" /\ c \notin toolResponses \cup sentOutputs
           ELSE /\ calls[c].place # "announced" => c \in toolResponses
                /\ calls[c].place = "sent" => c \in sentOutputs)'
    <3> SUFFICES ASSUME NEW r \in Responses, NEW c \in CallsOf(r)
                 PROVE  IF Closed(r)
                          THEN calls'[c].place = "sent" /\ c \notin toolResponses \cup sentOutputs
                          ELSE /\ calls'[c].place # "announced" => c \in toolResponses
                               /\ calls'[c].place = "sent" => c \in sentOutputs
      BY <1>1, <1>3 DEF model
    <3>1. c \in CallIds
      BY DEF CallsOf
    <3> QED BY <1>1, <1>4, <3>1 DEF Books
  <2>3. (/\ toolTurns \subseteq {c \in CallIds : calls[c].place \in {"dispatched", "running"}}
         /\ toolResponses \subseteq CallIds
         /\ sentOutputs \subseteq {c \in CallIds : calls[c].place = "sent"})'
    <3>1. \A c \in toolTurns' : c \in CallIds /\ calls'[c].place \in {"dispatched", "running"}
      BY <1>1, <1>2 DEF Books
    <3> QED BY <1>1, <1>3, <1>4, <3>1 DEF Books, model
  <2> QED BY <2>1, <2>2, <2>3 DEF Books
<1>9. Bound'
  BY <1>1, <1>3 DEF Bound
<1>10. Chain'
  BY <1>1, <1>3, ChainKept DEF coordinator, Responses
<1> QED BY <1>5, <1>6, <1>7, <1>8, <1>9, <1>10 DEF IInv

\* The tool of an interrupted turn is not run, but answers.
LEMMA InvokeToolSound == ASSUME IInv, NEW x \in CallIds, InvokeTool(x) PROVE IInv'
PROOF
<1>1. PICK p \in {"running", "output"} :
        /\ calls' = [calls EXCEPT ![x].place = p]
        /\ toolTurns' = IF p = "running" THEN toolTurns ELSE toolTurns \ {x}
  <2>1. CASE x \in toolTurns /\ TurnOf(x) = current
    BY <2>1 DEF InvokeTool
  <2>2. CASE ~(x \in toolTurns /\ TurnOf(x) = current)
    BY <2>2 DEF InvokeTool
  <2> QED BY <2>1, <2>2
<1>2. /\ calls[x].place = "dispatched"
      /\ UNCHANGED <<coordinator, resp, cancel, inbox, listener, bridge, responseTurns, model>>
  BY DEF InvokeTool
<1> QED BY <1>1, <1>2, ToolMoves

\* The tool's binding is dropped when it has returned.
LEMMA ToolReturnsSound == ASSUME IInv, NEW x \in CallIds, ToolReturns(x) PROVE IInv'
PROOF BY ToolMoves DEF ToolReturns

\* An output closes its response, or more is missing.
LEMMA OutputSentSound == ASSUME IInv, NEW y \in CallIds, OutputSent(y) PROVE IInv'
PROOF
<1> DEFINE x == calls[y].resp
           sent == sentOutputs \cup {y}
<1>1. /\ Shape /\ Names /\ Mail /\ Books /\ Bound /\ Chain /\ "sent" \in CallPlaces
      /\ calls[y].place = "output" /\ calls' = [calls EXCEPT ![y].place = "sent"]
      /\ UNCHANGED <<coordinator, cancel, inbox, listener, bridge, service>>
  BY DEF IInv, OutputSent, CallPlaces
<1>2. /\ calls' \in Seq(CallRecords) /\ Len(calls') = Len(calls)
      /\ \A c \in CallIds : calls'[c].resp = calls[c].resp
      /\ calls'[y].place = "sent"
      /\ \A c \in CallIds : c # y => calls'[c].place = calls[c].place
  BY <1>1, Placed
<1>3. x \in Responses /\ y \in CallsOf(x) /\ ~Closed(x) /\ y \in toolResponses
  BY <1>1 DEF Names, CallsOf, Books
<1>4. Continue(x, finished, sent)
  BY <1>3 DEF OutputSent
<1> HIDE DEF x
<1>5. Grown
  BY <1>1, <1>3, <1>4, ContinueGrows
<1>6. \A r \in Responses : Heard(r)' <=> Heard(r)
  BY <1>1, <1>5 DEF Heard, Grown
<1>7. CallIds' = CallIds /\ 1..Len(calls') = CallIds
  BY <1>2 DEF CallIds
<1>8. Books' /\ Chain'
  <2>1. \A r \in finished : r \in Responses /\ Heard(r)' /\ (r = x \/ ~(CallsOf(r) \subseteq sent))
    <3> SUFFICES ASSUME NEW r \in finished
                 PROVE  r \in Responses /\ Heard(r)' /\ (r = x \/ ~(CallsOf(r) \subseteq sent))
      OBVIOUS
    <3>1. r \in Responses /\ Heard(r) /\ ~(CallsOf(r) \subseteq sentOutputs)
      BY <1>1 DEF Books
    <3>2. r # x => y \notin CallsOf(r)
      BY <1>3 DEF CallsOf
    <3> QED BY <1>6, <3>1, <3>2
  <2>2. \A r \in Responses : \A c \in CallsOf(r) :
           IF Heard(r)' /\ r \notin finished
             THEN calls'[c].place = "sent" /\ c \notin toolResponses \cup sent
             ELSE /\ calls'[c].place # "announced" => c \in toolResponses
                  /\ calls'[c].place = "sent" => c \in sent
    <3> SUFFICES ASSUME NEW r \in Responses, NEW c \in CallsOf(r)
                 PROVE  IF Heard(r)' /\ r \notin finished
                          THEN calls'[c].place = "sent" /\ c \notin toolResponses \cup sent
                          ELSE /\ calls'[c].place # "announced" => c \in toolResponses
                               /\ calls'[c].place = "sent" => c \in sent
      OBVIOUS
    <3>1. Heard(r)' /\ r \notin finished <=> Closed(r)
      BY <1>6 DEF Closed
    <3>2. c \in CallIds /\ calls[c].resp = r
      BY DEF CallsOf
    <3>3. IF Closed(r)
            THEN calls[c].place = "sent" /\ c \notin toolResponses \cup sentOutputs
            ELSE /\ calls[c].place # "announced" => c \in toolResponses
                 /\ calls[c].place = "sent" => c \in sentOutputs
      BY <1>1 DEF Books
    <3>4. CASE c = y
      <4>1. r = x
        BY <1>3, <3>2, <3>4 DEF CallsOf
      <4> QED BY <1>3, <3>1, <3>4, <4>1
    <3>5. CASE c # y
      BY <1>2, <3>1, <3>2, <3>3, <3>5
    <3> QED BY <3>4, <3>5
  <2>3. \A r \in Responses : Closed(r) => Heard(r)' /\ r \notin finished
    BY <1>6 DEF Closed
  <2>4. \A c \in toolTurns' : c \in CallIds /\ calls'[c].place \in {"dispatched", "running"}
    BY <1>1, <1>2 DEF Books, service
  <2>5. \A c \in sent : c \in CallIds /\ calls'[c].place = "sent"
    BY <1>1, <1>2 DEF Books
  <2>6. /\ toolTurns' \subseteq {c \in CallIds : calls'[c].place \in {"dispatched", "running"}}
        /\ sent \subseteq {c \in CallIds : calls'[c].place = "sent"}
        /\ UNCHANGED coordinator /\ CallsOf(x) # {}
    BY <1>1, <1>3, <2>4, <2>5
  <2> HIDE DEF sent
  <2> QED BY <1>2, <1>3, <1>4, <1>7, <2>1, <2>2, <2>3, <2>6, ContinueSound
<1>9. Shape'
  BY <1>1, <1>2, <1>5 DEF Shape, coordinator, Grown
<1>10. Names'
  BY <1>1, <1>2, <1>5, <1>7, NamesKept DEF Names
<1>11. Mail'
  <2>1. \A c \in CallIds : calls'[c].place = "announced" <=> calls[c].place = "announced"
    BY <1>1, <1>2
  <2> QED BY <1>1, <1>5, <1>7, <2>1, MailKept DEF Mail
<1>12. Bound'
  BY <1>1, <1>5, BoundKept DEF service
<1> QED BY <1>8, <1>9, <1>10, <1>11, <1>12 DEF IInv

-----------------------------------------------------------------------------
\* The bridge

\* What the bridge has seen is unbound.
LEMMA HandleDoneSound == ASSUME IInv, HandleDone PROVE IInv'
PROOF
<1>1. /\ Shape /\ Names /\ Mail /\ Books /\ Bound /\ Chain
      /\ bridge \in Seq(Nat) /\ bridge # <<>> /\ bridge' = Tail(bridge)
      /\ responseTurns' = responseTurns \ {Head(bridge)} /\ current' \in {0, current}
      /\ UNCHANGED <<lastTurn, input, resp, calls, cancel, inbox, listener, toolTurns, model>>
  BY DEF IInv, Shape, HandleDone
<1>2. Grown /\ 1..Len(resp') = Responses
  BY <1>1, NotGrown
<1>3. /\ bridge' \in Seq(Nat) /\ \A i \in 1..Len(bridge') : bridge'[i] \in Responses
      /\ \A u : In(u, bridge) => In(u, bridge') \/ u = Head(bridge)
  <2>1. \A u : In(u, bridge) => u \in Responses
    BY <1>1 DEF Names, In
  <2>2. 0 \in Nat
    OBVIOUS
  <2> QED BY <1>1, <2>1, <2>2, Handed
<1>4. Shape'
  BY <1>1, <1>3 DEF Shape
<1>5. Names'
  BY <1>1, <1>2, <1>3, NamesKept DEF CallIds, Names
<1>6. Mail'
  BY <1>1, <1>2, MailKept DEF Mail, CallIds
<1>7. Bound'
  BY <1>1, <1>2, <1>3, BoundKept
<1>8. /\ Books' /\ \A r \in Responses : Closed(r) => Closed(r)'
      /\ \A r \in Nat : CallsOf(r)' = CallsOf(r)
  BY <1>1, <1>2, BooksKept
<1>9. Responses \subseteq Nat
  BY <1>1, Records
<1>10. Chain'
  BY <1>1, <1>2, <1>8, <1>9, ChainKept
<1> QED BY <1>4, <1>5, <1>6, <1>7, <1>8, <1>10 DEF IInv
-----------------------------------------------------------------------------
\* The inductive invariant

\* The initial state satisfies the inductive invariant.
LEMMA InitIInv == Init => IInv
PROOF
<1> SUFFICES ASSUME Init PROVE IInv
  OBVIOUS
<1>1. /\ current = 0 /\ lastTurn = 0 /\ input = "idle" /\ resp = <<>> /\ calls = <<>>
      /\ cancel = FALSE /\ inbox = <<>> /\ listener = 0 /\ bridge = <<>>
      /\ responseTurns = {} /\ toolTurns = {}
      /\ toolResponses = {} /\ finished = {} /\ sentOutputs = {}
  BY DEF Init
<1>2. /\ <<>> \in Seq(RespRecords) /\ <<>> \in Seq(CallRecords) /\ <<>> \in Seq(Mails)
      /\ <<>> \in Seq(Nat) /\ 1..Len(<<>>) = {}
  BY EmptySeq
<1>3. Responses = {} /\ CallIds = {} /\ Active = {} /\ \A e : ~In(e, inbox)
  BY <1>1, <1>2 DEF Responses, CallIds, Active, In
<1>4. Shape
  BY <1>1, <1>2 DEF Shape, Distinct
<1>5. Names /\ Books /\ Bound /\ Chain
  BY <1>1, <1>2, <1>3 DEF Names, Books, Bound, Chain
<1>6. Mail
  BY <1>1, <1>2, <1>3 DEF Mail, Before
<1> QED BY <1>4, <1>5, <1>6 DEF IInv

\* Every step preserves it.
LEMMA NextIInv == IInv /\ [Next]_vars => IInv'
PROOF
<1> SUFFICES ASSUME IInv, [Next]_vars PROVE IInv'
  OBVIOUS
<1>1. CASE UNCHANGED vars
  <2>1. UNCHANGED <<resp, calls, inbox, listener, bridge, service, model>>
        /\ UNCHANGED <<current, lastTurn, input, cancel>>
    BY <1>1 DEF vars, coordinator
  <2>2. /\ current \in {0, lastTurn} /\ lastTurn \in {0} \cup Turns /\ cancel \in BOOLEAN
        /\ input \in {"idle", "begun", "item"} /\ (input # "idle" => lastTurn # 0)
    BY DEF IInv, Shape
  <2> QED BY <2>1, <2>2, CoordinatorMoves
<1>2. CASE TurnBegins
  BY <1>2, TurnBeginsSound
<1>3. CASE Worker
  BY <1>3, SendUserInputSound, AskForResponseSound DEF Worker
<1>4. CASE Interrupt
  BY <1>4, InterruptSound
<1>5. CASE Server
  BY <1>5, ServerCancelsSound, ServerStartsSound, ServerEndsSound DEF Server
<1>6. CASE \E r \in Responses : ServerCalls(r)
  BY <1>6, ServerCallsSound
<1>7. CASE Listener
  BY <1>7, HearCreatedSound, HearDoneSound, HearCallSound, ListenerResumesSound DEF Listener
<1>8. CASE \E c \in CallIds : Tool(c)
  BY <1>8, InvokeToolSound, ToolReturnsSound, OutputSentSound DEF Tool
<1>9. CASE HandleDone
  BY <1>9, HandleDoneSound
<1>10. CASE Over
  BY <1>1, <1>10 DEF Over
<1> QED BY <1>1, <1>2, <1>3, <1>4, <1>5, <1>6, <1>7, <1>8, <1>9, <1>10 DEF Next

\* The invariant holds in every reachable state.
LEMMA InductiveInvariant == Spec => []IInv
PROOF
<1>1. Init => IInv
  BY InitIInv
<1>2. IInv /\ [Next]_vars => IInv'
  BY NextIInv
<1> QED BY <1>1, <1>2, PTL DEF Spec

-----------------------------------------------------------------------------
\* The theorems

\* The books only name what is underway, and the server runs one response.
THEOREM TypeCorrect == Spec => []TypeOK
PROOF
<1>1. IInv => TypeOK
  <2> SUFFICES ASSUME IInv PROVE TypeOK
    OBVIOUS
  <2>1. Shape /\ Names /\ Books /\ Bound /\ Chain
    BY DEF IInv
  <2> DEFINE R == [turn : Turns, after : 0..Len(resp), status : {"requested", "active"} \cup Ended]
             C == [resp : Responses, place : CallPlaces]
  <2>2. resp \in Seq(R)
    <3>1. \A r \in 1..Len(resp) : resp[r] \in R
      <4> SUFFICES ASSUME NEW r \in Responses PROVE resp[r] \in R
        BY DEF Responses
      <4>1. resp[r] \in RespRecords /\ Len(resp) \in Nat
        BY <2>1, Records
      <4>2. resp[r].after \in 0..Len(resp)
        BY <2>1, <4>1 DEF Chain, Responses
      <4> QED BY <4>1, <4>2 DEF RespRecords, Statuses
    <3> HIDE DEF R
    <3> QED BY <2>1, <3>1, QueueOver DEF Shape
  <2>3. calls \in Seq(C)
    <3>1. \A c \in 1..Len(calls) : calls[c] \in C
      <4> SUFFICES ASSUME NEW c \in CallIds PROVE calls[c] \in C
        BY DEF CallIds
      <4>1. calls[c] \in CallRecords /\ calls[c].resp \in Responses
        BY <2>1, Records DEF Names
      <4> QED BY <4>1 DEF CallRecords
    <3> HIDE DEF C
    <3> QED BY <2>1, <3>1, QueueOver DEF Shape
  <2>4. bridge \in Seq(Responses)
    BY <2>1, QueueOver DEF Shape, Names
  <2>5. Cardinality(Active) <= 1
    <3>1. \A r, s \in Active : r = s
      BY <2>1 DEF Names
    <3>2. Cardinality(Active) \in {0, 1}
      BY <3>1, AtMostOne
    <3> QED BY <3>2
  <2>6. /\ responseTurns \subseteq {r \in Responses : resp[r].status # "requested"}
        /\ finished \subseteq {r \in Responses : resp[r].status \in Ended}
    BY <2>1 DEF Bound, Books, Heard
  <2> HIDE DEF R
  <2>7. resp \in Seq([turn : Turns, after : 0..Len(resp), status : {"requested", "active"} \cup Ended])
    BY <2>2 DEF R
  <2>8. calls \in Seq([resp : Responses, place : {"announced", "dispatched", "running", "output", "sent"}])
    BY <2>3 DEF C, CallPlaces
  <2>9. /\ current \in {0, lastTurn} /\ lastTurn \in {0} \cup Turns
        /\ input \in {"idle", "begun", "item"} /\ cancel \in BOOLEAN
        /\ listener \in {0} \cup Responses
        /\ toolTurns \subseteq {c \in CallIds : calls[c].place \in {"dispatched", "running"}}
        /\ toolResponses \subseteq CallIds
        /\ sentOutputs \subseteq {c \in CallIds : calls[c].place = "sent"}
    BY <2>1 DEF Shape, Names, Books
  <2> QED BY <2>4, <2>5, <2>6, <2>7, <2>8, <2>9 DEF TypeOK
<1> QED BY <1>1, InductiveInvariant, PTL

\* "Exactly one continuation" (turn_model.py): never two, and none before every
\* result is sent, in whichever order the response's end and the tools come.
THEOREM OneContinuationEach == Spec => []OneContinuation
PROOF
<1>1. IInv => OneContinuation
  <2> SUFFICES ASSUME IInv, NEW r \in Responses
               PROVE  /\ Cardinality({n \in Responses : resp[n].after = r}) <= 1
                      /\ {n \in Responses : resp[n].after = r} # {}
                           => \A c \in CallsOf(r) : calls[c].place = "sent"
    BY DEF OneContinuation
  <2>1. Shape /\ Books /\ Chain
    BY DEF IInv
  <2> DEFINE S == {n \in Responses : resp[n].after = r}
  <2>2. \A m, n \in S : m = n
    <3>1. r # 0
      BY <2>1, Records DEF Responses
    <3> QED BY <2>1, <3>1 DEF Chain
  <2>3. S # {} => Closed(r)
    BY <2>1 DEF Chain
  <2>4. S # {} => \A c \in CallsOf(r) : calls[c].place = "sent"
    BY <2>1, <2>3 DEF Books
  <2> HIDE DEF S
  <2>5. Cardinality(S) <= 1
    <3>1. Cardinality(S) \in {0, 1}
      BY <2>2, AtMostOne
    <3> QED BY <3>1
  <2> QED BY <2>4, <2>5 DEF S
<1> QED BY <1>1, InductiveInvariant, PTL

\* Once everything has settled, nothing of an old response or call is kept.
THEOREM NothingKept == Spec => []NothingLeftBehind
PROOF
<1>1. IInv => NothingLeftBehind
  <2> SUFFICES ASSUME IInv, Quiet
               PROVE  /\ responseTurns = {} /\ toolTurns = {}
                      /\ toolResponses = {} /\ finished = {} /\ sentOutputs = {}
    BY DEF NothingLeftBehind
  <2>1. /\ Shape /\ Names /\ Books /\ Bound
        /\ inbox = <<>> /\ listener = 0 /\ bridge = <<>>
        /\ \A r \in Responses : resp[r].status \in Ended
        /\ \A c \in CallIds : calls[c].place = "sent"
    BY DEF IInv, Quiet
  <2>2. \A e : ~In(e, inbox) /\ ~In(e, bridge)
    <3>1. 1..Len(<<>>) = {}
      BY EmptySeq
    <3> QED BY <2>1, <3>1 DEF In
  <2>3. toolTurns = {}
    BY <2>1 DEF Books
  <2>4. responseTurns = {}
    <3> SUFFICES ASSUME NEW r \in responseTurns PROVE FALSE
      OBVIOUS
    <3>1. r \in Responses /\ r # 0 /\ resp[r].status # "active"
      BY <2>1, Records DEF Bound, Responses, Ended
    <3> QED BY <2>1, <2>2, <3>1 DEF Bound
  <2>5. finished = {}
    <3> SUFFICES ASSUME NEW r \in finished PROVE FALSE
      OBVIOUS
    <3>1. r \in Responses /\ ~(CallsOf(r) \subseteq sentOutputs) /\ ~Closed(r)
      BY <2>1 DEF Books, Closed
    <3>2. \A c \in CallsOf(r) : calls[c].place = "sent"
      BY <2>1 DEF CallsOf
    <3> QED BY <2>1, <3>1, <3>2 DEF Books
  <2>6. \A c \in CallIds : c \notin toolResponses \cup sentOutputs
    <3> SUFFICES ASSUME NEW c \in CallIds PROVE c \notin toolResponses \cup sentOutputs
      OBVIOUS
    <3> DEFINE r == calls[c].resp
    <3>1. r \in Responses /\ c \in CallsOf(r)
      BY <2>1 DEF Names, CallsOf
    <3>2. Closed(r)
      BY <2>1, <2>2, <2>5, <3>1 DEF Closed, Heard
    <3> QED BY <2>1, <3>1, <3>2 DEF Books
  <2>7. toolResponses = {} /\ sentOutputs = {}
    BY <2>1, <2>6 DEF Books
  <2> QED BY <2>3, <2>4, <2>5, <2>7
<1> QED BY <1>1, InductiveInvariant, PTL

\* The bridge ends a turn for a completed response only if it is the last of
\* its turn: all the others are closed, although the bridge lags behind.
THEOREM WholeTurn == Spec => FinishedTurnIsWhole
PROOF
<1>1. IInv /\ [Next]_vars =>
        [HandleDone /\ current' # current /\ resp[Head(bridge)].status = "completed"
       => /\ \A c \in CallIds : TurnOf(c) = current => calls[c].place = "sent"
          /\ \A r \in Responses : resp[r].turn = current => resp[r].status \in Ended
    ]_vars
  <2> SUFFICES ASSUME IInv, HandleDone, current' # current,
                      resp[Head(bridge)].status = "completed"
               PROVE  /\ \A c \in CallIds : TurnOf(c) = current => calls[c].place = "sent"
                      /\ \A r \in Responses : resp[r].turn = current => resp[r].status \in Ended
    OBVIOUS
  <2> DEFINE h == Head(bridge)
  <2>1. Shape /\ Names /\ Books /\ Bound /\ Chain
    BY DEF IInv
  <2>2. h \in responseTurns /\ resp[h].turn = current /\ CallsOf(h) = {}
    BY DEF HandleDone
  <2>3. h \in Responses /\ resp[h].status \in Ended
    BY <2>1, <2>2 DEF Bound, Ended
  <2> HIDE DEF h
  <2>4. Last(h)
    BY <2>1, <2>2, <2>3 DEF Last, Chain
  <2>5. ASSUME NEW r \in Responses, resp[r].turn = current, r # h
        PROVE  Closed(r)
    <3>1. ~Last(r)
      BY <2>1, <2>2, <2>3, <2>4, <2>5 DEF Chain
    <3> QED BY <2>1, <3>1 DEF Last, Chain
  <2>6. ASSUME NEW r \in Responses, resp[r].turn = current
        PROVE  resp[r].status \in Ended
    BY <2>3, <2>5, <2>6 DEF Closed, Heard
  <2>7. ASSUME NEW c \in CallIds, TurnOf(c) = current
        PROVE  calls[c].place = "sent"
    <3> DEFINE r == calls[c].resp
    <3>1. r \in Responses /\ c \in CallsOf(r) /\ resp[r].turn = current
      BY <2>1, <2>7 DEF Names, CallsOf, TurnOf
    <3>2. r # h
      BY <2>2, <3>1
    <3>3. Closed(r)
      BY <2>5, <3>1, <3>2
    <3> QED BY <2>1, <3>1, <3>3 DEF Books
  <2> QED BY <2>6, <2>7
<1> QED BY <1>1, InductiveInvariant, PTL DEF Spec, FinishedTurnIsWhole
=============================================================================
