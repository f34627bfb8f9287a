----------------------- MODULE TurnCoordinatorProofs ------------------------
(***************************************************************************)
(* For every set of interrupting tasks and every number of commands: the   *)
(* coordinator's types, its two safety invariants, the harmlessness of a   *)
(* late interrupt, and that it implements LatestTextWins.                  *)
(*                                                                         *)
(* None of the invariants is inductive alone.  IInv adds the order of the  *)
(* commands (what is in the queue is newer than what the loop holds, which *)
(* is newer than anything begun or dropped) and the fact that the turn, if *)
(* there is one, is the last one numbered.                                 *)
(***************************************************************************)
EXTENDS TurnCoordinator, TLAPS

\* The commands in the order queue, hand, begun or dropped.
TextOrder ==
  /\ begun <= submitted
  /\ dropped <= submitted
  /\ pending # 0 => pending = submitted /\ pending > begun /\ pending > dropped
                                        /\ pending > held
  /\ held # 0 => held <= submitted /\ held > begun /\ held > dropped
  /\ nextId <= begun

\* Where the loop is, what it holds and which turn there is.
LoopState ==
  /\ worker = "cancel" <=> held # 0
  /\ worker = "cancel" => turn.phase # "responding"
  /\ stopping => worker # "none"
  /\ turn # NoTurn => turn.id = nextId

\* Interrupts started against a turn that has been numbered, and a turn being
\* interrupted stays marked.
InterruptState ==
  \A c \in Callers :
    /\ interrupting[c] <= nextId
    /\ interrupting[c] # 0 /\ turn.id = interrupting[c]
         => turn.phase = "interrupting"

IInv ==
  /\ TypeOK
  /\ TextOrder
  /\ LoopState
  /\ InterruptState
  /\ NewestTextKept

USE MaxTextsAssumption DEF Texts, Ids

\* The initial state satisfies the inductive invariant.
LEMMA InitIInv == Init => IInv
<1> SUFFICES ASSUME Init
             PROVE  IInv
  OBVIOUS
<1> USE DEF Init
<1>1. TypeOK
  BY DEF TypeOK, WorkerPlaces
<1>2. TextOrder /\ NewestTextKept
  BY DEF TextOrder, NewestTextKept
<1>3. LoopState /\ InterruptState
  BY DEF LoopState, InterruptState, NoTurn
<1> QED
  BY <1>1, <1>2, <1>3 DEF IInv

\* A turn becomes current in one place; the two actions that reach it differ in
\* where the command comes from.
LEMMA BeginTurnIInv ==
  ASSUME IInv, NEW text \in Texts, BeginTurn(text),
         text > begun, text > dropped, text <= submitted,
         pending' \in {0, pending},
         pending' # 0 => pending' > text,
         submitted = text \/ submitted = pending',
         UNCHANGED <<interrupting, stopping, submitted, dropped>>,
         worker # "none"
  PROVE  IInv'
<1> USE DEF IInv, BeginTurn
<1>1. nextId + 1 \in Ids
  BY DEF TypeOK, TextOrder
<1>2. turn' \in Turn /\ turn' # NoTurn /\ turn'.id = nextId + 1
      /\ turn'.phase = "responding"
  BY <1>1 DEF Replacement, Turn, NoTurn
<1>3. TypeOK'
  BY <1>1, <1>2 DEF TypeOK, WorkerPlaces
<1>4. TextOrder'
  BY DEF TypeOK, TextOrder
<1>5. LoopState'
  BY <1>2 DEF TypeOK, LoopState
<1>6. InterruptState'
  BY <1>2 DEF TypeOK, InterruptState
<1>7. NewestTextKept'
  BY DEF TypeOK, NewestTextKept
<1> QED
  BY <1>3, <1>4, <1>5, <1>6, <1>7

\* The inductive invariant is preserved by every step.
LEMMA NextIInv == IInv /\ [Next]_vars => IInv'
<1> SUFFICES ASSUME IInv, [Next]_vars
             PROVE  IInv'
  OBVIOUS
<1> USE DEF IInv, TypeOK, TextOrder, LoopState, InterruptState,
            NewestTextKept, WorkerPlaces
<1>1. CASE Start
  BY <1>1 DEF Start
<1>2. CASE Submit
  BY <1>2 DEF Submit
<1>3. ASSUME NEW c \in Callers, InterruptBegin(c)
      PROVE  IInv'
  <2>1. turn' = [id |-> turn.id, text |-> turn.text, phase |-> "interrupting"]
        /\ turn \in Turn
    BY <1>3 DEF InterruptBegin, Marked, Turn, NoTurn
  <2>2. turn' \in Turn /\ turn' # NoTurn /\ turn'.id = turn.id
        /\ turn'.phase = "interrupting"
    BY <2>1 DEF Turn, NoTurn
  <2>3. interrupting' \in [Callers -> {0} \cup Ids]
    BY <1>3, <2>1 DEF InterruptBegin, Turn
  <2>4. InterruptState'
    BY <1>3, <2>2, <2>3 DEF InterruptBegin
  <2> QED
    BY <1>3, <2>2, <2>3, <2>4 DEF InterruptBegin
<1>4. ASSUME NEW c \in Callers, InterruptEnd(c)
      PROVE  IInv'
  <2>1. turn' \in {turn, NoTurn} /\ NoTurn.id = 0
        /\ NoTurn.phase = "idle"
    BY <1>4 DEF InterruptEnd, ClearedBy, NoTurn
  <2>2. interrupting' \in [Callers -> {0} \cup Ids]
    BY <1>4 DEF InterruptEnd
  <2>3. InterruptState'
    BY <1>4, <2>1, <2>2 DEF InterruptEnd
  <2> QED
    BY <1>4, <2>1, <2>2, <2>3 DEF InterruptEnd
<1>5. ASSUME NEW id \in Ids, Finish(id)
      PROVE  IInv'
  BY <1>5 DEF Finish, NoTurn
<1>6. CASE StopBegin
  BY <1>6 DEF StopBegin
<1>7. CASE StopEnd
  BY <1>7 DEF StopEnd, NoTurn
<1>8. CASE TakeAndInterrupt
  <2>1. turn' = [id |-> turn.id, text |-> turn.text, phase |-> "interrupting"]
        /\ turn \in Turn
    BY <1>8 DEF TakeAndInterrupt, Marked, Turn, NoTurn
  <2>2. turn' \in Turn /\ turn' # NoTurn /\ turn'.id = turn.id
        /\ turn'.phase = "interrupting"
    BY <2>1 DEF Turn, NoTurn
  <2> QED
    BY <1>8, <2>2 DEF TakeAndInterrupt
<1>9. CASE TakeAndBegin
  BY <1>9, BeginTurnIInv DEF TakeAndBegin
<1>10. CASE CancelledThenBegin
  BY <1>10, BeginTurnIInv DEF CancelledThenBegin
<1>11. CASE Started
  BY <1>11 DEF Started
<1>12. CASE WorkerCancelled
  BY <1>12 DEF WorkerCancelled
<1>13. CASE UNCHANGED vars
  BY <1>13 DEF vars
<1> QED
  BY <1>1, <1>2, <1>3, <1>4, <1>5, <1>6, <1>7, <1>8, <1>9, <1>10, <1>11,
     <1>12, <1>13 DEF Next, Worker

\* The invariant holds in every reachable state.
LEMMA InductiveInvariant == Spec => []IInv
  BY InitIInv, NextIInv, PTL DEF Spec

-----------------------------------------------------------------------------
\* The variables of the coordinator keep their types: in particular turn ids
\* never outrun the submitted commands.
THEOREM TypeCorrect == Spec => []TypeOK
<1>1. IInv => TypeOK
  BY DEF IInv
<1> QED
  BY <1>1, InductiveInvariant, PTL

\* A turn somebody is interrupting is never current again (interrupt() marks
\* before it awaits, and no other call undoes the mark).
THEOREM Ineligible == Spec => []InterruptedNotCurrent
<1>1. IInv => InterruptedNotCurrent
  BY DEF IInv, TypeOK, LoopState, InterruptState, InterruptedNotCurrent,
         IsCurrent
<1> QED
  BY <1>1, InductiveInvariant, PTL

\* The newest command is in the queue, in the loop's hand, a turn, or was lost
\* with a stopped loop.
THEOREM NewestKept == Spec => []NewestTextKept
<1>1. IInv => NewestTextKept
  BY DEF IInv
<1> QED
  BY <1>1, InductiveInvariant, PTL

\* What a step of the coordinator may do to the turn when the end of some
\* interrupt is part of it.
LEMMA LateInterruptStep ==
  ASSUME IInv, [Next]_vars, NEW c \in Callers,
         interrupting[c] # 0, interrupting'[c] = 0, turn' # turn
  PROVE  turn.id = interrupting[c] /\ turn' = NoTurn
<1>1. \E d \in Callers : InterruptBegin(d) \/ InterruptEnd(d)
  BY DEF Next, Worker, vars, Start, Submit, Finish, StopBegin, StopEnd,
         TakeAndInterrupt, TakeAndBegin, CancelledThenBegin, BeginTurn,
         Started, WorkerCancelled
<1>2. PICK d \in Callers : InterruptBegin(d) \/ InterruptEnd(d)
  BY <1>1
<1>3. CASE InterruptBegin(d)
  <2>1. interrupting[d] = 0 /\ d # c
    BY <1>3 DEF InterruptBegin
  <2> QED
    BY <1>3, <2>1 DEF InterruptBegin, IInv, TypeOK
<1>4. CASE InterruptEnd(d)
  <2>1. d = c
    BY <1>4 DEF InterruptEnd, IInv, TypeOK
  <2> QED
    BY <1>4, <2>1 DEF InterruptEnd, ClearedBy
<1> QED
  BY <1>2, <1>3, <1>4

\* However many interrupts overlap, the end of one clears only the turn it
\* started against (interrupt(), the comparison of generations after the await).
THEOREM LateInterrupt == Spec => LateInterruptHarmless
<1>1. IInv /\ [Next]_vars
        => [\A c \in Callers :
              interrupting[c] # 0 /\ interrupting'[c] = 0 /\ turn' # turn
                => turn.id = interrupting[c] /\ turn' = NoTurn]_vars
  BY LateInterruptStep
<1> QED
  BY <1>1, InductiveInvariant, PTL DEF Spec, LateInterruptHarmless

-----------------------------------------------------------------------------
\* Steps that leave the mapped variables alone are stuttering steps of the
\* contract.
LEMMA Invisible ==
  ASSUME UNCHANGED <<submitted, begun, nextId>>, Eligible' = Eligible
  PROVE  UNCHANGED Abstract!vars
  BY DEF Abstract!vars

\* A responding turn that loses that phase, by a mark, a finish or a stop, is an
\* End of the contract; an interrupted turn that is cleared is invisible.
LEMMA Withdrawn ==
  ASSUME IInv, UNCHANGED <<submitted, begun, nextId>>,
         Eligible' \in {0, Eligible}
  PROVE  Abstract!End \/ UNCHANGED Abstract!vars
<1>1. CASE Eligible' = Eligible
  BY <1>1, Invisible
<1>2. CASE Eligible' = 0 /\ Eligible # 0
  <2>1. Eligible \in 1..nextId /\ nextId \in Nat
    BY <1>2 DEF Eligible, IInv, TypeOK, LoopState, NoTurn, Turn
  <2>2. ((1..nextId) \ {Eligible})' = ((1..nextId) \ {Eligible}) \cup {Eligible}
    BY <1>2, <2>1
  <2> QED
    BY <1>2, <2>2 DEF Abstract!End
<1> QED
  BY <1>1, <1>2

\* The one place where a turn becomes current is the contract's Begin: nothing
\* is eligible, the identity is one more than all retired ones.
LEMMA BeginTurnBegins ==
  ASSUME IInv, NEW text \in Texts, BeginTurn(text), text > begun,
         text <= submitted, turn.phase # "responding",
         UNCHANGED submitted
  PROVE  Abstract!Begin
<1>1. nextId \in Nat /\ begun \in Nat /\ submitted \in Nat
      /\ nextId + 1 \in 1..MaxTexts
  BY DEF IInv, TypeOK, TextOrder
<1>2. Eligible = 0 /\ Eligible' = nextId + 1 /\ nextId' = nextId + 1
      /\ begun' = text
  BY DEF BeginTurn, Replacement, Eligible
<1>3. (1..nextId) \ {Eligible} = 1..nextId
      /\ ((1..nextId) \ {Eligible})' = 1..nextId
  BY <1>1, <1>2
<1>4. begun' \in (begun + 1)..submitted
  BY <1>1, <1>2
<1>5. Eligible' \in (1..MaxTexts) \ ((1..nextId) \ {Eligible})
  BY <1>1, <1>2, <1>3
<1> QED
  BY <1>2, <1>3, <1>4, <1>5 DEF Abstract!Begin

\* Every step of the coordinator is a step of the contract or invisible.
LEMMA StepSimulation ==
  IInv /\ [Next]_vars => [Abstract!Next]_(Abstract!vars)
<1> SUFFICES ASSUME IInv, [Next]_vars
             PROVE  Abstract!Next \/ UNCHANGED Abstract!vars
  OBVIOUS
<1> USE DEF Abstract!Next
<1>1. CASE Submit
  <2>1. submitted' = submitted + 1
        /\ UNCHANGED <<begun, nextId, turn>>
    BY <1>1 DEF Submit
  <2> QED
    BY <2>1 DEF Abstract!Submit, Eligible
<1>2. ASSUME NEW c \in Callers, InterruptBegin(c)
      PROVE  Abstract!Next \/ UNCHANGED Abstract!vars
  <2>1. Eligible' = 0
    BY <1>2 DEF InterruptBegin, Marked, Eligible, IInv, TypeOK, Turn, NoTurn
  <2> QED
    BY <1>2, <2>1, Withdrawn DEF InterruptBegin
<1>3. ASSUME NEW c \in Callers, InterruptEnd(c)
      PROVE  Abstract!Next \/ UNCHANGED Abstract!vars
  <2>1. Eligible' \in {0, Eligible}
    BY <1>3 DEF InterruptEnd, ClearedBy, Eligible, NoTurn
  <2> QED
    BY <1>3, <2>1, Withdrawn DEF InterruptEnd
<1>4. ASSUME NEW id \in Ids, Finish(id)
      PROVE  Abstract!Next \/ UNCHANGED Abstract!vars
  <2>1. Eligible' = 0
    BY <1>4 DEF Finish, Eligible, NoTurn
  <2> QED
    BY <1>4, <2>1, Withdrawn DEF Finish
<1>5. CASE StopEnd
  <2>1. Eligible' = 0
    BY <1>5 DEF StopEnd, Eligible, NoTurn
  <2> QED
    BY <1>5, <2>1, Withdrawn DEF StopEnd
<1>6. CASE TakeAndInterrupt
  <2>1. Eligible' = 0
    BY <1>6 DEF TakeAndInterrupt, Marked, Eligible, IInv, TypeOK, Turn, NoTurn
  <2> QED
    BY <1>6, <2>1, Withdrawn DEF TakeAndInterrupt
<1>7. CASE TakeAndBegin
  <2>1. pending \in Texts /\ pending > begun /\ pending <= submitted
    BY <1>7 DEF TakeAndBegin, IInv, TypeOK, TextOrder
  <2> QED
    BY <1>7, <2>1, BeginTurnBegins DEF TakeAndBegin, NoTurn
<1>8. CASE CancelledThenBegin
  <2>1. held \in Texts /\ held > begun /\ held <= submitted
        /\ turn.phase # "responding"
    BY <1>8 DEF CancelledThenBegin, IInv, TypeOK, TextOrder, LoopState
  <2> QED
    BY <1>8, <2>1, BeginTurnBegins DEF CancelledThenBegin
<1>9. CASE Start \/ StopBegin \/ Started \/ WorkerCancelled \/ UNCHANGED vars
  <2>1. UNCHANGED <<submitted, begun, nextId, turn>>
    BY <1>9 DEF Start, StopBegin, Started, WorkerCancelled, vars
  <2> QED
    BY <2>1, Invisible DEF Eligible
<1> QED
  BY <1>1, <1>2, <1>3, <1>4, <1>5, <1>6, <1>7, <1>8, <1>9 DEF Next, Worker

\* The coordinator implements the latest-text-wins contract: at most one turn is
\* eligible, commands become turns in the order of submission and at most once,
\* and an identity that lost its eligibility never regains it.
THEOREM Refinement == Spec => ImplementsLatestTextWins
<1>1. Init => Abstract!Init
  <2> SUFFICES ASSUME Init
               PROVE  Abstract!Init
    OBVIOUS
  <2>1. Eligible = 0 /\ (1..nextId) \ {Eligible} = {}
    BY DEF Init, Eligible, NoTurn
  <2> QED
    BY <2>1 DEF Init, Abstract!Init
<1> QED
  BY <1>1, StepSimulation, InductiveInvariant, PTL
  DEF Spec, ImplementsLatestTextWins, Abstract!Spec
=============================================================================
