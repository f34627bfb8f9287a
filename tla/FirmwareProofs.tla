--------------------------- MODULE FirmwareProofs ---------------------------
(***************************************************************************)
(* For any travel, backoffs, moves and any number of lines and upsets: the *)
(* descent is bounded, the gantry homes with the claw retracted, the two   *)
(* records of Z agree at rest, and every line is answered once.            *)
(*                                                                         *)
(* The bound on the descent does not need the two records of Z to agree.   *)
(* It is enough that the position the bounds are reckoned from is never    *)
(* above that of the motor (Frame): a halt makes them equal, and a homing  *)
(* that gets stuck leaves it behind on the safe side.                      *)
(***************************************************************************)
EXTENDS Firmware, TLAPS

\* States in which the motor goes for the pending target.
Aiming == {"MOVING_Z", "BACKING_OFF_Z", "HOMING_Z_BACKOFF"}

Types ==
  /\ currentState \in States
  /\ zPositionSteps \in Int /\ zMotorOrigin \in Int /\ zPendingTarget \in Int
  /\ zMoveDirection \in {-1, 0, 1}
  /\ motor \in Int /\ target \in Int
  /\ claw \in Int /\ claw >= -Overshoot
  /\ elapsed \in 0..PhaseTicks
  /\ hits \subseteq {"X", "A"}
  /\ zPositionKnown \in BOOLEAN /\ slipped \in BOOLEAN /\ jammed \in BOOLEAN
  /\ motorsEnabled \in BOOLEAN /\ servoMoving \in BOOLEAN

\* Where the motor goes; the drivers hold it as long as something moves.
Direction ==
  /\ currentState \notin ZMotion => target = motor
  /\ currentState = "MOVING_Z" => \/ zMoveDirection = 1 /\ target >= motor
                                  \/ zMoveDirection = -1 /\ target <= motor
  /\ currentState \in {"BACKING_OFF_Z", "HOMING_Z_BACKOFF"} => target >= motor
  /\ currentState = "HOMING_Z_TO_LIMIT" => target + UpDistance = motor + elapsed
  /\ currentState # "IDLE" => motorsEnabled

\* The claw is not below the motor's frame, and neither the motor nor its target
\* is below the bound; at rest the motor is not below zPositionSteps.
Frame ==
  /\ zPositionKnown /\ ~slipped => claw <= currentZAgentPosition
  /\ currentZAgentPosition <= ZMax
  /\ IF currentState \in Aiming
       THEN target - zMotorOrigin <= zPendingTarget /\ zPendingTarget <= ZMax
       ELSE currentZAgentPosition <= zPositionSteps

\* What is left of the backoff keeps the claw within it.
Retracted ==
  /\ currentState = "HOMING_Z_BACKOFF" =>
       zPositionKnown /\ claw + (target - motor) <= ZHomeBackoff
  /\ currentState \in GantryHoming => zPositionKnown /\ claw <= ZHomeBackoff

MInv == Types /\ Direction /\ Frame /\ Retracted

\* The constants are numbers.
LEMMA Numbers ==
  /\ ZMax \in Nat /\ ZBackup \in Nat /\ ZHomeBackoff \in Nat /\ PhaseTicks \in Nat
  /\ Overshoot \in Nat /\ MaxLines \in Nat
  /\ ZBackup <= ZMax /\ ZHomeBackoff <= ZMax
  /\ ZMoves \subseteq Int
BY TravelAssumption

USE Numbers

motion == <<currentState, zFrame, stepperZ, homing, drives, claw, jammed, slipped>>

\* A step that touches none of these variables preserves the invariant.
LEMMA IrrelevantMInv ==
  ASSUME MInv, UNCHANGED motion
  PROVE  MInv'
BY DEF motion, zFrame, stepperZ, homing, drives, MInv, Types, Direction, Frame,
       Retracted, currentZAgentPosition

\* The initial state satisfies it.
LEMMA InitMInv == Init => MInv
PROOF
<1> SUFFICES ASSUME Init PROVE MInv
  OBVIOUS
<1>1. /\ currentState = "IDLE" /\ hits = {} /\ elapsed = 0 /\ claw \in 0..ZMax
      /\ motor = 0 /\ target = 0 /\ zMotorOrigin = 0 /\ zPositionSteps = 0
      /\ zPendingTarget = 0 /\ zMoveDirection = 0
      /\ slipped = FALSE /\ jammed = FALSE /\ motorsEnabled = TRUE
      /\ servoMoving = FALSE /\ zPositionKnown = (claw <= 0)
  BY DEF Init
<1>2. zPositionKnown \in BOOLEAN /\ (zPositionKnown => claw <= 0)
  <2>1. CASE claw <= 0
    BY <1>1, <2>1
  <2>2. CASE ~(claw <= 0)
    <3>1. (claw <= 0) = FALSE
      BY <2>2
    <3>2. zPositionKnown = FALSE
      BY <1>1, <3>1, Zenon
    <3> QED BY <3>2
  <2> QED BY <2>1, <2>2
<1>3. Types
  <2>1. "IDLE" \in States /\ 0 \in 0..PhaseTicks /\ 0 >= -Overshoot /\ 0 \in Int
        /\ claw \in Int /\ claw >= -Overshoot
    BY <1>1 DEF States
  <2> QED BY <1>1, <1>2, <2>1 DEF Types
<1>4. Direction /\ Frame /\ Retracted
  BY <1>1, <1>2 DEF Direction, Frame, Retracted, currentZAgentPosition, ZMotion,
                    GantryHoming, Aiming
<1> QED BY <1>3, <1>4 DEF MInv

\* The world preserves it: what parts the claw from the motor is remembered.
LEMMA WorldMInv ==
  ASSUME MInv, Jam \/ Sink \/ Reset \/ ServoArrives \/ IdleTimeout
  PROVE  MInv'
PROOF
<1>1. CASE Jam
  BY <1>1 DEF Jam, command, zFrame, stepperZ, homing, drives, MInv, Types, Direction,
              Frame, Retracted, currentZAgentPosition
<1>2. CASE Sink
  <2>1. currentState = "IDLE"
    BY <1>2 DEF Sink, MInv, Direction
  <2> QED BY <1>2, <2>1
          DEF Sink, command, zFrame, stepperZ, homing, drives, MInv, Types, Direction,
              Frame, Retracted, currentZAgentPosition, GantryHoming, Aiming
<1>3. CASE Reset
  <2>1. /\ currentState' = "IDLE" /\ hits' = {} /\ elapsed' = 0
        /\ motor' = 0 /\ target' = 0 /\ zMotorOrigin' = 0 /\ zPositionSteps' = 0
        /\ zPendingTarget' = 0 /\ zMoveDirection' = 0
        /\ slipped' = FALSE /\ motorsEnabled' = TRUE /\ servoMoving' = FALSE
        /\ zPositionKnown' = (claw <= 0)
        /\ UNCHANGED <<claw, jammed>>
    BY <1>3 DEF Reset, Boot
  <2>2. zPositionKnown' \in BOOLEAN /\ (zPositionKnown' => claw <= 0)
    <3>1. CASE claw <= 0
      BY <2>1, <3>1
    <3>2. CASE ~(claw <= 0)
      <4>1. (claw <= 0) = FALSE
        BY <3>2
      <4>2. zPositionKnown' = FALSE
        BY <2>1, <4>1, Zenon
      <4> QED BY <4>2
    <3> QED BY <3>1, <3>2
  <2>3. Types'
    <3>1. "IDLE" \in States /\ 0 \in 0..PhaseTicks /\ 0 \in Int
      BY DEF States
    <3> QED BY <2>1, <2>2, <3>1 DEF MInv, Types
  <2>4. (Direction /\ Frame /\ Retracted)'
    BY <2>1, <2>2 DEF MInv, Types, Direction, Frame, Retracted,
                      currentZAgentPosition, ZMotion, GantryHoming, Aiming
  <2> QED BY <2>3, <2>4 DEF MInv
<1>4. CASE ServoArrives
  BY <1>4 DEF ServoArrives, command, zFrame, stepperZ, homing, world, MInv, Types,
              Direction, Frame, Retracted, currentZAgentPosition
<1>5. CASE IdleTimeout
  BY <1>5 DEF IdleTimeout, command, zFrame, stepperZ, homing, world, MInv, Types,
              Direction, Frame, Retracted, currentZAgentPosition
<1> QED BY <1>1, <1>2, <1>3, <1>4, <1>5

\* The lines of the host preserve it.  A move is clamped in the frame of
\* zPositionSteps, below which the motor is not.
LEMMA DispatchMInv ==
  ASSUME MInv, NEW l \in Line, Dispatch(l)
  PROVE  MInv'
PROOF
<1>1. CASE DispatchHalt(l) \/ DispatchReply(l)
  BY <1>1, IrrelevantMInv DEF DispatchHalt, DispatchReply, motion, command, world
<1>2. CASE DispatchAtOnce(l)
  BY <1>2 DEF DispatchAtOnce, Accepts, zFrame, stepperZ, homing, drives, world, MInv,
              Types, Direction, Frame, Retracted, currentZAgentPosition
<1>3. CASE DispatchHoming(l)
  BY <1>3 DEF DispatchHoming, Accepts, world, MInv, Types, Direction, Frame, Retracted,
              currentZAgentPosition, States, ZMotion, GantryHoming, Aiming, UpDistance
<1>4. CASE DispatchGantry(l)
  BY <1>4 DEF DispatchGantry, Accepts, zFrame, stepperZ, homing, world, MInv, Types,
              Direction, Frame, Retracted, currentZAgentPosition, States, ZMotion,
              GantryHoming, Aiming
<1>5. CASE DispatchZ(l)
  <2> DEFINE clamped == ClampZTarget(zPositionSteps + l.steps)
             delta == clamped - zPositionSteps
  <2>1. l.steps \in Int
    BY <1>5 DEF DispatchZ, Line, AnyTime, Plain
  <2>2. clamped \in Int /\ clamped <= ZMax /\ delta \in Int
    BY <2>1 DEF ClampZTarget, MInv, Types
  <2>3. /\ zPendingTarget' = clamped
        /\ zMoveDirection' = IF delta > 0 THEN 1 ELSE IF delta < 0 THEN -1 ELSE 0
        /\ \/ delta = 0 /\ UNCHANGED <<currentState, target>>
           \/ delta # 0 /\ target' = motor + delta /\ currentState' = "MOVING_Z"
        /\ motorsEnabled' = TRUE /\ currentState = "IDLE"
        /\ UNCHANGED <<zPositionSteps, zMotorOrigin, zPositionKnown, motor, elapsed,
                       hits, servoMoving, claw, jammed, slipped>>
    BY <1>5 DEF DispatchZ, Accepts, homing, world
  <2> HIDE DEF clamped
  <2>4. Types'
    BY <2>2, <2>3 DEF MInv, Types, States, ZMotion
  <2>5. Direction'
    BY <2>2, <2>3 DEF MInv, Types, Direction, ZMotion
  <2>6. Frame'
    BY <2>2, <2>3 DEF MInv, Types, Direction, Frame, currentZAgentPosition, Aiming,
                      ZMotion
  <2>7. Retracted'
    BY <2>3 DEF MInv, Retracted, GantryHoming
  <2> QED BY <2>4, <2>5, <2>6, <2>7 DEF MInv
<1> QED BY <1>1, <1>2, <1>3, <1>4, <1>5 DEF Dispatch

\* One step of the motor.
LEMMA StepZFacts ==
  ASSUME MInv, StepZ
  PROVE  /\ \/ target > motor /\ motor' = motor + 1
            \/ target <= motor /\ motor' = motor - 1
         /\ motor' \in Int /\ claw' \in Int /\ slipped' \in BOOLEAN
         /\ \/ jammed /\ claw' = claw /\ slipped'
            \/ ~jammed /\ claw' - claw = motor' - motor /\ slipped' = slipped
         /\ UNCHANGED <<target, jammed>>
BY DEF StepZ, MInv, Types

\* Each step of a motion of Z preserves it.
LEMMA StepsMInv ==
  ASSUME MInv, RunZAxisStep \/ RunZBackoffStep \/ RunHomingZStep
  PROVE  MInv'
PROOF
<1>1. StepZ /\ UNCHANGED <<currentState, zFrame, hits, drives>>
  BY DEF RunZAxisStep, RunZBackoffStep, RunHomingZStep, command, homing
<1>2. currentState \in ZMotion
  BY DEF RunZAxisStep, RunZBackoffStep, RunHomingZStep, LoopReaches, ZMotion
<1>3. \/ currentState # "HOMING_Z_TO_LIMIT" /\ target # motor /\ elapsed' = elapsed
      \/ /\ currentState = "HOMING_Z_TO_LIMIT" /\ elapsed < PhaseTicks
         /\ elapsed' = elapsed + 1
  BY DEF RunZAxisStep, RunZBackoffStep, RunHomingZStep, LoopReaches, homing
<1>4. motor' = motor - 1 => TopNotYet
  <2>1. CASE RunZBackoffStep
    <3>1. target > motor
      BY <1>3, <2>1 DEF RunZBackoffStep, LoopReaches, MInv, Types, Direction
    <3> QED BY <1>1, <3>1, StepZFacts DEF MInv, Types
  <2>2. CASE RunZAxisStep
    <3>1. zMoveDirection < 0 \/ target > motor
      BY <2>2 DEF RunZAxisStep, LoopReaches, MInv, Types, Direction
    <3>2. CASE target > motor
      BY <1>1, <3>2, StepZFacts DEF MInv, Types
    <3> QED BY <2>2, <3>1, <3>2 DEF RunZAxisStep
  <2>3. CASE RunHomingZStep
    BY <2>3 DEF RunHomingZStep
  <2> QED BY <2>1, <2>2, <2>3
<1>5. claw' >= -Overshoot
  BY <1>1, <1>4, StepZFacts DEF TopNotYet, TopPressed, MInv, Types
<1>6. Types'
  BY <1>1, <1>3, <1>5, StepZFacts DEF MInv, Types, zFrame, drives
<1>7. Direction'
  BY <1>1, <1>2, <1>3, StepZFacts
     DEF MInv, Types, Direction, zFrame, drives, ZMotion, UpDistance
<1>8. Frame'
  <2>1. CASE currentState \in Aiming
    BY <1>1, <1>3, <2>1, StepZFacts
       DEF MInv, Types, Direction, Frame, zFrame, currentZAgentPosition, Aiming
  <2>2. CASE currentState = "HOMING_Z_TO_LIMIT"
    <3>1. motor' = motor - 1
      BY <1>1, <1>3, <2>2, StepZFacts DEF MInv, Types, Direction, UpDistance
    <3> QED BY <1>1, <2>2, <3>1, StepZFacts
            DEF MInv, Types, Frame, zFrame, currentZAgentPosition, Aiming
  <2> QED BY <1>2, <2>1, <2>2 DEF ZMotion, Aiming
<1>9. Retracted'
  BY <1>1, <1>2, <1>3, StepZFacts
     DEF MInv, Types, Direction, Retracted, zFrame, ZMotion, GantryHoming
<1> QED BY <1>6, <1>7, <1>8, <1>9 DEF MInv

\* The switch defines Z, and the claw is backed off it.
LEMMA HitsMInv ==
  ASSUME MInv, RunZAxisHit \/ RunHomingZHit
  PROVE  MInv'
PROOF
<1>1. PICK backoff \in {ZBackup, ZHomeBackoff} :
        /\ ResyncAtTop(backoff)
        /\ \/ currentState' = "BACKING_OFF_Z"
           \/ currentState' = "HOMING_Z_BACKOFF" /\ backoff = ZHomeBackoff
  BY DEF RunZAxisHit, RunHomingZHit, Goes
<1>2. claw <= 0 /\ currentState \in ZMotion /\ UNCHANGED <<homing, drives>>
  BY DEF RunZAxisHit, RunHomingZHit, TopHit, TopPressed, LoopReaches, ZMotion
<1>3. backoff \in Nat /\ backoff <= ZMax
  OBVIOUS
<1>4. Types'
  <2>1. currentState' \in States
    BY <1>1 DEF States, ZMotion
  <2>2. motor \in Int /\ motor + backoff \in Int /\ backoff \in Int
    BY <1>3 DEF MInv, Types
  <2>3. /\ zPositionSteps' \in Int /\ zMotorOrigin' \in Int /\ zPendingTarget' \in Int
        /\ zMoveDirection' = 1 /\ motor' \in Int /\ target' \in Int
        /\ zPositionKnown' = TRUE /\ slipped' = FALSE
        /\ UNCHANGED <<claw, jammed, elapsed, hits, motorsEnabled, servoMoving>>
    BY <1>1, <1>2, <2>2 DEF ResyncAtTop, homing, drives
  <2> QED BY <2>1, <2>3 DEF MInv, Types
<1>5. Direction'
  <2>1. currentState # "IDLE" /\ motor \in Int
    BY <1>2 DEF MInv, Types, ZMotion
  <2> QED BY <1>1, <1>2, <1>3, <2>1
          DEF ResyncAtTop, MInv, Direction, ZMotion, drives
<1>6. Frame' /\ Retracted'
  BY <1>1, <1>2, <1>3 DEF ResyncAtTop, MInv, Types, Frame, Retracted, GantryHoming,
                          Aiming, currentZAgentPosition
<1> QED BY <1>4, <1>5, <1>6 DEF MInv

\* Motions that come to an end, in one way or another.
LEMMA EndsMInv ==
  ASSUME MInv, RunZArrives \/ AbortHomingStuck \/ ServiceHalt
  PROVE  MInv'
PROOF
<1>1. CASE RunZArrives
  <2>1. /\ target = motor /\ currentState \in Aiming
        /\ zPositionSteps' = zPendingTarget /\ zMoveDirection' = 0
        /\ \/ currentState' = "IDLE"
           \/ currentState = "HOMING_Z_BACKOFF" /\ currentState' = "HOMING_TO_LIMIT"
        /\ UNCHANGED <<zMotorOrigin, zPendingTarget, zPositionKnown, stepperZ, homing,
                       drives, claw, jammed, slipped>>
    BY <1>1 DEF RunZArrives, LoopReaches, Goes, Completes, Aiming, world
  <2> QED BY <2>1 DEF MInv, Types, Direction, Frame, Retracted, currentZAgentPosition,
                      States, ZMotion, GantryHoming, Aiming, stepperZ, homing, drives
<1>2. CASE AbortHomingStuck
  <2>1. /\ currentState \in States \ Aiming /\ currentState' = "IDLE"
        /\ target' = motor /\ hits' = {} /\ zMoveDirection' = 0
        /\ UNCHANGED <<zPositionSteps, zMotorOrigin, zPendingTarget, zPositionKnown,
                       motor, elapsed, drives, claw, jammed, slipped>>
    BY <1>2 DEF AbortHomingStuck, LoopReaches, Completes, Aiming, world, States,
                ZMotion, GantryHoming
  <2> QED BY <2>1 DEF MInv, Types, Direction, Frame, Retracted, currentZAgentPosition,
                      States, ZMotion, GantryHoming, Aiming, drives
<1>3. CASE ServiceHalt
  <2>1. CASE currentState = "IDLE"
    BY <1>3, <2>1, IrrelevantMInv
       DEF ServiceHalt, motion, command, zFrame, stepperZ, homing, world
  <2>2. CASE currentState # "IDLE"
    <3>1. /\ currentState' = "IDLE" /\ target' = motor /\ hits' = {}
          /\ zMoveDirection' = 0
          /\ \/ /\ zPositionSteps' = currentZAgentPosition
                /\ zPendingTarget' = currentZAgentPosition
             \/ currentState \notin ZMotion /\ UNCHANGED <<zPositionSteps, zPendingTarget>>
          /\ UNCHANGED <<zMotorOrigin, zPositionKnown, motor, elapsed, drives, claw,
                         jammed, slipped>>
      BY <1>3, <2>2 DEF ServiceHalt, world
    <3> QED BY <3>1 DEF MInv, Types, Direction, Frame, Retracted,
                        currentZAgentPosition, States, ZMotion, GantryHoming, Aiming,
                        drives
  <2> QED BY <2>1, <2>2
<1> QED BY <1>1, <1>2, <1>3

\* The gantry's motions preserve it.
LEMMA GantryMInv ==
  ASSUME MInv, RunGantry \/ RunHomingHit \/ RunHomingPhases \/ RunHomingOpenClaw
  PROVE  MInv'
PROOF
<1>1. UNCHANGED <<zFrame, stepperZ, motorsEnabled, elapsed, claw, jammed, slipped>>
  BY DEF RunGantry, RunHomingHit, RunHomingPhases, RunHomingOpenClaw, homing, drives,
         world
<1>2. hits' \subseteq {"X", "A"} /\ servoMoving' \in BOOLEAN
  BY DEF RunGantry, RunHomingHit, RunHomingPhases, RunHomingOpenClaw, homing, drives,
         MInv, Types
<1>3. /\ currentState \in States \ (ZMotion \cup {"IDLE"})
      /\ currentState' \in States \ ZMotion
      /\ currentState' \in GantryHoming => currentState \in GantryHoming
  BY DEF RunGantry, RunHomingHit, RunHomingPhases, RunHomingOpenClaw, LoopReaches,
         Goes, Completes, command, States, ZMotion, GantryHoming, MInv, Types
<1>4. currentState' \notin Aiming /\ currentState \notin Aiming
      /\ currentState' # "HOMING_Z_TO_LIMIT" /\ currentState' # "HOMING_Z_BACKOFF"
  BY <1>3 DEF Aiming, ZMotion
<1> QED BY <1>1, <1>2, <1>3, <1>4
        DEF MInv, Types, Direction, Frame, Retracted, currentZAgentPosition, zFrame,
            stepperZ, ZMotion, Aiming

\* Every step preserves it.
LEMMA NextMInv == MInv /\ [Next]_vars => MInv'
PROOF
<1> SUFFICES ASSUME MInv, [Next]_vars PROVE MInv'
  OBVIOUS
<1>1. CASE Over \/ UNCHANGED vars
  BY <1>1, IrrelevantMInv DEF Over, vars, motion, command, world
<1> QED BY <1>1, WorldMInv, DispatchMInv, StepsMInv, HitsMInv, EndsMInv, GantryMInv
        DEF Next, Tick

\* The invariant of the motion holds in every behaviour.
LEMMA InductiveM == Spec => []MInv
BY InitMInv, NextMInv, PTL DEF Spec

\* Once the switch has defined Z, no sequence of moves, halts, homings and stuck
\* motors gets a claw that follows the motor past the hard bound
\* (claw_machine_V4_agent.ino, clampZTarget and serviceHalt).
THEOREM DescentHolds == Spec => []DescentBounded
PROOF
<1>1. MInv => DescentBounded
  BY DEF MInv, Types, Frame, currentZAgentPosition, DescentBounded
<1> QED BY <1>1, InductiveM, PTL

\* The gantry homes with the claw retracted (claw_machine_V4_agent.ino,
\* runHomingZToLimit): nothing lets the claw down during HOME, not even a jam.
THEOREM HomesRetracted == Spec => []GantryHomesRetracted
PROOF
<1>1. MInv => GantryHomesRetracted
  BY DEF MInv, Retracted, GantryHomesRetracted
<1> QED BY <1>1, InductiveM, PTL

-----------------------------------------------------------------------------
\* The two records of Z.  Once the switch has defined Z and as long as the claw
\* follows the motor, they agree whenever Z rests, the motor goes where the
\* pending target says, and a homing reaches the switch before its timeout.
Settled ==
  zPositionKnown /\ ~slipped =>
    /\ currentState \notin ZMotion => zPositionSteps = currentZAgentPosition
    /\ currentState \in Aiming => target - zMotorOrigin = zPendingTarget
    /\ currentState = "HOMING_Z_TO_LIMIT" => claw + elapsed <= ZMax

RInv == MInv /\ Settled

\* A step that touches none of these variables preserves it.
LEMMA IrrelevantSettled ==
  ASSUME Settled, UNCHANGED motion
  PROVE  Settled'
BY DEF motion, zFrame, stepperZ, homing, Settled, currentZAgentPosition

\* A step during which Z rests, and after which it rests.
LEMMA RestingSettled ==
  ASSUME Settled, currentState \notin ZMotion, currentState' \notin ZMotion,
         UNCHANGED <<zFrame, motor, slipped>>
  PROVE  Settled'
BY DEF zFrame, Settled, currentZAgentPosition, ZMotion, Aiming

\* The initial state satisfies it.
LEMMA InitSettled == Init => Settled
BY DEF Init, Settled, currentZAgentPosition, ZMotion, Aiming

\* Only a reset has Z defined anew outside of a motion.
LEMMA WorldSettled ==
  ASSUME RInv, Jam \/ Sink \/ Reset \/ ServoArrives \/ IdleTimeout
  PROVE  Settled'
PROOF
<1>1. CASE Jam
  BY <1>1 DEF Jam, command, zFrame, stepperZ, homing, RInv, Settled,
              currentZAgentPosition
<1>2. CASE Sink
  BY <1>2 DEF Sink, Settled
<1>3. CASE Reset
  BY <1>3 DEF Reset, Boot, Settled, currentZAgentPosition, ZMotion, Aiming
<1>4. CASE ServoArrives \/ IdleTimeout
  BY <1>4 DEF ServoArrives, IdleTimeout, command, zFrame, stepperZ, homing, world,
              RInv, Settled, currentZAgentPosition
<1> QED BY <1>1, <1>2, <1>3, <1>4

\* A motion starts with the records equal.
LEMMA DispatchSettled ==
  ASSUME RInv, NEW l \in Line, Dispatch(l)
  PROVE  Settled'
PROOF
<1>1. CASE DispatchHalt(l) \/ DispatchReply(l)
  BY <1>1, IrrelevantSettled DEF DispatchHalt, DispatchReply, motion, command, world, RInv
<1>2. CASE DispatchAtOnce(l)
  BY <1>2 DEF DispatchAtOnce, Accepts, zFrame, stepperZ, homing, world, RInv, Settled,
              currentZAgentPosition
<1>3. CASE DispatchHoming(l)
  <2>1. /\ currentState = "IDLE" /\ currentState' = "HOMING_Z_TO_LIMIT" /\ elapsed' = 0
        /\ UNCHANGED <<zPositionKnown, slipped, claw>>
    BY <1>3 DEF DispatchHoming, Accepts, world
  <2>2. zPositionKnown /\ ~slipped => claw <= ZMax
    BY DEF RInv, MInv, Types, Frame, currentZAgentPosition
  <2> QED BY <2>1, <2>2 DEF RInv, MInv, Types, Settled, ZMotion, Aiming
<1>4. CASE DispatchGantry(l)
  <2>1. /\ currentState = "IDLE" /\ currentState' \in {"MOVING_X", "MOVING_Y"}
        /\ UNCHANGED <<zFrame, motor, slipped>>
    BY <1>4 DEF DispatchGantry, Accepts, stepperZ, world
  <2> QED BY <2>1, RestingSettled DEF RInv, ZMotion
<1>5. CASE DispatchZ(l)
  <2> DEFINE clamped == ClampZTarget(zPositionSteps + l.steps)
             delta == clamped - zPositionSteps
  <2>1. l.steps \in Int
    BY <1>5 DEF DispatchZ, Line, AnyTime, Plain
  <2>2. clamped \in Int /\ delta \in Int
    BY <2>1 DEF ClampZTarget, RInv, MInv, Types
  <2>3. /\ zPendingTarget' = clamped /\ currentState = "IDLE"
        /\ \/ delta = 0 /\ UNCHANGED currentState
           \/ delta # 0 /\ target' = motor + delta /\ currentState' = "MOVING_Z"
        /\ UNCHANGED <<zPositionSteps, zMotorOrigin, zPositionKnown, motor, slipped>>
    BY <1>5 DEF DispatchZ, Accepts, world
  <2> HIDE DEF clamped
  <2> QED BY <2>2, <2>3 DEF RInv, MInv, Types, Settled, currentZAgentPosition, ZMotion,
                            Aiming
<1> QED BY <1>1, <1>2, <1>3, <1>4, <1>5 DEF Dispatch

\* A step of the motor brings a claw that follows it nearer to the switch.
LEMMA StepsSettled ==
  ASSUME RInv, RunZAxisStep \/ RunZBackoffStep \/ RunHomingZStep
  PROVE  Settled'
PROOF
<1>1. StepZ /\ UNCHANGED <<currentState, zFrame>> /\ currentState \in ZMotion
  BY DEF RunZAxisStep, RunZBackoffStep, RunHomingZStep, command, LoopReaches, ZMotion
<1>2. CASE currentState \in Aiming
  BY <1>1, <1>2, StepZFacts DEF RInv, Settled, zFrame, Aiming, currentZAgentPosition
<1>3. CASE currentState = "HOMING_Z_TO_LIMIT"
  <2>1. elapsed' = elapsed + 1 /\ elapsed < PhaseTicks
    BY <1>3 DEF RunZAxisStep, RunZBackoffStep, RunHomingZStep, LoopReaches
  <2>2. motor' = motor - 1
    BY <1>1, <1>3, <2>1, StepZFacts DEF RInv, MInv, Types, Direction, UpDistance
  <2>3. ~slipped' => claw' = claw - 1 /\ ~slipped
    BY <1>1, <2>2, StepZFacts DEF RInv, MInv, Types
  <2> QED BY <1>1, <1>3, <2>1, <2>3 DEF RInv, MInv, Types, Settled, zFrame, ZMotion, Aiming
<1> QED BY <1>1, <1>2, <1>3 DEF ZMotion, Aiming

\* The switch sets both records.
LEMMA HitsSettled ==
  ASSUME RInv, RunZAxisHit \/ RunHomingZHit
  PROVE  Settled'
PROOF
<1>1. PICK backoff \in {ZBackup, ZHomeBackoff} :
        /\ ResyncAtTop(backoff)
        /\ currentState' \in {"BACKING_OFF_Z", "HOMING_Z_BACKOFF"}
  BY DEF RunZAxisHit, RunHomingZHit, Goes
<1>2. backoff \in Nat
  OBVIOUS
<1> QED BY <1>1, <1>2 DEF ResyncAtTop, RInv, MInv, Types, Settled, ZMotion, Aiming,
                          currentZAgentPosition

\* A motion ends with the records equal; the timeout of a homing means that the
\* claw did not follow the motor.
LEMMA EndsSettled ==
  ASSUME RInv, RunZArrives \/ AbortHomingStuck \/ ServiceHalt
  PROVE  Settled'
PROOF
<1>1. CASE RunZArrives
  <2>1. /\ target = motor /\ currentState \in Aiming
        /\ zPositionSteps' = zPendingTarget
        /\ currentState' \in {"IDLE", "HOMING_TO_LIMIT"}
        /\ UNCHANGED <<zMotorOrigin, zPositionKnown, motor, slipped>>
    BY <1>1 DEF RunZArrives, LoopReaches, Goes, Completes, Aiming, world, stepperZ
  <2> QED BY <2>1 DEF RInv, Settled, currentZAgentPosition, ZMotion, Aiming
<1>2. CASE AbortHomingStuck
  <2>1. /\ currentState' = "IDLE"
        /\ \/ currentState = "HOMING_Z_TO_LIMIT" /\ elapsed = PhaseTicks
           \/ currentState \notin ZMotion
        /\ UNCHANGED <<zPositionSteps, zMotorOrigin, zPositionKnown, motor, slipped>>
    BY <1>2 DEF AbortHomingStuck, LoopReaches, Completes, world, ZMotion
  <2>2. CASE currentState = "HOMING_Z_TO_LIMIT" /\ elapsed = PhaseTicks
    <3>1. ~(zPositionKnown /\ ~slipped)
      BY <2>2, PhaseAssumption DEF RInv, MInv, Types, Settled
    <3> QED BY <2>1, <3>1 DEF Settled
  <2>3. CASE currentState \notin ZMotion
    BY <2>1, <2>3 DEF RInv, Settled, currentZAgentPosition, ZMotion, Aiming
  <2> QED BY <2>1, <2>2, <2>3
<1>3. CASE ServiceHalt
  <2>1. CASE currentState = "IDLE"
    BY <1>3, <2>1, IrrelevantSettled
       DEF ServiceHalt, motion, command, zFrame, stepperZ, homing, world, RInv
  <2>2. CASE currentState # "IDLE"
    <3>1. /\ currentState' = "IDLE"
          /\ \/ zPositionSteps' = currentZAgentPosition
             \/ currentState \notin ZMotion /\ zPositionSteps' = zPositionSteps
          /\ UNCHANGED <<zMotorOrigin, zPositionKnown, motor, slipped>>
      BY <1>3, <2>2 DEF ServiceHalt, world
    <3> QED BY <3>1 DEF RInv, Settled, currentZAgentPosition, ZMotion, Aiming
  <2> QED BY <2>1, <2>2
<1> QED BY <1>1, <1>2, <1>3

\* In the gantry's motions Z rests.
LEMMA GantrySettled ==
  ASSUME RInv, RunGantry \/ RunHomingHit \/ RunHomingPhases \/ RunHomingOpenClaw
  PROVE  Settled'
PROOF
<1>1. currentState \notin ZMotion /\ UNCHANGED <<zFrame, motor, slipped>>
  BY DEF RunGantry, RunHomingHit, RunHomingPhases, RunHomingOpenClaw, LoopReaches,
         ZMotion, stepperZ, world
<1>2. currentState' \notin ZMotion
  BY <1>1 DEF RunGantry, RunHomingHit, RunHomingPhases, RunHomingOpenClaw, Completes,
              Goes, command, ZMotion
<1> QED BY <1>1, <1>2, RestingSettled DEF RInv

\* Every step preserves it.
LEMMA NextRInv == RInv /\ [Next]_vars => RInv'
PROOF
<1> SUFFICES ASSUME RInv, [Next]_vars PROVE RInv'
  OBVIOUS
<1>1. MInv'
  BY NextMInv DEF RInv
<1>2. CASE Over \/ UNCHANGED vars
  BY <1>1, <1>2, IrrelevantSettled DEF Over, vars, motion, command, world, RInv
<1> QED BY <1>1, <1>2, WorldSettled, DispatchSettled, StepsSettled, HitsSettled,
           EndsSettled, GantrySettled DEF Next, Tick, RInv

\* The position the bounds are reckoned from and the one STATE reports agree
\* whenever the machine rests, whatever was halted or interrupted before
\* (claw_machine_V4_agent.ino, serviceHalt, runZAxis, runHomingZToLimit), once Z is
\* defined and as long as the spool does not slip.
THEOREM RecordsAgree == Spec => []RestPosition
PROOF
<1>1. Init => RInv
  BY InitMInv, InitSettled DEF RInv
<1>2. RInv => RestPosition
  BY DEF RInv, Settled, RestPosition, ZMotion
<1> QED BY <1>1, <1>2, NextRInv, PTL DEF Spec

-----------------------------------------------------------------------------
\* The answers.  A line is answered at once, or it is the active command, or it is
\* the pending HALT, or a HALT that a later one overtook.
Books ==
  /\ received \in 0..MaxLines /\ halts \subseteq 1..received
  /\ forgotten \in 0..received
  /\ answers \in [1..MaxLines -> {0, 1}]
  /\ \A l \in 1..MaxLines : l > received => answers[l] = 0

Active ==
  currentState # "IDLE" =>
    /\ activeCmdId \in ((forgotten + 1)..received) \ halts
    /\ answers[activeCmdId] = 0

Halting ==
  /\ haltRequested \in BOOLEAN
  /\ ~haltRequested => pendingHaltId = 0
  /\ haltRequested => /\ pendingHaltId \in halts /\ pendingHaltId > forgotten
                      /\ answers[pendingHaltId] = 0
                      /\ \A m \in halts : m <= pendingHaltId

Due(l) ==
  \/ answers[l] = 1
  \/ l \in halts /\ \E m \in halts : m > l
  \/ currentState # "IDLE" /\ l = activeCmdId
  \/ haltRequested /\ l = pendingHaltId

AInv == Books /\ Active /\ Halting /\ \A l \in (forgotten + 1)..received : Due(l)

\* What Reply does to lines that have not been answered.
LEMMA ReplyOnce ==
  ASSUME Books, NEW ids, Reply(ids),
         \A l \in ids \cap (1..MaxLines) : answers[l] = 0
  PROVE  /\ answers' \in [1..MaxLines -> {0, 1}]
         /\ \A l \in 1..MaxLines : answers'[l] = IF l \in ids THEN 1 ELSE answers[l]
BY DEF Books, Reply

\* A step that answers nothing and takes no line.
LEMMA SilentAInv ==
  ASSUME AInv, UNCHANGED <<host, activeCmdId, halt>>,
         currentState' = "IDLE" <=> currentState = "IDLE"
  PROVE  AInv'
BY DEF host, halt, AInv, Books, Active, Halting, Due

\* The next line is new.
LEMMA NextLine ==
  ASSUME AInv, NEW line \in Line, Takes(line)
  PROVE  /\ id \in 1..MaxLines /\ id = received + 1 /\ received \in Nat
         /\ received' = id /\ forgotten' = forgotten /\ forgotten \in Nat
         /\ answers[id] = 0 /\ id > forgotten
         /\ \A m \in halts : m < id /\ m \in 1..MaxLines
         /\ (forgotten + 1)..received' = ((forgotten + 1)..received) \cup {id}
PROOF
<1>1. /\ received \in Nat /\ received < MaxLines /\ id = received + 1
      /\ received' = id /\ forgotten' = forgotten /\ forgotten \in 0..received
      /\ halts \subseteq 1..received
  BY DEF Takes, id, AInv, Books
<1>2. id \in 1..MaxLines /\ id > forgotten /\ id > received
  BY <1>1
<1>3. answers[id] = 0
  BY <1>2 DEF AInv, Books
<1>4. (forgotten + 1)..received' = ((forgotten + 1)..received) \cup {id}
  BY <1>1
<1>5. \A m \in halts : m < id /\ m \in 1..MaxLines
  BY <1>1
<1> QED BY <1>1, <1>2, <1>3, <1>4, <1>5

\* A HALT waits for its service, and overtakes one that waits already.
LEMMA DispatchHaltAInv ==
  ASSUME AInv, NEW line \in Line, DispatchHalt(line)
  PROVE  AInv'
PROOF
<1> PICK n \in Nat : n = id
  BY DEF id, AInv, Books
<1>1. /\ halts' = halts \cup {n} /\ haltRequested' = TRUE /\ pendingHaltId' = n
      /\ UNCHANGED <<answers, currentState, activeCmdId>>
  BY DEF DispatchHalt, Takes, command
<1>2. /\ n \in 1..MaxLines /\ n = received + 1 /\ received \in Nat
      /\ received' = n /\ forgotten' = forgotten /\ forgotten \in Nat
      /\ answers[n] = 0 /\ n > forgotten
      /\ \A m \in halts : m < n /\ m \in 1..MaxLines
      /\ (forgotten + 1)..received' = ((forgotten + 1)..received) \cup {n}
  BY NextLine DEF DispatchHalt
<1>3. Books'
  BY <1>1, <1>2 DEF AInv, Books
<1>4. Active'
  <2>1. currentState # "IDLE" => activeCmdId # n
    BY <1>2 DEF AInv, Active
  <2> QED BY <1>1, <1>2, <2>1 DEF AInv, Active
<1>5. Halting'
  BY <1>1, <1>2 DEF Halting
<1>6. ASSUME NEW l \in (forgotten + 1)..received
      PROVE  Due(l)'
  <2>1. Due(l)
    BY DEF AInv
  <2>2. haltRequested /\ l = pendingHaltId => l \in halts /\ n > l
    BY <1>2 DEF AInv, Halting
  <2> QED BY <1>1, <2>1, <2>2 DEF Due
<1>7. Due(n)'
  BY <1>1 DEF Due
<1>8. \A l \in ((forgotten + 1)..received)' : Due(l)'
  BY <1>2, <1>6, <1>7
<1> QED BY <1>3, <1>4, <1>5, <1>8 DEF AInv

\* Any other line is answered at once, or becomes the active command.
LEMMA DispatchOtherAInv ==
  ASSUME AInv, NEW line \in Line, Takes(line), line.kw # "HALT",
         UNCHANGED halt,
         \/ Reply({id}) /\ UNCHANGED <<currentState, activeCmdId>>
         \/ Reply({id}) /\ currentState = "IDLE" /\ currentState' = "IDLE"
         \/ /\ answers' = answers /\ currentState = "IDLE"
            /\ currentState' # "IDLE" /\ activeCmdId' = id
  PROVE  AInv'
PROOF
<1> PICK n \in Nat : n = id
  BY DEF id, AInv, Books
<1>1. halts' = halts /\ UNCHANGED <<haltRequested, pendingHaltId>>
  BY DEF Takes, halt
<1>2. /\ n \in 1..MaxLines /\ n = received + 1 /\ received \in Nat
      /\ received' = n /\ forgotten' = forgotten /\ forgotten \in Nat
      /\ answers[n] = 0 /\ n > forgotten
      /\ \A m \in halts : m < n /\ m \in 1..MaxLines
      /\ (forgotten + 1)..received' = ((forgotten + 1)..received) \cup {n}
  BY NextLine
<1>3. Books
  BY DEF AInv
<1>4. /\ currentState # "IDLE" => activeCmdId \in 1..MaxLines /\ activeCmdId # n
      /\ haltRequested => pendingHaltId \in 1..MaxLines /\ pendingHaltId # n
  <2>1. currentState # "IDLE" => activeCmdId \in (forgotten + 1)..received
    BY DEF AInv, Active
  <2>2. haltRequested => pendingHaltId \in halts
    BY DEF AInv, Halting
  <2> QED BY <1>2, <2>1, <2>2
<1>5. ASSUME Reply({id}),
             \/ UNCHANGED <<currentState, activeCmdId>>
             \/ currentState = "IDLE" /\ currentState' = "IDLE"
      PROVE  AInv'
  <2>1. /\ answers' \in [1..MaxLines -> {0, 1}]
        /\ \A l \in 1..MaxLines : answers'[l] = IF l = n THEN 1 ELSE answers[l]
    BY <1>2, <1>3, <1>5, ReplyOnce
  <2>2. Books'
    BY <1>1, <1>2, <1>3, <2>1 DEF Books
  <2>3. Active'
    BY <1>1, <1>2, <1>4, <1>5, <2>1 DEF AInv, Active
  <2>4. Halting'
    BY <1>1, <1>2, <1>4, <2>1 DEF AInv, Halting
  <2>5. ASSUME NEW l \in (forgotten + 1)..received
        PROVE  Due(l)'
    <3>1. Due(l) /\ l \in 1..MaxLines /\ l # n
      BY <1>2 DEF AInv
    <3> QED BY <1>1, <1>5, <2>1, <3>1 DEF Due
  <2>6. Due(n)'
    BY <1>2, <2>1 DEF Due
  <2>7. \A l \in ((forgotten + 1)..received)' : Due(l)'
    BY <1>2, <2>5, <2>6
  <2> QED BY <2>2, <2>3, <2>4, <2>7 DEF AInv
<1>6. ASSUME answers' = answers, currentState = "IDLE",
             currentState' # "IDLE", activeCmdId' = n
      PROVE  AInv'
  <2>1. Books'
    BY <1>1, <1>2, <1>3, <1>6 DEF Books
  <2>2. Active'
    BY <1>1, <1>2, <1>6 DEF Active
  <2>3. Halting'
    BY <1>1, <1>2, <1>6 DEF AInv, Halting
  <2>4. ASSUME NEW l \in (forgotten + 1)..received
        PROVE  Due(l)'
    <3>1. Due(l)
      BY DEF AInv
    <3> QED BY <1>1, <1>6, <3>1 DEF Due
  <2>5. Due(n)'
    BY <1>6 DEF Due
  <2>6. \A l \in ((forgotten + 1)..received)' : Due(l)'
    BY <1>2, <2>4, <2>5
  <2> QED BY <2>1, <2>2, <2>3, <2>6 DEF AInv
<1> QED BY <1>5, <1>6

\* The lines.
LEMMA DispatchAInv ==
  ASSUME AInv, NEW line \in Line, Dispatch(line)
  PROVE  AInv'
PROOF
<1>1. CASE DispatchReply(line)
  <2>1. line.kw # "HALT"
    BY <1>1 DEF DispatchReply
  <2> QED BY <1>1, <2>1, DispatchOtherAInv DEF DispatchReply, command
<1>2. CASE DispatchAtOnce(line)
  <2>1. line.kw # "HALT"
    BY <1>2 DEF DispatchAtOnce
  <2> QED BY <1>2, <2>1, DispatchOtherAInv DEF DispatchAtOnce, Accepts
<1>3. CASE DispatchHoming(line)
  <2>1. line.kw # "HALT"
    BY <1>3 DEF DispatchHoming
  <2> QED BY <1>3, <2>1, DispatchOtherAInv DEF DispatchHoming, Accepts
<1>4. CASE DispatchGantry(line)
  <2>1. line.kw # "HALT" /\ currentState' # "IDLE"
    BY <1>4 DEF DispatchGantry
  <2> QED BY <1>4, <2>1, DispatchOtherAInv DEF DispatchGantry, Accepts
<1>5. CASE DispatchZ(line)
  <2>1. line.kw # "HALT" /\ Accepts(line) /\ UNCHANGED halt
    BY <1>5 DEF DispatchZ
  <2>2. \/ Reply({id}) /\ currentState' = currentState
        \/ currentState' = "MOVING_Z" /\ answers' = answers
    BY <1>5 DEF DispatchZ
  <2> QED BY <2>1, <2>2, DispatchOtherAInv DEF Accepts
<1> QED BY <1>1, <1>2, <1>3, <1>4, <1>5, DispatchHaltAInv DEF Dispatch

\* The active command and the pending HALT are answered.
LEMMA AnswersAInv ==
  ASSUME AInv, NEW ids, Reply(ids), currentState' = "IDLE",
         UNCHANGED <<received, halts, forgotten>>,
         ids = IF currentState = "IDLE" THEN {} ELSE {activeCmdId},
         UNCHANGED halt
  PROVE  AInv'
PROOF
<1>1. Books /\ UNCHANGED <<haltRequested, pendingHaltId>>
  BY DEF AInv, halt
<1>2. /\ answers' \in [1..MaxLines -> {0, 1}]
      /\ \A l \in 1..MaxLines : answers'[l] = IF l \in ids THEN 1 ELSE answers[l]
  <2>1. \A l \in ids \cap (1..MaxLines) : answers[l] = 0
    BY DEF AInv, Active
  <2> QED BY <1>1, <2>1, ReplyOnce
<1>3. ids \subseteq (1..received) \ halts
  BY <1>1 DEF AInv, Active, Books
<1>4. Books'
  BY <1>1, <1>2, <1>3 DEF Books
<1>5. Active'
  BY DEF Active
<1>6. Halting'
  <2>1. haltRequested => pendingHaltId \in halts
    BY DEF AInv, Halting
  <2>2. halts \subseteq 1..MaxLines
    BY <1>1 DEF Books
  <2>3. haltRequested => pendingHaltId \in 1..MaxLines /\ pendingHaltId \notin ids
    BY <1>3, <2>1, <2>2
  <2> QED BY <1>1, <1>2, <2>3 DEF AInv, Halting
<1>7. \A l \in (forgotten + 1)..received : Due(l)'
  <2> SUFFICES ASSUME NEW l \in (forgotten + 1)..received PROVE Due(l)'
    OBVIOUS
  <2>1. Due(l) /\ l \in 1..MaxLines
    BY <1>1 DEF AInv, Books
  <2> QED BY <1>1, <1>2, <2>1 DEF Due
<1> QED BY <1>4, <1>5, <1>6, <1>7 DEF AInv

\* serviceHalt answers both.
LEMMA ServiceHaltAInv ==
  ASSUME AInv, ServiceHalt
  PROVE  AInv'
PROOF
<1> DEFINE ids == {pendingHaltId} \cup
                    (IF currentState = "IDLE" THEN {} ELSE {activeCmdId})
<1>1. /\ haltRequested /\ haltRequested' = FALSE /\ pendingHaltId' = 0
      /\ currentState' = "IDLE" /\ Reply(ids)
      /\ UNCHANGED <<received, halts, forgotten>>
  BY DEF ServiceHalt, command
<1>2. Books /\ pendingHaltId \in halts /\ answers[pendingHaltId] = 0
  BY <1>1 DEF AInv, Halting
<1>3. currentState # "IDLE" => activeCmdId \in 1..received /\ answers[activeCmdId] = 0
  BY <1>2 DEF AInv, Active, Books
<1>4. /\ answers' \in [1..MaxLines -> {0, 1}]
      /\ \A l \in 1..MaxLines : answers'[l] = IF l \in ids THEN 1 ELSE answers[l]
  <2>1. \A l \in ids : answers[l] = 0
    BY <1>2, <1>3
  <2> HIDE DEF ids
  <2> QED BY <1>1, <1>2, <2>1, ReplyOnce
<1>5. ids \subseteq 1..received
  BY <1>2, <1>3 DEF Books
<1>6. Books'
  <2> HIDE DEF ids
  <2> QED BY <1>1, <1>2, <1>4, <1>5 DEF Books
<1>7. Active' /\ Halting'
  BY <1>1 DEF Active, Halting
<1>8. ASSUME NEW l \in (forgotten + 1)..received
      PROVE  Due(l)'
  <2>1. Due(l) /\ l \in 1..MaxLines
    BY <1>2 DEF AInv, Books
  <2> QED BY <1>1, <1>4, <2>1 DEF Due
<1> QED BY <1>1, <1>6, <1>7, <1>8 DEF AInv

\* Every step preserves it.
LEMMA NextAInv == AInv /\ [Next]_vars => AInv'
PROOF
<1> SUFFICES ASSUME AInv, [Next]_vars PROVE AInv'
  OBVIOUS
<1>1. CASE Jam \/ Sink \/ ServoArrives \/ IdleTimeout \/ Over \/ UNCHANGED vars
  BY <1>1, SilentAInv DEF Jam, Sink, ServoArrives, IdleTimeout, Over, vars, command
<1>2. CASE Reset
  <2>1. /\ currentState' = "IDLE" /\ haltRequested' = FALSE /\ pendingHaltId' = 0
        /\ forgotten' = received /\ UNCHANGED <<received, halts, answers>>
    BY <1>2 DEF Reset, Boot
  <2>2. (received + 1)..received = {} /\ received \in 0..received
    BY DEF AInv, Books
  <2> QED BY <2>1, <2>2 DEF AInv, Books, Active, Halting
<1>3. CASE Tick
  <2>1. ASSUME currentState # "IDLE", Completes, UNCHANGED halt
        PROVE  AInv'
    BY <2>1, AnswersAInv DEF Completes
  <2>2. CASE RunGantry \/ RunHomingOpenClaw \/ AbortHomingStuck \/ RunZArrives
    <3>1. currentState # "IDLE" /\ UNCHANGED halt
      BY <2>2 DEF RunGantry, RunHomingOpenClaw, AbortHomingStuck, RunZArrives,
                  LoopReaches
    <3>2. \/ Completes
          \/ \E state \in {"BACKING_OFF_X", "BACKING_OFF_Y", "HOMING_TO_LIMIT"} :
               Goes(state)
      BY <2>2 DEF RunGantry, RunHomingOpenClaw, AbortHomingStuck, RunZArrives
    <3> QED BY <2>1, <3>1, <3>2, SilentAInv DEF Goes
  <2>3. CASE \/ RunZAxisHit \/ RunZAxisStep \/ RunZBackoffStep
             \/ RunHomingZHit \/ RunHomingZStep \/ RunHomingHit \/ RunHomingPhases
    <3>1. /\ currentState # "IDLE" /\ currentState' # "IDLE"
          /\ UNCHANGED <<host, activeCmdId, halt>>
      BY <2>3 DEF RunZAxisHit, RunZAxisStep, RunZBackoffStep, RunHomingZHit,
                  RunHomingZStep, RunHomingHit, RunHomingPhases, LoopReaches, Goes,
                  command
    <3> QED BY <3>1, SilentAInv
  <2> QED BY <1>3, <2>2, <2>3, ServiceHaltAInv DEF Tick
<1> QED BY <1>1, <1>2, <1>3, DispatchAInv DEF Next

\* The invariant of the answers holds in every behaviour.
LEMMA InductiveA == Spec => []AInv
PROOF
<1>1. ASSUME Init PROVE AInv
  <2>1. /\ received = 0 /\ halts = {} /\ forgotten = 0 /\ ~haltRequested
        /\ haltRequested \in BOOLEAN /\ pendingHaltId = 0
        /\ answers = [l \in 1..MaxLines |-> 0] /\ currentState = "IDLE"
    BY <1>1 DEF Init
  <2>2. (forgotten + 1)..received = {} /\ 0 \in 0..MaxLines /\ 0 \in 0..0
    BY <2>1
  <2>3. Books
    BY <2>1, <2>2 DEF Books
  <2> QED BY <2>1, <2>2, <2>3 DEF AInv, Active, Halting
<1> QED BY <1>1, NextAInv, PTL DEF Spec

\* No line is answered twice, and once the machine rests every line has been
\* answered, HALTs that were overtaken apart (claw_machine_V4_agent.ino, emitDone,
\* emitErr, serviceHalt).
THEOREM EveryLineAnswered == Spec => []AnsweredOnce
PROOF
<1>1. AInv => AnsweredOnce
  <2> SUFFICES ASSUME AInv PROVE AnsweredOnce
    OBVIOUS
  <2>1. \A l \in 1..MaxLines : answers[l] <= 1
    BY DEF AInv, Books
  <2>2. currentState = "IDLE" /\ ~haltRequested =>
          \A l \in (forgotten + 1)..received :
            answers[l] = 1 \/ (l \in halts /\ \E m \in halts : m > l)
    BY DEF AInv, Due
  <2> QED BY <2>1, <2>2 DEF AnsweredOnce
<1> QED BY <1>1, InductiveA, PTL
-----------------------------------------------------------------------------
\* What moves belongs to the active command.
Lettered ==
  currentState # "IDLE" =>
    /\ activeCmdLetter \in {"X", "Y", "Z", "R", "H"}
    /\ currentState \in MotionOf(activeCmdLetter)

\* The states of a command, letter by letter.
LEMMA Motions ==
  /\ MotionOf("X") = {"MOVING_X", "BACKING_OFF_X"}
  /\ MotionOf("Y") = {"MOVING_Y", "BACKING_OFF_Y"}
  /\ MotionOf("Z") = {"MOVING_Z", "BACKING_OFF_Z"}
  /\ MotionOf("R") = {"HOMING_Z_TO_LIMIT", "HOMING_Z_BACKOFF"}
  /\ MotionOf("H") = {"HOMING_Z_TO_LIMIT", "HOMING_Z_BACKOFF"} \cup GantryHoming
BY DEF MotionOf

\* Every step preserves it.
LEMMA NextLettered == Lettered /\ [Next]_vars => Lettered'
PROOF
<1> SUFFICES ASSUME Lettered, [Next]_vars PROVE Lettered'
  OBVIOUS
<1>1. ASSUME UNCHANGED <<currentState, activeCmdLetter>> PROVE Lettered'
  BY <1>1 DEF Lettered
<1>2. ASSUME currentState' = "IDLE" PROVE Lettered'
  BY <1>2 DEF Lettered
<1>3. CASE \/ Jam \/ Sink \/ Reset \/ ServoArrives \/ IdleTimeout \/ Over
           \/ UNCHANGED vars
  BY <1>1, <1>2, <1>3
     DEF Jam, Sink, Reset, Boot, ServoArrives, IdleTimeout, Over, vars, command
<1>4. ASSUME NEW line \in Line, Dispatch(line) PROVE Lettered'
  <2>1. CASE DispatchHalt(line) \/ DispatchReply(line) \/ DispatchAtOnce(line)
    BY <1>1, <2>1 DEF DispatchHalt, DispatchReply, DispatchAtOnce, command
  <2>2. CASE DispatchHoming(line)
    <3>1. currentState' = "HOMING_Z_TO_LIMIT" /\ activeCmdLetter' \in {"H", "R"}
      BY <2>2 DEF DispatchHoming
    <3> QED BY <3>1, Motions DEF Lettered
  <2>3. CASE DispatchGantry(line)
    <3>1. \/ currentState' = "MOVING_X" /\ activeCmdLetter' = "X"
          \/ currentState' = "MOVING_Y" /\ activeCmdLetter' = "Y"
      BY <2>3 DEF DispatchGantry
    <3> QED BY <3>1, Motions DEF Lettered
  <2>4. CASE DispatchZ(line)
    <3>1. currentState = "IDLE" /\ activeCmdLetter' = "Z"
          /\ currentState' \in {"IDLE", "MOVING_Z"}
      BY <2>4 DEF DispatchZ, Accepts
    <3> QED BY <3>1, Motions DEF Lettered
  <2> QED BY <1>4, <2>1, <2>2, <2>3, <2>4 DEF Dispatch
<1>5. ASSUME NEW state, Goes(state), currentState # "IDLE",
             \A letter \in {"X", "Y", "Z", "R", "H"} :
               currentState \in MotionOf(letter) => state \in MotionOf(letter)
      PROVE  Lettered'
  BY <1>5 DEF Goes, Lettered
<1>6. CASE Tick
  <2>1. CASE ServiceHalt
    BY <1>1, <1>2, <2>1 DEF ServiceHalt, command
  <2>2. CASE RunGantry
    <3>1. \/ Completes
          \/ currentState = "MOVING_X" /\ Goes("BACKING_OFF_X")
          \/ currentState = "MOVING_Y" /\ Goes("BACKING_OFF_Y")
      BY <2>2 DEF RunGantry
    <3> QED BY <1>2, <1>5, <3>1, Motions DEF Completes, GantryHoming
  <2>3. CASE RunZAxisHit
    <3>1. currentState = "MOVING_Z" /\ Goes("BACKING_OFF_Z")
      BY <2>3 DEF RunZAxisHit, LoopReaches
    <3> QED BY <1>5, <3>1, Motions DEF GantryHoming
  <2>4. CASE RunZAxisStep \/ RunZBackoffStep \/ RunHomingZStep
    BY <1>1, <2>4 DEF RunZAxisStep, RunZBackoffStep, RunHomingZStep, command
  <2>5. CASE RunZArrives
    <3>1. \/ Completes
          \/ /\ activeCmdLetter = "H" /\ currentState = "HOMING_Z_BACKOFF"
             /\ activeCmdLetter' = "H" /\ currentState' = "HOMING_TO_LIMIT"
      BY <2>5 DEF RunZArrives, Goes
    <3> QED BY <1>2, <3>1, Motions DEF Completes, Lettered, GantryHoming
  <2>6. CASE RunHomingZHit
    <3>1. currentState = "HOMING_Z_TO_LIMIT" /\ Goes("HOMING_Z_BACKOFF")
      BY <2>6 DEF RunHomingZHit, LoopReaches
    <3> QED BY <1>5, <3>1, Motions DEF GantryHoming
  <2>7. CASE AbortHomingStuck
    BY <1>2, <2>7 DEF AbortHomingStuck, Completes
  <2>8. CASE RunHomingHit
    <3>1. \/ currentState = "HOMING_TO_LIMIT" /\ Goes("HOMING_WAIT")
          \/ UNCHANGED command
      BY <2>8 DEF RunHomingHit, LoopReaches
    <3> QED BY <1>1, <1>5, <3>1, Motions DEF command, GantryHoming
  <2>9. CASE RunHomingPhases
    <3>1. PICK step \in {<<"HOMING_WAIT", "HOMING_BACKOFF">>,
                         <<"HOMING_BACKOFF", "HOMING_Y_TO_LIMIT">>,
                         <<"HOMING_Y_TO_LIMIT", "HOMING_Y_BACKOFF">>,
                         <<"HOMING_Y_BACKOFF", "HOMING_OPEN_CLAW">>} :
            currentState = step[1] /\ Goes(step[2])
      BY <2>9 DEF RunHomingPhases, LoopReaches
    <3>2. /\ currentState \in GantryHoming /\ step[2] \in GantryHoming
          /\ currentState # "IDLE"
          /\ currentState \notin {"HOMING_Z_TO_LIMIT", "HOMING_Z_BACKOFF"}
      BY <3>1 DEF GantryHoming
    <3>3. \A letter \in {"X", "Y", "Z", "R", "H"} :
            currentState \in MotionOf(letter) => step[2] \in MotionOf(letter)
      BY <3>2, Motions DEF GantryHoming
    <3> QED BY <1>5, <3>1, <3>2, <3>3
  <2>10. CASE RunHomingOpenClaw
    BY <1>2, <2>10 DEF RunHomingOpenClaw, Completes
  <2> QED BY <1>6, <2>1, <2>2, <2>3, <2>4, <2>5, <2>6, <2>7, <2>8, <2>9, <2>10 DEF Tick
<1> QED BY <1>3, <1>4, <1>6 DEF Next

\* Types; whatever moves belongs to the active command
\* (claw_machine_V4_agent.ino, dispatchLine and the motion state machine).
THEOREM TypeCorrect == Spec => []TypeOK
PROOF
<1>1. Init => Lettered
  BY DEF Init, Lettered
<1>2. MInv /\ AInv /\ Lettered => TypeOK
  <2> SUFFICES ASSUME MInv, AInv, Lettered PROVE TypeOK
    OBVIOUS
  <2>1. /\ received \in 0..MaxLines /\ halts \subseteq 1..received
        /\ forgotten \in 0..received
    BY DEF AInv, Books
  <2>2. answers \in [1..MaxLines -> 0..2]
    <3>1. {0, 1} \subseteq 0..2
      OBVIOUS
    <3> QED BY <3>1 DEF AInv, Books
  <2>3. currentState # "IDLE" =>
          /\ activeCmdId \in ((forgotten + 1)..received) \ halts
          /\ currentState \in MotionOf(activeCmdLetter)
    BY DEF AInv, Active, Lettered
  <2>4. haltRequested <=> pendingHaltId # 0
    <3>1. haltRequested => pendingHaltId # 0
      BY <2>1 DEF AInv, Halting
    <3> QED BY <3>1 DEF AInv, Halting
  <2>5. /\ currentState \in States
        /\ zPositionSteps \in Int /\ zMotorOrigin \in Int
        /\ zPendingTarget \in Int /\ zMoveDirection \in {-1, 0, 1}
        /\ motor \in Int /\ target \in Int
        /\ currentState \notin ZMotion => target = motor
        /\ elapsed \in 0..PhaseTicks /\ hits \subseteq {"X", "A"}
        /\ claw >= -Overshoot
    BY DEF MInv, Types, Direction
  <2>6. {zPositionKnown, servoMoving, motorsEnabled, jammed, slipped} \subseteq BOOLEAN
    BY DEF MInv, Types
  <2> QED BY <2>1, <2>2, <2>3, <2>4, <2>5, <2>6 DEF TypeOK
<1> QED BY <1>1, <1>2, NextLettered, InductiveM, InductiveA, PTL DEF Spec
=============================================================================
