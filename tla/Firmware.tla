------------------------------ MODULE Firmware ------------------------------
(***************************************************************************)
(* agent/common/firmware/claw_machine_V4_agent/claw_machine_V4_agent.ino:  *)
(* the command dispatcher, the HALT service and the motion state machine,  *)
(* with the vertical axis in numbers and the gantry axes by their events.  *)
(*                                                                         *)
(* loop() dispatches every line received (one Dispatch step each, any      *)
(* number of them), then services a HALT if there was one, else takes one  *)
(* step of the motion that is underway (one Tick).  Degrees and steps are  *)
(* scaled down; a tick moves the Z motor by one step, positive steps are   *)
(* down (Z_DOWN_SIGN = +1).  Characters are assembled to lines outside     *)
(* this model, and so is the wording of the replies.                       *)
(*                                                                         *)
(* The world is not the firmware's: claw is where the claw really hangs, 0 *)
(* where it presses the top switch.  The spool can jam (the motor turns    *)
(* and the claw does not), the claw sinks while the drivers are off, and   *)
(* the board can be reset.                                                 *)
(***************************************************************************)
EXTENDS Integers, Sequences, FiniteSets

CONSTANTS ZMax,         \* Z_MAX_STEPS
          ZBackup,      \* Z_BACKUP_STEPS
          ZHomeBackoff, \* Z_HOME_BACKOFF_STEPS
          Overshoot,    \* steps made while the top switch is debounced
          PhaseTicks,   \* HOME_PHASE_TIMEOUT_MS, in ticks
          ZMoves,       \* the distances asked for
          MaxLines,     \* bound on the lines the host sends
          MaxUpsets     \* bound on jams, on sinking steps and on resets

ASSUME TravelAssumption ==
  /\ {ZMax, ZBackup, ZHomeBackoff, PhaseTicks} \subseteq Nat \ {0}
  /\ {Overshoot, MaxLines, MaxUpsets} \subseteq Nat
  /\ ZBackup <= ZMax /\ ZHomeBackoff <= ZMax
  /\ ZMoves \subseteq Int \ {0}

\* "20 s is comfortably longer than a healthy home run" (the .ino:299-300): at
\* Z_MAX_SPEED they make 8000 steps, and the travel is 2100.
ASSUME PhaseAssumption == PhaseTicks > ZMax + Overshoot

VARIABLES
  received,        \* number of lines dispatched; a line's number is its id
  halts,           \* which of them were HALTs
  answers,         \* per line, its number of final replies (DONE, ERR, STATE)
  forgotten,       \* the lines up to this one came before a reset
  currentState,
  activeCmdLetter,
  activeCmdId,     \* 0 for "-"
  haltRequested,
  pendingHaltId,
  zPositionSteps,
  zMotorOrigin,
  zPendingTarget,
  zMoveDirection,
  zPositionKnown,
  motor,           \* stepperZ.currentPosition()
  target,          \* where stepperZ is going
  elapsed,         \* ticks since homePhaseStart, in the Z phase
  hits,            \* which of xHitLimit and aHitLimit are set
  servoMoving,     \* currentServoAngle # targetServoAngle
  motorsEnabled,
  claw,            \* where the claw is
  jammed,          \* the spool slips
  slipped,         \* the claw has lost the motor since the last top hit
  upsets           \* jams, sinking steps and resets so far

host == <<received, halts, answers, forgotten>>
command == <<currentState, activeCmdLetter, activeCmdId>>
halt == <<haltRequested, pendingHaltId>>
zFrame == <<zPositionSteps, zMotorOrigin, zPendingTarget, zMoveDirection,
            zPositionKnown>>
stepperZ == <<motor, target>>
homing == <<elapsed, hits>>
drives == <<servoMoving, motorsEnabled>>
world == <<claw, jammed, slipped, upsets>>
vars == <<host, command, halt, zFrame, stepperZ, homing, drives, world>>

\* HALT and queries at any time; ATONCE stands for EN, OPEN, CLOSE, S and moves
\* by zero, BAD for unknown keywords and missing arguments; RAISE is ZHOME.
AnyTime == {"HALT", "STATE?"}
Plain == {"ATONCE", "DIS", "BAD", "ZHOME", "HOME", "X", "Y"}
Line == [kw : AnyTime \cup Plain, steps : {0}] \cup [kw : {"Z"}, steps : ZMoves]

GantryHoming == {"HOMING_TO_LIMIT", "HOMING_WAIT", "HOMING_BACKOFF",
                 "HOMING_Y_TO_LIMIT", "HOMING_Y_BACKOFF", "HOMING_OPEN_CLAW"}
ZMotion == {"MOVING_Z", "BACKING_OFF_Z", "HOMING_Z_TO_LIMIT", "HOMING_Z_BACKOFF"}
States == {"IDLE", "MOVING_X", "BACKING_OFF_X", "MOVING_Y", "BACKING_OFF_Y"}
            \cup ZMotion \cup GantryHoming

\* Out of reach of any phase: ZHOME and HOME ask for 200 turns upward.
UpDistance == PhaseTicks + 1

TopPressed == claw <= 0

\* setup() with the claw at c, and the globals' initial values.
Boot(c) ==
  /\ currentState' = "IDLE" /\ activeCmdLetter' = "?" /\ activeCmdId' = 0
  /\ haltRequested' = FALSE /\ pendingHaltId' = 0
  /\ zPositionSteps' = 0 /\ zMotorOrigin' = 0 /\ zPendingTarget' = 0
  /\ zMoveDirection' = 0
  /\ zPositionKnown' = (c <= 0) /\ slipped' = FALSE
  /\ motor' = 0 /\ target' = 0
  /\ elapsed' = 0 /\ hits' = {} /\ servoMoving' = FALSE /\ motorsEnabled' = TRUE

Init ==
  /\ received = 0 /\ halts = {} /\ forgotten = 0
  /\ answers = [l \in 1..MaxLines |-> 0]
  /\ claw \in 0..ZMax
  /\ currentState = "IDLE" /\ activeCmdLetter = "?" /\ activeCmdId = 0
  /\ haltRequested = FALSE /\ pendingHaltId = 0
  /\ zPositionSteps = 0 /\ zMotorOrigin = 0 /\ zPendingTarget = 0
  /\ zMoveDirection = 0
  /\ zPositionKnown = (claw <= 0) /\ slipped = FALSE
  /\ motor = 0 /\ target = 0
  /\ elapsed = 0 /\ hits = {} /\ servoMoving = FALSE /\ motorsEnabled = TRUE
  /\ jammed = FALSE /\ upsets = 0

-----------------------------------------------------------------------------
\* The world

Jam ==
  /\ IF jammed THEN UNCHANGED upsets
               ELSE upsets < MaxUpsets /\ upsets' = upsets + 1
  /\ jammed' = ~jammed
  /\ UNCHANGED <<host, command, halt, zFrame, stepperZ, homing, drives, claw,
                 slipped>>

Sink ==
  /\ ~motorsEnabled
  /\ upsets < MaxUpsets
  /\ claw' = claw + 1 /\ slipped' = TRUE /\ upsets' = upsets + 1
  /\ UNCHANGED <<host, command, halt, zFrame, stepperZ, homing, drives, jammed>>

\* The host opens the port again, or the board loses power.
Reset ==
  /\ upsets < MaxUpsets
  /\ upsets' = upsets + 1
  /\ Boot(claw)
  /\ forgotten' = received
  /\ UNCHANGED <<received, halts, answers, claw, jammed>>

\* loop(), updateServo(): the servo arrives.
ServoArrives ==
  /\ servoMoving
  /\ servoMoving' = FALSE
  /\ UNCHANGED <<host, command, halt, zFrame, stepperZ, homing, motorsEnabled,
                 world>>

\* loop(), the idle timeout.
IdleTimeout ==
  /\ currentState = "IDLE" /\ motorsEnabled
  /\ motorsEnabled' = FALSE
  /\ UNCHANGED <<host, command, halt, zFrame, stepperZ, homing, servoMoving,
                 world>>

-----------------------------------------------------------------------------
\* dispatchLine: the host sends what it likes

Reply(ids) ==
  answers' = [l \in DOMAIN answers |-> IF l \in ids THEN answers[l] + 1
                                                    ELSE answers[l]]

id == received + 1

Takes(line) ==
  /\ received < MaxLines
  /\ received' = id
  /\ halts' = IF line.kw = "HALT" THEN halts \cup {id} ELSE halts
  /\ UNCHANGED forgotten

\* A line accepted because nothing moves; it becomes the active command.
Accepts(line) ==
  /\ currentState = "IDLE"
  /\ Takes(line)
  /\ activeCmdId' = id

DispatchHalt(line) ==
  /\ line.kw = "HALT"
  /\ Takes(line)
  /\ haltRequested' = TRUE /\ pendingHaltId' = id
  /\ UNCHANGED <<answers, command, zFrame, stepperZ, homing, drives, world>>

\* STATE? and PING, and everything else while something moves (ERR BUSY).
DispatchReply(line) ==
  /\ \/ line.kw = "STATE?"
     \/ line.kw # "HALT" /\ currentState # "IDLE"
  /\ Takes(line)
  /\ Reply({id})
  /\ UNCHANGED <<command, halt, zFrame, stepperZ, homing, drives, world>>

DispatchAtOnce(line) ==
  /\ \/ /\ line.kw = "ATONCE"
        /\ servoMoving' \in {servoMoving, TRUE}
        /\ motorsEnabled' \in {motorsEnabled, TRUE}
     \/ line.kw = "DIS" /\ motorsEnabled' = FALSE /\ UNCHANGED servoMoving
     \/ line.kw = "BAD" /\ UNCHANGED drives
  /\ Accepts(line)
  /\ Reply({id})
  /\ UNCHANGED <<currentState, activeCmdLetter, halt, zFrame, stepperZ, homing,
                 world>>

\* ZHOME, RAISE and the first phase of HOME: up until the switch fires.
DispatchHoming(line) ==
  /\ line.kw \in {"ZHOME", "HOME"}
  /\ Accepts(line)
  /\ activeCmdLetter' = IF line.kw = "HOME" THEN "H" ELSE "R"
  /\ currentState' = "HOMING_Z_TO_LIMIT"
  /\ motorsEnabled' = TRUE
  /\ zMoveDirection' = -1
  /\ target' = motor - UpDistance
  /\ elapsed' = 0 /\ hits' = {}
  /\ UNCHANGED <<answers, halt, zPositionSteps, zMotorOrigin, zPendingTarget,
                 zPositionKnown, motor, servoMoving, world>>

DispatchGantry(line) ==
  /\ line.kw \in {"X", "Y"}
  /\ Accepts(line)
  /\ activeCmdLetter' = line.kw
  /\ currentState' = IF line.kw = "X" THEN "MOVING_X" ELSE "MOVING_Y"
  /\ motorsEnabled' = TRUE
  /\ UNCHANGED <<answers, halt, zFrame, stepperZ, homing, servoMoving, world>>

\* clampZTarget.
ClampZTarget(z) == IF z < 0 THEN 0 ELSE IF z > ZMax THEN ZMax ELSE z

\* The target is reckoned from zPositionSteps, the motor moves by the difference.
DispatchZ(line) ==
  /\ line.kw = "Z"
  /\ Accepts(line)
  /\ LET clamped == ClampZTarget(zPositionSteps + line.steps)
         delta == clamped - zPositionSteps
     IN  /\ zPendingTarget' = clamped
         /\ zMoveDirection' = IF delta > 0 THEN 1 ELSE IF delta < 0 THEN -1 ELSE 0
         /\ IF delta = 0
              THEN /\ Reply({id})
                   /\ UNCHANGED <<currentState, target>>
              ELSE /\ target' = motor + delta
                   /\ currentState' = "MOVING_Z"
                   /\ UNCHANGED answers
  /\ activeCmdLetter' = "Z"
  /\ motorsEnabled' = TRUE
  /\ UNCHANGED <<halt, zPositionSteps, zMotorOrigin, zPositionKnown, motor,
                 homing, servoMoving, world>>

Dispatch(line) ==
  \/ DispatchHalt(line) \/ DispatchReply(line) \/ DispatchAtOnce(line)
  \/ DispatchHoming(line) \/ DispatchGantry(line) \/ DispatchZ(line)

-----------------------------------------------------------------------------
\* One turn of loop() after the lines: the HALT, or a step of the state machine

LoopReaches(states) == ~haltRequested /\ currentState \in states

\* emitDone for the active command, and back to IDLE.
Completes ==
  /\ Reply({activeCmdId})
  /\ currentState' = "IDLE" /\ activeCmdLetter' = "?" /\ activeCmdId' = 0
  /\ UNCHANGED <<received, halts, forgotten>>

Goes(state) ==
  currentState' = state /\ UNCHANGED <<activeCmdLetter, activeCmdId, host>>

currentZAgentPosition == motor - zMotorOrigin

\* stepper.run() by one step towards its target.
StepZ ==
  LET by == IF target > motor THEN 1 ELSE -1
  IN  /\ motor' = motor + by
      /\ claw' = IF jammed THEN claw ELSE claw + by
      /\ slipped' = (slipped \/ jammed)
      /\ UNCHANGED <<target, jammed, upsets>>

\* The switch has been read LOW often enough to count (debouncedLimitHit), or
\* has been LOW for so short that it does not count yet.
TopHit == TopPressed
TopNotYet == ~TopPressed \/ (~jammed /\ claw > -Overshoot)

\* Z is defined to be 0 here; the claw is backed off the switch.
ResyncAtTop(backoff) ==
  /\ zMotorOrigin' = motor
  /\ zPositionSteps' = 0
  /\ zPositionKnown' = TRUE
  /\ zPendingTarget' = backoff
  /\ zMoveDirection' = 1
  /\ target' = motor + backoff
  /\ slipped' = FALSE
  /\ UNCHANGED <<motor, claw, jammed, upsets>>

\* Faulty variant: Z is not resynchronized after a halt.
ServiceHaltKeepsZ ==
  /\ haltRequested
  /\ haltRequested' = FALSE /\ pendingHaltId' = 0
  /\ currentState' = "IDLE" /\ activeCmdLetter' = "?" /\ activeCmdId' = 0
  /\ target' = motor /\ hits' = {} /\ zMoveDirection' = 0
  /\ Reply({pendingHaltId} \cup
             (IF currentState = "IDLE" THEN {} ELSE {activeCmdId}))
  /\ UNCHANGED <<received, halts, forgotten, zPositionSteps, zMotorOrigin,
                 zPendingTarget, zPositionKnown, motor, elapsed, drives, world>>

\* Faulty variant: the active command is answered again although nothing moves.
ServiceHaltAnswersLast ==
  /\ haltRequested
  /\ haltRequested' = FALSE /\ pendingHaltId' = 0
  /\ currentState' = "IDLE" /\ activeCmdLetter' = "?" /\ activeCmdId' = 0
  /\ target' = motor /\ hits' = {} /\ zMoveDirection' = 0
  /\ zPositionSteps' = currentZAgentPosition
  /\ zPendingTarget' = currentZAgentPosition
  /\ Reply({pendingHaltId, activeCmdId})
  /\ UNCHANGED <<received, halts, forgotten, zMotorOrigin, zPositionKnown, motor,
                 elapsed, drives, world>>

\* serviceHalt: everything stops, and Z is read off the motor.
ServiceHalt ==
  /\ haltRequested
  /\ haltRequested' = FALSE /\ pendingHaltId' = 0
  /\ IF currentState = "IDLE"
       THEN UNCHANGED <<command, zFrame, target, hits>>
       ELSE /\ currentState' = "IDLE"
            /\ activeCmdLetter' = "?" /\ activeCmdId' = 0
            /\ target' = motor
            /\ hits' = {} /\ zMoveDirection' = 0
            /\ IF currentState \in ZMotion
                 THEN /\ zPositionSteps' = currentZAgentPosition
                      /\ zPendingTarget' = currentZAgentPosition
                 ELSE UNCHANGED <<zPositionSteps, zPendingTarget>>
            /\ UNCHANGED <<zMotorOrigin, zPositionKnown>>
  /\ Reply({pendingHaltId} \cup
             (IF currentState = "IDLE" THEN {} ELSE {activeCmdId}))
  /\ UNCHANGED <<received, halts, forgotten, motor, elapsed, drives, world>>

\* runXAxis, runXBackoff, runYAxis, runYBackoff: the travel ends or a limit fires.
RunGantry ==
  /\ LoopReaches({"MOVING_X", "MOVING_Y", "BACKING_OFF_X", "BACKING_OFF_Y"})
  /\ \/ Completes
     \/ currentState = "MOVING_X" /\ Goes("BACKING_OFF_X")
     \/ currentState = "MOVING_Y" /\ Goes("BACKING_OFF_Y")
  /\ UNCHANGED <<halt, zFrame, stepperZ, homing, drives, world>>

RunZAxisHit ==
  /\ LoopReaches({"MOVING_Z"})
  /\ zMoveDirection < 0 /\ TopHit
  /\ ResyncAtTop(ZBackup)
  /\ Goes("BACKING_OFF_Z")
  /\ UNCHANGED <<halt, homing, drives>>

RunZAxisStep ==
  /\ LoopReaches({"MOVING_Z"})
  /\ target # motor
  /\ zMoveDirection < 0 => TopNotYet
  /\ StepZ
  /\ UNCHANGED <<host, command, halt, zFrame, homing, drives>>

\* runZAxis, runZBackoff, runHomingZBackoff at their target.
RunZArrives ==
  /\ LoopReaches({"MOVING_Z", "BACKING_OFF_Z", "HOMING_Z_BACKOFF"})
  /\ target = motor
  /\ zPositionSteps' = zPendingTarget
  /\ zMoveDirection' = 0
  /\ IF currentState = "HOMING_Z_BACKOFF" /\ activeCmdLetter = "H"
       THEN Goes("HOMING_TO_LIMIT")
       ELSE Completes
  /\ UNCHANGED <<halt, zMotorOrigin, zPendingTarget, zPositionKnown, stepperZ,
                 homing, drives, world>>

RunZBackoffStep ==
  /\ LoopReaches({"BACKING_OFF_Z", "HOMING_Z_BACKOFF"})
  /\ target # motor
  /\ StepZ
  /\ UNCHANGED <<host, command, halt, zFrame, homing, drives>>

RunHomingZHit ==
  /\ LoopReaches({"HOMING_Z_TO_LIMIT"})
  /\ elapsed < PhaseTicks /\ TopHit
  /\ ResyncAtTop(ZHomeBackoff)
  /\ Goes("HOMING_Z_BACKOFF")
  /\ UNCHANGED <<halt, homing, drives>>

RunHomingZStep ==
  /\ LoopReaches({"HOMING_Z_TO_LIMIT"})
  /\ elapsed < PhaseTicks /\ TopNotYet
  /\ elapsed' = elapsed + 1
  /\ StepZ
  /\ UNCHANGED <<host, command, halt, zFrame, hits, drives>>

\* Faulty variant: a Z axis that is stuck does not keep the gantry from moving.
AbortHomingStuckGoesOn ==
  /\ \/ LoopReaches({"HOMING_Z_TO_LIMIT"}) /\ elapsed = PhaseTicks
     \/ LoopReaches({"HOMING_TO_LIMIT", "HOMING_Y_TO_LIMIT"})
  /\ IF currentState = "HOMING_Z_TO_LIMIT" THEN Goes("HOMING_TO_LIMIT")
                                            ELSE Completes
  /\ target' = motor
  /\ hits' = {} /\ zMoveDirection' = 0
  /\ UNCHANGED <<halt, zPositionSteps, zMotorOrigin, zPendingTarget,
                 zPositionKnown, motor, elapsed, drives, world>>

\* Faulty variant: the Z phase has no timeout.
AbortHomingStuckGantryOnly ==
  /\ LoopReaches({"HOMING_TO_LIMIT", "HOMING_Y_TO_LIMIT"})
  /\ Completes
  /\ target' = motor
  /\ hits' = {} /\ zMoveDirection' = 0
  /\ UNCHANGED <<halt, zPositionSteps, zMotorOrigin, zPendingTarget,
                 zPositionKnown, motor, elapsed, drives, world>>

\* abortHomingStuck, when a phase runs into its timeout.
AbortHomingStuck ==
  /\ \/ LoopReaches({"HOMING_Z_TO_LIMIT"}) /\ elapsed = PhaseTicks
     \/ LoopReaches({"HOMING_TO_LIMIT", "HOMING_Y_TO_LIMIT"})
  /\ Completes
  /\ target' = motor
  /\ hits' = {} /\ zMoveDirection' = 0
  /\ UNCHANGED <<halt, zPositionSteps, zMotorOrigin, zPendingTarget,
                 zPositionKnown, motor, elapsed, drives, world>>

\* runHomingToLimit: a motor arrives at its switch; the second one may be given
\* up after HOME_TIMEOUT_MS, with both flags set.
RunHomingHit ==
  /\ LoopReaches({"HOMING_TO_LIMIT"})
  /\ \E now \in SUBSET {"X", "A"} : hits \subseteq now /\ hits # now /\ hits' = now
  /\ IF hits' = {"X", "A"} THEN Goes("HOMING_WAIT")
                           ELSE UNCHANGED <<command, host>>
  /\ UNCHANGED <<halt, zFrame, stepperZ, elapsed, drives, world>>

\* The later phases of HOME follow each other: runHomingWait, runHomingBackoff,
\* runHomingYToLimit on its hit, runHomingYBackoff, which opens the claw.
RunHomingPhases ==
  /\ \E step \in {<<"HOMING_WAIT", "HOMING_BACKOFF">>,
                  <<"HOMING_BACKOFF", "HOMING_Y_TO_LIMIT">>,
                  <<"HOMING_Y_TO_LIMIT", "HOMING_Y_BACKOFF">>,
                  <<"HOMING_Y_BACKOFF", "HOMING_OPEN_CLAW">>} :
       LoopReaches({step[1]}) /\ Goes(step[2])
  /\ servoMoving' \in IF currentState' = "HOMING_OPEN_CLAW" THEN BOOLEAN
                                                            ELSE {servoMoving}
  /\ UNCHANGED <<halt, zFrame, stepperZ, homing, motorsEnabled, world>>

RunHomingOpenClaw ==
  /\ LoopReaches({"HOMING_OPEN_CLAW"})
  /\ ~servoMoving
  /\ Completes
  /\ UNCHANGED <<halt, zFrame, stepperZ, homing, drives, world>>

Tick ==
  \/ ServiceHalt
  \/ RunGantry
  \/ RunZAxisHit \/ RunZAxisStep \/ RunZArrives \/ RunZBackoffStep
  \/ RunHomingZHit \/ RunHomingZStep \/ AbortHomingStuck
  \/ RunHomingHit \/ RunHomingPhases \/ RunHomingOpenClaw

-----------------------------------------------------------------------------
\* The host has nothing more to send.
Over ==
  /\ received = MaxLines /\ currentState = "IDLE" /\ ~haltRequested
  /\ UNCHANGED vars

Next ==
  \/ Jam \/ Sink \/ Reset
  \/ \E line \in Line : Dispatch(line)
  \/ ServoArrives \/ IdleTimeout \/ Tick
  \/ Over

Spec == Init /\ [][Next]_vars

\* loop() runs for ever.  What the host sends and what the world does is open.
FairSpec == Spec /\ WF_vars(Tick) /\ WF_vars(ServoArrives)

-----------------------------------------------------------------------------
\* The states a command of the given letter goes through.
MotionOf(letter) ==
  CASE letter = "X" -> {"MOVING_X", "BACKING_OFF_X"}
    [] letter = "Y" -> {"MOVING_Y", "BACKING_OFF_Y"}
    [] letter = "Z" -> {"MOVING_Z", "BACKING_OFF_Z"}
    [] letter = "R" -> {"HOMING_Z_TO_LIMIT", "HOMING_Z_BACKOFF"}
    [] letter = "H" -> {"HOMING_Z_TO_LIMIT", "HOMING_Z_BACKOFF"} \cup GantryHoming
    [] letter = "?" -> {}

\* Types; whatever moves belongs to the active command, whose letter decides
\* what a HALT or a stuck axis answers.
TypeOK ==
  /\ received \in 0..MaxLines /\ halts \subseteq 1..received
  /\ forgotten \in 0..received
  /\ answers \in [1..MaxLines -> 0..2]
  /\ currentState \in States
  /\ currentState # "IDLE" =>
       /\ activeCmdId \in ((forgotten + 1)..received) \ halts
       /\ currentState \in MotionOf(activeCmdLetter)
  /\ haltRequested <=> pendingHaltId # 0
  /\ zPositionSteps \in Int /\ zMotorOrigin \in Int
  /\ zPendingTarget \in Int /\ zMoveDirection \in {-1, 0, 1}
  /\ motor \in Int /\ target \in Int
  /\ currentState \notin ZMotion => target = motor
  /\ elapsed \in 0..PhaseTicks /\ hits \subseteq {"X", "A"}
  /\ {zPositionKnown, servoMoving, motorsEnabled, jammed, slipped} \subseteq BOOLEAN
  /\ claw >= -Overshoot

\* "Every in-flight motion command has an ID [...] echoed in the DONE/ERR line
\* when the command completes so the Python layer can correlate responses"
\* (the .ino:432-434).  No line is answered twice, however HALTs, rejected lines
\* and motions interleave, and once the machine rests every line has been
\* answered.  A HALT overtaken by another HALT is the exception: the second
\* overwrites pendingHaltId.
AnsweredOnce ==
  /\ \A l \in 1..MaxLines : answers[l] <= 1
  /\ currentState = "IDLE" /\ ~haltRequested =>
       \A l \in (forgotten + 1)..received :
         answers[l] = 1 \/ (l \in halts /\ \E m \in halts : m > l)

\* "HARD MAX: HARD safety bound on descent [...] so the spool can't fully
\* unwind" (the .ino:182-187), once the switch has defined Z = 0 and as long as
\* the claw follows the motor: neither halts at any point, nor limit hits, nor
\* homing, nor any sequence of moves gets the claw past the bound.
DescentBounded == zPositionKnown /\ ~slipped => claw <= ZMax

\* The two records of Z, the one the bounds are reckoned from and the one STATE
\* reports, agree whenever the machine rests, once the switch has defined Z = 0
\* and unless the spool has slipped since: then no homing gets stuck.
RestPosition ==
  currentState = "IDLE" /\ zPositionKnown /\ ~slipped =>
    zPositionSteps = currentZAgentPosition

\* "Doing this BEFORE the X/Y phases means the claw is retracted and won't swing
\* into anything as the gantry moves around" (runHomingZToLimit): whatever was
\* stuck, halted or reset before, in the gantry phases of HOME the claw hangs at
\* most the post-home backoff below the switch.
GantryHomesRetracted ==
  currentState \in GantryHoming => zPositionKnown /\ claw <= ZHomeBackoff

\* Every motion command ends, with any switch dead and any motor stuck.
CommandsEnd ==
  \A l \in 1..MaxLines :
    currentState # "IDLE" /\ activeCmdId = l ~> answers[l] = 1 \/ l <= forgotten

-----------------------------------------------------------------------------
\* "TOP: HARDWARE switch only. No software top clamp." (the .ino:178) and "Z
\* motion still works" before the first homing (l.173): a command to raise the
\* claw that is still below the switch moves the motor.
UpwardMovesAlwaysMove ==
  [][\A line \in Line : DispatchZ(line) /\ line.steps < 0 /\ ~TopPressed
       => currentState' = "MOVING_Z"]_vars

\* "This lets us compute the current agent-frame Z position at any moment,
\* including after a halt" (the .ino:421-422), and "subsequent Z bounds checks
\* would be off" otherwise (l.1046): the two records agree at rest.
RestPositionAlways ==
  currentState = "IDLE" => zPositionSteps = currentZAgentPosition
=============================================================================
