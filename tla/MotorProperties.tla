--------------------------- MODULE MotorProperties ---------------------------
(***************************************************************************)
(* What makes the drive of module Motor correct.  Ramps are stated for     *)
(* ProfileSet: until a client has asked once for an RPM below MaxRPM,      *)
(* shaft.targetRPM is 0 and CalculateProfile yields a falling "ramp"; one  *)
(* of the claims at the end of the module says what goes wrong then.  What *)
(* a ramp does up to a rounding error is multiplied by Precision, so that  *)
(* it is a statement about integers.                                       *)
(***************************************************************************)
EXTENDS Motor

\* The types of the statics and registers.  startTicked is only raised while
\* App_Motor_Start runs.
ShaftType ==
  shaft \in [microsteps : Nat, targetRPM : Nat, totalMs : Nat \ {0},
             startFreq : Floats, targetFreq : Floats, accelStepPerMs : Floats]

PinType ==
  timerOn \in BOOLEAN /\ enabled \in BOOLEAN /\ dir \in BOOLEAN
  /\ startTicked \in BOOLEAN

RampType ==
  /\ currentState \in States /\ mpc \in Places
  /\ currentFreq \in Floats /\ legFreq \in Floats
  /\ legTicks \in Nat /\ legTicks <= TicksCounted
  /\ arr \in Nat /\ ccr \in Nat

TypeOK == ShaftType /\ PinType /\ RampType

\* The driver is enabled exactly while a motion is under way, and STEP pulses
\* run exactly then once App_Motor_Start has returned, never at the period
\* HAL_Motor_Init left in the timer (app_motor.c:99-108 and :149-151).
PulseGate ==
  /\ enabled <=> Moving
  /\ timerOn => Moving
  /\ Moving /\ ~InStart => timerOn
  /\ timerOn => arr # 0 /\ ccr # 0

\* Types, and pulses exactly during a motion (app_motor.c:99-108, :149-151).
MotorInv == TypeOK /\ PulseGate

\* Up to the roundings of its ticks a ramp is a straight line between startFreq
\* and targetFreq: after k ticks currentFreq is k steps above or below where the
\* climb or the descent began, off by at most the k rounding errors, and the
\* climb is over with the first tick that reaches targetFreq, so that neither
\* leg overshoots or turns back (app_motor.c:134-138, :145-147).
ClimbNearLine ==
  currentState = "ACCELERATING" /\ legTicks < TicksCounted =>
    Precision * Abs(currentFreq - (shaft.startFreq + legTicks * shaft.accelStepPerMs))
      <= legTicks * shaft.targetFreq

CruiseNearLine ==
  currentState = "CRUISING" =>
    /\ currentFreq = shaft.targetFreq
    /\ legTicks < TicksCounted =>
         Precision * Abs(shaft.targetFreq
                          - (shaft.startFreq + legTicks * shaft.accelStepPerMs))
           <= Precision * shaft.accelStepPerMs + legTicks * shaft.targetFreq

DescentNearLine ==
  currentState = "DECELERATING" =>
    /\ shaft.startFreq <= legFreq /\ legFreq <= shaft.targetFreq
    /\ legTicks < TicksCounted =>
         Precision * Abs(currentFreq - (legFreq - legTicks * shaft.accelStepPerMs))
           <= legTicks * shaft.targetFreq

RampNearLine ==
  ProfileSet /\ Moving =>
    /\ shaft.startFreq <= currentFreq /\ currentFreq <= shaft.targetFreq
    /\ ClimbNearLine /\ CruiseNearLine /\ DescentNearLine

\* Outside App_Motor_Start a cruising motor pulses at the target frequency
\* with a 50% duty cycle (hal_motor.h:14), if the climb took more than the one
\* tick that may fall into App_Motor_Start.
CruiseAtTarget ==
  /\ ProfileSet /\ legTicks > 1 /\ mpc = "idle" /\ currentState = "CRUISING"
  => arr = Hz(shaft.targetFreq) /\ ccr = Hz(shaft.targetFreq)

-----------------------------------------------------------------------------

\* Neither the DIR pin nor the profile the tick computes with changes while
\* the motor turns, except that a reset clears everything.
OnlyAtRest ==
  [][(dir' # dir \/ shaft' # shaft) => currentState = "STOPPED" \/ MotorReset]_motorVars

\* No rounding in a ramp is off by more.
RoundingError == shaft.targetFreq \div Precision

\* No tick changes the pulse rate of a turning motor by more than two steps of
\* the ramp: one, and one more when the previous tick fell into
\* App_Motor_Start and its frequency was overwritten (app_motor.c:103-108).
Slew(n) == (n * (shaft.accelStepPerMs + RoundingError)) \div Grain + 1
SlewBounded ==
  [][ProfileSet /\ timerOn /\ timerOn' => Abs(arr' - arr) <= Slew(2)]_motorVars

\* Pulses end at the foot of the ramp, at most one step above the start
\* frequency: nothing but a reset cuts them at speed.
GentleHalt ==
  [][ProfileSet /\ timerOn /\ ~timerOn'
       => \/ arr <= Hz(shaft.startFreq + shaft.accelStepPerMs + RoundingError)
          \/ MotorReset]_motorVars

\* The climb takes the configured acceleration time up to one tick and the
\* roundings: those of its ticks, 3 * (targetFreq - startFreq) for the ones of
\* deltaFreqHz and accelStepPerMs, Precision * totalMs for a step too small to be
\* a normal float.  The descent takes as long as its length divided by the step
\* says, wherever in the ramp the stop was given, up to one tick and its own
\* roundings (app_motor.c:85-90, :134-147).
ClimbOnTime ==
  legTicks' < TicksCounted =>
    Precision * (Abs(legTicks' - shaft.totalMs) * shaft.accelStepPerMs)
      <= Precision * shaft.accelStepPerMs + legTicks' * shaft.targetFreq
         + 3 * (shaft.targetFreq - shaft.startFreq) + Precision * shaft.totalMs

DescentOnTime ==
  legTicks' < TicksCounted =>
    Precision * Abs(legFreq - shaft.startFreq - legTicks' * shaft.accelStepPerMs)
      <= Precision * shaft.accelStepPerMs + legTicks' * shaft.targetFreq

RampOnTime ==
  [][/\ ProfileSet /\ currentState = "ACCELERATING" /\ currentState' = "CRUISING"
          => ClimbOnTime
     /\ ProfileSet /\ currentState = "DECELERATING" /\ currentState' = "STOPPED"
          => DescentOnTime \/ MotorReset]_motorVars

\* "Velocity increases constantly over TIME" (app_motor.c:133): a step greater
\* than the rounding of a sum is not lost in it, so that every tick of a climb
\* raises the frequency or ends the climb.  A smaller one may be.
SteepClimbRises ==
  [][/\ ProfileSet /\ shaft.targetFreq < Precision * shaft.accelStepPerMs
     /\ TickAccelerate
     => currentFreq' > currentFreq \/ currentState' = "CRUISING"]_motorVars

-----------------------------------------------------------------------------

\* The drive implements the life cycle of MotionPhases; its fairness says that
\* every climb and every descent ends.
PhaseOf ==
  [s \in States |-> CASE s = "STOPPED" -> "rest" [] s = "ACCELERATING" -> "rising"
                      [] s = "CRUISING" -> "steady" [] s = "DECELERATING" -> "falling"]

Phases == INSTANCE MotionPhases
            WITH phase <- PhaseOf[currentState], heading <- dir, pulses <- timerOn

ImplementsPhases == Phases!PhaseSpec

\* Its safety part: every step of the drive is a step of the life cycle or
\* leaves it alone.
PhasesSafety == Phases!PhaseInit /\ [][Phases!PhaseNext]_<<PhaseOf[currentState], dir, timerOn>>

-----------------------------------------------------------------------------
(* The inductive invariant: TypeOK, PulseGate, RampNearLine and            *)
(* CruiseAtTarget strengthened by what relates them.                       *)

\* A motion, or a call that begins one, has a profile that starts at 1 Hz or
\* more and whose steps are, up to their rounding, totalMs to the climb.
ProfileInv ==
  /\ shaft.microsteps >= MinMicrosteps
  /\ ProfileSet => shaft.targetRPM > MinStartRPM
  /\ Moving \/ mpc # "idle" =>
       /\ Grain <= shaft.startFreq
       /\ ProfileSet =>
            /\ shaft.startFreq <= shaft.targetFreq /\ 0 <= shaft.accelStepPerMs
            /\ Precision * Abs(shaft.totalMs * shaft.accelStepPerMs
                                - (shaft.targetFreq - shaft.startFreq))
                 <= 3 * (shaft.targetFreq - shaft.startFreq) + Precision * shaft.totalMs
       /\ ~ProfileSet => /\ shaft.targetFreq = 0 /\ shaft.accelStepPerMs <= 0
                         /\ 0 <= shaft.startFreq + shaft.accelStepPerMs

\* What the tick converts to uint32_t is never negative.
FreqInv ==
  Moving => /\ 0 <= currentFreq
            /\ ~ProfileSet /\ currentState = "ACCELERATING"
                 => currentFreq = shaft.startFreq

\* Where the main loop can be, in which state of the motor and of the timer.
PlaceInv ==
  /\ mpc = "profiled" => ~Moving
  /\ InStart => currentState \in {"ACCELERATING", "CRUISING"} /\ ~timerOn
  /\ mpc = "ccr" => arr # 0
  /\ mpc = "timer" => arr # 0 /\ ccr # 0

\* At most one tick falls into App_Motor_Start, and it is the first of the ramp.
WindowInv ==
  InStart => IF startTicked
               THEN legTicks = 1
               ELSE /\ legTicks = 0 /\ currentState = "ACCELERATING"
                    /\ currentFreq = shaft.startFreq

\* A motor at the target frequency got there by a tick after App_Motor_Start.
CruiseInv ==
  ProfileSet /\ legTicks > 1 /\ currentState = "CRUISING" =>
    ~InStart /\ arr = Hz(shaft.targetFreq) /\ ccr = Hz(shaft.targetFreq)

\* The period in the timer is the one of currentFreq, except that it may be what
\* App_Motor_Start left there while currentFreq is one step further.
WithinAStep ==
  currentFreq <= shaft.startFreq + shaft.accelStepPerMs + RoundingError

RateInv ==
  ProfileSet /\ Moving =>
    /\ InStart => WithinAStep
    /\ mpc # "arr" => arr = Hz(currentFreq) \/ (arr = Hz(shaft.startFreq) /\ WithinAStep)

MotorIInv == TypeOK /\ ProfileInv /\ FreqInv /\ PlaceInv /\ PulseGate /\ RampNearLine
             /\ WindowInv /\ CruiseInv

-----------------------------------------------------------------------------
(* Claims of the source that do not hold; see the README. *)

\* "Let the kinematic engine finish the deceleration ramp" (main.c:351): a
\* decelerating motor never gets faster.
DecelerationSlows ==
  [][currentState = "DECELERATING" => currentFreq' <= currentFreq]_motorVars

\* A cruising motor has "the new target frequency" in the hardware timer
\* (app_motor.c:141), also after a climb of one tick.
CruiseAlwaysAtTarget ==
  ProfileSet /\ mpc = "idle" /\ currentState = "CRUISING" => arr = Hz(shaft.targetFreq)

\* A profile wide enough that no climb of two or more milliseconds ends with its
\* first tick.
Wide ==
  Precision * (shaft.targetFreq - shaft.startFreq)
    > 2 * shaft.targetFreq + 3 * (shaft.targetFreq - shaft.startFreq) + 2 * Precision
=============================================================================
