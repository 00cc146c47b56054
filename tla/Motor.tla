------------------------------- MODULE Motor -------------------------------
(***************************************************************************)
(* The stepper drive: src/src/app_motor.c on top of src/src/hal/hal_motor.c. *)
(*                                                                         *)
(* Two contexts share its state.  The main loop computes a profile and     *)
(* starts or stops the motion; the SysTick interrupt (priority 14, so it   *)
(* preempts the main loop anywhere but is never preempted by it) advances  *)
(* the trapezoid once per millisecond.  The body of App_Motor_Start is     *)
(* split at every place where a tick can be told from no tick.             *)
(*                                                                         *)
(* Frequencies are floats.  A float is a member of Floats, in units so     *)
(* fine that all of them are integers (the smallest float32, 2^-149 Hz).   *)
(* A sum, difference or quotient is rounded to the nearest one (Rounded),  *)
(* so that accelStepPerMs is not the exact fraction and the sum of the     *)
(* ticks drifts from the ramp.  An RPM is in tenths, as on the wire.       *)
(***************************************************************************)
EXTENDS Integers

CONSTANTS
  MinStartRPM,       \* DEFAULT_MIN_START_RPM in tenths of RPM (code: 20)
  MaxRPM,            \* DEFAULT_MAX_RPM in tenths of RPM (code: 2000)
  MinMicrosteps,     \* DEFAULT_MIN_MICROSTEPS_CL86HB (code: 800)
  DefaultMicrosteps, \* DEFAULT_MICROSTEPS (code: 5000)
  MsPerTenth,        \* milliseconds in one unit of REG_MOTOR_ACCEL (code: 100)
  UnitsPerHz,        \* 10 * SECONDS_PER_MINUTE / DEFAULT_GEAR_RATIO (code: 200)
  Floats,            \* the values of a float
  Even,              \* those with an even significand
  Precision,         \* 2 to the bits of a significand (code: 2^24)
  Grain,             \* units of a frequency in one Hz (code: 2^149)
  TicksCounted,      \* where the history variable legTicks stops counting
  RpmRegs,           \* values a client writes to REG_MOTOR_RPM
  AccelRegs,         \* ... to REG_MOTOR_ACCEL
  MicrostepRegs,     \* ... to REG_MOTOR_MICROSTEPS
  FirstRpmInRange    \* assumption on the clients: TRUE if the first start after
                     \* a boot asks for less than MaxRPM

\* What the #defines satisfy, as weak as the proofs need it.
ASSUME DriveAssumption ==
  /\ MinStartRPM \in Nat \ {0} /\ MaxRPM \in Nat /\ MinStartRPM + 1 < MaxRPM
  /\ MinMicrosteps \in Nat \ {0}
  /\ DefaultMicrosteps \in Nat /\ DefaultMicrosteps >= MinMicrosteps
  /\ MsPerTenth \in Nat \ {0} /\ UnitsPerHz \in Nat \ {0}
  /\ MinStartRPM * MinMicrosteps >= UnitsPerHz

Abs(x) == IF x < 0 THEN -x ELSE x

\* What IEEE 754 says of Floats: signed, 1 Hz is one of them, and there is one
\* within a relative distance of 1/Precision of every number in their range.
ASSUME FloatAssumption ==
  /\ Floats \subseteq Int /\ Even \subseteq Floats /\ {0, Grain} \subseteq Floats
  /\ Grain \in Nat \ {0} /\ Precision \in Nat \ {0}
  /\ \A f \in Floats : -f \in Floats
  /\ \A g \in Floats : \A x \in 0 .. g : \E f \in Floats : Precision * Abs(f - x) <= x
  /\ TicksCounted \in Nat \ {0, 1}

\* The registers are unsigned 16-bit.
ASSUME RegisterAssumption ==
  /\ RpmRegs \subseteq Nat /\ AccelRegs \subseteq Nat /\ MicrostepRegs \subseteq Nat
  /\ FirstRpmInRange \in BOOLEAN

VARIABLES
  shaft,         \* the static ShaftProfile_t
  currentState,  \* the static MotorState_t
  currentFreq,   \* the static float currentFreq
  arr, ccr,      \* the frequency TIM2->ARR and TIM2->CCR3 were computed from
                 \* (0: still the values of HAL_Motor_Init)
  timerOn,       \* TIM2 counts and drives STEP
  enabled, dir,  \* the EN and DIR pins
  mpc,           \* where the main loop is between computing a profile and
                 \* the end of App_Motor_Start
  startTicked,   \* a SysTick already fell into this App_Motor_Start
  legFreq,       \* history: currentFreq when the present leg, the climb or the
                 \* descent, began
  legTicks       \* history: its ticks so far, up to TicksCounted

motorVars == <<shaft, currentState, currentFreq, arr, ccr, timerOn, enabled,
               dir, mpc, startTicked, legFreq, legTicks>>

States == {"STOPPED", "ACCELERATING", "CRUISING", "DECELERATING"}
Places == {"idle", "profiled", "arr", "ccr", "timer"}

Moving     == currentState # "STOPPED"
InStart    == mpc \in {"arr", "ccr", "timer"}
ProfileSet == shaft.targetRPM # 0

\* An exact result is taken as it is.  Otherwise there may be two floats nearest
\* to n/d, of which IEEE 754 takes the even one.
Exact(n, d)   == {f \in Floats : d * f = n}
Nearest(n, d) == {f \in Floats : \A g \in Floats : Abs(d * f - n) <= Abs(d * g - n)}
Rounded(n, d) ==
  IF Exact(n, d) # {} THEN Exact(n, d)
  ELSE LET near == Nearest(n, d) IN {f \in near : near = {f} \/ f \in Even}

\* The (uint32_t) conversion of a frequency.
Hz(f) == f \div Grain

MotorInit ==
  /\ shaft = [microsteps |-> DefaultMicrosteps, targetRPM |-> 0, totalMs |-> 1,
              startFreq |-> 0, targetFreq |-> 0, accelStepPerMs |-> 0]
  /\ currentState = "STOPPED" /\ currentFreq = 0
  /\ arr = 0 /\ ccr = 0 /\ timerOn = FALSE /\ enabled = FALSE /\ dir = FALSE
  /\ mpc = "idle" /\ startTicked = FALSE
  /\ legFreq = 0 /\ legTicks = 0

-----------------------------------------------------------------------------
(* Main context. *)

ClampedRPM(rpm) == IF rpm <= MinStartRPM THEN MinStartRPM + 1 ELSE rpm

\* totalTimeMs.  It is off by a unit in the last place for 786 of the 65535 values
\* of the register; that is left out.
RampMs(accel) == IF accel = 0 THEN 1 ELSE accel * MsPerTenth

\* The frequency at rpm, rounded once where the code rounds each operation.
FreqOf(rpm, m) == Rounded(rpm * m * Grain, UnitsPerHz)

\* The profile for microsteps m, target t, acceleration time T and the floats
\* that were computed.  totalMs is not kept by the code.
Profile(m, t, T, start, target, step) ==
  [microsteps |-> m, targetRPM |-> t, totalMs |-> T, startFreq |-> start,
   targetFreq |-> target, accelStepPerMs |-> step]

\* A microstep count below the driver's minimum and an RPM of MaxRPM or more
\* keep the value of the previous profile.
NewMicrosteps(microsteps) ==
  IF microsteps >= MinMicrosteps THEN microsteps ELSE shaft.microsteps
NewRPM(rpm) == IF ClampedRPM(rpm) < MaxRPM THEN ClampedRPM(rpm) ELSE shaft.targetRPM

\* App_Motor_CalculateProfile.
CalculateProfile(rpm, accel, microsteps) ==
  /\ mpc = "idle" /\ mpc' = "profiled"
  /\ LET m == NewMicrosteps(microsteps)
         t == NewRPM(rpm)
         T == RampMs(accel)
     IN  \E start \in FreqOf(MinStartRPM, m), target \in FreqOf(t, m) :
         \E delta \in Rounded(target - start, 1) :
         \E step \in Rounded(delta, T) :
           shaft' = Profile(m, t, T, start, target, step)
  /\ UNCHANGED <<currentState, currentFreq, arr, ccr, timerOn, enabled, dir,
                 startTicked, legFreq, legTicks>>

\* App_Motor_Start up to the store that publishes ACCELERATING.
StartArm(direction) ==
  /\ mpc = "profiled"
  /\ currentState \in {"STOPPED", "DECELERATING"}
  /\ dir' = direction
  /\ enabled' = TRUE
  /\ currentFreq' = shaft.startFreq
  /\ currentState' = "ACCELERATING"
  /\ mpc' = "arr" /\ startTicked' = FALSE
  /\ legFreq' = shaft.startFreq /\ legTicks' = 0
  /\ UNCHANGED <<shaft, arr, ccr, timerOn>>

\* HAL_Motor_SetFrequency(shaft.startFreq) as called by App_Motor_Start: one
\* store to ARR, one to CCR3, none for 0 Hz.
StartSetArr ==
  /\ mpc = "arr"
  /\ arr' = IF Hz(shaft.startFreq) = 0 THEN arr ELSE Hz(shaft.startFreq)
  /\ mpc' = "ccr"
  /\ UNCHANGED <<shaft, currentState, currentFreq, ccr, timerOn, enabled, dir,
                 startTicked, legFreq, legTicks>>

StartSetCcr ==
  /\ mpc = "ccr"
  /\ ccr' = IF Hz(shaft.startFreq) = 0 THEN ccr ELSE Hz(shaft.startFreq)
  /\ mpc' = "timer"
  /\ UNCHANGED <<shaft, currentState, currentFreq, arr, timerOn, enabled, dir,
                 startTicked, legFreq, legTicks>>

\* HAL_Motor_StartTimer, the last call of App_Motor_Start.
StartTimer ==
  /\ mpc = "timer"
  /\ timerOn' = TRUE
  /\ mpc' = "idle"
  /\ UNCHANGED <<shaft, currentState, currentFreq, arr, ccr, enabled, dir,
                 startTicked, legFreq, legTicks>>

\* Mutant: App_Motor_Stop without its test.
AllStates == States
StoppableStates == {"ACCELERATING", "CRUISING"}

\* App_Motor_Stop.  A tick between its test and its store only turns
\* ACCELERATING into CRUISING, as a tick before the test does.
Stop ==
  /\ mpc = "idle"
  /\ currentState \in StoppableStates
  /\ currentState' = "DECELERATING"
  /\ legFreq' = currentFreq /\ legTicks' = 0
  /\ UNCHANGED <<shaft, currentFreq, arr, ccr, timerOn, enabled, dir, mpc, startTicked>>

-----------------------------------------------------------------------------
(* SysTick context: App_Motor_KinematicTick_1ms. *)

\* App_Motor_Start takes microseconds, the period of SysTick is a millisecond.
TickMayFall == InStart => ~startTicked

\* Mutant: the duty cycle does not follow the period.
SetPeriod(f) == UNCHANGED ccr /\ IF Hz(f) = 0 THEN UNCHANGED arr ELSE arr' = Hz(f)

\* HAL_Motor_SetFrequency from the tick, which the main loop cannot split.
SetFrequency(f) ==
  IF Hz(f) = 0 THEN UNCHANGED <<arr, ccr>> ELSE arr' = Hz(f) /\ ccr' = Hz(f)

\* Mutant: the whole ramp in one tick.
FasterAtOnce == Rounded(currentFreq + shaft.accelStepPerMs * shaft.totalMs, 1)
Faster == Rounded(currentFreq + shaft.accelStepPerMs, 1)

Slower == Rounded(currentFreq - shaft.accelStepPerMs, 1)

\* Mutant: the test looks at the frequency before the increment.
ArrivedBefore(f) == currentFreq >= shaft.targetFreq
Arrived(f) == f >= shaft.targetFreq

\* Mutant: the descent ends where the climb did.
RestedAtTarget(f) == f <= shaft.targetFreq
Rested(f) == f <= shaft.startFreq

\* Mutant: the driver stays enabled.
StopTimerOnly == timerOn' = FALSE /\ UNCHANGED enabled
\* HAL_Motor_StopTimer and HAL_Motor_Enable(false).
ShutDown == timerOn' = FALSE /\ enabled' = FALSE

OneMoreTick == IF legTicks < TicksCounted THEN legTicks + 1 ELSE legTicks

TickAccelerate ==
  /\ currentState = "ACCELERATING" /\ TickMayFall
  /\ \E f \in Faster :
       IF Arrived(f)
         THEN currentFreq' = shaft.targetFreq /\ currentState' = "CRUISING"
         ELSE currentFreq' = f /\ UNCHANGED currentState
  /\ SetFrequency(currentFreq')
  /\ startTicked' = InStart /\ legTicks' = OneMoreTick
  /\ UNCHANGED <<shaft, timerOn, enabled, dir, mpc, legFreq>>

TickDecelerate ==
  /\ currentState = "DECELERATING" /\ TickMayFall
  /\ \E f \in Slower :
       /\ currentFreq' = f
       /\ IF Rested(f)
            THEN ShutDown /\ currentState' = "STOPPED" /\ UNCHANGED <<arr, ccr>>
            ELSE SetFrequency(f) /\ UNCHANGED <<timerOn, enabled, currentState>>
  /\ startTicked' = InStart /\ legTicks' = OneMoreTick
  /\ UNCHANGED <<shaft, dir, mpc, legFreq>>

KinematicTick == TickAccelerate \/ TickDecelerate

\* Power loss or NVIC_SystemReset: the statics of app_motor.c and what
\* HAL_Motor_Init programs, at any moment.
MotorReset ==
  /\ shaft' = [microsteps |-> DefaultMicrosteps, targetRPM |-> 0, totalMs |-> 1,
               startFreq |-> 0, targetFreq |-> 0, accelStepPerMs |-> 0]
  /\ currentState' = "STOPPED" /\ currentFreq' = 0
  /\ arr' = 0 /\ ccr' = 0 /\ timerOn' = FALSE /\ enabled' = FALSE /\ dir' = FALSE
  /\ mpc' = "idle" /\ startTicked' = FALSE
  /\ legFreq' = 0 /\ legTicks' = 0

-----------------------------------------------------------------------------

StartSteps == (\E d \in BOOLEAN : StartArm(d)) \/ StartSetArr \/ StartSetCcr
              \/ StartTimer

\* The client of the drive, main.c, asks for a profile in its STOPPED branch only
\* (module MainLoop shows it), where a tick does nothing: one step.
ProfileStates == {"STOPPED"}

RequestProfile(rpm, accel, microsteps) ==
  currentState \in ProfileStates /\ CalculateProfile(rpm, accel, microsteps)

RpmAllowed(rpm) == FirstRpmInRange => ProfileSet \/ ClampedRPM(rpm) < MaxRPM

MotorNext ==
  \/ \E rpm \in RpmRegs, accel \in AccelRegs, ms \in MicrostepRegs :
        RpmAllowed(rpm) /\ RequestProfile(rpm, accel, ms)
  \/ StartSteps
  \/ Stop
  \/ KinematicTick
  \/ MotorReset

\* What the drive may do.
MotorSafety == MotorInit /\ [][MotorNext]_motorVars

\* SysTick keeps firing, and the main loop does not stop inside
\* App_Motor_Start.  Nothing obliges it to start or to stop the motor.
MotorSpec == MotorSafety /\ WF_motorVars(KinematicTick) /\ WF_motorVars(StartSteps)
=============================================================================
