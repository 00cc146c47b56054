------------------------------- MODULE Encoder -------------------------------
(***************************************************************************)
(* The antenna's encoder: src/src/app_encoder.c over                       *)
(* src/src/hal/hal_encoder.c.  TIM4 counts the quadrature steps, TIM5 the  *)
(* microseconds; an edge of the index line (Z) interrupts at priority 0,   *)
(* restarts the count and times the revolution.  The main loop answers     *)
(* Modbus reads register by register and may erase the settings' flash     *)
(* sector, during which no interrupt is served.                            *)
(***************************************************************************)
EXTENDS Integers

CONSTANTS
  CountsPerTurn,   \* ENCODER_MAX_COUNT + 1 (code: 14400)
  TimerModulus,    \* of TIM5 (code: 2^32 microseconds)
  MicrosPerMs,     \* (code: 1000)
  MaxTime,         \* what the cycle time register holds (code: 65535)
  CounterModulus,  \* of the heartbeat (code: 2^16)
  LongestRest      \* bound: microseconds between two index edges

ASSUME EncoderAssumption ==
  /\ {CountsPerTurn, TimerModulus, MicrosPerMs, CounterModulus} \subseteq Nat \ {0}
  /\ MaxTime \in Nat /\ LongestRest \in Nat

VARIABLES
  angle,                 \* of the antenna; the index is at 0
  count,                 \* TIM4->CNT
  reversed,              \* CC1P in TIM4->CCER: the count is mirrored
  clock,                 \* TIM5->CNT
  zPending,              \* EXTI line 2 is pending
  isFirstPulse,
  lastZPulseCaptureUs,
  lastRevolutionTimeUs,
  cycleCounter,
  busy,                  \* the main loop: "no", "erase" or "read"
  time                   \* the cycle time the FC03 loop has read, at "read"

\* History.
VARIABLES
  synced,    \* since the last reversal an edge was served at the index
  edgeAge,   \* microseconds since the last edge
  lastTurn,  \* microseconds between the last two edges
  prompt,    \* [last, before]: those edges were served when they came
  heard,     \* the heartbeat of the last answer, -1 before the first
  beats      \* heartbeats since then, up to CounterModulus

encoderVars == <<angle, count, reversed, clock, zPending, isFirstPulse,
                 lastZPulseCaptureUs, lastRevolutionTimeUs, cycleCounter, busy, time,
                 synced, edgeAge, lastTurn, prompt, heard, beats>>

rotor == <<angle, zPending, edgeAge, lastTurn, prompt>>
pulses == <<isFirstPulse, lastZPulseCaptureUs, lastRevolutionTimeUs, cycleCounter, beats>>
reader == <<time, heard>>

EncoderInit ==
  /\ angle \in 0 .. CountsPerTurn - 1 /\ count = 0 /\ reversed \in BOOLEAN
  /\ clock = 0 /\ zPending = FALSE
  /\ isFirstPulse = TRUE /\ lastZPulseCaptureUs = 0 /\ lastRevolutionTimeUs = 0
  /\ cycleCounter = 0
  /\ busy = "no" /\ time = 0
  /\ synced = FALSE /\ edgeAge = 0 /\ lastTurn = 0
  /\ prompt = [last |-> FALSE, before |-> FALSE]
  /\ heard = -1 /\ beats = 0

-----------------------------------------------------------------------------

\* The interrupt takes less than a step of the encoder, unless the CPU stands
\* still; so neither the antenna nor time gets ahead of it.
Free == ~zPending \/ busy = "erase"

\* Mutant: the auto-reload register is one too large.
PastPeriod == CountsPerTurn + 1
\* TIM4's period, hal_encoder.c:113.
Period == CountsPerTurn

Turn(step) ==
  /\ Free
  /\ angle' = (angle + step) % CountsPerTurn
  /\ count' = (count + (IF reversed THEN -step ELSE step)) % Period
  /\ IF angle' = 0
       THEN /\ zPending' = TRUE /\ edgeAge' = 0 /\ lastTurn' = edgeAge
            /\ prompt' = [last |-> busy # "erase", before |-> prompt.last]
       ELSE UNCHANGED <<zPending, edgeAge, lastTurn, prompt>>
  /\ UNCHANGED <<reversed, clock, pulses, busy, reader, synced>>

Microsecond ==
  /\ Free /\ edgeAge < LongestRest
  /\ clock' = (clock + 1) % TimerModulus /\ edgeAge' = edgeAge + 1
  /\ UNCHANGED <<angle, zPending, lastTurn, prompt, count, reversed, pulses, busy, reader,
                 synced>>

\* Mutant: the capture is taken only when a revolution was timed.
CaptureOfTurns == IF isFirstPulse THEN lastZPulseCaptureUs ELSE clock
Capture == clock

\* Mutant: a heartbeat that saturates.
SaturatingBeat == IF cycleCounter = CounterModulus - 1 THEN cycleCounter ELSE cycleCounter + 1
NextBeat == (cycleCounter + 1) % CounterModulus

\* EXTI2_IRQHandler and App_Encoder_OnZeroPulse; edges that came during an
\* erase are served as one.
ServeZ ==
  /\ zPending /\ busy # "erase"
  /\ zPending' = FALSE
  /\ count' = 0
  /\ IF isFirstPulse
       THEN UNCHANGED <<lastRevolutionTimeUs, cycleCounter, beats>>
       ELSE /\ lastRevolutionTimeUs' = (clock - lastZPulseCaptureUs) % TimerModulus
            /\ cycleCounter' = NextBeat
            /\ beats' = IF beats < CounterModulus THEN beats + 1 ELSE beats
  /\ isFirstPulse' = FALSE /\ lastZPulseCaptureUs' = Capture
  /\ synced' = (angle = 0)
  /\ UNCHANGED <<angle, reversed, clock, busy, reader, edgeAge, lastTurn, prompt>>

-----------------------------------------------------------------------------
(* The main loop. *)

\* App_Encoder_SetDirection does not touch the count.
SetDirection(r) ==
  /\ busy = "no" /\ Free
  /\ reversed' = r /\ synced' = (synced /\ r = reversed)
  /\ UNCHANGED <<rotor, count, clock, pulses, busy, reader>>

\* App_Encoder_GetCycleTime.
CycleTime(us) == LET ms == us \div MicrosPerMs IN IF ms > MaxTime THEN MaxTime ELSE ms

\* The FC03 loop over REG_CYCLE_TIME and REG_CYCLE_COUNTER.
ReadTime ==
  /\ busy = "no"
  /\ busy' = "read" /\ time' = CycleTime(lastRevolutionTimeUs)
  /\ UNCHANGED <<rotor, count, reversed, clock, pulses, synced, heard>>

ReadCounter ==
  /\ busy = "read"
  /\ busy' = "no" /\ heard' = cycleCounter /\ beats' = 0 /\ time' = 0
  /\ UNCHANGED <<rotor, count, reversed, clock, isFirstPulse, lastZPulseCaptureUs,
                 lastRevolutionTimeUs, cycleCounter, synced>>

\* HAL_FLASHEx_Erase in App_Settings_Save.
EraseBegins ==
  /\ busy = "no" /\ ~zPending /\ busy' = "erase"
  /\ UNCHANGED <<rotor, count, reversed, clock, pulses, reader, synced>>

EraseEnds ==
  /\ busy = "erase" /\ busy' = "no"
  /\ UNCHANGED <<rotor, count, reversed, clock, pulses, reader, synced>>

EncoderNext ==
  \/ \E step \in {1, -1} : Turn(step)
  \/ Microsecond \/ ServeZ
  \/ \E r \in BOOLEAN : SetDirection(r)
  \/ ReadTime \/ ReadCounter \/ EraseBegins \/ EraseEnds

\* The interrupt is served and an erase ends.
EncoderSpec ==
  /\ EncoderInit /\ [][EncoderNext]_encoderVars
  /\ WF_encoderVars(ServeZ) /\ WF_encoderVars(EraseEnds)
=============================================================================
