------------------------------- MODULE Switch -------------------------------
(***************************************************************************)
(* The operator's switch: src/src/app_switch.c over src/src/hal/hal_switch.c. *)
(* The contact bounces as it likes between two samples; SysTick samples it *)
(* once per millisecond.                                                   *)
(***************************************************************************)
EXTENDS Naturals, Sequences

CONSTANT DebounceTimeMs  \* DEBOUNCE_TIME_MS (code: 50)

ASSUME DebounceAssumption == DebounceTimeMs \in Nat \ {0}

VARIABLES
  pin,                 \* level of PE4, pulled up
  switchStableState,
  switchLastRawState,
  debounceCounter,
  samples              \* history: the last DebounceTimeMs + 1 raw states

switchVars == <<pin, switchStableState, switchLastRawState, debounceCounter, samples>>

\* HAL_Switch_GetRawState: the contact pulls the pin low when the switch is on.
RawState == pin = "low"

\* App_Switch_Init.
SwitchInit ==
  /\ pin \in {"low", "high"}
  /\ switchStableState = RawState /\ switchLastRawState = RawState
  /\ debounceCounter = 0
  /\ samples = <<RawState>>

Bounce ==
  /\ pin' \in {"low", "high"} \ {pin}
  /\ UNCHANGED <<switchStableState, switchLastRawState, debounceCounter, samples>>

Recorded(s) == LET t == Append(s, RawState) IN
               IF Len(t) > DebounceTimeMs + 1 THEN Tail(t) ELSE t

\* Mutant: a change does not restart the timer.
TimerRuns == debounceCounter
TimerReset == 0

\* Mutant: the timer is compared before it counts.
NeverElapsed == debounceCounter = DebounceTimeMs
Elapsed == debounceCounter + 1 = DebounceTimeMs

Counting == debounceCounter < DebounceTimeMs

\* The raw state changed, by bounce or by hand.
TickChanged ==
  /\ RawState # switchLastRawState
  /\ debounceCounter' = TimerReset /\ switchLastRawState' = RawState
  /\ samples' = Recorded(samples)
  /\ UNCHANGED <<pin, switchStableState>>

TickSteady ==
  /\ RawState = switchLastRawState /\ Counting
  /\ debounceCounter' = debounceCounter + 1
  /\ switchStableState' = IF Elapsed THEN RawState ELSE switchStableState
  /\ samples' = Recorded(samples)
  /\ UNCHANGED <<pin, switchLastRawState>>

TickSettled ==
  /\ RawState = switchLastRawState /\ ~Counting
  /\ samples' = Recorded(samples)
  /\ UNCHANGED <<pin, switchStableState, switchLastRawState, debounceCounter>>

SwitchTick == TickChanged \/ TickSteady \/ TickSettled
=============================================================================
