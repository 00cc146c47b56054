--------------------------------- MODULE Lamp ---------------------------------
(***************************************************************************)
(* The lamp that shows what the motor does: src/src/app_lamp.c over        *)
(* src/src/hal/hal_lamp.c.  The main loop sets the mode; SysTick blinks,   *)
(* and may come between the stores of App_Lamp_SetMode.  Lamp 1 of the     *)
(* table is never set and stays off.                                       *)
(***************************************************************************)
EXTENDS Naturals

CONSTANTS SlowInterval, FastInterval  \* BLINK_..._INTERVAL_MS (code: 500, 100)

ASSUME IntervalAssumption ==
  {SlowInterval, FastInterval} \subseteq Nat \ {0} /\ FastInterval < SlowInterval

VARIABLES
  mode,         \* currentModes[0]
  timeCounter,  \* timeCounters[0]
  lit,          \* the output pin
  setting,      \* the next store of App_Lamp_SetMode, or "none"
  ticked,       \* SysTick came during this App_Lamp_SetMode
  steady,       \* history: ticks since the pin or the mode changed
  modeBefore    \* history: the mode before the last App_Lamp_SetMode that changed it

lampVars == <<mode, timeCounter, lit, setting, ticked, steady, modeBefore>>

Modes == {"OFF", "ON", "BLINK_SLOW", "BLINK_FAST"}
Interval == IF mode = "BLINK_FAST" THEN FastInterval ELSE SlowInterval

\* Mutant: the tick tests for a lamp that is not off.
NotOff == mode # "OFF"
\* Mutant: one mode is not handled.
OnlyFast == mode = "BLINK_FAST"
Blinking == mode \in {"BLINK_SLOW", "BLINK_FAST"}

LampInit ==
  /\ mode = "OFF" /\ timeCounter = 0 /\ lit = FALSE
  /\ setting = "none" /\ ticked = FALSE /\ steady = 0
  /\ modeBefore = "OFF"

\* A mode that is already set is left alone, so that the loop may repeat it.
StoreMode ==
  /\ setting = "none"
  /\ mode' \in Modes \ {mode} /\ modeBefore' = mode
  /\ setting' = "counter" /\ ticked' = FALSE /\ steady' = 0
  /\ UNCHANGED <<timeCounter, lit>>

\* Mutant: the timer goes on across modes.
TimerKept == timeCounter
TimerRestarted == 0

StoreCounter ==
  /\ setting = "counter"
  /\ timeCounter' = TimerRestarted /\ setting' = "pin"
  /\ UNCHANGED <<mode, lit, ticked, steady, modeBefore>>

StorePin ==
  /\ setting = "pin"
  /\ lit' = (IF mode \in {"OFF", "ON"} THEN mode = "ON" ELSE lit) /\ setting' = "none"
  /\ UNCHANGED <<mode, timeCounter, ticked, steady, modeBefore>>

SetMode == StoreMode \/ StoreCounter \/ StorePin

Due == timeCounter + 1 >= Interval

\* App_Lamp_Tick_1ms; App_Lamp_SetMode takes less than a millisecond.
LampTick ==
  /\ setting = "none" \/ ~ticked
  /\ ticked' = (setting # "none")
  /\ timeCounter' = IF ~Blinking THEN timeCounter ELSE IF Due THEN 0 ELSE timeCounter + 1
  /\ lit' = (lit # (Blinking /\ Due))
  /\ steady' = IF Blinking /\ ~Due THEN steady + 1 ELSE 0
  /\ UNCHANGED <<mode, setting, modeBefore>>
=============================================================================
