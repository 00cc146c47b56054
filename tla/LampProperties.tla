--------------------------- MODULE LampProperties ---------------------------
(* What makes the lamp of module Lamp correct. *)
EXTENDS Lamp

\* The types of the statics; no timer runs past its interval.
LampTypeOK ==
  /\ {mode, modeBefore} \subseteq Modes /\ timeCounter \in 0 .. SlowInterval - 1
  /\ lit \in BOOLEAN /\ ticked \in BOOLEAN
  /\ setting \in {"none", "counter", "pin"} /\ steady \in 0 .. SlowInterval

\* A lamp that is off is dark and one that is on is lit, although a tick may
\* have toggled it between any two stores of App_Lamp_SetMode: OFF and ON tell a
\* resting motor from a cruising one (main.c:322, :341).
StaticHonest ==
  setting = "none" => (mode = "OFF" => ~lit) /\ (mode = "ON" => lit)

\* Types, and a lamp that does not blink shows its mode.
LampInv == LampTypeOK /\ StaticHonest

\* A tick between the first two stores of App_Lamp_SetMode compares the counter of
\* the old mode with the interval of the new one (app_lamp.c:31-32).
StaleSlowCounter ==
  setting = "counter" /\ modeBefore = "BLINK_SLOW" /\ mode = "BLINK_FAST"

\* A blinking lamp changes after its interval, from the last change or from the
\* moment the mode was set, or one tick later if the tick that falls into
\* App_Lamp_SetMode is not counted.  It changes earlier in one case only: on the
\* tick that finds the counter of a slowly blinking lamp in a lamp just set to
\* blink fast; not when it comes from any other mode.  (main.c never sets
\* BLINK_SLOW.)
EvenBlinking ==
  [][LampTick /\ Blinking /\ lit' # lit
       => steady + 1 \in {Interval, Interval + 1} \/ StaleSlowCounter]_lampVars

\* A lamp left in a blinking mode goes on blinking: a climbing motor is not
\* mistaken for one at rest or at speed.
KeepsBlinking ==
  \A m \in {"BLINK_SLOW", "BLINK_FAST"} : <>[](mode = m) => []<>lit /\ []<>~lit

-----------------------------------------------------------------------------
(* The inductive invariant: LampInv strengthened by what the timer says of  *)
(* the ticks since the last change.                                        *)

\* What the first tick after the store of a mode may find in the timer.
OldTimer ==
  /\ steady = 0
  /\ modeBefore \in {"OFF", "ON"} => timeCounter = 0
  /\ modeBefore = "BLINK_FAST" => timeCounter < FastInterval

\* A blinking lamp's timer has counted the ticks since the change, or all but
\* the one that fell between the first two stores of App_Lamp_SetMode; without
\* blinking it stands at 0.
TimerInv ==
  /\ setting = "counter" =>
       modeBefore # mode /\ steady <= 1 /\ (~ticked => OldTimer)
  /\ setting # "counter" /\ ~Blinking => timeCounter = 0
  /\ setting # "counter" /\ Blinking =>
       timeCounter < Interval /\ steady \in {timeCounter, timeCounter + 1}

LampIInv == LampTypeOK /\ StaticHonest /\ TimerInv
=============================================================================
