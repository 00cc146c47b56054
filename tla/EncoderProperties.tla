-------------------------- MODULE EncoderProperties --------------------------
(* What makes the measurements of module Encoder correct. *)
EXTENDS Encoder

\* The types of the registers and statics; the position register stays in its
\* range and the cycle time in sixteen bits.
EncoderTypeOK ==
  /\ angle \in 0 .. CountsPerTurn - 1 /\ count \in 0 .. CountsPerTurn - 1
  /\ {reversed, zPending, isFirstPulse, synced} \subseteq BOOLEAN
  /\ {clock, lastZPulseCaptureUs, lastRevolutionTimeUs} \subseteq 0 .. TimerModulus - 1
  /\ cycleCounter \in 0 .. CounterModulus - 1
  /\ busy \in {"no", "erase", "read"} /\ time \in 0 .. MaxTime
  /\ {edgeAge, lastTurn} \subseteq 0 .. LongestRest
  /\ heard \in -1 .. CounterModulus - 1 /\ beats \in 0 .. CounterModulus

\* Once an edge was served at the index, the position is the angle of the
\* antenna, or its mirror image, over any number of turns either way, until the
\* direction is changed or an erase delays an edge (app_encoder.c:89).
CountFollowsAngle ==
  synced => count = (IF reversed THEN -angle ELSE angle) % CountsPerTurn

\* Types, and the position register is the angle of the antenna.
EncoderInv == EncoderTypeOK /\ CountFollowsAngle

\* The last two edges were served when they came, and less than the range of
\* the timer apart.
TurnTimed == prompt.last /\ prompt.before /\ ~zPending /\ lastTurn < TimerModulus

\* The time of a revolution is right although the timer wraps within it, from
\* the first whole revolution after boot on (app_encoder.c:92-98).
TurnMeasured == TurnTimed => lastRevolutionTimeUs = lastTurn

\* A client that sees the same heartbeat twice has, in the second answer, the
\* time of the revolution that heartbeat stands for: the interrupt that may
\* fall between the two reads of FC03 (app_modbus.c:162-163) spoils the first
\* answer with a new heartbeat only.  The client polls at least once in
\* CounterModulus - 1 revolutions.
SecondLookRight ==
  [][ReadCounter /\ cycleCounter = heard /\ beats < CounterModulus /\ TurnTimed
       => time = CycleTime(lastTurn)]_encoderVars

\* An antenna that keeps passing the index keeps the heartbeat moving, erases
\* notwithstanding.
HeartbeatMoves ==
  []<>zPending => []<><<cycleCounter' # cycleCounter>>_encoderVars

-----------------------------------------------------------------------------
(* The inductive invariant: EncoderTypeOK and CountFollowsAngle             *)
(* strengthened by what the capture, the heartbeat and the reader rest on.  *)

\* An edge that is served when it comes finds the clock where the edge left it:
\* from then on the clock is as far from the capture as the edge is old.
CaptureInv ==
  /\ prompt \in [last : BOOLEAN, before : BOOLEAN]
  /\ prompt.last /\ ~zPending =>
       /\ ~isFirstPulse
       /\ (clock - lastZPulseCaptureUs) % TimerModulus = edgeAge % TimerModulus
  /\ prompt.last /\ zPending =>
       /\ busy # "erase" /\ edgeAge = 0
       /\ prompt.before =>
            /\ ~isFirstPulse
            /\ (clock - lastZPulseCaptureUs) % TimerModulus = lastTurn % TimerModulus
  /\ prompt.last /\ prompt.before /\ ~zPending =>
       lastRevolutionTimeUs = lastTurn % TimerModulus

\* The heartbeat is the one of the last answer and the beats since; without a
\* beat the time just read is that of the last revolution still.
BeatInv ==
  /\ heard # -1 /\ beats < CounterModulus =>
       cycleCounter = (heard + beats) % CounterModulus
  /\ busy = "read" /\ beats = 0 => time = CycleTime(lastRevolutionTimeUs)

EncoderIInv == EncoderTypeOK /\ CountFollowsAngle /\ CaptureInv /\ BeatInv
=============================================================================
