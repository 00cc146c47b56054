-------------------------- MODULE SwitchProperties --------------------------
(* What makes the debouncing of module Switch correct. *)
EXTENDS Switch, FiniteSets

\* The types of the statics.
SwitchTypeOK ==
  /\ pin \in {"low", "high"}
  /\ switchStableState \in BOOLEAN /\ switchLastRawState \in BOOLEAN
  /\ debounceCounter \in 0 .. DebounceTimeMs
  /\ Len(samples) \in 1 .. DebounceTimeMs + 1

Samples == {samples[n] : n \in 1 .. Len(samples)}

\* A contact that was sampled the same for the whole debounce time, the sample
\* that discovers the change included, is reported: no longer delay
\* (app_switch.c:26-36).
Responsive ==
  Len(samples) = DebounceTimeMs + 1 /\ Cardinality(Samples) = 1
  => Samples = {switchStableState}

\* Types, and a contact at rest is reported in time.
SwitchInv == SwitchTypeOK /\ Responsive

\* The reported state only changes to one that was sampled for the whole
\* debounce time: no burst of bounces, however long, toggles it.
NoFalseToggle ==
  [][switchStableState' # switchStableState
       => /\ Len(samples') = DebounceTimeMs + 1
          /\ \A n \in 1 .. Len(samples') : samples'[n] = switchStableState']_switchVars

-----------------------------------------------------------------------------
(* The inductive invariant: SwitchInv strengthened by what the counter says *)
(* of the samples.                                                         *)

\* While the timer runs, debounceCounter samples before the last one are like it
\* and the one before those, if there is one, is not; once it has run out all
\* are alike, and reported.
CounterInv ==
  LET n == Len(samples) IN
  /\ debounceCounter < n
  /\ \A k \in n - debounceCounter .. n : samples[k] = switchLastRawState
  /\ debounceCounter < DebounceTimeMs /\ debounceCounter + 1 < n =>
       samples[n - debounceCounter - 1] # switchLastRawState
  /\ debounceCounter = DebounceTimeMs => switchStableState = switchLastRawState

SwitchIInv == SwitchTypeOK /\ samples \in Seq(BOOLEAN) /\ CounterInv
=============================================================================
