---------------------------- MODULE MotionPhases ----------------------------
(***************************************************************************)
(* What the drive promises to the rest of the firmware, without profiles,  *)
(* frequencies or ticks: the life cycle of a motion.  A motion is launched *)
(* from rest only and fixes the heading; STEP pulses begin some time after *)
(* and end exactly when the motion does; a motion that was told to halt    *)
(* runs down and cannot be relaunched on the way.                          *)
(***************************************************************************)
VARIABLES phase,    \* "rest", "rising", "steady" or "falling"
          heading,  \* the DIR pin
          pulses    \* STEP pulses are being generated

phaseVars == <<phase, heading, pulses>>

PhaseInit == phase = "rest" /\ heading = FALSE /\ pulses = FALSE

Launch == /\ phase = "rest" /\ ~pulses
          /\ phase' = "rising" /\ heading' \in BOOLEAN /\ UNCHANGED pulses

Energise == /\ phase \in {"rising", "steady"} /\ ~pulses
            /\ pulses' = TRUE /\ UNCHANGED <<phase, heading>>

Arrive == /\ phase = "rising"
          /\ phase' = "steady" /\ UNCHANGED <<heading, pulses>>

Halt == /\ phase \in {"rising", "steady"} /\ pulses
        /\ phase' = "falling" /\ UNCHANGED <<heading, pulses>>

Land == /\ phase = "falling" /\ pulses
        /\ phase' = "rest" /\ pulses' = FALSE /\ UNCHANGED heading

\* The processor is reset or loses power: an abrupt stop.
PowerCut == phase' = "rest" /\ heading' = FALSE /\ pulses' = FALSE

PhaseNext == Launch \/ Energise \/ Arrive \/ Halt \/ Land \/ PowerCut

\* A rise ends, pulses follow a launch, and a fall reaches rest.
PhaseSpec ==
  /\ PhaseInit /\ [][PhaseNext]_phaseVars
  /\ WF_phaseVars(Arrive) /\ WF_phaseVars(Energise) /\ WF_phaseVars(Land)
=============================================================================
