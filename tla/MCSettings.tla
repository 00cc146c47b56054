----------------------------- MODULE MCSettings -----------------------------
(* An instance of the settings for TLC. *)
EXTENDS SettingsProperties
CONSTANTS v1, v2
MCValues  == {v1, v2}
MCDefault == [w \in 1 .. PayloadWords |-> v1]
=============================================================================
