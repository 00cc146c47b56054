-------------------------------- MODULE Panel --------------------------------
(* The operator's panel: switch and lamp, served by the same SysTick once per *)
(* millisecond (SysTick_Handler in src/src/main.c). *)
EXTENDS SwitchProperties, LampProperties

PanelInit == SwitchInit /\ LampInit

SysTick == SwitchTick /\ LampTick

PanelNext ==
  \/ Bounce /\ UNCHANGED lampVars
  \/ SetMode /\ UNCHANGED switchVars
  \/ SysTick

panelVars == <<switchVars, lampVars>>

\* SysTick keeps firing, and App_Lamp_SetMode returns.
PanelSpec ==
  /\ PanelInit /\ [][PanelNext]_panelVars
  /\ WF_panelVars(SysTick)
  /\ WF_panelVars((StoreCounter \/ StorePin) /\ UNCHANGED switchVars)
=============================================================================
