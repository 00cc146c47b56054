SPECIFICATION PanelSpec
CONSTANTS
  DebounceTimeMs = 4
  SlowInterval = 3
  FastInterval = 2
INVARIANTS
  SwitchInv
  LampInv
PROPERTIES
  NoFalseToggle
  EvenBlinking
  KeepsBlinking
