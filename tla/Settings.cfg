SPECIFICATION SettingsSpec
CONSTANTS
  PayloadWords = 2
  Magic = Magic
  Erased = Erased
  Garbage = Garbage
  v1 = v1
  v2 = v2
  Values <- MCValues
  Default <- MCDefault
INVARIANTS
  SettingsInv
PROPERTIES
  NeverTorn
  ImplementsStore
