SPECIFICATION LoopSpec
CONSTANTS
  MinStartRPM = 2
  MaxRPM = 6
  MinMicrosteps = 2
  DefaultMicrosteps = 3
  MsPerTenth = 2
  UnitsPerHz = 1
  Precision = 16
  Grain = 1
  TicksCounted = 2
  Floats <- MCFloats
  Even <- MCEven
  FirstRpmInRange = TRUE
  RpmRegs <- LowAndFour
  AccelRegs <- One
  MicrostepRegs <- Two
  DefaultSettings <- MCDefaults
  ClientRegs <- ControlRegs
  SwitchMoves = TRUE
  SwitchAtBoot <- Off
  PowerMayFail = TRUE
  FlashMayFail = FALSE
  Bauds <- One
  Invalid = Invalid
INVARIANTS
  SnapshotSafe
PROPERTIES
  UsesDriveProperly
  NoSurpriseMotion
  StopObeyed
  StartObeyed
  LampFollows
