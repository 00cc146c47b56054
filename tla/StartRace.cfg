SPECIFICATION MotorSpec
CONSTANTS
  MinStartRPM = 2
  MaxRPM = 6
  MinMicrosteps = 2
  DefaultMicrosteps = 3
  MsPerTenth = 2
  UnitsPerHz = 1
  Precision = 16
  Grain = 8
  TicksCounted = 8
  FirstRpmInRange = TRUE
  Floats <- MCFloats
  Even <- MCEven
  RpmRegs <- MCRpmRegs
  AccelRegs <- MCAccelShortest
  MicrostepRegs <- MCMicrostepRegs
INVARIANTS
  CruiseAlwaysAtTarget
