SPECIFICATION EncoderSpec
CONSTANTS
  CountsPerTurn = 3
  TimerModulus = 3
  MicrosPerMs = 1
  MaxTime = 1
  CounterModulus = 2
  LongestRest = 3
INVARIANTS
  EncoderInv
  TurnMeasured
PROPERTIES
  SecondLookRight
  HeartbeatMoves
