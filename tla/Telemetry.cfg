SPECIFICATION TelemetrySpec
CONSTANTS
  ResponseLength = 5
  StreamLength = 4
  Positions = {0, 1}
  NeverSent = 1
  Disciplines = {TRUE, FALSE}
  Noise = {0, 255}
  CrcOf <- MCCrcOf
  RequestCrc <- MCRequestCrc
INVARIANTS
  TxInv
PROPERTIES
  RunsToEnd
  LineFrees
  SecondRequestHeard
  OnlyRequestsAnswered
  RepeatsServed
