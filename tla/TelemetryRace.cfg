SPECIFICATION TxSpec
CONSTANTS
  ResponseLength = 5
  StreamLength = 4
  Positions = {0, 1, 2}
  NeverSent = 2
  Disciplines = {FALSE}
INVARIANTS
  PacketIntact
