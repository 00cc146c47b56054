SPECIFICATION ServerSpec
CONSTANTS
  Values = {0, 1}
  Saved = 0
  Windows = {1, 2}
  SendQueue = 2
  RingSize = 1
  Buffers = 2
  Ids = {1, 2, 3}
  None = None
INVARIANTS
  ViewHonest
  EchoBeforeReboot
  ServerInv
PROPERTIES
  HearsAgain
  TurnsAnswered
  ImplementsRegister
