SPECIFICATION FairSpec
CONSTANTS
  Clients = {c1, c2}
  MaxOpen = 1
  MaxBytes = 3
  BufferSize = 2
INVARIANTS
  TypeOK
  EchoesInOrder
  OnlyShortWritesLose
PROPERTIES
  BacklogIsServed
