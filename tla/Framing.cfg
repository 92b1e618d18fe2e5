SPECIFICATION FairSpec
CONSTANTS
  READ_SIZE = 7
  HEADER = 3
  MaxPackets = 2
  Faults <- AllFaults
INVARIANTS
  InStep
PROPERTIES
  CallAnswered
