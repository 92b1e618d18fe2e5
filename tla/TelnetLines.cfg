SPECIFICATION Spec
CONSTANTS
  LIMIT = 2
  Lines <- MCLines
  MaxItems = 3
  Faults <- AllFaults
INVARIANTS
  LinesAsTyped
  OnlyOptionsAdded
  AwgGetsLines
