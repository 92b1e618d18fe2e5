SPECIFICATION Spec
CONSTANTS
  LIMIT = 2
  Lines <- MCLines
  MaxItems = 2
  Faults <- AllFaults
INVARIANT
  NegotiationsFiltered
