SPECIFICATION ScpiSpec
CONSTANTS
  Channels = 2
  Retry = 1
  Params <- MCParams
  STEP = 1
  Values <- MCValues
  InRange <- MCInRange
  Inexact <- MCInexact
  Huge = 8
  NoValue = 9
  Typed <- MCTyped
  Depth = 0
  Faults <- AUser
  Lines <- MCLines
  Begins <- MCBegins
  NumberOf <- MCNumberOf
  Sine = 0
INVARIANTS
  WriteApplied
  ReadTypeOfLine
PROPERTIES
  OnlyNamed
