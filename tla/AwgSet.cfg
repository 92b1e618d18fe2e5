SPECIFICATION FairSpec
CONSTANTS
  Channels = 1
  Retry = 2
  Params <- OneParam
  STEP = 10
  Values <- MCValues
  InRange <- MCInRange
  Inexact <- MCInexact
  Huge = 90
  NoValue = 99
  Typed <- MCTyped
  Depth = 2
  Faults <- AnyFault
INVARIANTS
  TypeOK
  InStep
  VerifiedWithin
  FailedIsRefused
PROPERTIES
  SetReturns
