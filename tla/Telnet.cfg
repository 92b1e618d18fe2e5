SPECIFICATION Spec
CONSTANTS
  s1 = s1
  s2 = s2
  u1 = u1
  NoPeer = NoPeer
  MAX_SOCK_NUM = 5
  VXI_PORT_START = 9010
  VXI_PORT_END = 9011
  UdpDepth = 1
  ConnLimit = 1
  Scopes <- OneScope
  Users <- OneUser
  Requests <- PlainAll
  Faults <- NoFaults
INVARIANT OwnConnection
INVARIANT NoSharedSocket
INVARIANT ListenersKept
