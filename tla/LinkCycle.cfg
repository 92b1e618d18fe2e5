SPECIFICATION FairSpec
CONSTANTS
  s1 = s1
  s2 = s2
  u1 = u1
  NoPeer = NoPeer
  MAX_SOCK_NUM = 7
  VXI_PORT_START = 9010
  VXI_PORT_END = 9012
  UdpDepth = 1
  ConnLimit = 1
  Scopes <- OneScope
  Users <- NoUser
  Requests <- AllRpc
  Faults <- BadWrites
INVARIANT GrantDialable
INVARIANT NoOrphan
PROPERTY FreshListener
PROPERTY LinkEnds
PROPERTY EveryCallAnswered
