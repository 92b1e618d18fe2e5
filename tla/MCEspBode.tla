----------------------------- MODULE MCEspBode -----------------------------
(***************************************************************************)
(* Instances of EspBode for TLC: hosts are model values, and the sets of   *)
(* requests and faults the configurations choose from have names.          *)
(***************************************************************************)
EXTENDS EspBode

CONSTANTS s1, s2, u1

OneScope  == {s1}
TwoScopes == {s1, s2}
OneUser   == {u1}
NoUser    == {}

AllRpc    == BindCalls \cup VxiCalls
LinkRpc   == {"getport", "write", "badvxi", "destroy"}
WriteRpc  == {"getport", "write", "destroy"}
PlainRpc  == {"getport", "create", "destroy"}
PlainAll  == PlainRpc \cup {"toggle", "line"}

NoFaults  == {}
LinkFaults == {"drop", "vanish", "lost", "retry", "silent", "malformed"}
Resets    == {"abort", "drop", "malformed"}
Drops     == {"drop"}
BadWrites == {"malformed"}
=============================================================================
