---------------------------- MODULE CyclicPort ----------------------------
(***************************************************************************)
(* The ports of the program (src/rpc_enums.h) and the cyclic_uint32_t that *)
(* holds the VXI port (src/utilities.h).                                   *)
(***************************************************************************)
EXTENDS Naturals

CONSTANTS VXI_PORT_START, VXI_PORT_END     \* 9010 and 9019 in the code

BIND_PORT   == 111
TELNET_PORT == 23

\* The code's range has ten ports; what is used of it is that it holds at
\* least two, that it is in order, and that it avoids the other two ports.
ASSUME PortAssumption == /\ VXI_PORT_START \in Nat /\ VXI_PORT_END \in Nat
                         /\ BIND_PORT < VXI_PORT_START
                         /\ VXI_PORT_START < VXI_PORT_END

VxiPorts == VXI_PORT_START .. VXI_PORT_END

\* Mutant: the test for the end of the range is off by one.
GotoNextPastEnd(p) == IF p <= VXI_PORT_END THEN p + 1 ELSE VXI_PORT_START

\* goto_next, behind the ++ of begin().
GotoNext(p) == IF p < VXI_PORT_END THEN p + 1 ELSE VXI_PORT_START
=============================================================================
