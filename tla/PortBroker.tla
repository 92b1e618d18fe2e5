---------------------------- MODULE PortBroker ----------------------------
(***************************************************************************)
(* What the bind server and the VXI server promise the scopes together:    *)
(* there is one link at a time, a port is only given out while there is    *)
(* none, the port given out is the one the next link will be opened on,    *)
(* and each link has a port other than the link before it, unless a write  *)
(* has restarted the program in between.                                   *)
(***************************************************************************)
EXTENDS CyclicPort

CONSTANTS Scopes, Faults

VARIABLES link,     \* "free" or "open"
          port,     \* the port of the open link, or of the next one
          grant     \* the port each scope was told and has not used, or 0

vars == <<link, port, grant>>

Init == /\ link = "free"
        /\ port = VXI_PORT_START
        /\ grant = [c \in Scopes |-> 0]

Grant(c) == /\ link = "free"
            /\ grant' = [grant EXCEPT ![c] = port]
            /\ UNCHANGED <<link, port>>

Use(c) == /\ grant[c] # 0
          /\ grant' = [grant EXCEPT ![c] = 0]
          /\ UNCHANGED <<link, port>>

Open == /\ link = "free"
        /\ link' = "open"
        /\ UNCHANGED <<port, grant>>

Close == /\ link = "open"
         /\ link' = "free"
         /\ port' = GotoNext(port)
         /\ UNCHANGED grant

Restart == /\ "malformed" \in Faults
           /\ link = "open"
           /\ link' = "free"
           /\ port' = VXI_PORT_START
           /\ UNCHANGED grant

Next == \/ \E c \in Scopes : Grant(c) \/ Use(c)
        \/ Open \/ Close \/ Restart

Spec == Init /\ [][Next]_vars
=============================================================================
