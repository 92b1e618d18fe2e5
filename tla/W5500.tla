------------------------------- MODULE W5500 -------------------------------
(***************************************************************************)
(* The socket table of the W5500 Ethernet chip, as src/net_compat.h and    *)
(* the servers see it through the Arduino Ethernet library.  The library   *)
(* is external to the repository: the operators below say what the calls   *)
(* the program makes (EthernetServer begin / available, EthernetClient     *)
(* connected / available / read / write / stop) do to the table.           *)
(*                                                                         *)
(* A client object of the program is only an index into this table, so two *)
(* objects that hold the same index share one connection.                  *)
(***************************************************************************)
EXTENDS Naturals

CONSTANTS MAX_SOCK_NUM,   \* hardware sockets of the chip (8 on a W5500)
          Scopes,         \* oscilloscopes: the RPC / VXI-11 peers
          Users,          \* hosts that open a telnet session
          NoPeer          \* "nobody at the other end any more"

ASSUME SockAssumption == MAX_SOCK_NUM \in Nat /\ MAX_SOCK_NUM >= 4
ASSUME PeerAssumption == Scopes \cap Users = {} /\ NoPeer \notin Scopes \cup Users

VARIABLE sock             \* the table: one record per hardware socket

Sock   == 0 .. MAX_SOCK_NUM - 1
NoSock == MAX_SOCK_NUM    \* the index of a client object that holds no socket
Peer   == Scopes \cup Users

(***************************************************************************)
(* What a peer sends.  An RPC call is known by its program and procedure,  *)
(* a telnet line by whether it toggles the passthrough.                    *)
(***************************************************************************)
BindCalls == {"getport", "badbind"}
VxiCalls  == {"create", "write", "read", "destroy", "badvxi"}
Lines     == {"toggle", "line"}
NoCall    == "none"
Calls     == BindCalls \cup VxiCalls \cup Lines

States == {"closed", "listen", "estab", "closewait", "lastack", "udp"}

(***************************************************************************)
(* One socket: its status and server port; the peer that still holds the   *)
(* other end; the received and unread call; the call the peer is waiting   *)
(* to have answered; and whether telnet or debug text was written to it.   *)
(***************************************************************************)
SockRec == [st : States, port : Nat, peer : Peer \cup {NoPeer},
            rx : Calls \cup {NoCall}, wait : Calls \cup {NoCall}, txt : BOOLEAN]

Unused(st, p)  == [st |-> st, port |-> p, peer |-> NoPeer,
                   rx |-> NoCall, wait |-> NoCall, txt |-> FALSE]
Closed         == Unused("closed", 0)
Listening(p)   == Unused("listen", p)
Opened(p, c)   == [Unused("estab", p) EXCEPT !.peer = c]

Lowest(S)  == {s \in S : \A t \in S : s <= t}
Highest(S) == {s \in S : \A t \in S : t <= s}
WithSt(tbl, st) == {s \in Sock : tbl[s].st = st}

(***************************************************************************)
(* socketBegin takes the first CLOSED socket and, when there is none,      *)
(* closes and takes the first one that is on its way to be closed.         *)
(***************************************************************************)
Free(tbl) == Lowest(IF WithSt(tbl, "closed") # {} THEN WithSt(tbl, "closed")
                                                  ELSE WithSt(tbl, "lastack"))

\* EthernetServer::begin: nothing happens, silently, when no socket is free.
Begin(tbl, p) == [s \in Sock |-> IF s \in Free(tbl) THEN Listening(p) ELSE tbl[s]]

(***************************************************************************)
(* EthernetServer::available, behind NetServer_ext::accept: a sweep over   *)
(* the sockets of port p that disconnects those the peer has closed and    *)
(* that hold no data, listens again when no socket listens, and returns    *)
(* the last connection with unread data.                                   *)
(***************************************************************************)
Swept(tbl, p) ==
  [s \in Sock |->
     IF tbl[s].port = p /\ tbl[s].st = "closewait" /\ tbl[s].rx = NoCall
     THEN Unused("lastack", p)
     ELSE tbl[s]]

HasListener(tbl, p) == \E s \in Sock : tbl[s].st = "listen" /\ tbl[s].port = p

\* Mutant: a port whose last listener was taken is not listened on again.
AvailableNoRelisten(tbl, p) == Swept(tbl, p)

Available(tbl, p) == IF HasListener(tbl, p) THEN Swept(tbl, p)
                                            ELSE Begin(Swept(tbl, p), p)

Ready(tbl, p) == {s \in Sock : /\ tbl[s].port = p
                               /\ tbl[s].st \in {"estab", "closewait"}
                               /\ tbl[s].rx # NoCall}

Accepted(tbl, p) == IF Highest(Ready(tbl, p)) = {} THEN NoSock
                    ELSE CHOOSE s \in Highest(Ready(tbl, p)) : TRUE

(***************************************************************************)
(* EthernetClient.  A socket index is never checked against the connection *)
(* it was obtained for: every test looks at what the socket is now.        *)
(***************************************************************************)
Connected(tbl, s) == /\ s # NoSock
                     /\ tbl[s].st \notin {"listen", "closed"}
                     /\ tbl[s].st = "closewait" => tbl[s].rx # NoCall

Writable(tbl, s) == s # NoSock /\ tbl[s].st \in {"estab", "closewait"}

Stop(tbl, s)    == [tbl EXCEPT ![s] = Closed]
Consume(tbl, s) == [tbl EXCEPT ![s].rx = NoCall]
Deliver(tbl, s) == [tbl EXCEPT ![s].wait = NoCall]
=============================================================================
