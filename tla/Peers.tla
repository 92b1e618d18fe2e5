------------------------------- MODULE Peers -------------------------------
(***************************************************************************)
(* The hosts at the other end of the sockets: external to the repository.  *)
(*                                                                         *)
(* A scope asks the RPC bind server for a port (by UDP, or by TCP on port  *)
(* 111), connects to the port it was granted, and makes one call at a time *)
(* until it destroys the link.  A user opens a telnet session and types.   *)
(* Faults says in what ways the hosts and the network may stray from that: *)
(*   retry      a scope asks again, or dials again, before it needs to     *)
(*   drop       a scope closes a connection it has not finished with       *)
(*   abort      a connection is reset                                      *)
(*   vanish     a host disappears without closing its connection           *)
(*   lost       a UDP reply is lost                                        *)
(*   silent     the AWG stops answering (used by EspBode)                  *)
(*   malformed  a write that takes the program down (used by EspBode)      *)
(***************************************************************************)
EXTENDS W5500, CyclicPort, Sequences, FiniteSets

CONSTANTS Faults,
          Requests,   \* the calls and lines the peers send
          UdpDepth,   \* bound: datagrams waiting in the UDP socket
          ConnLimit   \* bound: connections one scope holds at a time

ASSUME RequestAssumption == Requests \subseteq Calls
ASSUME FaultAssumption ==
  Faults \subseteq {"retry", "drop", "abort", "vanish", "lost", "silent", "malformed"}

VARIABLES udp,        \* datagrams in the UDP socket, oldest first
          asked,      \* scopes that wait for an answer by UDP
          grant       \* the port each scope was last told and has not dialled, or 0

peerVars == <<udp, asked, grant>>

Datagrams == [from : Scopes, call : BindCalls]

PeersInit == udp = <<>> /\ asked = {} /\ grant = [c \in Scopes |-> 0]

Conns(c) == {s \in Sock : sock[s].peer = c}

\* A scope that keeps to the protocol does one thing at a time.
MayAsk(c) == \/ "retry" \in Faults
             \/ c \notin asked /\ Conns(c) = {} /\ grant[c] = 0

AskUdp(c) ==
  /\ MayAsk(c)
  /\ Len(udp) < UdpDepth
  /\ \E r \in BindCalls \cap Requests : udp' = Append(udp, [from |-> c, call |-> r])
  /\ asked' = asked \cup {c}
  /\ UNCHANGED <<sock, grant>>

Dial(c, p) == \E s \in Sock : /\ sock[s] = Listening(p)
                              /\ sock' = [sock EXCEPT ![s] = Opened(p, c)]

DialBind(c) ==
  /\ MayAsk(c)
  /\ Cardinality(Conns(c)) < ConnLimit
  /\ Dial(c, BIND_PORT)
  /\ UNCHANGED peerVars

DialGranted(c) ==
  /\ grant[c] # 0
  /\ Cardinality(Conns(c)) < ConnLimit
  /\ Dial(c, grant[c])
  /\ grant' = [grant EXCEPT ![c] = 0]
  /\ UNCHANGED <<udp, asked>>

Refused(c) ==
  /\ grant[c] # 0
  /\ ~HasListener(sock, grant[c])
  /\ grant' = [grant EXCEPT ![c] = 0]
  /\ UNCHANGED <<sock, udp, asked>>

DialTelnet(u) ==
  /\ Conns(u) = {}
  /\ Dial(u, TELNET_PORT)
  /\ UNCHANGED peerVars

\* The calls a peer makes on a port, and whether it waits for the answer.
CallsOn(p) == IF p = TELNET_PORT THEN Lines
              ELSE IF p = BIND_PORT THEN BindCalls ELSE VxiCalls

Send(s, r) ==
  /\ sock[s].st = "estab" /\ sock[s].peer # NoPeer
  /\ sock[s].rx = NoCall /\ sock[s].wait = NoCall
  /\ r \in CallsOn(sock[s].port)
  /\ sock' = [sock EXCEPT ![s].rx = r,
                          ![s].wait = IF r \in Lines THEN NoCall ELSE r]
  /\ UNCHANGED peerVars

\* A host closes its end: at any time on a telnet session, between calls on
\* the bind port, and never on a VXI link unless it drops connections.
Fin(s) ==
  /\ sock[s].st = "estab" /\ sock[s].peer # NoPeer
  /\ \/ "drop" \in Faults
     \/ sock[s].port = TELNET_PORT
     \/ sock[s].port = BIND_PORT /\ sock[s].wait = NoCall
  /\ sock' = [sock EXCEPT ![s].st = "closewait", ![s].peer = NoPeer,
                          ![s].wait = NoCall]
  /\ UNCHANGED peerVars

Abort(s) ==
  /\ "abort" \in Faults
  /\ sock[s].st \in {"estab", "closewait"}
  /\ sock' = [sock EXCEPT ![s] = Closed]
  /\ UNCHANGED peerVars

Vanish(s) ==
  /\ "vanish" \in Faults
  /\ sock[s].st = "estab" /\ sock[s].peer # NoPeer
  /\ sock' = [sock EXCEPT ![s].peer = NoPeer, ![s].wait = NoCall]
  /\ UNCHANGED peerVars

\* The last acknowledgement of a close arrives.
LastAck(s) ==
  /\ sock[s].st = "lastack"
  /\ sock' = [sock EXCEPT ![s] = Closed]
  /\ UNCHANGED peerVars

PeerStep ==
  \/ \E c \in Scopes : AskUdp(c) \/ DialBind(c) \/ DialGranted(c) \/ Refused(c)
  \/ \E u \in Users : DialTelnet(u)
  \/ \E s \in Sock : \/ \E r \in Requests : Send(s, r)
                     \/ Fin(s) \/ Abort(s) \/ Vanish(s) \/ LastAck(s)
=============================================================================
