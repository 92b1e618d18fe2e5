------------------------------ MODULE EspBode ------------------------------
(***************************************************************************)
(* The program (src/espBode.ino): one thread calls the loop() of the       *)
(* telnet server, the bind server and the VXI server in turn, while hosts  *)
(* come and go at the other end of the sockets they share.                 *)
(***************************************************************************)
EXTENDS RpcBindServer, TelnetServer

VARIABLE turn              \* the server whose loop() is running

vars == <<sock, stream, vxiVars, awg, bindVars, peerVars, telnetVars, turn>>

\* setup() resets the chip; then the servers take their sockets, in the order
\* of their begin().
SetupTable == [s \in Sock |-> CASE s = 0 -> Listening(VXI_PORT_START)
                                [] s = 1 -> Unused("udp", 0)
                                [] s = 2 -> Listening(BIND_PORT)
                                [] s = 3 -> Listening(TELNET_PORT)
                                [] OTHER -> Closed]

Init ==
  /\ sock = SetupTable
  /\ stream = NoSock
  /\ awg = "up"
  /\ turn = "telnet"
  /\ VxiInit /\ BindInit /\ PeersInit /\ TelnetInit

TelnetTurn == /\ turn = "telnet"
              /\ TelnetLoop
              /\ turn' = "bind"
              /\ UNCHANGED <<vxiVars, awg, bindVars, peerVars>>

BindTurn == /\ turn = "bind"
            /\ BindStep
            /\ turn' = IF bindAt' = "idle" THEN "vxi" ELSE "bind"
            /\ UNCHANGED telnetVars

VxiTurn == /\ turn = "vxi"
           /\ VxiStep
           /\ turn' = IF vxiAt' = "idle" THEN "telnet" ELSE "vxi"
           /\ UNCHANGED <<bindVars, peerVars, telnetVars>>

loop == TelnetTurn \/ BindTurn \/ VxiTurn

Env == /\ PeerStep
       /\ UNCHANGED <<stream, vxiVars, awg, bindVars, telnetVars, turn>>

\* The instrument is switched off, or its cable comes loose.
AwgFails == /\ "silent" \in Faults
            /\ awg' = "silent"
            /\ UNCHANGED <<sock, stream, vxiVars, bindVars, peerVars, telnetVars, turn>>

\* In write() a null pointer is read, and the processor restarts.  The chip
\* forgets its connections and the datagrams it holds; the hosts keep what
\* they were told, and a scope that asked by UDP goes on waiting.
Restart == /\ "malformed" \in Faults
           /\ vxiAt = "awg"
           /\ sock' = SetupTable
           /\ stream' = NoSock
           /\ client' = NoSock /\ vxi_port' = VXI_PORT_START
           /\ vxiAt' = "idle" /\ vreq' = NoCall
           /\ bindAt' = "idle" /\ bind_client' = NoSock
           /\ udp_remote' = NoPeer /\ bind_reply' = NoReply
           /\ telnet_client' = NoSock /\ pass_through' = FALSE
           /\ udp' = <<>>
           /\ turn' = "telnet"
           /\ UNCHANGED <<awg, asked, grant>>

Next == loop \/ Env \/ AwgFails \/ Restart

Spec == Init /\ [][Next]_vars

(***************************************************************************)
(* Fairness.  The thread of the program always runs; the chip completes a  *)
(* close; a scope that holds a link and is not kept waiting sooner or      *)
(* later destroys it (the last clause is about the scope, not the code).   *)
(***************************************************************************)
Finish  == Env /\ \E s \in Sock : LastAck(s)
Destroy == Env /\ \E s \in Sock : Send(s, "destroy")

Fairness == WF_vars(loop) /\ WF_vars(Finish) /\ SF_vars(Destroy)

FairSpec == Spec /\ Fairness

-----------------------------------------------------------------------------
\* Every variable has its type: the indexes are sockets or none, the VXI port
\* stays in its range and the response buffer holds a response.
TypeOK ==
  /\ sock \in [Sock -> SockRec]
  /\ stream \in Sock \cup {NoSock}
  /\ client \in Sock \cup {NoSock}
  /\ vxi_port \in VxiPorts
  /\ vxiAt \in {"idle", "awg", "send"}
  /\ vreq \in Calls \cup {NoCall}
  /\ awg \in {"up", "silent"}
  /\ bindAt \in {"idle", "udp", "tcp"}
  /\ bind_client \in Sock \cup {NoSock}
  /\ udp_remote \in Scopes \cup {NoPeer}
  /\ bind_reply \in Replies
  /\ udp \in Seq(Datagrams)
  /\ asked \subseteq Scopes
  /\ grant \in [Scopes -> VxiPorts \cup {0}]
  /\ telnet_client \in Sock \cup {NoSock}
  /\ pass_through \in BOOLEAN
  /\ turn \in {"telnet", "bind", "vxi"}

\* While no connection is reset, the socket VXI_Server::client holds is a
\* connection made on the port the VXI server listens on, in every state.
OwnConnection == client # NoSock => /\ sock[client].port = vxi_port
                                    /\ sock[client].st \in {"estab", "closewait"}

\* While no connection is reset, the three servers never read from or answer
\* on one another's connections.
NoSharedSocket ==
  \A s \in Sock : /\ ~(s = client /\ s = telnet_client)
                  /\ ~(s = client /\ s = bind_client)
                  /\ ~(s = telnet_client /\ s = bind_client)

\* The request being handled is the one the scope at the other end of the
\* client's connection is waiting to have answered: no reply goes to a scope
\* that asked for something else, or twice to one that asked once.
ReplyToCaller ==
  vxiAt # "idle" /\ sock[client].peer # NoPeer => sock[client].wait = vreq

\* While no connection is reset, a call a scope waits for on a connection is
\* still unread in its socket, or is being handled: no server drops a call it
\* has read and keeps the connection.  A restart drops both.
NoLostCall ==
  \A s \in Sock : sock[s].wait # NoCall =>
     \/ sock[s].rx = sock[s].wait
     \/ s = client /\ vxiAt # "idle" /\ vreq = sock[s].wait
     \/ s = bind_client /\ bindAt = "tcp"

\* While no connection is reset, ports 111 and 23 always have a socket, a
\* listener or a connection that has taken it, however many the VXI server
\* and its abandoned listeners use up.
ListenersKept ==
  \A p \in {BIND_PORT, TELNET_PORT} :
     \E s \in Sock : sock[s].port = p /\ sock[s].st \in {"listen", "estab", "closewait"}

\* With one scope that keeps to the protocol, a port it has been granted and
\* has not dialled is the current one and accepts its connection, even when
\* earlier links have left the table full of listeners.
GrantDialable ==
  \A c \in Scopes : grant[c] # 0 => grant[c] = vxi_port /\ HasListener(sock, grant[c])

\* With one scope that keeps to the protocol, it is never left connected to a
\* port no server looks at any more.
NoOrphan == \A s \in Sock : sock[s].peer \in Scopes => sock[s].port \in {BIND_PORT, vxi_port}

\* When a link ends, the next port is open at once: begin() cannot fail in
\* silence for want of a socket, because begin_next() gives one up first, and
\* setup() after a restart starts from an empty table.
FreshListener ==
  [][client # NoSock /\ client' = NoSock =>
       \E s \in Sock : sock'[s] = Listening(vxi_port')]_vars

\* The bind server and the VXI server together implement the port broker.
Broker == INSTANCE PortBroker WITH
            link <- IF client = NoSock THEN "free" ELSE "open",
            port <- vxi_port

BrokerSpec == Broker!Spec

\* A link does not last for ever, even when a write may restart the program:
\* the VXI server becomes available again.
LinkEnds == client # NoSock ~> client = NoSock

\* Every call a scope makes, by UDP, on the bind port or on its link, is
\* answered in the end, or its connection is lost by a restart: a scope is not
\* kept waiting on a connection that the program still holds.
Waits(c) == c \in asked \/ \E s \in Sock : sock[s].peer = c /\ sock[s].wait # NoCall

EveryCallAnswered == \A c \in Scopes : Waits(c) ~> ~Waits(c)

-----------------------------------------------------------------------------
\* src/debug.h:42: debugging output is sent "through the Telnet server", and
\* not into a connection of the other servers.
TextOnlyOnTelnet == \A s \in Sock : sock[s].txt => sock[s].port = TELNET_PORT

\* src/rpc_bind_server.cpp:45-46: requests are left unread "until a vxi_server
\* becomes available", so a datagram is read in the end.
DatagramRead == udp # <<>> ~> bindAt = "udp"
=============================================================================
