--------------------------- MODULE EspBodeProofs ---------------------------
(***************************************************************************)
(* Theorems about the whole program, for any number of sockets, scopes and *)
(* users and any range of ports.                                           *)
(***************************************************************************)
EXTENDS EspBode, W5500Proofs

USE DEF Tables

LEMMA Ports == /\ BIND_PORT \in Nat /\ TELNET_PORT \in Nat
               /\ VxiPorts \subseteq Nat
               /\ VXI_PORT_START \in VxiPorts
               /\ BIND_PORT \notin VxiPorts /\ TELNET_PORT \notin VxiPorts
               /\ 0 \notin VxiPorts
BY PortAssumption DEF BIND_PORT, TELNET_PORT, VxiPorts

LEMMA GotoNextType == \A p \in VxiPorts : GotoNext(p) \in VxiPorts /\ GotoNext(p) # p
BY PortAssumption DEF VxiPorts, GotoNext, BIND_PORT

LEMMA LogType ==
  ASSUME NEW tbl \in Tables, stream \in Sock \cup {NoSock}
  PROVE  Log(tbl) \in Tables
BY TextType DEF Log

-----------------------------------------------------------------------------
(***************************************************************************)
(* Type correctness.                                                       *)
(***************************************************************************)
LEMMA SetupType == SetupTable \in Tables
<1>1. \A st \in States, p \in Nat : Unused(st, p) \in SockRec
  BY UnusedType
<1>2. /\ Listening(VXI_PORT_START) \in SockRec /\ Listening(BIND_PORT) \in SockRec
      /\ Listening(TELNET_PORT) \in SockRec /\ Closed \in SockRec
      /\ Unused("udp", 0) \in SockRec
  BY <1>1, Ports DEF Listening, Closed, States
<1> QED
  BY <1>2 DEF SetupTable

\* After setup() each server listens on its port, and nobody is connected.
LEMMA SetupSockets ==
  /\ 0 \in Sock /\ SetupTable[0] = Listening(VXI_PORT_START)
  /\ 2 \in Sock /\ SetupTable[2] = Listening(BIND_PORT)
  /\ 3 \in Sock /\ SetupTable[3] = Listening(TELNET_PORT)
  /\ \A s \in Sock : /\ SetupTable[s].peer = NoPeer /\ SetupTable[s].wait = NoCall
                      /\ SetupTable[s].st \notin {"estab", "closewait"}
<1>1. 0 \in Sock /\ 2 \in Sock /\ 3 \in Sock
  BY SockAssumption DEF Sock
<1> QED
  BY <1>1 DEF SetupTable, Listening, Closed, Unused

LEMMA InitType == Init => TypeOK
<1> SUFFICES ASSUME Init PROVE TypeOK
  OBVIOUS
<1>3. sock \in [Sock -> SockRec]
  BY SetupType DEF Init
<1>4. udp \in Seq(Datagrams) /\ asked \subseteq Scopes /\ grant \in [Scopes -> VxiPorts \cup {0}]
  BY DEF Init, PeersInit
<1>5. bind_reply \in Replies
  BY DEF Init, BindInit, NoReply, Replies
<1> QED
  BY <1>3, <1>4, <1>5, Ports DEF Init, TypeOK, VxiInit, BindInit, TelnetInit, Sock, NoSock

LEMMA TelnetType == TypeOK /\ TelnetTurn => TypeOK'
<1> SUFFICES ASSUME TypeOK, TelnetTurn PROVE TypeOK'
  OBVIOUS
<1> DEFINE gone    == ~Connected(sock, telnet_client)
           tbl     == IF gone THEN Available(sock, TELNET_PORT) ELSE sock
           session == IF gone THEN Accepted(sock, TELNET_PORT) ELSE telnet_client
           fresh   == gone /\ session # NoSock
           input   == IF session = NoSock THEN NoCall ELSE tbl[session].rx
           greeted == IF fresh THEN Text(tbl, session) ELSE tbl
           read    == IF input = NoCall THEN greeted ELSE Consume(greeted, session)
<1>1. PICK chatter \in BOOLEAN :
        /\ telnet_client' = session
        /\ stream' = IF fresh THEN session ELSE stream
        /\ pass_through' = IF input = "toggle" THEN ~pass_through ELSE pass_through
        /\ sock' = IF input = "toggle" \/ (pass_through' /\ chatter)
                   THEN Text(read, stream') ELSE read
  BY DEF TelnetTurn, TelnetLoop
<1>2. tbl \in Tables /\ session \in Sock \cup {NoSock}
  BY AvailableType, AcceptedType, Ports DEF TypeOK
<1>3. greeted \in Tables
  BY <1>2, TextType
<1>4. read \in Tables
  BY <1>2, <1>3, UpdateType
<1>5. stream' \in Sock \cup {NoSock}
  BY <1>1, <1>2 DEF TypeOK
<1>6. sock' \in Tables
  BY <1>1, <1>4, <1>5, TextType
<1>7. pass_through' \in BOOLEAN
  BY <1>1 DEF TypeOK
<1> HIDE DEF session
<1> QED
  BY <1>1, <1>2, <1>5, <1>6, <1>7
  DEF TelnetTurn, TypeOK, vxiVars, bindVars, peerVars

LEMMA ReplyType ==
  ASSUME TypeOK, NEW r
  PROVE  process_request(r) \subseteq Replies
BY DEF TypeOK, process_request, Replies, allocate

LEMMA LearnType ==
  ASSUME TypeOK, NEW c, Learn(c)
  PROVE  grant' \in [Scopes -> VxiPorts \cup {0}]
BY DEF TypeOK, Learn, Replies

LEMMA BindType == TypeOK /\ BindTurn => TypeOK'
<1> SUFFICES ASSUME TypeOK, BindTurn PROVE TypeOK'
  OBVIOUS
<1> USE DEF BindTurn, BindStep
<1>1. CASE BindBusy
  BY <1>1 DEF BindBusy, TypeOK, bindVars, peerVars, vxiVars, telnetVars
<1>2. CASE BindUdp
  <2>1. /\ Head(udp) \in Datagrams /\ udp' \in Seq(Datagrams)
    BY <1>2 DEF BindUdp, TypeOK
  <2>2. /\ udp_remote' \in Scopes /\ bind_reply' \in Replies
    BY <1>2, <2>1, ReplyType DEF BindUdp, Datagrams
  <2>3. sock' \in Tables
    BY <1>2, LogType DEF BindUdp, TypeOK
  <2> QED
    BY <1>2, <2>1, <2>2, <2>3 DEF BindUdp, TypeOK, vxiVars, telnetVars
<1>3. CASE BindNone
  <2>1. sock' \in Tables
    BY <1>3, AvailableType, Ports DEF BindNone, TypeOK
  <2> QED
    BY <1>3, <2>1 DEF BindNone, TypeOK, bindVars, peerVars, vxiVars, telnetVars
<1>4. CASE BindTcp
  <2>1. bind_client' \in Sock
    BY <1>4, AcceptedType, Ports DEF BindTcp, TypeOK
  <2>2. bind_reply' \in Replies
    BY <1>4, ReplyType DEF BindTcp
  <2>3. Consume(Available(sock, BIND_PORT), bind_client') \in Tables
    BY <2>1, AvailableType, UpdateType, Ports DEF TypeOK
  <2>4. sock' \in Tables
    BY <1>4, <2>3, LogType DEF BindTcp, TypeOK
  <2> QED
    BY <1>4, <2>1, <2>2, <2>4 DEF BindTcp, TypeOK, vxiVars, peerVars, telnetVars
<1>5. CASE BindReplyUdp
  <2>1. grant' \in [Scopes -> VxiPorts \cup {0}] /\ asked' \subseteq Scopes
    BY <1>5, LearnType DEF BindReplyUdp, TypeOK
  <2> QED
    BY <1>5, <2>1 DEF BindReplyUdp, TypeOK, NoReply, Replies, vxiVars, telnetVars
<1>6. CASE BindReplyTcp
  <2>1. bind_client \in Sock
    BY <1>6 DEF BindReplyTcp, ClientDropped, Writable, TypeOK
  <2>2. sock' \in Tables
    BY <1>6, <2>1, UpdateType DEF BindReplyTcp, ClientDropped, TypeOK
  <2>3. grant' \in [Scopes -> VxiPorts \cup {0}]
    BY <1>6, LearnType DEF BindReplyTcp, ClientDropped
  <2> QED
    BY <1>6, <2>2, <2>3 DEF BindReplyTcp, ClientDropped, TypeOK, NoReply, Replies, vxiVars, telnetVars
<1> QED
  BY <1>1, <1>2, <1>3, <1>4, <1>5, <1>6

LEMMA VxiType == TypeOK /\ VxiTurn => TypeOK'
<1> SUFFICES ASSUME TypeOK, VxiTurn PROVE TypeOK'
  OBVIOUS
<1> USE DEF VxiTurn, VxiStep
<1>0. vxi_port \in Nat /\ GotoNext(vxi_port) \in VxiPorts /\ GotoNext(vxi_port) \in Nat
  BY Ports, GotoNextType DEF TypeOK
<1>1. CASE VxiAccept
  <2>1. client' \in Sock \cup {NoSock}
    BY <1>1, <1>0, AcceptedType DEF VxiAccept, TypeOK
  <2>2. sock' \in Tables
    BY <1>1, <1>0, AvailableType, LogType DEF VxiAccept, TypeOK
  <2> QED
    BY <1>1, <2>1, <2>2 DEF VxiAccept, TypeOK, bindVars, peerVars, telnetVars
<1>2. CASE VxiTimeout
  BY <1>2 DEF VxiTimeout, TypeOK, vxiVars, bindVars, peerVars, telnetVars
<1>3. CASE VxiReceive
  <2>1. client \in Sock
    BY <1>3 DEF VxiReceive, available, TypeOK
  <2>2. vreq' \in Calls
    BY <1>3, <2>1 DEF VxiReceive, TypeOK, SockRec
  <2>3. sock' \in Tables
    BY <1>3, <2>1, UpdateType, LogType DEF VxiReceive, TypeOK
  <2> QED
    BY <1>3, <2>2, <2>3 DEF VxiReceive, TypeOK, bindVars, peerVars, telnetVars
<1>4. CASE VxiAwg
  BY <1>4 DEF VxiAwg, TypeOK, bindVars, peerVars, telnetVars
<1>5. CASE VxiReply
  <2>1. client \in Sock
    BY <1>5 DEF VxiReply, Writable, TypeOK
  <2>2. answer(sock) \in Tables
    BY <2>1, UpdateType DEF answer, TypeOK
  <2>3. begin_next(Log(answer(sock))) \in Tables
    BY <2>1, <2>2, <1>0, LogType, UpdateType, BeginType DEF begin_next, TypeOK
  <2>4. sock' \in Tables /\ client' \in Sock \cup {NoSock} /\ vxi_port' \in VxiPorts
    BY <1>5, <1>0, <2>1, <2>2, <2>3 DEF VxiReply, CloseLink, TypeOK
  <2> QED
    BY <1>5, <2>4 DEF VxiReply, TypeOK, bindVars, peerVars, telnetVars
<1> QED
  BY <1>1, <1>2, <1>3, <1>4, <1>5

LEMMA EnvType == TypeOK /\ Env => TypeOK'
<1> SUFFICES ASSUME TypeOK, Env PROVE TypeOK'
  OBVIOUS
<1> DEFINE Typed == /\ sock' \in Tables /\ udp' \in Seq(Datagrams)
                    /\ asked' \subseteq Scopes
                    /\ grant' \in [Scopes -> VxiPorts \cup {0}]
<1>1. SUFFICES Typed
  BY DEF Env, TypeOK, vxiVars, bindVars, telnetVars
<1>2. ASSUME NEW c \in Peer, NEW p \in Nat, Dial(c, p) PROVE sock' \in Tables
  <2>1. Opened(p, c) \in SockRec
    BY UnusedType DEF Opened, Unused, SockRec, States
  <2> QED
    BY <1>2, <2>1 DEF Dial, TypeOK
<1>3. ASSUME NEW c \in Scopes, AskUdp(c) PROVE Typed
  BY <1>3, RequestAssumption DEF AskUdp, TypeOK, Datagrams
<1>4. ASSUME NEW c \in Scopes, DialBind(c) PROVE Typed
  BY <1>4, <1>2, Ports DEF DialBind, peerVars, TypeOK, Peer
<1>5. ASSUME NEW c \in Scopes, DialGranted(c) PROVE Typed
  <2>1. grant[c] \in VxiPorts \cup {0}
    BY DEF TypeOK
  <2>2. grant[c] \in Nat
    BY <2>1, PortAssumption DEF VxiPorts
  <2> QED
    BY <1>5, <1>2, <2>2 DEF DialGranted, TypeOK, Peer
<1>6. ASSUME NEW c \in Scopes, Refused(c) PROVE Typed
  BY <1>6 DEF Refused, TypeOK
<1>7. ASSUME NEW u \in Users, DialTelnet(u) PROVE Typed
  BY <1>7, <1>2, Ports DEF DialTelnet, peerVars, TypeOK, Peer
<1>8. ASSUME NEW s \in Sock, NEW r \in Requests, Send(s, r) PROVE Typed
  <2>1. r \in Calls
    BY RequestAssumption
  <2>2. sock'[s] \in SockRec /\ sock' = [sock EXCEPT ![s] = sock'[s]]
    BY <1>8, <2>1 DEF Send, TypeOK, SockRec
  <2> QED
    BY <1>8, <2>2 DEF Send, peerVars, TypeOK
<1>9. ASSUME NEW s \in Sock, Fin(s) \/ Vanish(s) PROVE Typed
  <2>1. CASE Fin(s)
    <3>1. sock'[s] \in SockRec /\ sock' = [sock EXCEPT ![s] = sock'[s]]
      BY <2>1 DEF Fin, TypeOK, SockRec, States
    <3> QED
      BY <2>1, <3>1 DEF Fin, peerVars, TypeOK
  <2>2. CASE Vanish(s)
    <3>1. sock'[s] \in SockRec /\ sock' = [sock EXCEPT ![s] = sock'[s]]
      BY <2>2 DEF Vanish, TypeOK, SockRec
    <3> QED
      BY <2>2, <3>1 DEF Vanish, peerVars, TypeOK
  <2> QED
    BY <1>9, <2>1, <2>2
<1>10. ASSUME NEW s \in Sock, Abort(s) \/ LastAck(s) PROVE Typed
  <2>1. Closed \in SockRec
    BY UnusedType DEF Closed, States
  <2> QED
    BY <1>10, <2>1 DEF Abort, LastAck, peerVars, TypeOK
<1> QED
  BY <1>3, <1>4, <1>5, <1>6, <1>7, <1>8, <1>9, <1>10 DEF Env, PeerStep

LEMMA RestartType == TypeOK /\ Restart => TypeOK'
<1> SUFFICES ASSUME TypeOK, Restart PROVE TypeOK'
  OBVIOUS
<1>1. sock' \in Tables /\ vxi_port' \in VxiPorts
  BY SetupType, Ports DEF Restart
<1>2. bind_reply' \in Replies /\ udp' \in Seq(Datagrams)
  BY DEF Restart, NoReply, Replies
<1> QED
  BY <1>1, <1>2 DEF Restart, TypeOK

\* Every variable keeps its type.
THEOREM TypeCorrect == Spec => []TypeOK
<1>1. TypeOK /\ [Next]_vars => TypeOK'
  <2> SUFFICES ASSUME TypeOK, [Next]_vars PROVE TypeOK'
    OBVIOUS
  <2>1. CASE AwgFails
    BY <2>1 DEF AwgFails, TypeOK, vxiVars, bindVars, peerVars, telnetVars
  <2>2. CASE UNCHANGED vars
    BY <2>2 DEF vars, TypeOK, vxiVars, bindVars, peerVars, telnetVars
  <2> QED
    BY <2>1, <2>2, TelnetType, BindType, VxiType, EnvType, RestartType DEF Next, loop
<1> QED
  BY InitType, <1>1, PTL DEF Spec

-----------------------------------------------------------------------------
(***************************************************************************)
(* A port is given out only while there is no link.  What makes this       *)
(* inductive is where the one thread of the program can be: in the middle  *)
(* of a bind request it is in the bind server, there is no link, and the   *)
(* answer it has prepared is still the current port.                       *)
(***************************************************************************)
BindInv == /\ bindAt # "idle" => turn = "bind" /\ client = NoSock
           /\ vxiAt # "idle" => turn = "vxi" /\ client # NoSock
           /\ bind_reply.status = "success" => bind_reply.port = vxi_port /\ bindAt # "idle"
           /\ bind_reply.status # "garbage"

LEMMA BindInvInit == Init => BindInv
BY DEF Init, BindInit, VxiInit, NoReply, BindInv

LEMMA ReplyCurrent ==
  ASSUME TypeOK, client = NoSock, NEW r, NEW reply \in process_request(r)
  PROVE  /\ reply.status # "garbage"
         /\ reply.status = "success" => reply.port = vxi_port
BY Ports DEF TypeOK, process_request, allocate, available

LEMMA BindInvNext == TypeOK /\ BindInv /\ [Next]_vars => BindInv'
<1> SUFFICES ASSUME TypeOK, BindInv, [Next]_vars PROVE BindInv'
  OBVIOUS
<1>1. CASE TelnetTurn
  BY <1>1 DEF TelnetTurn, BindInv, vxiVars, bindVars
<1>2. CASE BindTurn
  <2> USE DEF BindTurn, BindStep, vxiVars
  <2>1. CASE BindBusy
    BY <1>2, <2>1 DEF BindBusy, BindInv, bindVars
  <2>2. CASE BindUdp
    BY <1>2, <2>2, ReplyCurrent DEF BindUdp, Serving, available, BindInv
  <2>3. CASE BindNone
    BY <1>2, <2>3 DEF BindNone, Serving, BindInv, bindVars
  <2>4. CASE BindTcp
    BY <1>2, <2>4, ReplyCurrent DEF BindTcp, Serving, available, BindInv
  <2>5. CASE BindReplyUdp
    BY <1>2, <2>5 DEF BindReplyUdp, NoReply, BindInv
  <2>6. CASE BindReplyTcp
    BY <1>2, <2>6 DEF BindReplyTcp, ClientDropped, NoReply, BindInv
  <2> QED
    BY <1>2, <2>1, <2>2, <2>3, <2>4, <2>5, <2>6
<1>3. CASE VxiTurn
  <2> USE DEF VxiTurn, VxiStep, bindVars
  <2>1. bindAt = "idle" /\ bind_reply.status # "success"
    BY <1>3 DEF BindInv
  <2>2. CASE VxiAccept
    BY <1>3, <2>1, <2>2 DEF VxiAccept, BindInv
  <2>3. CASE VxiTimeout
    BY <1>3, <2>1, <2>3 DEF VxiTimeout, BindInv, vxiVars
  <2>4. CASE VxiReceive
    BY <1>3, <2>1, <2>4 DEF VxiReceive, available, BindInv
  <2>5. CASE VxiAwg
    BY <1>3, <2>1, <2>5 DEF VxiAwg, BindInv
  <2>6. CASE VxiReply
    BY <1>3, <2>1, <2>6 DEF VxiReply, BindInv
  <2> QED
    BY <1>3, <2>2, <2>3, <2>4, <2>5, <2>6
<1>4. CASE Env \/ AwgFails
  BY <1>4 DEF Env, AwgFails, BindInv, vxiVars, bindVars
<1>5. CASE UNCHANGED vars
  BY <1>5 DEF vars, BindInv, vxiVars, bindVars
<1>6. CASE Restart
  BY <1>6 DEF Restart, BindInv, NoReply
<1> QED
  BY <1>1, <1>2, <1>3, <1>4, <1>5, <1>6 DEF Next, loop

THEOREM BindInvariant == Spec => []BindInv
BY BindInvInit, BindInvNext, TypeCorrect, PTL DEF Spec

-----------------------------------------------------------------------------
(***************************************************************************)
(* The program implements the port broker.                                 *)
(***************************************************************************)
LEMMA InitBroker == Init => Broker!Init
BY DEF Init, VxiInit, PeersInit, Broker!Init

LEMMA LearnGrants ==
  ASSUME TypeOK, BindInv, bindAt # "idle", NEW c, Learn(c),
         UNCHANGED <<client, vxi_port>>
  PROVE  [Broker!Next]_(Broker!vars)
<1>1. CASE c \in Scopes /\ bind_reply.status = "success"
  <2>1. Broker!Grant(c)
    BY <1>1 DEF Learn, BindInv, Broker!Grant
  <2> QED
    BY <1>1, <2>1 DEF Broker!Next
<1>2. CASE ~(c \in Scopes /\ bind_reply.status = "success")
  BY <1>2 DEF Learn, Broker!vars
<1> QED
  BY <1>1, <1>2

LEMMA StepBroker == TypeOK /\ BindInv /\ [Next]_vars => [Broker!Next]_(Broker!vars)
<1> SUFFICES ASSUME TypeOK, BindInv, [Next]_vars PROVE [Broker!Next]_(Broker!vars)
  OBVIOUS
<1>1. CASE TelnetTurn
  BY <1>1 DEF TelnetTurn, vxiVars, peerVars, Broker!vars
<1>2. CASE BindTurn
  <2>0. UNCHANGED <<client, vxi_port>>
    BY <1>2 DEF BindTurn, BindStep, vxiVars
  <2>1. CASE BindBusy \/ BindNone \/ BindUdp \/ BindTcp
    BY <2>0, <2>1 DEF BindBusy, BindNone, BindUdp, BindTcp, peerVars, Broker!vars
  <2>2. CASE BindReplyUdp
    <3>1. CASE Learn(udp_remote)
      BY <2>0, <2>2, <3>1, LearnGrants DEF BindReplyUdp
    <3>2. CASE UNCHANGED <<asked, grant>>
      BY <2>0, <3>2 DEF Broker!vars
    <3> QED
      BY <2>2, <3>1, <3>2 DEF BindReplyUdp
  <2>3. CASE BindReplyTcp
    BY <2>0, <2>3, LearnGrants DEF BindReplyTcp, ClientDropped
  <2> QED
    BY <1>2, <2>1, <2>2, <2>3 DEF BindTurn, BindStep
<1>3. CASE VxiTurn
  <2>0. UNCHANGED grant
    BY <1>3 DEF VxiTurn, peerVars
  <2>1. CASE VxiAccept
    <3>1. CASE client' = NoSock
      BY <2>0, <2>1, <3>1 DEF VxiAccept, available, Broker!vars
    <3>2. CASE client' # NoSock
      <4>1. Broker!Open
        BY <2>0, <2>1, <3>2 DEF VxiAccept, available, Broker!Open
      <4> QED
        BY <4>1 DEF Broker!Next
    <3> QED
      BY <3>1, <3>2
  <2>2. CASE VxiTimeout \/ VxiReceive \/ VxiAwg
    BY <2>0, <2>2 DEF VxiTimeout, VxiReceive, VxiAwg, vxiVars, Broker!vars
  <2>3. CASE VxiReply
    <3>1. CASE CloseLink
      <4>1. Broker!GotoNext(vxi_port) = GotoNext(vxi_port)
        BY DEF Broker!GotoNext, GotoNext
      <4>2. Broker!Close
        BY <2>0, <2>3, <3>1, <4>1 DEF VxiReply, CloseLink, BindInv, Broker!Close
      <4> QED
        BY <4>2 DEF Broker!Next
    <3>2. CASE UNCHANGED <<client, vxi_port>>
      BY <2>0, <3>2 DEF Broker!vars
    <3> QED
      BY <2>3, <3>1, <3>2 DEF VxiReply
  <2> QED
    BY <1>3, <2>1, <2>2, <2>3 DEF VxiTurn, VxiStep
<1>4. CASE Env
  <2>0. UNCHANGED <<client, vxi_port>>
    BY <1>4 DEF Env, vxiVars
  <2>1. CASE UNCHANGED grant
    BY <2>0, <2>1 DEF Broker!vars
  <2>2. ASSUME NEW c \in Scopes, grant[c] # 0, grant' = [grant EXCEPT ![c] = 0]
        PROVE  [Broker!Next]_(Broker!vars)
    <3>1. Broker!Use(c)
      BY <2>0, <2>2 DEF Broker!Use
    <3> QED
      BY <3>1 DEF Broker!Next
  <2> QED
    BY <1>4, <2>1, <2>2
    DEF Env, PeerStep, AskUdp, DialBind, DialGranted, Refused, DialTelnet, Send, Fin,
        Abort, Vanish, LastAck, peerVars
<1>5. CASE AwgFails \/ UNCHANGED vars
  BY <1>5 DEF AwgFails, vars, vxiVars, peerVars, Broker!vars
<1>6. CASE Restart
  <2>1. Broker!Restart
    BY <1>6 DEF Restart, BindInv, Broker!Restart
  <2> QED
    BY <2>1 DEF Broker!Next
<1> QED
  BY <1>1, <1>2, <1>3, <1>4, <1>5, <1>6 DEF Next, loop

\* Whatever the hosts do, a port is given out only while there is no link, it
\* is the port of the next link, and each link closes on to another port; only
\* a write that restarts the program goes back to the first.
THEOREM ImplementsBroker == Spec => BrokerSpec
BY InitBroker, StepBroker, TypeCorrect, BindInvariant, PTL DEF Spec, BrokerSpec, Broker!Spec

-----------------------------------------------------------------------------
(***************************************************************************)
(* While no connection is reset each server works on connections of its    *)
(* own port only.  A socket a server holds is a connection on its port: a  *)
(* sweep of another port does not touch it, begin() never takes a socket   *)
(* that is neither closed nor closing, and only the server itself sweeps   *)
(* its port, when it holds nothing there.                                  *)
(***************************************************************************)
Held(tbl, s, p) == tbl[s].port = p /\ tbl[s].st \in {"estab", "closewait"}

OwnInv == /\ client # NoSock => Held(sock, client, vxi_port)
          /\ telnet_client # NoSock => Held(sock, telnet_client, TELNET_PORT)
          /\ bind_client # NoSock => Held(sock, bind_client, BIND_PORT)
          /\ bind_client # NoSock <=> bindAt = "tcp"

LEMMA HeldAvailable ==
  ASSUME NEW tbl \in Tables, NEW p, NEW q \in Nat, NEW s \in Sock,
         Held(tbl, s, p), p # q \/ s \in Ready(tbl, q)
  PROVE  Held(Available(tbl, q), s, p) /\ Available(tbl, q)[s] = tbl[s]
BY AvailableFrame DEF Held, Ready

LEMMA HeldText ==
  ASSUME NEW tbl \in Tables, NEW p, NEW s \in Sock, NEW t \in Sock \cup {NoSock},
         Held(tbl, s, p)
  PROVE  Held(Text(tbl, t), s, p)
BY TextFrame DEF Held

LEMMA HeldUpdate ==
  ASSUME NEW tbl \in Tables, NEW p, NEW s \in Sock, NEW t \in Sock, Held(tbl, s, p)
  PROVE  Held(Consume(tbl, t), s, p) /\ Held(Deliver(tbl, t), s, p)
<1>1. tbl[t] \in SockRec
  OBVIOUS
<1>2. /\ Consume(tbl, t)[s].port = tbl[s].port /\ Consume(tbl, t)[s].st = tbl[s].st
      /\ Deliver(tbl, t)[s].port = tbl[s].port /\ Deliver(tbl, t)[s].st = tbl[s].st
  BY <1>1 DEF Consume, Deliver, SockRec
<1> QED
  BY <1>2 DEF Held

LEMMA ReadyHeld ==
  ASSUME NEW tbl \in Tables, NEW q \in Nat, Accepted(tbl, q) # NoSock
  PROVE  /\ Accepted(tbl, q) \in Sock
         /\ Accepted(tbl, q) \in Ready(tbl, q)
         /\ Held(Available(tbl, q), Accepted(tbl, q), q)
BY AcceptedReady, HeldAvailable DEF Ready, Held

\* The telnet server keeps the connections of the other two servers.
LEMMA HeldTelnet ==
  ASSUME TypeOK, TelnetLoop, NEW s \in Sock, NEW p, Held(sock, s, p), p # TELNET_PORT
  PROVE  Held(sock', s, p)
<1> DEFINE gone    == ~Connected(sock, telnet_client)
           tbl     == IF gone THEN Available(sock, TELNET_PORT) ELSE sock
           session == IF gone THEN Accepted(sock, TELNET_PORT) ELSE telnet_client
           fresh   == gone /\ session # NoSock
           input   == IF session = NoSock THEN NoCall ELSE tbl[session].rx
           greeted == IF fresh THEN Text(tbl, session) ELSE tbl
           read    == IF input = NoCall THEN greeted ELSE Consume(greeted, session)
<1>1. PICK chatter \in BOOLEAN :
        /\ stream' = IF fresh THEN session ELSE stream
        /\ sock' = IF input = "toggle" \/ (pass_through' /\ chatter)
                   THEN Text(read, stream') ELSE read
  BY DEF TelnetLoop
<1>2. /\ tbl \in Tables /\ session \in Sock \cup {NoSock} /\ stream \in Sock \cup {NoSock}
      /\ Held(tbl, s, p)
  BY AvailableType, AcceptedType, HeldAvailable, Ports DEF TypeOK
<1>3. greeted \in Tables /\ Held(greeted, s, p)
  BY <1>2, TextType, HeldText
<1>4. read \in Tables /\ Held(read, s, p)
  BY <1>2, <1>3, UpdateType, HeldUpdate
<1>5. stream' \in Sock \cup {NoSock}
  BY <1>1, <1>2
<1> QED
  BY <1>1, <1>4, <1>5, HeldText

LEMMA OwnTelnet ==
  ASSUME TypeOK, OwnInv, TelnetTurn
  PROVE  telnet_client' # NoSock => Held(sock', telnet_client', TELNET_PORT)
<1> DEFINE gone    == ~Connected(sock, telnet_client)
           tbl     == IF gone THEN Available(sock, TELNET_PORT) ELSE sock
           session == IF gone THEN Accepted(sock, TELNET_PORT) ELSE telnet_client
           fresh   == gone /\ session # NoSock
           input   == IF session = NoSock THEN NoCall ELSE tbl[session].rx
           greeted == IF fresh THEN Text(tbl, session) ELSE tbl
           read    == IF input = NoCall THEN greeted ELSE Consume(greeted, session)
<1> SUFFICES ASSUME session # NoSock
             PROVE  Held(sock', session, TELNET_PORT)
  BY DEF TelnetTurn, TelnetLoop
<1>1. PICK chatter \in BOOLEAN :
        /\ stream' = IF fresh THEN session ELSE stream
        /\ sock' = IF input = "toggle" \/ (pass_through' /\ chatter)
                   THEN Text(read, stream') ELSE read
  BY DEF TelnetTurn, TelnetLoop
<1>2. /\ tbl \in Tables /\ session \in Sock /\ stream \in Sock \cup {NoSock}
      /\ Held(tbl, session, TELNET_PORT)
  <2>1. CASE gone
    BY <2>1, AvailableType, ReadyHeld, Ports DEF TypeOK
  <2>2. CASE ~gone
    BY <2>2 DEF TypeOK, OwnInv
  <2> QED
    BY <2>1, <2>2
<1>3. greeted \in Tables /\ Held(greeted, session, TELNET_PORT)
  BY <1>2, TextType, HeldText
<1>4. read \in Tables /\ Held(read, session, TELNET_PORT)
  BY <1>2, <1>3, UpdateType, HeldUpdate
<1>5. stream' \in Sock \cup {NoSock}
  BY <1>1, <1>2
<1> QED
  BY <1>1, <1>2, <1>4, <1>5, HeldText

\* A step of the bind server keeps any connection on another port.
LEMMA HeldBind ==
  ASSUME TypeOK, BindStep, NEW s \in Sock, NEW p, Held(sock, s, p), p # BIND_PORT
  PROVE  Held(sock', s, p)
<1>0. Held(Available(sock, BIND_PORT), s, p) /\ Available(sock, BIND_PORT) \in Tables
  BY HeldAvailable, AvailableType, Ports DEF TypeOK
<1>1. CASE BindBusy \/ BindReplyUdp
  BY <1>1 DEF BindBusy, BindReplyUdp
<1>2. CASE BindUdp
  BY <1>2, HeldText DEF BindUdp, Log, TypeOK
<1>3. CASE BindNone
  BY <1>0, <1>3 DEF BindNone
<1>4. CASE BindTcp
  <2>1. bind_client' \in Sock
    BY <1>4, AcceptedType, Ports DEF BindTcp, TypeOK
  <2>2. /\ Consume(Available(sock, BIND_PORT), bind_client') \in Tables
        /\ Held(Consume(Available(sock, BIND_PORT), bind_client'), s, p)
    BY <1>0, <2>1, UpdateType, HeldUpdate
  <2> QED
    BY <1>4, <2>2, HeldText DEF BindTcp, Log, TypeOK
<1>5. CASE BindReplyTcp
  <2>1. bind_client \in Sock
    BY <1>5 DEF BindReplyTcp, ClientDropped, Writable, TypeOK
  <2> QED
    BY <1>5, <2>1, HeldUpdate DEF BindReplyTcp, ClientDropped, TypeOK
<1> QED
  BY <1>1, <1>2, <1>3, <1>4, <1>5 DEF BindStep

LEMMA OwnBind ==
  ASSUME TypeOK, OwnInv, BindTurn
  PROVE  /\ bind_client' # NoSock => Held(sock', bind_client', BIND_PORT)
         /\ bind_client' # NoSock <=> bindAt' = "tcp"
<1> USE DEF BindTurn, BindStep
<1>1. CASE BindBusy
  BY <1>1 DEF BindBusy, bindVars, OwnInv
<1>2. CASE BindUdp
  BY <1>2 DEF BindUdp, Serving, OwnInv
<1>3. CASE BindNone
  BY <1>3 DEF BindNone, Serving, bindVars, OwnInv
<1>4. CASE BindTcp
  <2>1. /\ bind_client' \in Sock
        /\ Held(Available(sock, BIND_PORT), bind_client', BIND_PORT)
        /\ Available(sock, BIND_PORT) \in Tables
    BY <1>4, ReadyHeld, AvailableType, Ports DEF BindTcp, TypeOK
  <2>2. /\ Consume(Available(sock, BIND_PORT), bind_client') \in Tables
        /\ Held(Consume(Available(sock, BIND_PORT), bind_client'), bind_client', BIND_PORT)
    BY <2>1, UpdateType, HeldUpdate
  <2>3. Held(sock', bind_client', BIND_PORT)
    BY <1>4, <2>1, <2>2, HeldText DEF BindTcp, Log, TypeOK
  <2> QED
    BY <1>4, <2>3 DEF BindTcp
<1>5. CASE BindReplyUdp
  BY <1>5 DEF BindReplyUdp, OwnInv
<1>6. CASE BindReplyTcp
  BY <1>6 DEF BindReplyTcp, ClientDropped
<1> QED
  BY <1>1, <1>2, <1>3, <1>4, <1>5, <1>6

\* A step of the VXI server keeps a connection that is not its own, and its
\* own as long as it holds it.
LEMMA HeldVxi ==
  ASSUME TypeOK, VxiStep, NEW s \in Sock, NEW p, Held(sock, s, p),
         \/ p # vxi_port /\ s # client
         \/ s = client /\ client' = client
  PROVE  Held(sock', s, p)
<1>0. vxi_port \in Nat /\ GotoNext(vxi_port) \in Nat
  BY Ports, GotoNextType DEF TypeOK
<1>1. CASE VxiAccept
  <2>1. CASE s # client
    <3>1. Held(Available(sock, vxi_port), s, p) /\ Available(sock, vxi_port) \in Tables
      BY <1>0, <2>1, HeldAvailable, AvailableType DEF TypeOK
    <3> QED
      BY <1>1, <3>1, HeldText DEF VxiAccept, Log, TypeOK
  <2>2. CASE s = client
    BY <1>1, <2>2, NoSockNotSock DEF VxiAccept, available
  <2> QED
    BY <2>1, <2>2
<1>2. CASE VxiTimeout \/ VxiAwg
  BY <1>2 DEF VxiTimeout, VxiAwg
<1>3. CASE VxiReceive
  <2>1. client \in Sock
    BY <1>3 DEF VxiReceive, available, TypeOK
  <2>2. Consume(sock, client) \in Tables /\ Held(Consume(sock, client), s, p)
    BY <2>1, UpdateType, HeldUpdate DEF TypeOK
  <2> QED
    BY <1>3, <2>2, HeldText DEF VxiReceive, Log, TypeOK
<1>4. CASE VxiReply
  <2>1. client \in Sock
    BY <1>4 DEF VxiReply, Writable, TypeOK
  <2>2. answer(sock) \in Tables /\ Held(answer(sock), s, p)
    BY <2>1, UpdateType, HeldUpdate DEF answer, TypeOK
  <2>3. CASE sock' = answer(sock)
    BY <2>2, <2>3
  <2>4. CASE CloseLink
    <3>1. s # client
      BY <2>1, <2>4, NoSockNotSock DEF CloseLink
    <3>2. Log(answer(sock)) \in Tables /\ Held(Log(answer(sock)), s, p)
      BY <2>2, LogType, HeldText DEF Log, TypeOK
    <3> DEFINE stopped == Stop(Log(answer(sock)), client)
    <3>3. stopped \in Tables /\ Held(stopped, s, p)
      BY <2>1, <3>1, <3>2, UpdateType DEF Stop, Held
    <3>4. /\ Begin(stopped, GotoNext(vxi_port)) \in Tables
          /\ Held(Begin(stopped, GotoNext(vxi_port)), s, p)
      BY <1>0, <3>3, BeginType, BeginFrame DEF Held
    <3> QED
      BY <2>4, <3>4, HeldText DEF CloseLink, begin_next, Log, TypeOK
  <2> QED
    BY <1>4, <2>3, <2>4 DEF VxiReply
<1> QED
  BY <1>1, <1>2, <1>3, <1>4 DEF VxiStep

LEMMA OwnVxi ==
  ASSUME TypeOK, OwnInv, VxiTurn
  PROVE  client' # NoSock => Held(sock', client', vxi_port')
<1> USE DEF VxiTurn
<1>0. vxi_port \in Nat
  BY Ports DEF TypeOK
<1>1. CASE VxiAccept
  <2> SUFFICES ASSUME client' # NoSock PROVE Held(sock', client', vxi_port')
    OBVIOUS
  <2>1. /\ client' \in Sock /\ Held(Available(sock, vxi_port), client', vxi_port)
        /\ Available(sock, vxi_port) \in Tables
    BY <1>0, <1>1, ReadyHeld, AvailableType DEF VxiAccept, TypeOK
  <2> QED
    BY <1>1, <2>1, HeldText DEF VxiAccept, Log, TypeOK
<1>2. CASE client' = NoSock
  BY <1>2
<1>3. CASE client' = client /\ client # NoSock /\ vxi_port' = vxi_port
  <2>1. client \in Sock
    BY <1>3 DEF TypeOK
  <2> QED
    BY <1>3, <2>1, HeldVxi DEF OwnInv
<1> QED
  BY <1>1, <1>2, <1>3
  DEF VxiStep, VxiTimeout, VxiReceive, VxiAwg, VxiReply, CloseLink, vxiVars, available

\* Without resets, what the hosts do leaves a held connection held.
LEMMA HeldEnv ==
  ASSUME TypeOK, "abort" \notin Faults, Env, NEW s \in Sock, NEW p, Held(sock, s, p)
  PROVE  Held(sock', s, p)
<1>1. CASE UNCHANGED sock
  BY <1>1 DEF Held
<1>2. ASSUME NEW c, NEW q, Dial(c, q) PROVE Held(sock', s, p)
  BY <1>2 DEF Dial, Held, Listening, Unused, TypeOK
<1>3. ASSUME NEW t \in Sock, Fin(t) PROVE Held(sock', s, p)
  BY <1>3 DEF Fin, Held, TypeOK, SockRec
<1>4. ASSUME NEW t \in Sock, Vanish(t) PROVE Held(sock', s, p)
  BY <1>4 DEF Vanish, Held, TypeOK, SockRec
<1>5. ASSUME NEW t \in Sock, NEW r \in Requests, Send(t, r) PROVE Held(sock', s, p)
  BY <1>5 DEF Send, Held, TypeOK, SockRec
<1>6. ASSUME NEW t \in Sock, LastAck(t) PROVE Held(sock', s, p)
  BY <1>6 DEF LastAck, Held, TypeOK
<1> QED
  BY <1>1, <1>2, <1>3, <1>4, <1>5, <1>6
  DEF Env, PeerStep, AskUdp, DialBind, DialGranted, Refused, DialTelnet, Abort

LEMMA OwnInvInit == Init => OwnInv
BY DEF Init, VxiInit, BindInit, TelnetInit, OwnInv

LEMMA OwnInvNext ==
  ASSUME "abort" \notin Faults
  PROVE  TypeOK /\ BindInv /\ OwnInv /\ [Next]_vars => OwnInv'
<1> SUFFICES ASSUME TypeOK, BindInv, OwnInv, [Next]_vars PROVE OwnInv'
  OBVIOUS
<1>0. /\ client # NoSock => client \in Sock
      /\ telnet_client # NoSock => telnet_client \in Sock
      /\ bind_client # NoSock => bind_client \in Sock
      /\ vxi_port \in VxiPorts /\ vxi_port # TELNET_PORT /\ vxi_port # BIND_PORT
      /\ BIND_PORT # TELNET_PORT
  BY Ports DEF TypeOK, BIND_PORT, TELNET_PORT
<1>1. CASE TelnetTurn
  BY <1>0, <1>1, HeldTelnet, OwnTelnet DEF TelnetTurn, OwnInv, vxiVars, bindVars
<1>2. CASE BindTurn
  BY <1>0, <1>2, HeldBind, OwnBind DEF BindTurn, BindStep, OwnInv, vxiVars, telnetVars
<1>3. CASE VxiTurn
  <2>1. telnet_client # NoSock => telnet_client # client
    BY <1>0 DEF OwnInv, Held
  <2>2. bind_client = NoSock
    BY <1>3 DEF VxiTurn, BindInv, OwnInv
  <2>3. ASSUME telnet_client # NoSock PROVE Held(sock', telnet_client, TELNET_PORT)
    <3>1. Held(sock, telnet_client, TELNET_PORT)
      BY <2>3 DEF OwnInv
    <3>2. telnet_client \in Sock /\ TELNET_PORT # vxi_port /\ telnet_client # client
      BY <1>0, <2>1, <2>3
    <3>3. VxiStep
      BY <1>3 DEF VxiTurn
    <3> QED
      BY <3>1, <3>2, <3>3, HeldVxi
  <2> QED
    BY <1>3, <2>2, <2>3, OwnVxi DEF VxiTurn, OwnInv, bindVars, telnetVars
<1>4. CASE Env
  BY <1>0, <1>4, HeldEnv DEF Env, OwnInv, vxiVars, bindVars, telnetVars
<1>5. CASE AwgFails \/ UNCHANGED vars
  BY <1>5 DEF AwgFails, vars, OwnInv, Held, vxiVars, bindVars, telnetVars
<1>6. CASE Restart
  BY <1>6 DEF Restart, OwnInv
<1> QED
  BY <1>1, <1>2, <1>3, <1>4, <1>5, <1>6 DEF Next, loop

LEMMA OwnInvariant ==
  ASSUME "abort" \notin Faults
  PROVE  Spec => []OwnInv
BY OwnInvInit, OwnInvNext, TypeCorrect, BindInvariant, PTL DEF Spec

\* While no connection is reset, the VXI server's client is a connection made
\* on the port it listens on.
THEOREM ClientOwned ==
  ASSUME "abort" \notin Faults
  PROVE  Spec => []OwnConnection
<1>1. OwnInv => OwnConnection
  BY DEF OwnInv, OwnConnection, Held
<1> QED
  BY <1>1, OwnInvariant, PTL

\* While no connection is reset, no two servers hold the same socket.
THEOREM ServersApart ==
  ASSUME "abort" \notin Faults
  PROVE  Spec => []NoSharedSocket
<1>1. TypeOK /\ OwnInv => NoSharedSocket
  <2>1. TypeOK => /\ vxi_port # TELNET_PORT /\ vxi_port # BIND_PORT
                  /\ BIND_PORT # TELNET_PORT
    BY Ports DEF TypeOK, BIND_PORT, TELNET_PORT
  <2> QED
    BY <2>1, NoSockNotSock DEF OwnInv, NoSharedSocket, Held
<1> QED
  BY <1>1, OwnInvariant, TypeCorrect, PTL

-----------------------------------------------------------------------------
(***************************************************************************)
(* The next port is open as soon as a link has ended, however full the     *)
(* table is: begin_next() gives up the client's socket before it asks for  *)
(* one, and setup() starts from an empty table.  This needs no assumption  *)
(* about the hosts.                                                        *)
(***************************************************************************)
LEMMA StepFresh ==
  ASSUME TypeOK, [Next]_vars, client # NoSock, client' = NoSock
  PROVE  \E s \in Sock : sock'[s] = Listening(vxi_port')
<1>0. CASE Restart
  BY <1>0, SetupSockets DEF Restart
<1> SUFFICES ASSUME ~Restart PROVE \E s \in Sock : sock'[s] = Listening(vxi_port')
  BY <1>0
<1>1. VxiReply /\ CloseLink
  <2>1. VxiTurn
    BY DEF Next, loop, TelnetTurn, BindTurn, BindStep, Env, AwgFails, vars, vxiVars
  <2> QED
    BY <2>1 DEF VxiTurn, VxiStep, VxiAccept, VxiTimeout, VxiReceive, VxiAwg, VxiReply,
                vxiVars, available
<1>2. client \in Sock /\ GotoNext(vxi_port) \in Nat
  BY Ports, GotoNextType DEF TypeOK
<1>3. Log(answer(sock)) \in Tables
  BY <1>2, UpdateType, LogType DEF answer, TypeOK
<1> DEFINE stopped == Stop(Log(answer(sock)), client)
           begun   == Begin(stopped, GotoNext(vxi_port))
<1>4. stopped \in Tables /\ stopped[client].st = "closed"
  BY <1>2, <1>3, UpdateType DEF Stop, Closed, Unused
<1>5. begun \in Tables
  BY <1>2, <1>4, BeginType
<1>6. PICK s \in Sock : begun[s] = Listening(GotoNext(vxi_port))
  BY <1>2, <1>4, BeginListens
<1>7. Log(begun)[s] = begun[s]
  <2>1. begun[s].st = "listen"
    BY <1>6 DEF Listening, Unused
  <2>2. stream \in Sock \cup {NoSock}
    BY DEF TypeOK
  <2> HIDE DEF begun
  <2> QED
    BY <1>5, <2>1, <2>2, TextListening DEF Log
<1>8. sock' = Log(begun) /\ vxi_port' = GotoNext(vxi_port)
  BY <1>1 DEF CloseLink, begin_next
<1> QED
  BY <1>6, <1>7, <1>8

\* When a link ends, in order or by a restart, the next port is listened on at
\* once.
THEOREM PortReopened == Spec => FreshListener
<1>1. TypeOK /\ [Next]_vars =>
        [client # NoSock /\ client' = NoSock =>
           \E s \in Sock : sock'[s] = Listening(vxi_port')]_vars
  BY StepFresh
<1> QED
  BY <1>1, TypeCorrect, PTL DEF Spec, FreshListener
=============================================================================
