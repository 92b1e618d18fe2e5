---------------------------- MODULE ScopeProofs ----------------------------
(***************************************************************************)
(* The promise to one scope that keeps to the protocol: the port it is     *)
(* granted takes its connection, and it is never left connected to a port  *)
(* no server looks at, for any number of sockets and any range of ports.   *)
(***************************************************************************)
EXTENDS EspBodeProofs, FiniteSetTheorems, SequenceTheorems

USE DEF Tables

\* One scope, which does one thing at a time and finishes what it starts.
\* The instrument may fall silent, a write may restart the program, UDP replies
\* may be lost, and users may do what they like.
Orderly == /\ \A c, d \in Scopes : c = d
           /\ Faults \cap {"retry", "drop", "abort", "vanish"} = {}
           /\ ConnLimit = 1

Ends(tbl) == {s \in Sock : tbl[s].peer \in Scopes}

(***************************************************************************)
(* The scope's connection: it has at most one, to the bind server or to    *)
(* the current VXI port, open at both ends; nobody else has a connection   *)
(* to a VXI port; and the current port has its connection or a listener.   *)
(***************************************************************************)
Sole(tbl)      == \A s, t \in Ends(tbl) : s = t
Whole(tbl)     == \A s \in Ends(tbl) : tbl[s].st = "estab"
Placed(tbl, p) == \A s \in Ends(tbl) : tbl[s].port \in {BIND_PORT, p}
Private(tbl)   == \A s \in Sock : Held(tbl, s, tbl[s].port) /\ tbl[s].port \in VxiPorts
                                    => s \in Ends(tbl)
Reached(tbl, p) == HasListener(tbl, p) \/ \E s \in Ends(tbl) : tbl[s].port = p

TableInv == Sole(sock) /\ Whole(sock) /\ Placed(sock, vxi_port) /\ Private(sock)

(***************************************************************************)
(* How far the scope is: while it waits for an answer by UDP, which is one *)
(* datagram in the socket or in the bind server's hands, it has no grant   *)
(* and no connection; while it has a grant, the port is the current one    *)
(* and it has no connection there.                                         *)
(***************************************************************************)
AskInv == /\ Len(udp) <= 1
          /\ bindAt = "udp" => udp = <<>>
          /\ udp # <<>> \/ bindAt = "udp" => asked # {}
          /\ asked # {} => Ends(sock) = {} /\ \A c \in Scopes : grant[c] = 0

GrantInv == \A c \in Scopes : grant[c] # 0 =>
              grant[c] = vxi_port /\ \A s \in Ends(sock) : sock[s].port # vxi_port

ScopeInv == TableInv /\ Reached(sock, vxi_port) /\ AskInv /\ GrantInv

-----------------------------------------------------------------------------
(***************************************************************************)
(* What the servers do to the table, except when a link is closed: a       *)
(* socket keeps its connection, or had neither a listener nor a connection *)
(* that is open at both ends.                                              *)
(***************************************************************************)
SameEnd(q, r) == q.st = r.st /\ q.port = r.port /\ q.peer = r.peer
Ended(q, r)   == /\ r.st \notin {"listen", "estab"}
                 /\ q.st \notin {"estab", "closewait"} /\ q.peer = NoPeer
Steady(new, old) == \A s \in Sock : SameEnd(new[s], old[s]) \/ Ended(new[s], old[s])

LEMMA SteadyTwice ==
  ASSUME NEW a, NEW b, NEW c, Steady(a, b), Steady(b, c)
  PROVE  Steady(a, c)
BY DEF Steady, SameEnd, Ended

LEMMA SteadyText ==
  ASSUME NEW tbl \in Tables, NEW s \in Sock \cup {NoSock}
  PROVE  Steady(Text(tbl, s), tbl)
BY TextFrame DEF Steady, SameEnd

LEMMA SteadyUpdate ==
  ASSUME NEW tbl \in Tables, NEW t \in Sock
  PROVE  Steady(Consume(tbl, t), tbl) /\ Steady(Deliver(tbl, t), tbl)
<1>1. tbl[t] \in SockRec
  OBVIOUS
<1> QED
  BY <1>1 DEF Steady, SameEnd, Consume, Deliver, SockRec

LEMMA SteadyBegin ==
  ASSUME NEW tbl \in Tables, NEW p
  PROVE  Steady(Begin(tbl, p), tbl)
<1>1. ASSUME NEW s \in Sock
      PROVE  SameEnd(Begin(tbl, p)[s], tbl[s]) \/ Ended(Begin(tbl, p)[s], tbl[s])
  <2>1. CASE s \in Free(tbl)
    BY <2>1 DEF Begin, Free, Lowest, WithSt, Ended, Listening, Unused
  <2>2. CASE s \notin Free(tbl)
    BY <2>2 DEF Begin, SameEnd
  <2> QED
    BY <2>1, <2>2
<1> QED
  BY <1>1 DEF Steady

LEMMA SteadyAvailable ==
  ASSUME NEW tbl \in Tables, NEW p \in Nat
  PROVE  Steady(Available(tbl, p), tbl)
<1>1. Swept(tbl, p) \in Tables /\ Steady(Swept(tbl, p), tbl)
  BY SweptType DEF Steady, SameEnd, Ended, Swept, Unused
<1>2. Steady(Begin(Swept(tbl, p), p), Swept(tbl, p))
  BY <1>1, SteadyBegin
<1> QED
  BY <1>1, <1>2, SteadyTwice DEF Available

LEMMA EndsKept ==
  ASSUME NEW new \in Tables, NEW old \in Tables, Steady(new, old), Whole(old)
  PROVE  /\ Ends(new) = Ends(old)
         /\ \A s \in Ends(old) : new[s].st = old[s].st /\ new[s].port = old[s].port
         /\ \A p : HasListener(old, p) => HasListener(new, p)
         /\ Private(old) => Private(new)
<1>1. \A s \in Ends(old) : SameEnd(new[s], old[s])
  BY DEF Steady, Ended, Whole, Ends
<1>2. \A s \in Ends(new) : SameEnd(new[s], old[s])
  BY PeerAssumption DEF Steady, Ended, Ends
<1>3. Ends(new) = Ends(old)
  BY <1>1, <1>2 DEF SameEnd, Ends
<1>4. ASSUME NEW p, HasListener(old, p) PROVE HasListener(new, p)
  BY <1>4 DEF HasListener, Steady, SameEnd, Ended
<1>5. ASSUME Private(old) PROVE Private(new)
  <2>1. ASSUME NEW s \in Sock, Held(new, s, new[s].port), new[s].port \in VxiPorts
        PROVE  s \in Ends(old)
    BY <1>5, <2>1 DEF Private, Held, Steady, SameEnd, Ended
  <2> QED
    BY <1>3, <2>1 DEF Private
<1> QED
  BY <1>1, <1>3, <1>4, <1>5 DEF SameEnd

\* Such a step keeps the table's part of the invariant, and the port in reach.
LEMMA TableKept ==
  ASSUME TypeOK, TypeOK', TableInv, Reached(sock, vxi_port),
         Steady(sock', sock), vxi_port' = vxi_port
  PROVE  TableInv' /\ Reached(sock', vxi_port')
<1>1. /\ Ends(sock') = Ends(sock)
      /\ \A s \in Ends(sock) : sock'[s].st = sock[s].st /\ sock'[s].port = sock[s].port
      /\ \A p : HasListener(sock, p) => HasListener(sock', p)
      /\ Private(sock) => Private(sock')
  BY EndsKept DEF TypeOK, TableInv
<1>2. Sole(sock') /\ Whole(sock') /\ Placed(sock', vxi_port')
  BY <1>1 DEF TableInv, Sole, Whole, Placed
<1>3. Reached(sock', vxi_port')
  BY <1>1 DEF Reached
<1> QED
  BY <1>1, <1>2, <1>3 DEF TableInv

\* It also keeps what is known of the scope, when that has not moved.
LEMMA ScopeKept ==
  ASSUME TypeOK, TypeOK', ScopeInv, Steady(sock', sock),
         UNCHANGED <<vxi_port, udp, asked, grant, bindAt>>
  PROVE  ScopeInv'
<1>1. TableInv' /\ Reached(sock', vxi_port')
  BY TableKept DEF ScopeInv
<1>2. Ends(sock') = Ends(sock) /\ \A s \in Ends(sock) : sock'[s].port = sock[s].port
  BY EndsKept DEF TypeOK, ScopeInv, TableInv
<1>3. AskInv' /\ GrantInv'
  BY <1>2 DEF ScopeInv, AskInv, GrantInv
<1> QED
  BY <1>1, <1>3 DEF ScopeInv

-----------------------------------------------------------------------------
(* The servers *)

LEMMA SteadyTelnet ==
  ASSUME TypeOK, TelnetLoop
  PROVE  Steady(sock', sock)
<1> DEFINE gone    == ~Connected(sock, telnet_client)
           tbl     == IF gone THEN Available(sock, TELNET_PORT) ELSE sock
           session == IF gone THEN Accepted(sock, TELNET_PORT) ELSE telnet_client
           fresh   == gone /\ session # NoSock
           input   == IF session = NoSock THEN NoCall ELSE tbl[session].rx
           greeted == IF fresh THEN Text(tbl, session) ELSE tbl
           read    == IF input = NoCall THEN greeted ELSE Consume(greeted, session)
<1>1. PICK chatter \in BOOLEAN :
        /\ stream' = IF fresh THEN session ELSE stream
        /\ sock' = IF input = "toggle" \/ (pass_through' /\ chatter)
                   THEN Text(read, stream') ELSE read
  BY DEF TelnetLoop
<1>2. /\ tbl \in Tables /\ session \in Sock \cup {NoSock} /\ stream' \in Sock \cup {NoSock}
      /\ Steady(tbl, sock)
  <2>1. /\ Available(sock, TELNET_PORT) \in Tables /\ Steady(Available(sock, TELNET_PORT), sock)
        /\ Accepted(sock, TELNET_PORT) \in Sock \cup {NoSock} /\ Steady(sock, sock)
    BY AvailableType, AcceptedType, SteadyAvailable, Ports DEF TypeOK, Steady, SameEnd
  <2> QED
    BY <1>1, <2>1 DEF TypeOK
<1>3. greeted \in Tables /\ Steady(greeted, sock)
  <2> HIDE DEF tbl, session
  <2> QED
    BY <1>2, TextType, SteadyText, SteadyTwice
<1>4. read \in Tables /\ Steady(read, sock)
  <2>1. input # NoCall => session \in Sock
    BY <1>2
  <2> HIDE DEF greeted, session, input
  <2> QED
    BY <1>3, <2>1, UpdateType, SteadyUpdate, SteadyTwice
<1> HIDE DEF read
<1> QED
  BY <1>1, <1>2, <1>4, SteadyText, SteadyTwice

LEMMA SteadyBind ==
  ASSUME TypeOK, BindStep
  PROVE  Steady(sock', sock)
<1>0. /\ stream \in Sock \cup {NoSock} /\ sock \in Tables
      /\ Available(sock, BIND_PORT) \in Tables
      /\ Steady(Available(sock, BIND_PORT), sock) /\ Steady(sock, sock)
  BY AvailableType, SteadyAvailable, Ports DEF TypeOK, Steady, SameEnd
<1>1. CASE BindBusy \/ BindReplyUdp
  BY <1>0, <1>1 DEF BindBusy, BindReplyUdp
<1>2. CASE BindUdp
  BY <1>0, <1>2, SteadyText DEF BindUdp, Log
<1>3. CASE BindNone
  BY <1>0, <1>3 DEF BindNone
<1>4. CASE BindTcp
  <2>1. bind_client' \in Sock
    BY <1>4, AcceptedType, Ports DEF BindTcp, TypeOK
  <2>2. /\ Consume(Available(sock, BIND_PORT), bind_client') \in Tables
        /\ Steady(Consume(Available(sock, BIND_PORT), bind_client'), sock)
    BY <1>0, <2>1, UpdateType, SteadyUpdate, SteadyTwice
  <2> QED
    BY <1>0, <1>4, <2>2, SteadyText, SteadyTwice DEF BindTcp, Log
<1>5. CASE BindReplyTcp
  <2>1. bind_client \in Sock /\ sock' = Deliver(sock, bind_client)
    BY <1>5 DEF BindReplyTcp, Writable, TypeOK
  <2> QED
    BY <1>0, <2>1, SteadyUpdate
<1> QED
  BY <1>1, <1>2, <1>3, <1>4, <1>5 DEF BindStep

\* The scope has its connection to the bind server while that answers it, so
\* it is granted a port it is not connected to.
LEMMA ScopeBind ==
  ASSUME Orderly, TypeOK, TypeOK', BindInv, OwnInv, ScopeInv, BindTurn
  PROVE  ScopeInv'
<1>0. Steady(sock', sock) /\ BindStep /\ UNCHANGED <<client, vxi_port>>
  BY SteadyBind DEF BindTurn, BindStep, vxiVars
<1>1. TableInv' /\ Reached(sock', vxi_port')
  BY <1>0, TableKept DEF ScopeInv
<1>2. Ends(sock') = Ends(sock) /\ \A s \in Ends(sock) : sock'[s].port = sock[s].port
  BY <1>0, EndsKept DEF TypeOK, ScopeInv, TableInv
<1>3. AskInv' /\ GrantInv'
  <2>1. CASE BindBusy \/ BindNone \/ BindTcp
    BY <1>0, <1>2, <2>1
    DEF BindBusy, BindNone, BindTcp, Serving, bindVars, peerVars, ScopeInv, AskInv, GrantInv
  <2>2. CASE BindUdp
    <3>1. udp \in Seq(Datagrams) /\ Len(udp) <= 1 /\ udp # <<>> /\ udp' = Tail(udp)
      BY <2>2 DEF BindUdp, TypeOK, ScopeInv, AskInv
    <3>2. udp' \in Seq(Datagrams) /\ Len(udp) \in Nat \ {0} /\ Len(udp') = Len(udp) - 1
      BY <3>1, HeadTailProperties, EmptySeq
    <3>3. Len(udp') = 0
      BY <3>1, <3>2
    <3>4. udp' = <<>>
      BY <3>2, <3>3, EmptySeq
    <3> QED
      BY <1>0, <1>2, <2>2, <3>3, <3>4 DEF BindUdp, ScopeInv, AskInv, GrantInv
  <2>3. CASE BindReplyUdp
    <3>1. /\ udp = <<>> /\ udp' = <<>> /\ bindAt' = "idle"
          /\ Ends(sock) = {} /\ \A c \in Scopes : grant[c] = 0
      BY <2>3 DEF BindReplyUdp, ScopeInv, AskInv
    <3>2. \A c \in Scopes : grant'[c] \in {0, vxi_port}
      BY <2>3, <3>1 DEF BindReplyUdp, Learn, BindInv, TypeOK
    <3>3. GrantInv'
      BY <1>0, <1>2, <3>1, <3>2 DEF GrantInv
    <3>4. asked' # {} => \A c \in Scopes : grant'[c] = 0
      BY <2>3, <3>1 DEF BindReplyUdp, Learn, Orderly, TypeOK
    <3> QED
      BY <1>2, <3>1, <3>3, <3>4 DEF AskInv
  <2>4. CASE BindReplyTcp
    <3>1. /\ bindAt' = "idle" /\ bindAt = "tcp" /\ UNCHANGED <<udp, asked>>
          /\ bind_client \in Sock /\ sock[bind_client].port = BIND_PORT
          /\ Learn(sock[bind_client].peer)
      BY <2>4, NoSockNotSock DEF BindReplyTcp, Writable, OwnInv, Held, TypeOK
    <3>2. CASE sock[bind_client].peer \notin Scopes
      BY <1>0, <1>2, <3>1, <3>2 DEF Learn, ScopeInv, AskInv, GrantInv
    <3>3. CASE sock[bind_client].peer \in Scopes
      <4>1. bind_client \in Ends(sock) /\ asked = {}
        BY <3>1, <3>3 DEF Ends, ScopeInv, AskInv
      <4>2. \A s \in Ends(sock) : sock[s].port # vxi_port
        BY <3>1, <4>1, Ports DEF ScopeInv, TableInv, Sole, TypeOK
      <4>3. \A c \in Scopes : grant'[c] # 0 => grant'[c] = vxi_port
        BY <3>1 DEF Learn, BindInv, TypeOK, ScopeInv, GrantInv
      <4> QED
        BY <1>0, <1>2, <3>1, <4>1, <4>2, <4>3 DEF ScopeInv, AskInv, GrantInv
    <3> QED
      BY <3>2, <3>3
  <2> QED
    BY <1>0, <2>1, <2>2, <2>3, <2>4 DEF BindStep
<1> QED
  BY <1>1, <1>3 DEF ScopeInv

LEMMA ScopeTelnet ==
  ASSUME TypeOK, TypeOK', ScopeInv, TelnetTurn
  PROVE  ScopeInv'
BY SteadyTelnet, ScopeKept DEF TelnetTurn, vxiVars, bindVars, peerVars

\* The VXI server's client is the scope's one connection.
LEMMA ClientIsEnd ==
  ASSUME TypeOK, OwnInv, ScopeInv, client # NoSock
  PROVE  /\ client \in Ends(sock) /\ sock[client].port = vxi_port
         /\ \A c \in Scopes : grant[c] = 0
BY DEF TypeOK, OwnInv, ScopeInv, TableInv, Private, Held, GrantInv

LEMMA SteadyVxi ==
  ASSUME TypeOK, VxiStep, vxi_port' = vxi_port
  PROVE  Steady(sock', sock)
<1>0. /\ stream \in Sock \cup {NoSock} /\ sock \in Tables /\ Steady(sock, sock)
      /\ Available(sock, vxi_port) \in Tables /\ Steady(Available(sock, vxi_port), sock)
  BY AvailableType, SteadyAvailable, Ports DEF TypeOK, Steady, SameEnd
<1>1. CASE VxiAccept
  BY <1>0, <1>1, SteadyText, SteadyTwice DEF VxiAccept, Log
<1>2. CASE VxiTimeout \/ VxiAwg
  BY <1>0, <1>2 DEF VxiTimeout, VxiAwg
<1>3. CASE VxiReceive
  <2>1. client \in Sock
    BY <1>3 DEF VxiReceive, available, TypeOK
  <2>2. Consume(sock, client) \in Tables /\ Steady(Consume(sock, client), sock)
    BY <1>0, <2>1, UpdateType, SteadyUpdate
  <2> QED
    BY <1>0, <1>3, <2>2, SteadyText, SteadyTwice DEF VxiReceive, Log
<1>4. CASE VxiReply
  <2>1. client \in Sock /\ sock' = answer(sock)
    BY <1>4, GotoNextType DEF VxiReply, Writable, CloseLink, TypeOK
  <2> QED
    BY <1>0, <2>1, SteadyUpdate DEF answer
<1> QED
  BY <1>1, <1>2, <1>3, <1>4 DEF VxiStep

\* When the link is closed the scope's connection goes with it, so that it has
\* none when the port moves on.
LEMMA ScopeClose ==
  ASSUME TypeOK, TypeOK', OwnInv, ScopeInv, VxiTurn, VxiReply, CloseLink
  PROVE  ScopeInv'
<1> DEFINE logged  == Log(answer(sock))
           stopped == Stop(logged, client)
           begun   == Begin(stopped, GotoNext(vxi_port))
<1>0. /\ stream \in Sock \cup {NoSock} /\ sock \in Tables /\ sock' \in Tables
      /\ client \in Sock /\ client # NoSock /\ GotoNext(vxi_port) \in Nat
  BY NoSockNotSock, Ports, GotoNextType DEF TypeOK, VxiReply, Writable
<1>1. answer(sock) \in Tables /\ Steady(answer(sock), sock)
  BY <1>0, UpdateType, SteadyUpdate DEF answer
<1>2. logged \in Tables /\ Steady(logged, sock)
  BY <1>0, <1>1, LogType, SteadyText, SteadyTwice DEF Log
<1>3. Ends(logged) = {client} /\ Private(logged)
  <2>1. Ends(logged) = Ends(sock) /\ Private(logged)
    BY <1>0, <1>2, EndsKept DEF ScopeInv, TableInv
  <2> QED
    BY <1>0, <2>1, ClientIsEnd DEF ScopeInv, TableInv, Sole
<1> HIDE DEF logged
<1>4. /\ stopped \in Tables
      /\ stopped[client] = Closed
      /\ \A s \in Sock : s # client => stopped[s] = logged[s]
  BY <1>0, <1>2, UpdateType DEF Stop
<1>5. Ends(stopped) = {} /\ Private(stopped)
  <2>1. stopped[client].peer \notin Scopes /\ ~Held(stopped, client, stopped[client].port)
    BY <1>4, PeerAssumption DEF Closed, Unused, Held
  <2> HIDE DEF stopped
  <2>2. Ends(stopped) = {}
    BY <1>3, <1>4, <2>1 DEF Ends
  <2>3. ASSUME NEW s \in Sock, s # client, Held(stopped, s, stopped[s].port),
               stopped[s].port \in VxiPorts
        PROVE  FALSE
    <3>1. Held(logged, s, logged[s].port) /\ logged[s].port \in VxiPorts
      BY <1>4, <2>3 DEF Held
    <3> QED
      BY <1>3, <2>3, <3>1 DEF Private
  <2> QED
    BY <2>1, <2>2, <2>3 DEF Private
<1> HIDE DEF stopped
<1>6. begun \in Tables /\ Steady(begun, stopped)
  BY <1>0, <1>4, BeginType, SteadyBegin
<1>7. sock' = Log(begun)
  BY DEF CloseLink, begin_next, stopped, logged
<1> HIDE DEF begun
<1>8. Steady(sock', stopped)
  BY <1>0, <1>6, <1>7, SteadyText, SteadyTwice DEF Log
<1>9. Ends(sock') = {} /\ Private(sock')
  BY <1>0, <1>4, <1>5, <1>8, EndsKept DEF Whole
<1>10. Reached(sock', vxi_port')
  <2>1. \E s \in Sock : sock'[s] = Listening(vxi_port')
    BY <1>0, StepFresh DEF CloseLink, Next, loop
  <2> QED
    BY <2>1 DEF Reached, HasListener, Listening, Unused
<1>11. TableInv'
  BY <1>9 DEF TableInv, Sole, Whole, Placed
<1>12. AskInv' /\ GrantInv'
  BY <1>0, <1>9, ClientIsEnd DEF VxiTurn, bindVars, peerVars, ScopeInv, AskInv, GrantInv
<1> QED
  BY <1>10, <1>11, <1>12 DEF ScopeInv

LEMMA ScopeVxi ==
  ASSUME TypeOK, TypeOK', OwnInv, ScopeInv, VxiTurn
  PROVE  ScopeInv'
<1>1. CASE vxi_port' = vxi_port
  BY <1>1, SteadyVxi, ScopeKept DEF VxiTurn, bindVars, peerVars
<1>2. CASE vxi_port' # vxi_port
  <2>1. VxiReply /\ CloseLink
    BY <1>2 DEF VxiTurn, VxiStep, VxiAccept, VxiTimeout, VxiReceive, VxiAwg, VxiReply, vxiVars
  <2> QED
    BY <2>1, ScopeClose
<1> QED
  BY <1>1, <1>2

-----------------------------------------------------------------------------
(* The hosts *)

LEMMA NoConns ==
  ASSUME Orderly, NEW c \in Scopes, Conns(c) = {}
  PROVE  Ends(sock) = {}
BY DEF Orderly, Conns, Ends

\* A scope with room for a connection has none.
LEMMA FewConns ==
  ASSUME Orderly, NEW c \in Scopes, Cardinality(Conns(c)) < ConnLimit
  PROVE  Ends(sock) = {}
<1>1. IsFiniteSet(Sock)
  BY SockAssumption, FS_Interval DEF Sock
<1>2. IsFiniteSet(Conns(c))
  BY <1>1, FS_Subset DEF Conns
<1>3. Cardinality(Conns(c)) = 0
  BY <1>2, FS_CardinalityType DEF Orderly
<1> QED
  BY <1>2, <1>3, FS_EmptySet, NoConns

\* A host that dials takes a listener, and nothing else changes.
LEMMA Dialled ==
  ASSUME TypeOK, NEW c \in Peer, NEW p, Dial(c, p)
  PROVE  \E t \in Sock :
           /\ sock[t] = Listening(p) /\ sock'[t] = Opened(p, c)
           /\ t \notin Ends(sock)
           /\ \A s \in Sock : s # t => sock'[s] = sock[s]
           /\ Ends(sock') = IF c \in Scopes THEN Ends(sock) \cup {t} ELSE Ends(sock)
<1>1. PICK t \in Sock : sock[t] = Listening(p) /\ sock' = [sock EXCEPT ![t] = Opened(p, c)]
  BY DEF Dial
<1>2. sock'[t] = Opened(p, c) /\ \A s \in Sock : s # t => sock'[s] = sock[s]
  BY <1>1 DEF TypeOK
<1>3. sock[t].peer = NoPeer /\ sock'[t].peer = c
  BY <1>1, <1>2 DEF Listening, Opened, Unused
<1> QED
  BY <1>1, <1>2, <1>3, PeerAssumption DEF Ends

\* The scope dials a port, when it has no connection.
LEMMA ScopeDials ==
  ASSUME TypeOK, ScopeInv, NEW c \in Scopes, NEW p \in {BIND_PORT, vxi_port}, Dial(c, p),
         Ends(sock) = {}, UNCHANGED vxi_port
  PROVE  TableInv' /\ Reached(sock', vxi_port') /\ \A s \in Ends(sock') : sock'[s].port = p
<1>1. c \in Peer
  BY DEF Peer
<1>2. PICK t \in Sock :
        /\ sock[t] = Listening(p) /\ sock'[t] = Opened(p, c)
        /\ \A s \in Sock : s # t => sock'[s] = sock[s]
        /\ Ends(sock') = {t}
  BY <1>1, Dialled
<1>3. sock'[t].st = "estab" /\ sock'[t].port = p /\ sock[t].port = p
  BY <1>2 DEF Opened, Listening, Unused
<1>4. Sole(sock') /\ Whole(sock') /\ Placed(sock', vxi_port')
  BY <1>2, <1>3 DEF Sole, Whole, Placed
<1>5. Private(sock')
  BY <1>2 DEF ScopeInv, TableInv, Private, Held
<1>6. Reached(sock', vxi_port')
  BY <1>2, <1>3, Ports DEF ScopeInv, Reached, HasListener, TypeOK
<1> QED
  BY <1>2, <1>3, <1>4, <1>5, <1>6 DEF TableInv

\* A user dials: the scope and the VXI port are not concerned.
LEMMA UserDials ==
  ASSUME TypeOK, ScopeInv, NEW u \in Users, DialTelnet(u),
         UNCHANGED <<vxi_port, bindAt>>
  PROVE  ScopeInv'
<1>1. u \in Peer /\ u \notin Scopes
  BY PeerAssumption DEF Peer
<1>2. PICK t \in Sock :
        /\ sock[t] = Listening(TELNET_PORT) /\ sock'[t] = Opened(TELNET_PORT, u)
        /\ t \notin Ends(sock)
        /\ \A s \in Sock : s # t => sock'[s] = sock[s]
        /\ Ends(sock') = Ends(sock)
  BY <1>1, Dialled DEF DialTelnet
<1>3. \A s \in Ends(sock) : s \in Sock /\ sock'[s] = sock[s]
  BY <1>2 DEF Ends
<1>4. sock'[t].port = TELNET_PORT /\ sock[t].port = TELNET_PORT
  BY <1>2 DEF Opened, Listening, Unused
<1>5. Sole(sock') /\ Whole(sock') /\ Placed(sock', vxi_port')
  BY <1>2, <1>3 DEF ScopeInv, TableInv, Sole, Whole, Placed
<1>6. Private(sock')
  BY <1>2, <1>4, Ports DEF ScopeInv, TableInv, Private, Held
<1>7. Reached(sock', vxi_port')
  BY <1>2, <1>3, <1>4, Ports DEF ScopeInv, Reached, HasListener, TypeOK
<1>8. AskInv' /\ GrantInv'
  BY <1>2, <1>3 DEF DialTelnet, peerVars, ScopeInv, AskInv, GrantInv
<1> QED
  BY <1>5, <1>6, <1>7, <1>8 DEF TableInv, ScopeInv

\* A host closes its end: never of a VXI link.
LEMMA HostCloses ==
  ASSUME Orderly, TypeOK, ScopeInv, NEW t \in Sock, Fin(t),
         UNCHANGED <<vxi_port, bindAt>>
  PROVE  ScopeInv'
<1>0. sock[t] \in SockRec
  BY DEF TypeOK
<1>1. /\ sock[t].port \in {BIND_PORT, TELNET_PORT} /\ sock[t].port \notin VxiPorts
      /\ sock[t].port # vxi_port /\ sock[t].st = "estab"
  BY Ports DEF Fin, Orderly, TypeOK
<1>2. /\ sock'[t].port = sock[t].port /\ sock'[t].peer = NoPeer
      /\ \A s \in Sock : s # t => sock'[s] = sock[s]
  BY <1>0 DEF Fin, TypeOK, SockRec
<1>3. Ends(sock') = Ends(sock) \ {t}
  BY <1>2, PeerAssumption DEF Ends
<1>4. \A s \in Ends(sock') : s \in Ends(sock) /\ sock'[s] = sock[s]
  BY <1>2, <1>3 DEF Ends
<1>5. Sole(sock') /\ Whole(sock') /\ Placed(sock', vxi_port')
  BY <1>4 DEF ScopeInv, TableInv, Sole, Whole, Placed
<1>6. Private(sock')
  BY <1>1, <1>2, <1>3 DEF ScopeInv, TableInv, Private, Held
<1>7. Reached(sock', vxi_port')
  BY <1>1, <1>2, <1>3 DEF ScopeInv, Reached, HasListener, Ends
<1>8. AskInv' /\ GrantInv'
  BY <1>3, <1>4 DEF Fin, peerVars, ScopeInv, AskInv, GrantInv
<1> QED
  BY <1>5, <1>6, <1>7, <1>8 DEF TableInv, ScopeInv

LEMMA ScopeAsks ==
  ASSUME Orderly, TypeOK, ScopeInv, NEW c \in Scopes, AskUdp(c),
         UNCHANGED <<vxi_port, bindAt>>
  PROVE  ScopeInv'
<1>1. /\ c \notin asked /\ Conns(c) = {} /\ grant[c] = 0
      /\ UNCHANGED <<sock, grant>> /\ asked' = asked \cup {c}
  BY DEF AskUdp, MayAsk, Orderly
<1>2. asked = {} /\ udp = <<>> /\ bindAt # "udp"
  BY <1>1 DEF Orderly, TypeOK, ScopeInv, AskInv
<1>3. PICK r \in BindCalls : udp' = Append(udp, [from |-> c, call |-> r])
  BY DEF AskUdp
<1>4. Len(udp') = 1
  BY <1>2, <1>3
<1>5. Ends(sock) = {} /\ \A d \in Scopes : grant[d] = 0
  BY <1>1, NoConns DEF Orderly
<1>6. AskInv'
  BY <1>1, <1>2, <1>4, <1>5 DEF AskInv, Ends
<1> QED
  BY <1>1, <1>6 DEF ScopeInv, TableInv, Reached, GrantInv, Sole, Whole, Placed, Private,
                    Held, HasListener, Ends

LEMMA ScopeEnv ==
  ASSUME Orderly, TypeOK, TypeOK', ScopeInv, Env
  PROVE  ScopeInv'
<1>0. UNCHANGED <<vxi_port, bindAt>>
  BY DEF Env, vxiVars, bindVars
<1>1. ASSUME NEW c \in Scopes, AskUdp(c) PROVE ScopeInv'
  BY <1>0, <1>1, ScopeAsks
<1>2. ASSUME NEW c \in Scopes, DialBind(c) PROVE ScopeInv'
  <2>1. /\ c \notin asked /\ grant[c] = 0 /\ Ends(sock) = {}
        /\ Dial(c, BIND_PORT) /\ UNCHANGED peerVars
    BY <1>2, NoConns DEF DialBind, MayAsk, Orderly
  <2>2. asked = {} /\ \A d \in Scopes : grant[d] = 0
    BY <2>1 DEF Orderly, TypeOK
  <2>3. AskInv' /\ GrantInv'
    BY <1>0, <2>1, <2>2 DEF peerVars, ScopeInv, AskInv, GrantInv
  <2> QED
    BY <1>0, <2>1, <2>3, ScopeDials DEF ScopeInv
<1>3. ASSUME NEW c \in Scopes, DialGranted(c) PROVE ScopeInv'
  <2>1. /\ grant[c] # 0 /\ Ends(sock) = {} /\ Dial(c, grant[c])
        /\ grant' = [grant EXCEPT ![c] = 0] /\ UNCHANGED <<udp, asked>>
    BY <1>3, FewConns DEF DialGranted
  <2>2. asked = {} /\ grant[c] = vxi_port
    BY <2>1 DEF ScopeInv, AskInv, GrantInv
  <2>3. \A d \in Scopes : grant'[d] = 0
    BY <2>1 DEF Orderly, TypeOK
  <2>4. AskInv' /\ GrantInv'
    BY <1>0, <2>1, <2>2, <2>3 DEF ScopeInv, AskInv, GrantInv
  <2> QED
    BY <1>0, <2>1, <2>2, <2>4, ScopeDials DEF ScopeInv
<1>4. ASSUME NEW c \in Scopes, Refused(c) PROVE ScopeInv'
  <2>1. /\ UNCHANGED <<sock, udp, asked>>
        /\ \A d \in Scopes : grant'[d] \in {0, grant[d]}
    BY <1>4 DEF Refused, TypeOK
  <2> QED
    BY <1>0, <2>1 DEF ScopeInv, TableInv, Reached, AskInv, GrantInv, Sole, Whole, Placed,
                      Private, Held, HasListener, Ends
<1>5. ASSUME NEW u \in Users, DialTelnet(u) PROVE ScopeInv'
  BY <1>0, <1>5, UserDials
<1>6. ASSUME NEW t \in Sock, Fin(t) PROVE ScopeInv'
  BY <1>0, <1>6, HostCloses
<1>7. ASSUME NEW t \in Sock, NEW r \in Requests, Send(t, r) PROVE ScopeInv'
  <2>1. Steady(sock', sock)
    BY <1>7 DEF Send, Steady, SameEnd, TypeOK, SockRec
  <2> QED
    BY <1>0, <1>7, <2>1, ScopeKept DEF Send, peerVars
<1>8. ASSUME NEW t \in Sock, LastAck(t) PROVE ScopeInv'
  <2>1. Steady(sock', sock)
    BY <1>8 DEF LastAck, Steady, SameEnd, Ended, TypeOK, Closed, Unused
  <2> QED
    BY <1>0, <1>8, <2>1, ScopeKept DEF LastAck, peerVars
<1> QED
  BY <1>1, <1>2, <1>3, <1>4, <1>5, <1>6, <1>7, <1>8
  DEF Env, PeerStep, Orderly, Abort, Vanish

-----------------------------------------------------------------------------
(* setup(), when the program starts and when a write has restarted it *)

LEMMA ScopeSetup ==
  /\ Ends(SetupTable) = {} /\ Private(SetupTable)
  /\ Reached(SetupTable, VXI_PORT_START)
BY SetupSockets, PeerAssumption
DEF Ends, Private, Held, Reached, HasListener, Listening, Unused

LEMMA ScopeInvInit == Init => ScopeInv
BY ScopeSetup
DEF Init, VxiInit, PeersInit, BindInit, ScopeInv, TableInv, Sole, Whole, Placed, AskInv, GrantInv

\* The write came over the scope's link: it has no grant, and asks nothing.
LEMMA ScopeRestart ==
  ASSUME TypeOK, BindInv, OwnInv, ScopeInv, Restart
  PROVE  ScopeInv'
<1>1. client \in Ends(sock) /\ \A c \in Scopes : grant[c] = 0
  BY ClientIsEnd DEF Restart, BindInv
<1>2. asked = {}
  BY <1>1 DEF ScopeInv, AskInv
<1>3. Ends(sock') = {} /\ Private(sock') /\ Reached(sock', vxi_port')
  BY ScopeSetup DEF Restart
<1>4. AskInv' /\ GrantInv'
  BY <1>1, <1>2, <1>3 DEF Restart, AskInv, GrantInv
<1> QED
  BY <1>3, <1>4 DEF ScopeInv, TableInv, Sole, Whole, Placed

LEMMA ScopeInvNext ==
  ASSUME Orderly
  PROVE  TypeOK /\ TypeOK' /\ BindInv /\ OwnInv /\ ScopeInv /\ [Next]_vars => ScopeInv'
<1> SUFFICES ASSUME TypeOK, TypeOK', BindInv, OwnInv, ScopeInv, [Next]_vars
             PROVE  ScopeInv'
  OBVIOUS
<1>1. CASE AwgFails \/ UNCHANGED vars
  BY <1>1, ScopeKept DEF AwgFails, vars, vxiVars, bindVars, peerVars, Steady, SameEnd
<1> QED
  BY <1>1, ScopeTelnet, ScopeBind, ScopeVxi, ScopeEnv, ScopeRestart DEF Next, loop

LEMMA ScopeInvariant ==
  ASSUME Orderly
  PROVE  Spec => []ScopeInv
<1>1. "abort" \notin Faults
  BY DEF Orderly
<1> QED
  BY <1>1, ScopeInvInit, ScopeInvNext, TypeCorrect, BindInvariant, OwnInvariant, PTL
  DEF Spec

\* A port that one scope that keeps to the protocol has been granted is the
\* current one and takes its connection, however full the table is of the
\* listeners that earlier links have left.
THEOREM GrantedPortOpen ==
  ASSUME Orderly
  PROVE  Spec => []GrantDialable
<1>1. ScopeInv => GrantDialable
  BY DEF ScopeInv, GrantInv, Reached, GrantDialable
<1> QED
  BY <1>1, ScopeInvariant, PTL

\* Such a scope is never left connected to a port that no server looks at.
THEOREM NeverOrphaned ==
  ASSUME Orderly
  PROVE  Spec => []NoOrphan
<1>1. ScopeInv => NoOrphan
  BY DEF ScopeInv, TableInv, Placed, Ends, NoOrphan
<1> QED
  BY <1>1, ScopeInvariant, PTL
=============================================================================
