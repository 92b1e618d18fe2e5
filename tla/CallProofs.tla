----------------------------- MODULE CallProofs -----------------------------
(***************************************************************************)
(* No call is lost, every reply goes to the scope that waits for it, and   *)
(* the listeners on ports 111 and 23 stay, while no connection is reset.   *)
(***************************************************************************)
EXTENDS EspBodeProofs

USE DEF Tables

-----------------------------------------------------------------------------
(***************************************************************************)
(* What most operators do to the calls in the table: they leave those of a *)
(* socket as they are, or leave a socket in which nobody waits.            *)
(***************************************************************************)
SameCalls(q, r) == q.port = r.port /\ q.peer = r.peer /\ q.rx = r.rx /\ q.wait = r.wait
Blank(q)        == q.peer = NoPeer /\ q.wait = NoCall
Kept(new, old)  == \A s \in Sock : SameCalls(new[s], old[s]) \/ Blank(new[s])

LEMMA KeptTwice ==
  ASSUME NEW a, NEW b, NEW c, Kept(a, b), Kept(b, c)
  PROVE  Kept(a, c)
BY DEF Kept, SameCalls, Blank

LEMMA KeptBlank ==
  ASSUME NEW a, NEW b, Kept(a, b), NEW s \in Sock, Blank(b[s])
  PROVE  Blank(a[s])
BY DEF Kept, SameCalls, Blank

LEMMA KeptText ==
  ASSUME NEW tbl \in Tables, NEW s \in Sock \cup {NoSock}
  PROVE  Kept(Text(tbl, s), tbl)
BY TextFrame DEF Kept, SameCalls

LEMMA KeptBegin ==
  ASSUME NEW tbl \in Tables, NEW p
  PROVE  Kept(Begin(tbl, p), tbl)
BY DEF Kept, SameCalls, Blank, Begin, Listening, Unused

LEMMA KeptAvailable ==
  ASSUME NEW tbl \in Tables, NEW p \in Nat
  PROVE  Kept(Available(tbl, p), tbl)
<1>1. Kept(Swept(tbl, p), tbl)
  BY DEF Kept, SameCalls, Blank, Swept, Unused
<1>2. Kept(Begin(Swept(tbl, p), p), Swept(tbl, p))
  BY SweptType, KeptBegin
<1> QED
  BY <1>1, <1>2, KeptTwice DEF Available

LEMMA KeptStop ==
  ASSUME NEW tbl \in Tables, NEW s \in Sock
  PROVE  Kept(Stop(tbl, s), tbl) /\ Blank(Stop(tbl, s)[s])
BY DEF Kept, SameCalls, Blank, Stop, Closed, Unused

-----------------------------------------------------------------------------
(***************************************************************************)
(* The invariant: in a socket that no server handles, a scope that waits   *)
(* has its call unread; in one that a server handles the call has been     *)
(* read and still waits, and in the VXI server's it is the one handled.    *)
(***************************************************************************)
Pending(r) == /\ r.peer = NoPeer \/ r.port = TELNET_PORT => r.wait = NoCall
              /\ r.peer # NoPeer /\ r.port # TELNET_PORT => r.wait = r.rx
Taken(r)   == /\ r.peer = NoPeer => r.wait = NoCall
              /\ r.peer # NoPeer => r.rx = NoCall /\ r.wait # NoCall
Awaits(r, call) == r.peer # NoPeer => r.wait = call

Handled(s) == \/ s = client /\ vxiAt # "idle"
              \/ s = bind_client /\ bindAt = "tcp"

CallInv == /\ \A s \in Sock : IF Handled(s) THEN Taken(sock[s]) ELSE Pending(sock[s])
           /\ vxiAt # "idle" => Awaits(sock[client], vreq)

LEMMA PendingKept ==
  ASSUME NEW a, NEW b, Kept(a, b), NEW s \in Sock
  PROVE  /\ Pending(b[s]) => Pending(a[s])
         /\ Taken(b[s]) => Taken(a[s])
         /\ \A call : Awaits(b[s], call) => Awaits(a[s], call)
BY DEF Kept, SameCalls, Blank, Pending, Taken, Awaits

LEMMA CallInvInit == TypeOK /\ Init => CallInv
<1> SUFFICES ASSUME TypeOK, Init PROVE CallInv
  OBVIOUS
<1>1. \A s \in Sock : Blank(sock[s])
  BY SetupSockets DEF Init, Blank
<1>2. \A s \in Sock : ~Handled(s)
  BY DEF Init, VxiInit, BindInit, Handled
<1> QED
  BY <1>1, <1>2 DEF CallInv, Blank, Pending, Init, VxiInit

\* A step that keeps the table and handles the same sockets keeps CallInv.
LEMMA CallsKept ==
  ASSUME TypeOK, BindInv, CallInv, Kept(sock', sock),
         UNCHANGED <<client, vxiAt, vreq, bind_client, bindAt>>
  PROVE  CallInv'
<1>1. ASSUME NEW s \in Sock
      PROVE  IF Handled(s)' THEN Taken(sock'[s]) ELSE Pending(sock'[s])
  BY PendingKept DEF CallInv, Handled
<1>2. ASSUME vxiAt' # "idle" PROVE Awaits(sock'[client], vreq)
  <2>1. client \in Sock /\ Awaits(sock[client], vreq)
    BY <1>2 DEF CallInv, BindInv, TypeOK
  <2> QED
    BY <2>1, PendingKept
<1> QED
  BY <1>1, <1>2 DEF CallInv

\* When no socket is handled before or after a step, only Pending matters.
LEMMA CallsIdle ==
  ASSUME \A s \in Sock : Pending(sock'[s]),
         \A s \in Sock : ~Handled(s)', vxiAt' = "idle"
  PROVE  CallInv'
BY DEF CallInv

-----------------------------------------------------------------------------
(* The servers *)

LEMMA CallsTelnet ==
  ASSUME TypeOK, BindInv, OwnInv, CallInv, TelnetTurn
  PROVE  CallInv'
<1> DEFINE gone    == ~Connected(sock, telnet_client)
           tbl     == IF gone THEN Available(sock, TELNET_PORT) ELSE sock
           session == IF gone THEN Accepted(sock, TELNET_PORT) ELSE telnet_client
           fresh   == gone /\ session # NoSock
           input   == IF session = NoSock THEN NoCall ELSE tbl[session].rx
           greeted == IF fresh THEN Text(tbl, session) ELSE tbl
           read    == IF input = NoCall THEN greeted ELSE Consume(greeted, session)
<1>1. PICK chatter \in BOOLEAN :
        /\ stream' = IF fresh THEN session ELSE stream
        /\ sock' = IF input = "toggle" \/ (pass_through' /\ chatter)
                   THEN Text(read, stream') ELSE read
  BY DEF TelnetTurn, TelnetLoop
<1>2. /\ vxiAt = "idle" /\ bindAt # "tcp"
      /\ vxiAt' = "idle" /\ bindAt' # "tcp"
  BY DEF TelnetTurn, BindInv, TypeOK, vxiVars, bindVars
<1>3. \A s \in Sock : ~Handled(s) /\ ~Handled(s)'
  BY <1>2 DEF Handled
<1>4. \A s \in Sock : Pending(sock[s])
  BY <1>3 DEF CallInv
<1>5. /\ tbl \in Tables /\ session \in Sock \cup {NoSock} /\ stream \in Sock \cup {NoSock}
      /\ Kept(tbl, sock)
      /\ session # NoSock => session \in Sock /\ Held(tbl, session, TELNET_PORT)
  <2>1. CASE gone
    BY <2>1, AvailableType, AcceptedType, ReadyHeld, KeptAvailable, Ports DEF TypeOK
  <2>2. CASE ~gone
    BY <2>2 DEF TypeOK, OwnInv, Kept, SameCalls
  <2> QED
    BY <2>1, <2>2
<1>6. /\ greeted \in Tables /\ Kept(greeted, tbl)
      /\ session # NoSock => session \in Sock /\ Held(greeted, session, TELNET_PORT)
  <2>1. CASE fresh
    BY <1>5, <2>1, TextType, HeldText, KeptText
  <2>2. CASE ~fresh
    BY <1>5, <2>2 DEF Kept, SameCalls
  <2> QED
    BY <2>1, <2>2
<1>7. \A s \in Sock : Pending(greeted[s])
  BY <1>4, <1>5, <1>6, KeptTwice, PendingKept
<1>8. read \in Tables /\ \A s \in Sock : Pending(read[s])
  <2>1. CASE input = NoCall
    BY <1>6, <1>7, <2>1
  <2>2. CASE input # NoCall
    <3>1. session \in Sock /\ greeted[session].port = TELNET_PORT /\ read = Consume(greeted, session)
      BY <1>6, <2>2 DEF Held
    <3>2. read \in Tables
      BY <1>6, <3>1, UpdateType
    <3> HIDE DEF read, greeted, session
    <3>3. ASSUME NEW s \in Sock PROVE Pending(read[s])
      <4>1. greeted[s] \in SockRec
        BY <1>6
      <4>2. /\ read[s].port = greeted[s].port /\ read[s].peer = greeted[s].peer
            /\ read[s].wait = greeted[s].wait
            /\ s # session => read[s].rx = greeted[s].rx
        BY <1>6, <3>1, <4>1 DEF Consume, SockRec
      <4> QED
        BY <1>7, <3>1, <4>2 DEF Pending
    <3> QED
      BY <3>2, <3>3
  <2> QED
    BY <2>1, <2>2
<1>9. \A s \in Sock : Pending(sock'[s])
  <2>1. stream' \in Sock \cup {NoSock}
    BY <1>1, <1>5
  <2> HIDE DEF read
  <2> QED
    BY <1>1, <1>8, <2>1, KeptText, PendingKept
<1> QED
  BY <1>2, <1>3, <1>9, CallsIdle

LEMMA ConsumeFrame ==
  ASSUME NEW tbl \in Tables, NEW t \in Sock
  PROVE  /\ \A s \in Sock : s # t => /\ Consume(tbl, t)[s] = tbl[s]
                                    /\ Deliver(tbl, t)[s] = tbl[s]
         /\ Consume(tbl, t)[t] = [tbl[t] EXCEPT !.rx = NoCall]
         /\ Deliver(tbl, t)[t] = [tbl[t] EXCEPT !.wait = NoCall]
BY DEF Consume, Deliver

\* A server that reads a pending call takes it; one that answers a call it
\* has taken leaves a socket in which none is pending.
LEMMA TakenByRead ==
  ASSUME NEW r \in SockRec, Pending(r), r.rx # NoCall, r.port # TELNET_PORT
  PROVE  /\ Taken([r EXCEPT !.rx = NoCall])
         /\ Awaits([r EXCEPT !.rx = NoCall], r.rx)
BY DEF SockRec, Pending, Taken, Awaits

LEMMA PendingByReply ==
  ASSUME NEW r \in SockRec, Taken(r)
  PROVE  Pending([r EXCEPT !.wait = NoCall])
BY DEF SockRec, Pending, Taken

LEMMA CallsBind ==
  ASSUME TypeOK, BindInv, OwnInv, CallInv, BindTurn
  PROVE  CallInv'
<1>0. /\ vxiAt = "idle" /\ UNCHANGED <<client, vxiAt, vreq>>
      /\ stream \in Sock \cup {NoSock} /\ sock \in Tables
      /\ BindStep
  BY DEF BindTurn, BindStep, BindInv, TypeOK, vxiVars
<1>1. CASE BindBusy \/ BindUdp \/ BindNone \/ BindReplyUdp
  <2>1. Kept(sock, sock) /\ Kept(Log(sock), sock) /\ Kept(Available(sock, BIND_PORT), sock)
    BY <1>0, KeptText, KeptAvailable, Ports DEF Log, Kept, SameCalls
  <2>2. Kept(sock', sock)
    BY <1>1, <2>1 DEF BindBusy, BindUdp, BindNone, BindReplyUdp
  <2>3. /\ \A s \in Sock : ~Handled(s) /\ ~Handled(s)'
        /\ vxiAt' = "idle"
    BY <1>0, <1>1 DEF Handled, BindBusy, BindUdp, BindNone, BindReplyUdp, Serving, bindVars
  <2>4. \A s \in Sock : Pending(sock'[s])
    BY <2>2, <2>3, PendingKept DEF CallInv
  <2> QED
    BY <2>3, <2>4, CallsIdle
<1>2. CASE BindTcp
  <2> DEFINE s == bind_client'
             tbl == Available(sock, BIND_PORT)
             read == Consume(tbl, s)
  <2>1. /\ s \in Sock /\ Held(tbl, s, BIND_PORT) /\ tbl \in Tables /\ Kept(tbl, sock)
        /\ sock[s].rx # NoCall /\ tbl[s] = sock[s]
    <3>1. Accepted(sock, BIND_PORT) = s /\ s # NoSock
      BY <1>2 DEF BindTcp
    <3>2. s \in Sock /\ s \in Ready(sock, BIND_PORT) /\ Held(tbl, s, BIND_PORT)
      BY <1>0, <3>1, ReadyHeld, Ports
    <3>3. sock[s].rx # NoCall /\ sock[s].st \in {"estab", "closewait"}
      BY <3>2 DEF Ready
    <3>4. tbl[s] = sock[s]
      BY <1>0, <3>2, <3>3, AvailableFrame, Ports
    <3> QED
      BY <1>0, <3>2, <3>3, <3>4, AvailableType, KeptAvailable, Ports
  <2>2. \A t \in Sock : Pending(tbl[t])
    <3>1. \A t \in Sock : ~Handled(t)
      BY <1>0, <1>2 DEF Handled, BindTcp, Serving
    <3> QED
      BY <2>1, <3>1, PendingKept DEF CallInv
  <2>3. BIND_PORT # TELNET_PORT
    BY DEF BIND_PORT, TELNET_PORT
  <2>4. tbl[s] \in SockRec /\ tbl[s].port # TELNET_PORT /\ tbl[s].rx # NoCall
    BY <2>1, <2>3 DEF Held
  <2>5. read \in Tables /\ Taken(read[s])
    BY <2>1, <2>2, <2>4, TakenByRead, ConsumeFrame, UpdateType
  <2>6. \A t \in Sock : t # s => Pending(read[t])
    <3> HIDE DEF tbl, s
    <3> QED
      BY <2>1, <2>2, ConsumeFrame
  <2>7. sock' = Log(read) /\ bindAt' = "tcp" /\ vxiAt' = "idle"
    BY <1>0, <1>2 DEF BindTcp
  <2> HIDE DEF read, tbl
  <2>8. Kept(sock', read)
    BY <1>0, <2>5, <2>7, KeptText DEF Log
  <2>9. \A t \in Sock : Handled(t)' <=> t = s
    BY <2>7 DEF Handled
  <2> QED
    BY <2>5, <2>6, <2>7, <2>8, <2>9, PendingKept DEF CallInv
<1>3. CASE BindReplyTcp
  <2>1. /\ bind_client \in Sock /\ Handled(bind_client)
        /\ sock' = Deliver(sock, bind_client) /\ bindAt' = "idle"
    BY <1>3 DEF BindReplyTcp, Writable, TypeOK, Handled
  <2>2. \A t \in Sock : ~Handled(t)' /\ (t # bind_client => ~Handled(t))
    BY <1>0, <2>1 DEF Handled
  <2>3. ASSUME NEW t \in Sock PROVE Pending(sock'[t])
    <3>1. sock[t] \in SockRec
      BY <1>0
    <3>2. CASE t = bind_client
      BY <1>0, <2>1, <3>1, <3>2, ConsumeFrame, PendingByReply DEF CallInv
    <3>3. CASE t # bind_client
      <4>1. sock'[t] = sock[t]
        BY <1>0, <2>1, <3>3 DEF Deliver
      <4> QED
        BY <2>2, <3>3, <4>1 DEF CallInv
    <3> QED
      BY <3>2, <3>3
  <2> QED
    BY <1>0, <2>2, <2>3, CallsIdle
<1> QED
  BY <1>0, <1>1, <1>2, <1>3 DEF BindStep

LEMMA CallsVxi ==
  ASSUME TypeOK, BindInv, OwnInv, CallInv, VxiTurn
  PROVE  CallInv'
<1>0. /\ bindAt = "idle" /\ UNCHANGED <<bind_client, bindAt>>
      /\ stream \in Sock \cup {NoSock} /\ sock \in Tables
      /\ vxi_port \in Nat /\ GotoNext(vxi_port) \in Nat /\ vxi_port # TELNET_PORT
      /\ VxiStep
  BY Ports, GotoNextType DEF VxiTurn, BindInv, TypeOK, bindVars
<1>1. CASE VxiAccept
  <2>1. Kept(sock', sock)
    <3>1. Available(sock, vxi_port) \in Tables /\ Kept(Available(sock, vxi_port), sock)
      BY <1>0, AvailableType, KeptAvailable
    <3> QED
      BY <1>0, <1>1, <3>1, KeptText, KeptTwice DEF VxiAccept, Log
  <2>2. /\ \A s \in Sock : ~Handled(s) /\ ~Handled(s)'
        /\ vxiAt' = "idle"
    BY <1>0, <1>1 DEF Handled, VxiAccept
  <2>3. \A s \in Sock : Pending(sock'[s])
    BY <2>1, <2>2, PendingKept DEF CallInv
  <2> QED
    BY <2>2, <2>3, CallsIdle
<1>2. CASE VxiTimeout
  BY <1>0, <1>2, CallsKept DEF VxiTimeout, vxiVars, Kept, SameCalls
<1>3. CASE VxiAwg
  BY <1>0, <1>3 DEF VxiAwg, CallInv, Handled
<1>4. CASE VxiReceive
  <2> DEFINE read == Consume(sock, client)
  <2>1. /\ client \in Sock /\ sock[client] \in SockRec
        /\ sock[client].rx # NoCall /\ sock[client].port # TELNET_PORT
    BY <1>0, <1>4 DEF VxiReceive, available, TypeOK, OwnInv, Held
  <2>2. \A s \in Sock : Pending(sock[s])
    BY <1>0, <1>4 DEF VxiReceive, CallInv, Handled
  <2>3. /\ read \in Tables /\ Taken(read[client]) /\ Awaits(read[client], sock[client].rx)
        /\ \A s \in Sock : s # client => Pending(read[s])
    <3>1. read \in Tables /\ read[client] = [sock[client] EXCEPT !.rx = NoCall]
      BY <1>0, <2>1, UpdateType, ConsumeFrame
    <3>2. \A s \in Sock : s # client => read[s] = sock[s]
      BY <1>0, <2>1 DEF Consume
    <3> HIDE DEF read
    <3>3. Taken(read[client]) /\ Awaits(read[client], sock[client].rx)
      BY <2>1, <2>2, <3>1, TakenByRead
    <3> QED
      BY <2>2, <3>1, <3>2, <3>3
  <2>4. sock' = Log(read) /\ client' = client /\ vreq' = sock[client].rx /\ vxiAt' # "idle"
    BY <1>4 DEF VxiReceive
  <2> HIDE DEF read
  <2>5. Kept(sock', read)
    BY <1>0, <2>3, <2>4, KeptText DEF Log
  <2>6. \A s \in Sock : Handled(s)' <=> s = client
    BY <1>0, <2>4 DEF Handled
  <2> QED
    BY <2>1, <2>3, <2>4, <2>5, <2>6, PendingKept DEF CallInv
<1>5. CASE VxiReply
  <2>1. client \in Sock /\ Handled(client) /\ vxiAt' = "idle"
    BY <1>5 DEF VxiReply, Writable, TypeOK, Handled
  <2>2. \A s \in Sock : ~Handled(s)' /\ (s # client => ~Handled(s))
    BY <1>0, <2>1 DEF Handled
  <2>3. answer(sock) \in Tables /\ \A s \in Sock : Pending(answer(sock)[s])
    <3>1. answer(sock) \in Tables
      BY <1>0, <2>1, UpdateType DEF answer
    <3>2. ASSUME NEW s \in Sock, s = client PROVE Pending(answer(sock)[s])
      <4>1. sock[s] \in SockRec /\ Taken(sock[s])
        BY <1>0, <2>1, <3>2 DEF CallInv
      <4> QED
        BY <1>0, <2>1, <3>2, <4>1, ConsumeFrame, PendingByReply DEF answer
    <3>3. ASSUME NEW s \in Sock, s # client PROVE Pending(answer(sock)[s])
      <4>1. answer(sock)[s] = sock[s]
        BY <1>0, <2>1, <3>3 DEF answer, Deliver
      <4> QED
        BY <2>2, <3>3, <4>1 DEF CallInv
    <3> QED
      BY <3>1, <3>2, <3>3
  <2>4. CASE sock' = answer(sock)
    BY <2>1, <2>2, <2>3, <2>4, CallsIdle
  <2>5. CASE CloseLink
    <3> DEFINE logged  == Log(answer(sock))
               stopped == Stop(logged, client)
               begun   == Begin(stopped, GotoNext(vxi_port))
    <3>1. logged \in Tables /\ Kept(logged, answer(sock))
      BY <1>0, <2>3, LogType, KeptText DEF Log
    <3>2. stopped \in Tables /\ Kept(stopped, logged)
      BY <2>1, <3>1, UpdateType, KeptStop
    <3>3. begun \in Tables /\ Kept(begun, stopped)
      BY <1>0, <3>2, BeginType, KeptBegin
    <3>4. sock' = Log(begun)
      BY <2>5 DEF CloseLink, begin_next
    <3> HIDE DEF logged, stopped, begun
    <3>5. Kept(sock', begun)
      BY <1>0, <3>3, <3>4, KeptText DEF Log
    <3>6. Kept(sock', answer(sock))
      BY <3>1, <3>2, <3>3, <3>5, KeptTwice
    <3> QED
      BY <2>1, <2>2, <2>3, <3>6, PendingKept, CallsIdle
  <2> QED
    BY <1>5, <2>4, <2>5 DEF VxiReply
<1> QED
  BY <1>0, <1>1, <1>2, <1>3, <1>4, <1>5 DEF VxiStep

-----------------------------------------------------------------------------
(* The hosts *)

LEMMA HandledHeld ==
  ASSUME TypeOK, OwnInv, NEW s \in Sock, Handled(s)
  PROVE  /\ sock[s].st \in {"estab", "closewait"}
         /\ sock[s].port # TELNET_PORT
BY NoSockNotSock, Ports DEF Handled, OwnInv, Held, TypeOK, BIND_PORT, TELNET_PORT

\* A dialled listener was in no server's hands, and nothing waits in it yet.
LEMMA CallsDial ==
  ASSUME TypeOK, BindInv, OwnInv, CallInv, NEW c, NEW q, Dial(c, q),
         UNCHANGED <<client, vxiAt, vreq, bind_client, bindAt>>
  PROVE  CallInv'
<1>1. PICK t \in Sock : sock[t] = Listening(q) /\ sock' = [sock EXCEPT ![t] = Opened(q, c)]
  BY DEF Dial
<1>2. ~Handled(t)
  BY <1>1, HandledHeld DEF Listening, Unused
<1>3. Pending(Opened(q, c))
  BY DEF Pending, Opened, Unused
<1>4. /\ \A s \in Sock : s # t => sock'[s] = sock[s]
      /\ sock'[t] = Opened(q, c)
  BY <1>1 DEF TypeOK
<1>5. \A s \in Sock : Handled(s)' <=> Handled(s)
  BY DEF Handled
<1>6. vxiAt # "idle" => client \in Sock /\ client # t
  BY <1>2 DEF Handled, BindInv, TypeOK
<1> QED
  BY <1>2, <1>3, <1>4, <1>5, <1>6 DEF CallInv

\* A peer sends only when nothing waits, so no server is handling its socket.
LEMMA CallsSend ==
  ASSUME TypeOK, BindInv, OwnInv, CallInv, NEW t \in Sock, NEW r \in Requests, Send(t, r),
         UNCHANGED <<client, vxiAt, vreq, bind_client, bindAt>>
  PROVE  CallInv'
<1>1. sock[t] \in SockRec
  BY DEF TypeOK
<1>2. ~Handled(t)
  BY DEF Send, CallInv, Taken
<1>3. /\ sock'[t].peer # NoPeer
      /\ sock'[t].port = sock[t].port
      /\ sock'[t].rx = r /\ sock'[t].wait = IF r \in Lines THEN NoCall ELSE r
      /\ \A s \in Sock : s # t => sock'[s] = sock[s]
  BY <1>1 DEF Send, SockRec, TypeOK
<1>4. Pending(sock'[t])
  <2>1. r \in Lines <=> sock[t].port = TELNET_PORT
    BY DEF Send, CallsOn, Lines, BindCalls, VxiCalls
  <2> QED
    BY <1>3, <2>1 DEF Pending
<1>5. \A s \in Sock : Handled(s)' <=> Handled(s)
  BY DEF Handled
<1>6. vxiAt # "idle" => client \in Sock /\ client # t
  BY <1>2 DEF Handled, BindInv, TypeOK
<1> QED
  BY <1>2, <1>3, <1>4, <1>5, <1>6 DEF CallInv

LEMMA CallsEnv ==
  ASSUME "abort" \notin Faults, TypeOK, BindInv, OwnInv, CallInv, Env
  PROVE  CallInv'
<1>0. UNCHANGED <<client, vxiAt, vreq, bind_client, bindAt>>
  BY DEF Env, vxiVars, bindVars
<1>1. CASE UNCHANGED sock
  BY <1>0, <1>1, CallsKept DEF Kept, SameCalls
<1>2. ASSUME NEW c, NEW q, Dial(c, q) PROVE CallInv'
  BY <1>0, <1>2, CallsDial
<1>3. ASSUME NEW t \in Sock, Fin(t) \/ Vanish(t) \/ LastAck(t) PROVE CallInv'
  <2>1. sock[t] \in SockRec /\ \A s \in Sock : s # t => sock'[s] = sock[s]
    BY <1>3 DEF Fin, Vanish, LastAck, TypeOK
  <2>2. Blank(sock'[t])
    BY <1>3, <2>1 DEF Fin, Vanish, LastAck, TypeOK, SockRec, Blank, Closed, Unused
  <2>3. Kept(sock', sock)
    BY <2>1, <2>2 DEF Kept, SameCalls
  <2> QED
    BY <1>0, <2>3, CallsKept
<1>4. ASSUME NEW t \in Sock, NEW r \in Requests, Send(t, r) PROVE CallInv'
  BY <1>0, <1>4, CallsSend
<1> QED
  BY <1>1, <1>2, <1>3, <1>4
  DEF Env, PeerStep, AskUdp, DialBind, DialGranted, Refused, DialTelnet, Abort

\* After a restart nobody is connected, and no server handles anything.
LEMMA CallsRestart == Restart => CallInv'
<1> SUFFICES ASSUME Restart PROVE CallInv'
  OBVIOUS
<1>1. \A s \in Sock : Pending(sock'[s])
  BY SetupSockets DEF Restart, Pending
<1>2. vxiAt' = "idle" /\ \A s \in Sock : ~Handled(s)'
  BY DEF Restart, Handled
<1> QED
  BY <1>1, <1>2, CallsIdle

LEMMA CallInvNext ==
  ASSUME "abort" \notin Faults
  PROVE  TypeOK /\ BindInv /\ OwnInv /\ CallInv /\ [Next]_vars => CallInv'
<1> SUFFICES ASSUME TypeOK, BindInv, OwnInv, CallInv, [Next]_vars PROVE CallInv'
  OBVIOUS
<1>1. CASE AwgFails \/ UNCHANGED vars
  BY <1>1, CallsKept DEF AwgFails, vars, vxiVars, bindVars, Kept, SameCalls
<1> QED
  BY <1>1, CallsTelnet, CallsBind, CallsVxi, CallsEnv, CallsRestart DEF Next, loop

LEMMA CallInvariant ==
  ASSUME "abort" \notin Faults
  PROVE  Spec => []CallInv
BY CallInvInit, CallInvNext, TypeCorrect, BindInvariant, OwnInvariant, PTL DEF Spec

\* While no connection is reset, the VXI server answers the call that the
\* scope at the other end waits for, whatever else the hosts do.
THEOREM AnsweredToCaller ==
  ASSUME "abort" \notin Faults
  PROVE  Spec => []ReplyToCaller
<1>1. CallInv => ReplyToCaller
  BY DEF CallInv, ReplyToCaller, Awaits
<1> QED
  BY <1>1, CallInvariant, PTL

\* While no connection is reset, a call that a scope waits to have answered on a
\* connection is unread in its socket or being handled: a restart takes the
\* connection with the call.
THEOREM CallsNotLost ==
  ASSUME "abort" \notin Faults
  PROVE  Spec => []NoLostCall
<1>1. BindInv /\ CallInv => NoLostCall
  BY DEF BindInv, CallInv, NoLostCall, Handled, Pending, Taken, Awaits
<1> QED
  BY <1>1, CallInvariant, BindInvariant, PTL

-----------------------------------------------------------------------------
(***************************************************************************)
(* The listeners on ports 111 and 23.  A port that has an open socket      *)
(* keeps one: a sweep that takes the last one away leaves a closing socket *)
(* for the new listener.                                                   *)
(***************************************************************************)
Open == {"listen", "estab", "closewait"}
HasOpen(tbl, p) == \E s \in Sock : tbl[s].port = p /\ tbl[s].st \in Open

LEMMA OpenAvailable ==
  ASSUME NEW tbl \in Tables, NEW p, NEW q \in Nat, HasOpen(tbl, p)
  PROVE  HasOpen(Available(tbl, q), p)
<1> DEFINE swept == Swept(tbl, q)
<1>1. PICK s \in Sock : tbl[s].port = p /\ tbl[s].st \in Open
  BY DEF HasOpen
<1>2. CASE swept[s] = tbl[s]
  <2>1. swept \in Tables
    BY SweptType
  <2>2. Begin(swept, q)[s] = tbl[s]
    BY <1>1, <1>2, <2>1, BeginFrame DEF Open
  <2> QED
    BY <1>1, <1>2, <2>2 DEF HasOpen, Available
<1>3. CASE swept[s] # tbl[s]
  <2>1. swept \in Tables /\ swept[s].st = "lastack" /\ p = q
    BY <1>1, <1>3, SweptType DEF Swept, Unused
  <2>2. CASE HasListener(tbl, q)
    <3>1. PICK t \in Sock : tbl[t].st = "listen" /\ tbl[t].port = q
      BY <2>2 DEF HasListener
    <3>2. swept[t] = tbl[t]
      BY <3>1 DEF Swept
    <3> QED
      BY <2>1, <2>2, <3>1, <3>2 DEF HasOpen, Open, Available
  <2>3. CASE ~HasListener(tbl, q)
    <3>1. PICK t \in Sock : Begin(swept, q)[t] = Listening(q)
      BY <2>1, BeginListens
    <3> QED
      BY <2>1, <2>3, <3>1 DEF HasOpen, Open, Available, Listening, Unused
  <2> QED
    BY <2>2, <2>3
<1> QED
  BY <1>2, <1>3

LEMMA OpenFrame ==
  ASSUME NEW tbl \in Tables, NEW p, NEW q, NEW s \in Sock, NEW t \in Sock \cup {NoSock},
         HasOpen(tbl, p)
  PROVE  /\ HasOpen(Begin(tbl, q), p)
         /\ HasOpen(Text(tbl, t), p)
         /\ HasOpen(Consume(tbl, s), p)
         /\ HasOpen(Deliver(tbl, s), p)
         /\ tbl[s].port # p => HasOpen(Stop(tbl, s), p)
<1>1. PICK x \in Sock : tbl[x].port = p /\ tbl[x].st \in Open
  BY DEF HasOpen
<1>2. HasOpen(Begin(tbl, q), p)
  BY <1>1, BeginFrame DEF HasOpen, Open
<1>3. HasOpen(Text(tbl, t), p)
  BY <1>1, TextFrame DEF HasOpen
<1>4. HasOpen(Consume(tbl, s), p) /\ HasOpen(Deliver(tbl, s), p)
  <2>1. tbl[s] \in SockRec
    OBVIOUS
  <2> QED
    BY <1>1, <2>1 DEF HasOpen, Consume, Deliver, SockRec
<1>5. tbl[s].port # p => HasOpen(Stop(tbl, s), p)
  BY <1>1 DEF HasOpen, Stop
<1> QED
  BY <1>2, <1>3, <1>4, <1>5

LEMMA OpenTelnet ==
  ASSUME TypeOK, TelnetLoop, NEW p, HasOpen(sock, p)
  PROVE  HasOpen(sock', p)
<1> DEFINE gone    == ~Connected(sock, telnet_client)
           tbl     == IF gone THEN Available(sock, TELNET_PORT) ELSE sock
           session == IF gone THEN Accepted(sock, TELNET_PORT) ELSE telnet_client
           fresh   == gone /\ session # NoSock
           input   == IF session = NoSock THEN NoCall ELSE tbl[session].rx
           greeted == IF fresh THEN Text(tbl, session) ELSE tbl
           read    == IF input = NoCall THEN greeted ELSE Consume(greeted, session)
<1>1. PICK chatter \in BOOLEAN :
        /\ stream' = IF fresh THEN session ELSE stream
        /\ sock' = IF input = "toggle" \/ (pass_through' /\ chatter)
                   THEN Text(read, stream') ELSE read
  BY DEF TelnetLoop
<1>2. /\ tbl \in Tables /\ session \in Sock \cup {NoSock} /\ stream \in Sock \cup {NoSock}
      /\ HasOpen(tbl, p)
  BY AvailableType, AcceptedType, OpenAvailable, Ports DEF TypeOK
<1>3. greeted \in Tables /\ HasOpen(greeted, p)
  <2> HIDE DEF tbl, session
  <2> QED
    BY <1>2, TextType, OpenFrame, SockAssumption DEF Sock
<1>4. read \in Tables /\ HasOpen(read, p)
  <2>1. input # NoCall => session \in Sock
    BY <1>2
  <2> HIDE DEF greeted, session, input
  <2> QED
    BY <1>3, <2>1, UpdateType, OpenFrame
<1>5. stream' \in Sock \cup {NoSock}
  BY <1>1, <1>2
<1>6. HasOpen(Text(read, stream'), p)
  <2>1. 0 \in Sock
    BY SockAssumption DEF Sock
  <2> HIDE DEF read
  <2> QED
    BY <1>4, <1>5, <2>1, OpenFrame
<1> QED
  BY <1>1, <1>4, <1>6

LEMMA OpenBind ==
  ASSUME TypeOK, BindStep, NEW p, HasOpen(sock, p)
  PROVE  HasOpen(sock', p)
<1>0. /\ stream \in Sock \cup {NoSock} /\ sock \in Tables /\ 0 \in Sock
      /\ Available(sock, BIND_PORT) \in Tables /\ HasOpen(Available(sock, BIND_PORT), p)
  BY AvailableType, OpenAvailable, Ports, SockAssumption DEF TypeOK, Sock
<1>1. CASE BindBusy \/ BindReplyUdp
  BY <1>1 DEF BindBusy, BindReplyUdp
<1>2. CASE BindUdp
  BY <1>0, <1>2, OpenFrame DEF BindUdp, Log
<1>3. CASE BindNone
  BY <1>0, <1>3 DEF BindNone
<1>4. CASE BindTcp
  <2>1. bind_client' \in Sock
    BY <1>4, AcceptedType, Ports DEF BindTcp, TypeOK
  <2>2. /\ Consume(Available(sock, BIND_PORT), bind_client') \in Tables
        /\ HasOpen(Consume(Available(sock, BIND_PORT), bind_client'), p)
    BY <1>0, <2>1, UpdateType, OpenFrame
  <2> QED
    BY <1>0, <1>4, <2>2, OpenFrame DEF BindTcp, Log
<1>5. CASE BindReplyTcp
  <2>1. bind_client \in Sock /\ sock' = Deliver(sock, bind_client)
    BY <1>5 DEF BindReplyTcp, Writable, TypeOK
  <2> QED
    BY <1>0, <2>1, OpenFrame
<1> QED
  BY <1>1, <1>2, <1>3, <1>4, <1>5 DEF BindStep

LEMMA OpenVxi ==
  ASSUME TypeOK, OwnInv, VxiStep, NEW p, HasOpen(sock, p), p # vxi_port
  PROVE  HasOpen(sock', p)
<1>0. /\ stream \in Sock \cup {NoSock} /\ sock \in Tables /\ 0 \in Sock
      /\ vxi_port \in Nat /\ GotoNext(vxi_port) \in Nat
  <2>1. 0 \in Sock
    BY SockAssumption DEF Sock
  <2> QED
    BY <2>1, Ports, GotoNextType DEF TypeOK
<1>1. CASE VxiAccept
  <2>1. Available(sock, vxi_port) \in Tables /\ HasOpen(Available(sock, vxi_port), p)
    BY <1>0, AvailableType, OpenAvailable
  <2> QED
    BY <1>0, <1>1, <2>1, OpenFrame DEF VxiAccept, Log
<1>2. CASE VxiTimeout \/ VxiAwg
  BY <1>2 DEF VxiTimeout, VxiAwg
<1>3. CASE VxiReceive
  <2>1. client \in Sock
    BY <1>3 DEF VxiReceive, available, TypeOK
  <2>2. Consume(sock, client) \in Tables /\ HasOpen(Consume(sock, client), p)
    BY <1>0, <2>1, UpdateType, OpenFrame
  <2> QED
    BY <1>0, <1>3, <2>2, OpenFrame DEF VxiReceive, Log
<1>4. CASE VxiReply
  <2>1. client \in Sock /\ Held(sock, client, vxi_port)
    BY <1>4 DEF VxiReply, Writable, TypeOK, OwnInv
  <2>2. /\ answer(sock) \in Tables /\ HasOpen(answer(sock), p)
        /\ Held(answer(sock), client, vxi_port)
    BY <1>0, <2>1, UpdateType, OpenFrame, HeldUpdate DEF answer
  <2>3. CASE sock' = answer(sock)
    BY <2>2, <2>3
  <2>4. CASE CloseLink
    <3> DEFINE logged  == Log(answer(sock))
               stopped == Stop(logged, client)
               begun   == Begin(stopped, GotoNext(vxi_port))
    <3>1. /\ logged \in Tables /\ HasOpen(logged, p)
          /\ Held(logged, client, vxi_port)
      BY <1>0, <2>1, <2>2, LogType, OpenFrame, HeldText DEF Log
    <3>2. stopped \in Tables /\ HasOpen(stopped, p)
      <4> HIDE DEF logged
      <4> QED
        BY <2>1, <3>1, UpdateType, OpenFrame DEF Held
    <3>3. begun \in Tables /\ HasOpen(begun, p)
      <4> HIDE DEF stopped
      <4> QED
        BY <1>0, <3>2, BeginType, OpenFrame
    <3>4. sock' = Log(begun)
      BY <2>4 DEF CloseLink, begin_next
    <3> HIDE DEF begun
    <3> QED
      BY <1>0, <3>3, <3>4, OpenFrame DEF Log
  <2> QED
    BY <1>4, <2>3, <2>4 DEF VxiReply
<1> QED
  BY <1>1, <1>2, <1>3, <1>4 DEF VxiStep

LEMMA OpenEnv ==
  ASSUME "abort" \notin Faults, TypeOK, Env, NEW p, HasOpen(sock, p)
  PROVE  HasOpen(sock', p)
<1>1. CASE UNCHANGED sock
  BY <1>1
<1> PICK s \in Sock : sock[s].port = p /\ sock[s].st \in Open
  BY DEF HasOpen
<1>2. ASSUME NEW c, NEW q, Dial(c, q) PROVE HasOpen(sock', p)
  <2>1. PICK t \in Sock : sock[t] = Listening(q) /\ sock' = [sock EXCEPT ![t] = Opened(q, c)]
    BY <1>2 DEF Dial
  <2>2. /\ s = t => sock'[s].port = p /\ sock'[s].st = "estab"
        /\ s # t => sock'[s] = sock[s]
    BY <2>1 DEF Opened, Listening, Unused, TypeOK
  <2> QED
    BY <2>2 DEF HasOpen, Open
<1>3. ASSUME NEW t \in Sock, Fin(t) PROVE HasOpen(sock', p)
  BY <1>3 DEF Fin, HasOpen, Open, TypeOK, SockRec
<1>4. ASSUME NEW t \in Sock, Vanish(t) PROVE HasOpen(sock', p)
  BY <1>4 DEF Vanish, HasOpen, Open, TypeOK, SockRec
<1>5. ASSUME NEW t \in Sock, NEW r \in Requests, Send(t, r) PROVE HasOpen(sock', p)
  BY <1>5 DEF Send, HasOpen, Open, TypeOK, SockRec
<1>6. ASSUME NEW t \in Sock, LastAck(t) PROVE HasOpen(sock', p)
  BY <1>6 DEF LastAck, HasOpen, Open, TypeOK
<1> QED
  BY <1>1, <1>2, <1>3, <1>4, <1>5, <1>6
  DEF Env, PeerStep, AskUdp, DialBind, DialGranted, Refused, DialTelnet, Abort

LEMMA OpenKept ==
  ASSUME "abort" \notin Faults, TypeOK, OwnInv, [Next]_vars,
         NEW p \in {BIND_PORT, TELNET_PORT}, HasOpen(sock, p)
  PROVE  HasOpen(sock', p)
<1>0. p # vxi_port
  BY Ports DEF TypeOK
<1>1. CASE AwgFails \/ UNCHANGED vars
  BY <1>1 DEF AwgFails, vars
<1>2. CASE Restart
  BY <1>2, SetupSockets DEF Restart, HasOpen, Open, Listening, Unused
<1> QED
  BY <1>0, <1>1, <1>2, OpenTelnet, OpenBind, OpenVxi, OpenEnv
  DEF Next, loop, TelnetTurn, BindTurn, VxiTurn

\* While no connection is reset, ports 111 and 23 are never left without a
\* socket, however many the VXI server's abandoned listeners take.
THEOREM ListenersStay ==
  ASSUME "abort" \notin Faults
  PROVE  Spec => []ListenersKept
<1>1. ListenersKept <=> HasOpen(sock, BIND_PORT) /\ HasOpen(sock, TELNET_PORT)
  BY DEF ListenersKept, HasOpen, Open
<1>2. Init => ListenersKept
  <2> SUFFICES ASSUME Init PROVE ListenersKept
    OBVIOUS
  <2>1. sock = SetupTable
    BY DEF Init
  <2> QED
    BY <2>1, SetupSockets DEF ListenersKept, Listening, Unused
<1>3. TypeOK /\ OwnInv /\ ListenersKept /\ [Next]_vars => ListenersKept'
  BY <1>1, OpenKept DEF ListenersKept, HasOpen, Open
<1> QED
  BY <1>2, <1>3, TypeCorrect, OwnInvariant, PTL DEF Spec
=============================================================================
