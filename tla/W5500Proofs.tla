---------------------------- MODULE W5500Proofs ----------------------------
(***************************************************************************)
(* Facts about the operators on the socket table: what each of them leaves *)
(* alone, and that one can always find the socket it looks for.            *)
(***************************************************************************)
EXTENDS TelnetStream, TLAPS, WellFoundedInduction

Tables == [Sock -> SockRec]

LEMMA UnusedType ==
  ASSUME NEW st \in States, NEW p \in Nat
  PROVE  Unused(st, p) \in SockRec
BY PeerAssumption DEF Unused, SockRec

\* Begin either leaves a socket alone or finds it free and listens on it.
LEMMA BeginType ==
  ASSUME NEW tbl \in Tables, NEW p \in Nat
  PROVE  Begin(tbl, p) \in Tables
<1>1. Listening(p) \in SockRec
  BY UnusedType DEF Listening, States
<1> QED
  BY <1>1 DEF Begin, Tables

LEMMA BeginFrame ==
  ASSUME NEW tbl \in Tables, NEW p, NEW s \in Sock,
         tbl[s].st \notin {"closed", "lastack"}
  PROVE  Begin(tbl, p)[s] = tbl[s]
BY DEF Begin, Free, Lowest, WithSt

LEMMA SweptType ==
  ASSUME NEW tbl \in Tables, NEW p \in Nat
  PROVE  Swept(tbl, p) \in Tables
<1>1. Unused("lastack", p) \in SockRec
  BY UnusedType DEF States
<1> QED
  BY <1>1 DEF Swept, Tables

LEMMA AvailableType ==
  ASSUME NEW tbl \in Tables, NEW p \in Nat
  PROVE  Available(tbl, p) \in Tables
BY SweptType, BeginType DEF Available

\* A sweep of port p does not touch a connection that is made on another
\* port, that is still open at both ends, or that holds unread data.
LEMMA AvailableFrame ==
  ASSUME NEW tbl \in Tables, NEW p \in Nat, NEW s \in Sock,
         tbl[s].st \notin {"closed", "lastack"},
         \/ tbl[s].port # p
         \/ tbl[s].st # "closewait"
         \/ tbl[s].rx # NoCall
  PROVE  Available(tbl, p)[s] = tbl[s]
<1>1. Swept(tbl, p)[s] = tbl[s]
  BY DEF Swept
<1>2. Swept(tbl, p) \in Tables
  BY SweptType
<1> QED
  BY <1>1, <1>2, BeginFrame DEF Available

\* accept() returns no socket, or one of the port with a call to read.
LEMMA AcceptedReady ==
  ASSUME NEW tbl \in Tables, NEW p \in Nat
  PROVE  Accepted(tbl, p) = NoSock \/ Accepted(tbl, p) \in Ready(tbl, p)
BY DEF Accepted, Highest

LEMMA AcceptedType ==
  ASSUME NEW tbl \in Tables, NEW p \in Nat
  PROVE  Accepted(tbl, p) \in Sock \cup {NoSock}
BY AcceptedReady DEF Ready

LEMMA NoSockNotSock == NoSock \notin Sock
BY SockAssumption DEF NoSock, Sock

\* Text, a read, a reply and a stop keep the table well typed.
LEMMA UpdateType ==
  ASSUME NEW tbl \in Tables, NEW s \in Sock
  PROVE  /\ Stop(tbl, s) \in Tables
         /\ Consume(tbl, s) \in Tables
         /\ Deliver(tbl, s) \in Tables
<1>1. Closed \in SockRec
  BY UnusedType DEF Closed, States
<1>2. Stop(tbl, s) \in Tables
  BY <1>1 DEF Stop, Tables
<1>3. [tbl[s] EXCEPT !.rx = NoCall] \in SockRec /\ [tbl[s] EXCEPT !.wait = NoCall] \in SockRec
  BY DEF Tables, SockRec
<1>4. Consume(tbl, s) \in Tables /\ Deliver(tbl, s) \in Tables
  BY <1>3 DEF Tables, Consume, Deliver
<1> QED
  BY <1>2, <1>4

LEMMA TextType ==
  ASSUME NEW tbl \in Tables, NEW s \in Sock \cup {NoSock}
  PROVE  Text(tbl, s) \in Tables
<1>1. CASE Connected(tbl, s) /\ Writable(tbl, s)
  <2>1. s \in Sock
    BY <1>1 DEF Writable
  <2>2. [tbl[s] EXCEPT !.txt = TRUE] \in SockRec
    BY <2>1 DEF Tables, SockRec
  <2> QED
    BY <1>1, <2>1, <2>2 DEF Text, Tables
<1>2. CASE ~(Connected(tbl, s) /\ Writable(tbl, s))
  BY <1>2 DEF Text
<1> QED
  BY <1>1, <1>2

\* Text changes nothing of a socket but the mark it leaves.
LEMMA TextFrame ==
  ASSUME NEW tbl \in Tables, NEW s \in Sock \cup {NoSock}, NEW t \in Sock
  PROVE  /\ Text(tbl, s)[t].st = tbl[t].st
         /\ Text(tbl, s)[t].port = tbl[t].port
         /\ Text(tbl, s)[t].peer = tbl[t].peer
         /\ Text(tbl, s)[t].rx = tbl[t].rx
         /\ Text(tbl, s)[t].wait = tbl[t].wait
<1>1. CASE Connected(tbl, s) /\ Writable(tbl, s)
  <2>1. s \in Sock
    BY <1>1 DEF Writable
  <2>2. Text(tbl, s) = [tbl EXCEPT ![s] = [tbl[s] EXCEPT !.txt = TRUE]]
    BY <1>1 DEF Text
  <2>3. tbl[s] \in SockRec /\ tbl[t] \in SockRec
    BY <2>1 DEF Tables
  <2> QED
    BY <2>1, <2>2, <2>3 DEF Tables, SockRec
<1>2. CASE ~(Connected(tbl, s) /\ Writable(tbl, s))
  BY <1>2 DEF Text
<1> QED
  BY <1>1, <1>2

\* Text is never written to a listening socket.
LEMMA TextListening ==
  ASSUME NEW tbl \in Tables, NEW s \in Sock \cup {NoSock}, NEW t \in Sock,
         tbl[t].st = "listen"
  PROVE  Text(tbl, s)[t] = tbl[t]
BY DEF Text, Connected, Tables

\* Among any sockets there is one with the lowest index.
LEMMA LowestExists ==
  ASSUME NEW S \in SUBSET Sock, S # {}
  PROVE  Lowest(S) # {}
<1> DEFINE R == OpToRel(<, Nat)
<1>1. IsWellFoundedOn(R, Nat)
  BY NatLessThanWellFounded
<1>2. S \subseteq Nat
  BY SockAssumption DEF Sock
<1>3. PICK x \in S : \A y \in S : ~(<<y, x>> \in R)
  <2> HIDE DEF R
  <2> QED
    BY <1>1, <1>2, WFMin, Zenon
<1>4. \A y \in S : ~(y < x)
  BY <1>2, <1>3 DEF OpToRel
<1>5. \A y \in S : x <= y
  BY <1>2, <1>4
<1> QED
  BY <1>5 DEF Lowest

\* begin() succeeds when some socket is closed or on its way to be closed.
LEMMA BeginListens ==
  ASSUME NEW tbl \in Tables, NEW p, NEW t \in Sock, tbl[t].st \in {"closed", "lastack"}
  PROVE  \E s \in Sock : Begin(tbl, p)[s] = Listening(p)
<1>1. Free(tbl) # {}
  <2>1. WithSt(tbl, "closed") \in SUBSET Sock /\ WithSt(tbl, "lastack") \in SUBSET Sock
    BY DEF WithSt
  <2>2. WithSt(tbl, "closed") # {} \/ WithSt(tbl, "lastack") # {}
    BY DEF WithSt
  <2> QED
    BY <2>1, <2>2, LowestExists DEF Free
<1>2. PICK s \in Free(tbl) : TRUE
  BY <1>1
<1>3. s \in Sock
  BY <1>2 DEF Free, Lowest, WithSt
<1> QED
  BY <1>2, <1>3 DEF Begin
=============================================================================
