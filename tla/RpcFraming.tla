----------------------------- MODULE RpcFraming -----------------------------
(***************************************************************************)
(* How requests are cut out of the bytes of a TCP connection               *)
(* (get_vxi_packet, src/rpc_packets.cpp) and handed on by VXI_Server::loop *)
(* (src/vxi_server.cpp).                                                   *)
(*                                                                         *)
(* A unit is two bytes.  A packet is a prefix of two units, which holds    *)
(* its length, and a body; a body begins with a header, whose first unit   *)
(* is the transaction id and whose second is the procedure.  Bodies are    *)
(* read into a buffer that is never cleared.  Faults says how the scope    *)
(* and the network may stray:                                              *)
(*   stall   units of a packet come later than the read waits              *)
(*   short   the length field is 4 (as 1 to 3: nothing more is read)       *)
(*   long    the packet is longer than the buffer                          *)
(***************************************************************************)
EXTENDS Naturals, Sequences

CONSTANTS READ_SIZE,     \* VXI_READ_SIZE, in units
          HEADER,        \* units of a request before its data
          MaxPackets,    \* bound: packets the scope sends
          Faults

PREFIX == 2
BODY   == READ_SIZE - PREFIX    \* what the buffer holds after the prefix

ASSUME SizeAssumption == /\ READ_SIZE \in Nat /\ HEADER \in Nat
                         /\ HEADER > PREFIX /\ READ_SIZE > PREFIX + HEADER
ASSUME PacketAssumption == MaxPackets \in Nat \ {0}
ASSUME FaultAssumption == Faults \subseteq {"stall", "short", "long"}

VARIABLES pipe,      \* units sent and not read, oldest first
          here,      \* how many of them have arrived
          sent,      \* packets sent
          waiting,   \* the packet the scope waits to have answered, or 0
          sound,     \* nothing has strayed since the connection was made
          at,        \* "prefix" or "body" of get_vxi_packet, or "handle"
          length,    \* the length field, without its FRAG bit
          buffer     \* vxi_request_packet_buffer

vars == <<pipe, here, sent, waiting, sound, at, length, buffer>>

(***************************************************************************)
(* Unit pos of the body of packet pkt, or of its prefix if pos < 1.  A     *)
(* unit also tells the length of its packet and whether that is a          *)
(* DESTROY_LINK.                                                           *)
(***************************************************************************)
Lengths == {PREFIX} \cup (HEADER .. BODY + 1)
Unit(n, i, len, ends) ==
  [pkt |-> n, pos |-> i, len |-> len, ends |-> ends]
Packet(n, len, ends) == [i \in 1..PREFIX + len |-> Unit(n, i, len, ends)]

Blank == Unit(0, 0, HEADER, FALSE)

Init == /\ pipe = <<>> /\ here = 0
        /\ sent = 0 /\ waiting = 0 /\ sound = TRUE
        /\ at = "prefix" /\ length = 0
        /\ buffer = [i \in 1..BODY |-> Blank]

-----------------------------------------------------------------------------
(* The scope and the network: external to the repository *)

Regular == HEADER..BODY

Allowed(len) == \/ len \in Regular
                \/ len = PREFIX /\ "short" \in Faults
                \/ len > BODY /\ "long" \in Faults

\* One call at a time, until something has strayed.
SendCall ==
  /\ waiting = 0 \/ ~sound
  /\ sent < MaxPackets
  /\ sent' = sent + 1
  /\ waiting' = sent'
  /\ \E len \in Lengths, ends \in BOOLEAN :
       /\ Allowed(len)
       /\ pipe' = pipe \o Packet(sent', len, ends)
       /\ sound' = (sound /\ len \in Regular)
  /\ UNCHANGED <<here, at, length, buffer>>

Arrive ==
  /\ here < Len(pipe)
  /\ here' = here + 1
  /\ UNCHANGED <<pipe, sent, waiting, sound, at, length, buffer>>

-----------------------------------------------------------------------------
(* The server *)

\* readBytes takes n units from the stream.
Take(n) == /\ pipe' = SubSeq(pipe, n + 1, Len(pipe))
           /\ here' = here - n

\* readBytes has waited a second for a unit: the network stalled, or nothing
\* more was sent.
TimedOut == IF here < Len(pipe) THEN "stall" \in Faults /\ sound' = FALSE
                                ELSE UNCHANGED sound

\* The length two units make: the one that was sent when they are a prefix,
\* and any when they are not.
LengthOf(u, v) == IF u.pos = 1 /\ v.pos = 2 THEN {u.len} ELSE {0} \cup Lengths

\* Mutant: the clamp leaves room for the prefix once more.
ClampedTwice(len) == IF len < BODY - PREFIX THEN len ELSE BODY - PREFIX

Clamped(len) == IF len < BODY THEN len ELSE BODY

\* Where get_vxi_packet and loop() go with a length: on to the body; to
\* handle_packet with nothing read, so that the request in the buffer is
\* carried out and answered once more; or back.
After(len) == CASE len > PREFIX -> "body"
                [] len \in 1..PREFIX -> "handle"
                [] OTHER -> "prefix"

ReadPrefix ==
  /\ at = "prefix"
  /\ here >= PREFIX
  /\ length' \in LengthOf(pipe[1], pipe[2])
  /\ at' = After(length')
  /\ Take(PREFIX)
  /\ UNCHANGED <<sent, waiting, sound, buffer>>

\* Mutant: the length is not set to zero before it is read.
LengthKept == length

\* What the length is when nothing is read: it was set to zero before.
LengthUnread == 0

\* No prefix, or half of one, comes in time.  The half that was read is the
\* upper half of the length: zero if it is that of a prefix.
PrefixTimeout ==
  /\ at = "prefix"
  /\ here < PREFIX
  /\ TimedOut
  /\ length' \in IF here = 0 \/ pipe[1].pos = 1 THEN {LengthUnread}
                                               ELSE {LengthUnread, BODY + 1}
  /\ at' = After(length')
  /\ Take(here)
  /\ UNCHANGED <<sent, waiting, buffer>>

\* The body, as much of it as there is room for, or as comes in time; what
\* does not come is what an earlier request has left in the buffer, the whole
\* of it when nothing comes.
ReadBody ==
  /\ at = "body"
  /\ \E n \in 0..Clamped(length) :
       /\ \/ n = Clamped(length) /\ n <= here /\ UNCHANGED sound
          \/ n < Clamped(length) /\ n = here /\ TimedOut
       /\ buffer' = [i \in 1..BODY |-> IF i <= n THEN pipe[i] ELSE buffer[i]]
       /\ Take(n)
  /\ at' = "handle"
  /\ UNCHANGED <<sent, waiting, length>>

\* The fields of the buffer, if they are where a request has them.
IsField(i) == buffer[i].pos = PREFIX + i
Xid  == IF IsField(1) THEN buffer[1].pkt ELSE 0
Ends == IsField(2) /\ buffer[2].ends

\* The call the scope still waits for after the response, which carries the
\* transaction id of the buffer, or after the connection is closed.
Unanswered == IF Ends \/ Xid = waiting THEN 0 ELSE waiting

\* handle_packet.  After DESTROY_LINK there is a new connection.
Handle ==
  /\ at = "handle"
  /\ at' = "prefix"
  /\ waiting' = Unanswered
  /\ IF Ends THEN pipe' = <<>> /\ here' = 0 /\ sound' = TRUE
             ELSE UNCHANGED <<pipe, here, sound>>
  /\ UNCHANGED <<sent, length, buffer>>

loop == ReadPrefix \/ PrefixTimeout \/ ReadBody \/ Handle

Next == SendCall \/ Arrive \/ loop

Spec == Init /\ [][Next]_vars

\* The program always runs, and what was sent arrives.
FairSpec == Spec /\ WF_vars(loop) /\ WF_vars(Arrive)

-----------------------------------------------------------------------------
\* While packets have a regular length and come in time, the request that is
\* handled is the one the scope waits for, whole and with nothing of an
\* earlier one in it, and the next read begins at the next packet; a read that
\* finds nothing leads to no answer (get_vxi_packet, src/rpc_packets.cpp:84-104).
\* It says nothing of a connection on which a packet has been too short, too
\* long or late: there the old request may be carried out and answered again.
InStep ==
  sound /\ at = "handle" =>
    /\ waiting # 0 /\ pipe = <<>>
    /\ \A i \in 1..length : buffer[i] = Unit(waiting, PREFIX + i, length, buffer[1].ends)

\* While nothing strays, every call is answered.
CallAnswered == \A n \in 1..MaxPackets : waiting = n ~> waiting # n \/ ~sound
=============================================================================
