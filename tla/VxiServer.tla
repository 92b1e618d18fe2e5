---------------------------- MODULE VxiServer ----------------------------
(***************************************************************************)
(* VXI_Server (src/vxi_server.cpp): one VXI-11 link at a time, on a TCP    *)
(* port that moves on when the link is destroyed.                          *)
(*                                                                         *)
(* One call of loop() is one step when nothing in it waits.  A call that   *)
(* finds a packet is a receive, for a set command the exchange with the    *)
(* AWG over the serial port, and a reply, because the connection may       *)
(* change while the program waits inside it.                               *)
(***************************************************************************)
EXTENDS TelnetStream, CyclicPort

VARIABLES client,      \* VXI_Server::client, as a socket index
          vxi_port,    \* VXI_Server::vxi_port; tcp_server listens on it
          vxiAt,       \* where in loop() the program is: "idle", "awg", "send"
          vreq,        \* the request being handled, from vxi_read_buffer
          awg          \* whether the instrument answers: "up" or "silent"

vxiVars == <<client, vxi_port, vxiAt, vreq>>

VxiInit == /\ client = NoSock
           /\ vxi_port = VXI_PORT_START
           /\ vxiAt = "idle"
           /\ vreq = NoCall

available == client = NoSock

\* Mutant: the port of the link after this one is given away.
allocateAhead == IF available THEN GotoNext(vxi_port) ELSE 0

allocate == IF available THEN vxi_port ELSE 0

\* Mutant: the new port is opened before the old connection is given up.
begin_before_stop(tbl) == Log(Stop(Begin(tbl, GotoNext(vxi_port)), client))

\* Mutant: client is emptied but its connection is not stopped.
begin_without_stop(tbl) == Log(Begin(tbl, GotoNext(vxi_port)))

\* begin(true): stop the client, drop the server object (which leaves its
\* sockets as they are), move to the next port and listen there.
begin_next(tbl) == Log(Begin(Stop(tbl, client), GotoNext(vxi_port)))

\* loop() with no client: accept a connection that has sent something.
VxiAccept ==
  /\ vxiAt = "idle" /\ available
  /\ client' = Accepted(sock, vxi_port)
  /\ sock' = IF client' = NoSock THEN Available(sock, vxi_port)
                                 ELSE Log(Available(sock, vxi_port))
  /\ UNCHANGED <<vxi_port, vxiAt, vreq>>

\* Mutant: the length is not cleared before the read, so that the packet of
\* an earlier request is handled again.
VxiStaleLength ==
  /\ vxiAt = "idle" /\ ~available
  /\ sock[client].rx = NoCall
  /\ vxiAt' = "send"
  /\ vreq' \in VxiCalls
  /\ UNCHANGED <<sock, client, vxi_port>>

\* loop() with a client that sends nothing: the read of the packet prefix
\* times out and the length is still the zero it was set to.
VxiTimeout ==
  /\ vxiAt = "idle" /\ ~available
  /\ sock[client].rx = NoCall
  /\ UNCHANGED <<sock, vxiVars>>

\* get_vxi_packet and the dispatch of handle_packet.  Only a write is at "awg":
\* one that holds a set command, or one that write() does not get through
\* (EspBode!Restart).  Every branch logs a line.
VxiReceive ==
  /\ vxiAt = "idle" /\ ~available
  /\ sock[client].rx # NoCall
  /\ vreq' = sock[client].rx
  /\ vxiAt' \in IF vreq' = "write" THEN {"awg", "send"} ELSE {"send"}
  /\ sock' = Log(Consume(sock, client))
  /\ UNCHANGED <<client, vxi_port>>

\* The serial exchange of parse_scpi: without an answer it spins for ever.
VxiAwg ==
  /\ vxiAt = "awg"
  /\ awg = "up"
  /\ vxiAt' = "send"
  /\ UNCHANGED <<sock, client, vxi_port, vreq>>

\* Mutant: a request that is not understood gets no response.
answer_known(tbl) == IF vreq \in VxiCalls \ {"badvxi"} THEN Deliver(tbl, client)
                                                        ELSE tbl

\* Every branch of handle_packet ends in send_vxi_packet.
answer(tbl) == Deliver(tbl, client)

\* Mutant: DESTROY_LINK is answered without closing the link.
bCloseNever == FALSE

bClose == vreq = "destroy"

\* Mutant: the client object still holds its socket after begin_next().
CloseKeepsClient == /\ sock' = begin_next(Log(answer(sock)))
                    /\ client' = client
                    /\ vxi_port' = GotoNext(vxi_port)

CloseLink == /\ sock' = begin_next(Log(answer(sock)))
             /\ client' = NoSock
             /\ vxi_port' = GotoNext(vxi_port)

\* send_vxi_packet waits until the socket can be written; after DESTROY_LINK
\* loop() then closes the link.
VxiReply ==
  /\ vxiAt = "send"
  /\ Writable(sock, client)
  /\ vxiAt' = "idle"
  /\ vreq' = NoCall
  /\ \/ bClose /\ CloseLink
     \/ ~bClose /\ sock' = answer(sock) /\ UNCHANGED <<client, vxi_port>>

VxiStep == /\ VxiAccept \/ VxiTimeout \/ VxiReceive \/ VxiAwg \/ VxiReply
           /\ UNCHANGED <<stream, awg>>
=============================================================================
