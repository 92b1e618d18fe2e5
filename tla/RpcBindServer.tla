--------------------------- MODULE RpcBindServer ---------------------------
(***************************************************************************)
(* RPC_Bind_Server (src/rpc_bind_server.cpp): answers GET_PORT requests on *)
(* UDP and TCP port 111 with the port of the VXI server, and leaves them   *)
(* unread while that server has a client.                                  *)
(***************************************************************************)
EXTENDS VxiServer, Peers

VARIABLES bindAt,        \* "idle", or the transport whose reply is being sent
          bind_client,   \* tcp_client of loop(), as a socket index
          udp_remote,    \* the sender of the datagram being answered
          bind_reply     \* rpc_status and vxi_port of the response buffer

bindVars == <<bindAt, bind_client, udp_remote, bind_reply>>

Replies == [status : {"success", "unavail", "garbage"}, port : VxiPorts \cup {0}]

NoReply == [status |-> "unavail", port |-> 0]

BindInit == /\ bindAt = "idle"
            /\ bind_client = NoSock
            /\ udp_remote = NoPeer
            /\ bind_reply = NoReply

\* The response to a call.  Its port is a local variable that nothing sets
\* when the program or the procedure is refused.
process_request(r) ==
  IF r # "getport"
  THEN {reply \in Replies : reply.status = "unavail"}
  ELSE {[status |-> IF allocate = 0 THEN "garbage" ELSE "success", port |-> allocate]}

\* loop() looks at the requests only while the VXI server has no client.
Serving == bindAt = "idle" /\ available

\* The VXI server is busy: the requests stay where they are.
BindBusy ==
  /\ bindAt = "idle"
  /\ ~available
  /\ UNCHANGED <<sock, bindVars, peerVars>>

BindUdp ==
  /\ Serving
  /\ udp # <<>>
  /\ udp' = Tail(udp)
  /\ bindAt' = "udp"
  /\ udp_remote' = Head(udp).from
  /\ bind_reply' \in process_request(Head(udp).call)
  /\ sock' = Log(sock)
  /\ UNCHANGED <<bind_client, asked, grant>>

\* Only when no datagram waits is the TCP server looked at.
BindNone ==
  /\ Serving
  /\ udp = <<>>
  /\ Accepted(sock, BIND_PORT) = NoSock
  /\ sock' = Available(sock, BIND_PORT)
  /\ UNCHANGED <<bindVars, peerVars>>

BindTcp ==
  /\ Serving
  /\ udp = <<>>
  /\ Accepted(sock, BIND_PORT) # NoSock
  /\ bindAt' = "tcp"
  /\ bind_client' = Accepted(sock, BIND_PORT)
  /\ bind_reply' \in process_request(sock[bind_client'].rx)
  /\ sock' = Log(Consume(Available(sock, BIND_PORT), bind_client'))
  /\ UNCHANGED <<udp_remote, peerVars>>

\* What a scope makes of a response: it keeps the port of a success.
Learn(c) == grant' = IF c \in Scopes /\ bind_reply.status = "success"
                     THEN [grant EXCEPT ![c] = bind_reply.port]
                     ELSE grant

BindReplyUdp ==
  /\ bindAt = "udp"
  /\ bindAt' = "idle"
  /\ udp_remote' = NoPeer
  /\ bind_reply' = NoReply
  /\ \/ Learn(udp_remote) /\ asked' = asked \ {udp_remote}
     \/ "lost" \in Faults /\ UNCHANGED <<asked, grant>>
  /\ UNCHANGED <<sock, bind_client, udp>>

\* Mutant: the client object is a member, which holds on to its socket until
\* the next request.
ClientKept == bind_client' = bind_client

\* The client object is local to loop(): it goes out of scope, which does not
\* close its connection.
ClientDropped == bind_client' = NoSock

\* send_bind_packet waits until the socket can be written.
BindReplyTcp ==
  /\ bindAt = "tcp"
  /\ Writable(sock, bind_client)
  /\ bindAt' = "idle"
  /\ ClientDropped
  /\ bind_reply' = NoReply
  /\ Learn(sock[bind_client].peer)
  /\ sock' = Deliver(sock, bind_client)
  /\ UNCHANGED <<udp_remote, udp, asked>>

BindStep == /\ \/ BindBusy \/ BindUdp \/ BindNone \/ BindTcp
               \/ BindReplyUdp \/ BindReplyTcp
            /\ UNCHANGED <<vxiVars, stream, awg>>
=============================================================================
