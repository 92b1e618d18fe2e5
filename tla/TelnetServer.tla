---------------------------- MODULE TelnetServer ----------------------------
(***************************************************************************)
(* Telnet_Server (src/telnet_server.cpp) at the level of its connections:  *)
(* which session it serves and when it writes text to the Telnet stream.   *)
(* Lines reach it whole.                                                   *)
(***************************************************************************)
EXTENDS TelnetStream, CyclicPort

VARIABLES telnet_client,   \* Telnet_Server::client, as a socket index
          pass_through     \* Telnet_Server::pass_through

telnetVars == <<telnet_client, pass_through>>

TelnetInit == telnet_client = NoSock /\ pass_through = FALSE

\* One call of loop().  chatter: the AWG has sent characters, which the
\* passthrough copies to the stream.
TelnetLoop ==
  \E chatter \in BOOLEAN :
    LET gone    == ~Connected(sock, telnet_client)
        tbl     == IF gone THEN Available(sock, TELNET_PORT) ELSE sock
        session == IF gone THEN Accepted(sock, TELNET_PORT) ELSE telnet_client
        fresh   == gone /\ session # NoSock
        input   == IF session = NoSock THEN NoCall ELSE tbl[session].rx
        greeted == IF fresh THEN Text(tbl, session) ELSE tbl
        read    == IF input = NoCall THEN greeted ELSE Consume(greeted, session)
    IN /\ telnet_client' = session
       /\ stream' = IF fresh THEN session ELSE stream
       /\ pass_through' = IF input = "toggle" THEN ~pass_through ELSE pass_through
       /\ sock' = IF input = "toggle" \/ (pass_through' /\ chatter)
                  THEN Text(read, stream') ELSE read
=============================================================================
