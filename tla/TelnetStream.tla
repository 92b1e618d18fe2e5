--------------------------- MODULE TelnetStream ---------------------------
(***************************************************************************)
(* The global Telnet stream (src/telnet_server.h) that carries the debug   *)
(* messages and the passthrough text.  It keeps a copy of the client it    *)
(* was last attached to; nothing in the program ever calls detach().       *)
(***************************************************************************)
EXTENDS W5500

VARIABLE stream           \* socket index of TelnetStream::m_client

\* TelnetStream::write through a copy of the client object that holds index
\* s: the text goes to whatever connection that index names by now.
Text(tbl, s) == IF Connected(tbl, s) /\ Writable(tbl, s)
                THEN [tbl EXCEPT ![s].txt = TRUE]
                ELSE tbl

\* A Debug.Progress() or Debug.Error() line: buffered up to its newline, let
\* through by the filter setup() chooses, and flushed to the stream.
Log(tbl) == Text(tbl, stream)
=============================================================================
