--------------------------- MODULE MCScpiSession ---------------------------
(***************************************************************************)
(* Small instances of ScpiSession: the lines an oscilloscope writes in a   *)
(* Bode plot, and lines that are out of order in one way each.             *)
(***************************************************************************)
EXTENDS ScpiSession

MCParams  == {"N", "W", "F", "A"}
MCValues  == 0..3
MCInRange == 0..2
MCInexact == {2}
AUser     == {"user"}
MCTyped   == {<<"get", "M", "F">>, <<"set", "M", "F", 0>>}

MCNumberOf == [w \in {"1", "2", "3"} |-> CASE w = "1" -> 1 [] w = "2" -> 2 [] w = "3" -> 3]

\* The words that begin with an entry of the tables; BSWV? begins with two.
MCBegins ==
  [w \in {"none", "DDEF", "CHAN", "SINE", "ten", "HLEV", "1", "2", "3", "ARWV", "OFF", "ON",
          "WVTP", "FRQ", "AMP", "AMPDBM", "OUTP", "BSWV", "BSWV?", "IDN-SGLT-PRI?",
          "C1", "C2", "C3"} |->
     CASE w = "BSWV?" -> {"BSWV?", "BSWV"}
       [] w = "AMPDBM" -> {"AMP"}
       [] w \in {"C1", "C2", "C3", "CHAN"} -> {"C"}
       [] w \in {"OFF", "ON", "WVTP", "FRQ", "AMP", "OUTP", "BSWV", "IDN-SGLT-PRI?"} -> {w}
       [] OTHER -> {}]

Cmd(w, ws) == [word |-> w, words |-> ws]
ToChannel(n, cmds) ==
  [initiator |-> <<"C1", "C2", "C3">>[n], channel |-> n, commands |-> cmds]

GoodLines ==
  {[initiator |-> "IDN-SGLT-PRI?", channel |-> 0, commands |-> <<>>],
   ToChannel(1, <<Cmd("OUTP", <<"ON">>), Cmd("BSWV", <<"WVTP", "SINE", "FRQ", "2", "AMP", "1">>)>>),
   ToChannel(1, <<Cmd("BSWV", <<"FRQ", "1", "FRQ", "2">>), Cmd("BSWV?", <<>>)>>),
   ToChannel(2, <<Cmd("OUTP", <<"OFF">>), Cmd("BSWV", <<"AMP", "3">>)>>)}

OddLines ==
  {[initiator |-> "none", channel |-> 0, commands |-> <<>>],
   [initiator |-> "DDEF", channel |-> 0, commands |-> <<>>],
   [initiator |-> "CHAN", channel |-> 0, commands |-> <<Cmd("BSWV", <<"FRQ", "1">>)>>],
   ToChannel(3, <<Cmd("BSWV", <<"FRQ", "1">>)>>),
   ToChannel(1, <<Cmd("ARWV", <<"FRQ", "1">>), Cmd("BSWV", <<"HLEV", "2", "AMPDBM", "2">>)>>),
   ToChannel(2, <<Cmd("BSWV", <<"AMP", "1", "FRQ", "ten">>)>>),
   ToChannel(1, <<Cmd("BSWV", <<"AMP", "1", "FRQ">>)>>),
   ToChannel(1, <<Cmd("OUTP", <<"ON">>), Cmd("none", <<>>)>>)}

MCLines == GoodLines \cup OddLines
=============================================================================
