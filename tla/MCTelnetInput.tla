--------------------------- MODULE MCTelnetInput ---------------------------
(***************************************************************************)
(* Instances of TelnetInput: the word, a line that is sent on, one that is *)
(* longer than the buffer, and one that is the word, with a blank after    *)
(* it, when it has been cut.                                               *)
(***************************************************************************)
EXTENDS TelnetInput

MCLines   == {<<"P">>, <<"x">>, <<"x", " ", "x">>, <<"p", " ", "x">>}
AllFaults == {"split", "reset"}
=============================================================================
