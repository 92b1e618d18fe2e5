------------------------------ MODULE MCAwgFy ------------------------------
(***************************************************************************)
(* Small instances of AwgFy with ten ticks to a step: a value that is      *)
(* rounded up, one that never compares equal, one that the instrument does *)
(* not take, and a negative one.                                           *)
(***************************************************************************)
EXTENDS AwgFy

OneParam  == {"amp"}
MCValues  == {-20, 17, 30, 40}
MCInRange == {10, 20, 30}
MCInexact == {30}
Nobody    == {}
MCTyped   == {<<"get", "M", "amp">>, <<"set", "M", "amp", 10>>, <<"blank">>}
AnyFault  == {"user", "blank", "stall"}
=============================================================================
