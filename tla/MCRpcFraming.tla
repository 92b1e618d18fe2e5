---------------------------- MODULE MCRpcFraming ----------------------------
(***************************************************************************)
(* Instances of RpcFraming: a header of three units and room for two units *)
(* of data, so that bodies of every length from the header to one unit     *)
(* past the buffer are sent.                                               *)
(***************************************************************************)
EXTENDS RpcFraming

AllFaults == {"stall", "short", "long"}
=============================================================================
