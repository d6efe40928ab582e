------------------------------ MODULE MCPortIo ------------------------------
(***************************************************************************)
(* A small instance of PortIo: a board with digital and TTL ports, one     *)
(* with TTL ports and one with digital ports behind the other address,     *)
(* both with analog outputs.                                               *)
(***************************************************************************)
EXTENDS PortIo

MCFamilies == {xPCI3016, xPCI3500, xPCI3501}
MCWords == {{0, 16}, {1, 24}, {8, 16, 24}}
=============================================================================
