----------------------------- MODULE MCTcwBoard -----------------------------
(***************************************************************************)
(* Small instances of TcwBoard: boards with one, two and three kinds per   *)
(* unit, and the one whose capabilities are left as the memory was.        *)
(***************************************************************************)
EXTENDS TcwBoard

MCFamilies == {xPCIe3021, xPCIe3521, xPCI3501, xPCI3116}
MCLeftovers == {{}, Kinds}
=============================================================================
