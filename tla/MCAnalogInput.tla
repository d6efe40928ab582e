--------------------------- MODULE MCAnalogInput ---------------------------
(***************************************************************************)
(* A small instance of AnalogInput: a board with DMA, one without and one  *)
(* without analog inputs; plans with and without DMA, finite and endless,  *)
(* in and out of the order of the channels, and one with a channel that is *)
(* not there when the inputs are differential.                             *)
(***************************************************************************)
EXTENDS AnalogInput

xPCIe3021x4 == [xPCIe3021 EXCEPT !.input.channels = {4}]
xPCI3006x4 == [xPCI3006 EXCEPT !.input.channels = {4}]
MCFamilies == {xPCIe3021x4, xPCI3006x4, xPCI3500}

NoDelay == [mode |-> 0, time |-> 0]
Plan(list, ranges, diff, number, delay, every) ==
  [list |-> list, ranges |-> ranges, diff |-> diff, number |-> number,
   delay |-> delay, every |-> every]

MCSingles == { [channel |-> 1, diff |-> DIFFERENTIAL, range |-> "a"],
               [channel |-> 0, diff |-> SINGLE, range |-> "b"],
               [channel |-> 0, diff |-> SINGLE, range |-> "none"] }
MCPlans ==
  { Plan(<<2, 0>>, <<"a", "b">>, SINGLE, 0, NoDelay, 1),
    Plan(<<0>>, <<"b">>, DIFFERENTIAL, 2, [mode |-> 1, time |-> 10], 2),
    Plan(<<1>>, <<"a">>, SINGLE, 1, NoDelay, 0),
    Plan(<<2>>, <<"a">>, DIFFERENTIAL, 0, NoDelay, 0) }
=============================================================================
