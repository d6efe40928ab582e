---------------------------- MODULE MCEventFifo -----------------------------
(* Small instances of EventFifo: two callers, a ring of three slots, a    *)
(* source that carries its payload and one that loses it on the way to the *)
(* caller (an end of sequence together with a timer).                      *)
EXTENDS EventFifo

MCSources == {Dma, {"eos", "tcw"}}
MCDmaOnly == {Dma}
=============================================================================
