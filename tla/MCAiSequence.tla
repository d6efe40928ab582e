--------------------------- MODULE MCAiSequence -----------------------------
(* Small instances of AiSequence.  A single acquisition of three buffers,   *)
(* the first two of which make up one event, and a ring of two buffers.     *)
EXTENDS AiSequence

MCSingle     == {<<FALSE, TRUE, TRUE>>}
MCContinuous == {<<TRUE, TRUE>>}

(* What events can carry: buffers of a list in the order in which the DMA   *)
(* fills them.                                                              *)
MCPayload ==
  {Values} \cup
  UNION {{Buffers(d.irq, from, n) : from \in 0 .. MostFilled(d) - 1, n \in 1 .. Len(d.irq)} :
           d \in Descriptors}
=============================================================================
