---------------------------- MODULE Descriptors -----------------------------
(***************************************************************************)
(* How i_xpci3xxx_Create9054DescriptorList (primary_dma.c) lays a list of  *)
(* descriptors over the scatter-gather buffers that were allocated, and    *)
(* how the PCI 9054 follows the list.                                      *)
(*                                                                         *)
(* Sizes are in words.  The buffers lie one behind the other in memory     *)
(* (i_xpci3xxx_CreateScatterGatherMemory insists on it), so a place in     *)
(* memory is the number of words before it.  "Single buffer" is the code's *)
(* name for the data of one interrupt.                                     *)
(***************************************************************************)
EXTENDS Integers, Sequences, FiniteSets, FiniteSetsExt

CONSTANTS
  MaxLists,   \* ADDIDATA_MAX_DESCRIPTORS_LIST
  TooBig      \* the size that one descriptor must not reach (8 MBytes)

ASSUME DescriptorsAssumption == MaxLists \in Nat \ {0} /\ TooBig \in Nat \ {0}

SINGLE == 0
CONTINUOUS == 1

(* The number of words before buffer b. *)
Before(sizes, b) ==
  LET sum[i \in 0 .. b - 1] == IF i = 0 THEN 0 ELSE sum[i - 1] + sizes[i]
  IN sum[b - 1]
Memory(sizes) == Before(sizes, Len(sizes) + 1)

Piece(buf, at, size, irq) == [buf |-> buf, at |-> at, size |-> size, irq |-> irq]

(* One descriptor for each single buffer: a buffer gives as many as fit, a *)
(* rest that is too small is skipped.                                      *)
Whole(sizes, single) ==
  LET from[b \in 0 .. Len(sizes)] ==
        IF b = 0 THEN <<>>
        ELSE from[b - 1] \o
             [k \in 1 .. sizes[b] \div single |->
                Piece(b, Before(sizes, b) + (k - 1) * single, single, TRUE)]
  IN from[Len(sizes)]

(***************************************************************************)
(* If that does not give enough, single buffers are split where a buffer   *)
(* ends.  The loop's state: the buffer it is in, what is left of it and of *)
(* the single buffer, and what was placed so far.  A descriptor interrupts *)
(* when it completes a single buffer.                                      *)
(***************************************************************************)
Loop0(single) == [buf |-> 0, room |-> 0, left |-> single, done |-> 0, pieces |-> <<>>]

(* Variant: every descriptor interrupts. *)
Iterate_Each(s, sizes, single) ==
  LET buf == IF s.room = 0 THEN s.buf + 1 ELSE s.buf
      room == IF s.room = 0 THEN sizes[buf] ELSE s.room
      full == room >= s.left
      size == IF full THEN s.left ELSE room
  IN [ buf |-> buf, room |-> room - size,
       left |-> IF full THEN single ELSE s.left - size,
       done |-> s.done + size,
       pieces |-> Append(s.pieces, Piece(buf, s.done, size, TRUE)) ]
Iterate(s, sizes, single) ==
  LET buf == IF s.room = 0 THEN s.buf + 1 ELSE s.buf
      room == IF s.room = 0 THEN sizes[buf] ELSE s.room
      full == room >= s.left
      size == IF full THEN s.left ELSE room
  IN [ buf |-> buf, room |-> room - size,
       left |-> IF full THEN single ELSE s.left - size,
       done |-> s.done + size,
       pieces |-> Append(s.pieces, Piece(buf, s.done, size, full)) ]

(* A continuous list stops as soon as no more than one single buffer is    *)
(* left in the memory.                                                     *)
Goes(s, sizes, single, mode) ==
  IF mode = SINGLE THEN s.done # Memory(sizes) ELSE Memory(sizes) - s.done > single

Split(sizes, single, mode) ==
  LET after[n \in 0 .. Memory(sizes)] ==
        IF n = 0 THEN Loop0(single)
        ELSE LET s == after[n - 1] IN
             IF n = 1 \/ Goes(s, sizes, single, mode) THEN Iterate(s, sizes, single) ELSE s
  IN after[Memory(sizes)].pieces

(* Variant: the rounding is that of the last buffer only. *)
Enough_Any(sizes, single) == Len(Whole(sizes, single)) > 0
Enough(sizes, single) == Len(Whole(sizes, single)) >= Memory(sizes) \div single

Pieces(sizes, single, mode) ==
  IF Enough(sizes, single) THEN Whole(sizes, single) ELSE Split(sizes, single, mode)

-----------------------------------------------------------------------------
(* The descriptors are kept in at most MaxLists blocks of memory of equal  *)
(* length.  The place of a descriptor: its block and its index in it.      *)

BlockLength(n) == IF n <= MaxLists THEN 1 ELSE (n + MaxLists - 1) \div MaxLists
Lists(n) == IF n <= MaxLists THEN n ELSE MaxLists
Place(n, i) == <<i \div BlockLength(n), i % BlockLength(n)>>

(* Where the end of the chain, or the way back to the first descriptor, is *)
(* written: into the last block, whether it is used or not.                *)
LastPlace(n) ==
  <<Lists(n) - 1, IF n <= MaxLists THEN 0 ELSE (n - 1) % BlockLength(n)>>

(* What the controller loads after descriptor i: the next one; after the   *)
(* last, what was written if it was written there, and address 0 if not.   *)
END == -1
NOWHERE == -2
Following(n, mode, i) ==
  IF i < n - 1 THEN i + 1
  ELSE IF Place(n, i) # LastPlace(n) THEN NOWHERE
  ELSE IF mode = SINGLE THEN END ELSE 0

-----------------------------------------------------------------------------
(* The reference: cut the memory at every buffer's end and at every        *)
(* multiple of the single buffer, up to the place where the list ends.     *)

Cuts(sizes, single, end) ==
  {Before(sizes, b) : b \in 1 .. Len(sizes)}
    \cup {k * single : k \in 0 .. Memory(sizes) \div single} \cup {end}

ReferenceSplit(sizes, single, end) ==
  LET starts == {c \in Cuts(sizes, single, end) : c < end}
      nth(i) == CHOOSE c \in starts : Cardinality({d \in starts : d < c}) = i - 1
      stop(c) == Min({d \in Cuts(sizes, single, end) : d > c})
  IN [ i \in 1 .. Cardinality(starts) |->
         Piece(CHOOSE b \in 1 .. Len(sizes) :
                 Before(sizes, b) <= nth(i) /\ nth(i) < Before(sizes, b + 1),
               nth(i), stop(nth(i)) - nth(i), stop(nth(i)) % single = 0) ]

=============================================================================
