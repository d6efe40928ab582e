----------------------------- MODULE DmaMemory ------------------------------
(***************************************************************************)
(* The DMA memory of the analog input sequence and the DMA controller      *)
(* (primary_dma.c): Init allocates scatter-gather buffers from whatever    *)
(* memory there is and lays a descriptor list over them, Start gives the   *)
(* list to the PCI 9054, Stop and the interrupt routine take it away, and  *)
(* Release frees it all.                                                   *)
(*                                                                         *)
(* All calls run under the lock of the board.  Init is split into its      *)
(* allocations, because each of them may be refused; nothing but the       *)
(* hardware runs in between.  Blocks of memory are named by numbers, and   *)
(* kmalloc gives out the lowest one that is free, so that freed blocks are *)
(* used again at once.                                                     *)
(***************************************************************************)
EXTENDS Descriptors

CONSTANTS
  NULL,
  Blocks,      \* bound: the blocks of memory, 1 .. Blocks
  Singles,     \* the sizes of a single buffer that callers ask for, in words
  Counts,      \* the numbers of them: 0 for a continuous acquisition
  Tests,       \* ADDIDATA_MAX_SCATTER_GATHER_SUB_BUFFER
  MaxBuffers,  \* DMA_MAX_SCATTER_GATHER_BUFFER; with more, the memory is never
               \* found to be in one piece
  MaxSize,     \* the most that is allocated at once (16 MBytes)
  Again        \* callers may initialise an initialised sequence

Requests == [single : Nat, mode : {SINGLE, CONTINUOUS}, total : Nat, last : Nat]
DescriptorLists ==
  [pieces : Seq([buf : Nat, at : Nat, size : Nat, irq : BOOLEAN]), mode : {SINGLE, CONTINUOUS},
   single : Nat, lists : Seq(Nat), known : Nat, block : Nat, status : 0 .. 4]

ASSUME DmaAssumption ==
  /\ Singles \subseteq Nat \ {0}
  /\ Counts \subseteq Nat
  /\ {Blocks, MaxBuffers, MaxSize} \subseteq Nat
  /\ Tests \in Nat \ {0}
  /\ Again \in BOOLEAN
  /\ NULL \notin Requests \cup DescriptorLists  \* a pointer to nothing is neither

VARIABLES
  live,        \* the blocks that are allocated
  buffers,     \* s_ScatterGatherPCIDMAInformation: block and size of each buffer
  desc,        \* ps_ScatterGatherDescriptor
  area,        \* kmalloc_area, the block that mmap shows
  initialised, \* b_AnalogInputSequenceInitialised (and b_AnalogInputDMA)
  started,     \* b_AnalogInputSequenceStarted
  init,        \* the Init that is going on: its sizes and what was granted last
  dma,         \* the controller: transfer enabled, interrupt, scatter-gather mode
  engine,      \* the descriptor the controller has loaded, END, NOWHERE or NULL
  unlisted,    \* history: an Init failed to build its list
  wrong        \* history: a block was freed that was not allocated

dmaVars == <<live, buffers, desc, area, initialised, started, init, dma, engine,
             unlisted, wrong>>

Idle == init = NULL
DmaOff == [enable |-> FALSE, irq |-> FALSE, mode |-> FALSE]

DmaInit ==
  /\ live = {}
  /\ buffers = <<>>
  /\ desc = NULL
  /\ area = NULL
  /\ initialised = FALSE
  /\ started = FALSE
  /\ init = NULL
  /\ dma = DmaOff
  /\ engine = NULL
  /\ unlisted = FALSE
  /\ wrong = FALSE

Sizes(bs) == [b \in 1 .. Len(bs) |-> bs[b].size]
BlocksOf(bs) == {bs[b].block : b \in 1 .. Len(bs)}
ListBlocks(d) == {d.lists[k] : k \in 1 .. d.known}

Free == (1 .. Blocks) \ live
(* The n lowest free blocks, in order. *)
Fresh(n) ==
  [i \in 1 .. n |-> CHOOSE b \in Free : Cardinality({f \in Free : f < b}) = i - 1]

-----------------------------------------------------------------------------
(* CreateScatterGatherMemory. *)

(* A continuous acquisition gets memory for two single buffers. *)
InitDMA(single, count) ==
  /\ Idle
  /\ ~started
  /\ Again \/ ~initialised
  /\ init' = [ single |-> single,
               mode |-> IF count = 0 THEN CONTINUOUS ELSE SINGLE,
               total |-> IF count = 0 THEN 2 * single ELSE count * single,
               last |-> MaxSize ]
  /\ buffers' = <<>>
  /\ UNCHANGED <<live, desc, area, initialised, started, dma, engine, unlisted, wrong>>

Missing == init.total - Memory(Sizes(buffers))
Wanted == Min({Missing, MaxSize, init.last})

(* kmalloc is tried with less and less, and no buffer is larger than the   *)
(* one before.  Nothing at all is not a size that is refused in practice.  *)
Grant ==
  /\ ~Idle
  /\ Missing > 0
  /\ Len(buffers) < MaxBuffers
  /\ Free # {}
  /\ \E t \in 0 .. Tests - 1 :
       LET size == (Wanted * (Tests - t)) \div Tests IN
       /\ size > 0
       /\ buffers' = Append(buffers, [block |-> Fresh(1)[1], size |-> size])
       /\ init' = [init EXCEPT !.last = size]
  /\ live' = live \cup {Fresh(1)[1]}
  /\ UNCHANGED <<desc, area, initialised, started, dma, engine, unlisted, wrong>>

(* ReleaseAnalogInputDMA, with the memory as it is after blocks gone were  *)
(* freed: without a list it does nothing, not even for the buffers.        *)
ReleaseDMA(list, kept, gone) ==
  LET freed == IF list = NULL THEN {} ELSE ListBlocks(list) \cup {list.block} \cup BlocksOf(kept) IN
  /\ live' = (live \ gone) \ freed
  /\ wrong' = (wrong \/ ~(freed \subseteq live \ gone))
  /\ desc' = NULL
  /\ buffers' = IF list = NULL THEN kept ELSE <<>>
  /\ area' = IF list = NULL THEN area ELSE NULL

(* Init ends with code 15. *)
InitEnds == init' = NULL /\ UNCHANGED <<initialised, started, dma, engine>>

(* Variant: the buffers are not freed. *)
MemoryFails_Keeps ==
  /\ ~Idle
  /\ ReleaseDMA(desc, buffers, {})
  /\ InitEnds /\ UNCHANGED unlisted
(* The memory is not enough, or not in one piece: the buffers are freed    *)
(* but stay in s_ScatterGatherPCIDMAInformation.                           *)
MemoryFails ==
  /\ ~Idle
  /\ \/ Missing > 0
     \/ Len(buffers) > 1
  /\ ReleaseDMA(desc, buffers, BlocksOf(buffers))
  /\ InitEnds /\ UNCHANGED unlisted

-----------------------------------------------------------------------------
(* Create9054DescriptorList.  The pointer to an earlier list is forgotten. *)

NewPieces == Pieces(Sizes(buffers), init.single, init.mode)

(* The memory for a block of descriptors after the first k, or (k = 0) for *)
(* the tables, is refused: the blocks before it are meant to be freed, but *)
(* the loop frees the one that was refused; code -2.                       *)
ListFails ==
  /\ ~Idle
  /\ Missing = 0
  /\ \E k \in 0 .. Min({Lists(Len(NewPieces)) - 1, Cardinality(Free)}) :
       live' = live \cup {Fresh(k)[i] : i \in 1 .. k}
  /\ desc' = NULL
  /\ unlisted' = TRUE
  /\ InitEnds /\ UNCHANGED <<buffers, area, wrong>>

NewList(known) ==
  LET n == Lists(Len(NewPieces)) IN
  [ pieces |-> NewPieces, mode |-> init.mode, single |-> init.single,
    lists |-> Fresh(n), known |-> known, block |-> Fresh(n + 1)[n + 1], status |-> 0 ]

(* A descriptor of 8 MBytes or more: code -1.  The number of blocks is not *)
(* in the list yet, so that they are not freed with it, and neither are    *)
(* the tables.                                                             *)
ListTooBig ==
  LET n == Lists(Len(NewPieces)) IN
  /\ ~Idle
  /\ Missing = 0
  /\ \E i \in 1 .. Len(NewPieces) : NewPieces[i].size >= TooBig
  /\ n + 1 <= Cardinality(Free)
  /\ live' = (live \cup {Fresh(n)[i] : i \in 1 .. n}) \ BlocksOf(buffers)
  /\ desc' = NULL
  /\ buffers' = <<>>
  /\ area' = NULL
  /\ unlisted' = TRUE
  /\ InitEnds /\ UNCHANGED wrong

ListMade ==
  LET n == Lists(Len(NewPieces)) IN
  /\ ~Idle
  /\ Missing = 0
  /\ \A i \in 1 .. Len(NewPieces) : NewPieces[i].size < TooBig
  /\ n + 1 <= Cardinality(Free)
  /\ live' = live \cup {Fresh(n + 1)[i] : i \in 1 .. n + 1}
  /\ desc' = NewList(n)
  /\ area' = buffers[NewPieces[1].buf].block
  /\ initialised' = TRUE
  /\ init' = NULL
  /\ UNCHANGED <<buffers, started, dma, engine, unlisted, wrong>>

-----------------------------------------------------------------------------
(* The controller: each operation reads and writes a register and notes    *)
(* the state of the transfer in the list.                                  *)

SetList(s) == [s EXCEPT !.dma.mode = TRUE, !.engine = 0, !.status = 1]
EnableTransfer(s) == [s EXCEPT !.dma.enable = TRUE, !.status = 2]
StartTransfer(s) == [s EXCEPT !.status = 3]
EnableInterrupt(s) == [s EXCEPT !.dma.irq = TRUE]
DisableInterrupt(s) == [s EXCEPT !.dma.irq = FALSE]
(* The wait for the end of the abort is bounded, and what comes after it   *)
(* stops the transfer in any case.                                         *)
AbortTransfer(s) == [s EXCEPT !.dma.enable = FALSE, !.engine = NULL, !.status = 0]
PauseTransfer(s) == [s EXCEPT !.dma.enable = FALSE, !.status = 4]
ResetList(s) == [s EXCEPT !.dma.mode = FALSE, !.status = 0]

Controller == [dma |-> dma, engine |-> engine, status |-> desc.status]
Becomes(s) ==
  /\ dma' = s.dma
  /\ engine' = s.engine
  /\ desc' = [desc EXCEPT !.status = s.status]
  /\ UNCHANGED <<live, buffers, area, initialised, init, unlisted, wrong>>

StartDMA == Becomes(EnableInterrupt(StartTransfer(EnableTransfer(SetList(Controller)))))
StopDMA == Becomes(ResetList(PauseTransfer(AbortTransfer(DisableInterrupt(Controller)))))

(* Start of an initialised sequence whose list is gone is the business of  *)
(* AiSequence.                                                             *)
StartSequence ==
  /\ Idle /\ initialised /\ ~started /\ desc # NULL
  /\ StartDMA
  /\ started' = TRUE

StopSequence ==
  /\ Idle /\ initialised /\ started
  /\ StopDMA
  /\ started' = FALSE

(* The interrupt routine finds the end of a single acquisition and does    *)
(* what Stop does.                                                         *)
SequenceEnds ==
  /\ Idle /\ started
  /\ desc.mode = SINGLE
  /\ dma.irq
  /\ engine \notin 0 .. Len(desc.pieces) - 1
  /\ StopDMA
  /\ started' = FALSE

(* Variant: a running acquisition is released. *)
ReleaseSequence_Any ==
  /\ Idle /\ initialised
  /\ ReleaseDMA(desc, buffers, {})
  /\ initialised' = FALSE
  /\ UNCHANGED <<started, init, dma, engine, unlisted>>
ReleaseSequence ==
  /\ Idle /\ initialised /\ ~started
  /\ ReleaseDMA(desc, buffers, {})
  /\ initialised' = FALSE
  /\ UNCHANGED <<started, init, dma, engine, unlisted>>

(* The hardware: the controller has filled the memory of its descriptor    *)
(* and loads the following one.                                            *)
Transfer ==
  /\ dma.enable
  /\ engine \in Nat
  /\ engine' = Following(Len(desc.pieces), desc.mode, engine)
  /\ UNCHANGED <<live, buffers, desc, area, initialised, started, init, dma, unlisted, wrong>>

DmaNext ==
  \/ \E single \in Singles, count \in Counts : InitDMA(single, count)
  \/ Grant
  \/ MemoryFails
  \/ ListFails
  \/ ListTooBig
  \/ ListMade
  \/ StartSequence
  \/ StopSequence
  \/ SequenceEnds
  \/ ReleaseSequence
  \/ Transfer

DmaSpec == DmaInit /\ [][DmaNext]_dmaVars
-----------------------------------------------------------------------------

(* The descriptors are the ones that cutting the memory at every end of a  *)
(* buffer and of a single buffer gives, all of it for a list that needs no *)
(* split and for a single acquisition, the first single buffer for a       *)
(* continuous one (i_xpci3xxx_Create9054DescriptorList, two passes over    *)
(* the buffers that have to agree).                                        *)
ListIsReference ==
  desc # NULL =>
    LET sizes == Sizes(buffers)
        all == desc.mode = SINGLE \/ \A b \in 1 .. Len(sizes) : sizes[b] % desc.single = 0
    IN desc.pieces =
         ReferenceSplit(sizes, desc.single, IF all THEN Memory(sizes) ELSE desc.single)

(* The buffers up to and including one that interrupts make up one single  *)
(* buffer without a gap, and the last one interrupts: what an event        *)
(* reports is never part of the data (b_Interrupt).                        *)
EventsAreWhole ==
  desc # NULL =>
    \A i \in 1 .. Len(desc.pieces) :
      /\ i > 1 => desc.pieces[i].at = desc.pieces[i - 1].at + desc.pieces[i - 1].size
      /\ desc.pieces[i].irq <=> (desc.pieces[i].at + desc.pieces[i].size) % desc.single = 0
      /\ i = Len(desc.pieces) => desc.pieces[i].irq

(* When no sequence is initialised all memory is free again, whatever      *)
(* allocations were refused for the buffers; a list that could not be      *)
(* built leaves memory behind (i_xpci3xxx_ReleaseAnalogInputDMA).  And only *)
(* memory that is allocated is freed, although the buffers that an Init    *)
(* has freed stay noted: no later call frees them again.                   *)
FreedOnce == ~wrong
NothingLeaks ==
  /\ FreedOnce
  /\ Idle /\ ~initialised /\ ~unlisted => live = {}

(* While the controller is enabled the buffers it fills, and the           *)
(* descriptors it reads, are allocated (Stop, Release and the end of an    *)
(* acquisition in the interrupt routine).                                  *)
TransfersIntoMemory ==
  dma.enable => desc # NULL /\ BlocksOf(buffers) \cup ListBlocks(desc) \subseteq live

(* Every list has an end, or leads back to its beginning: the comments of  *)
(* i_xpci3xxx_Create9054DescriptorList say that the last element is made   *)
(* the end of the chain.                                                   *)
ChainEnds == engine # NOWHERE

=============================================================================
