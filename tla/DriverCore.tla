----------------------------- MODULE DriverCore -----------------------------
(***************************************************************************)
(* The life of the driver and of its boards (main.c, knowndev.c, fs.c,     *)
(* procfs.c): the module is loaded and unloaded, boards are probed and     *)
(* removed, and programs open the nodes of the boards, at any time.        *)
(*                                                                         *)
(* The kernel runs probe and remove one at a time, but not in one piece:   *)
(* opens and ioctls come between any two of their steps, which are the     *)
(* ones that other code can see.  The private data of a board is memory    *)
(* at an address: freed memory keeps its content until kmalloc gives it    *)
(* out again, and pci_get_drvdata keeps its address (kernel 2.6.32).       *)
(***************************************************************************)
EXTENDS Integers, Sequences, FiniteSets, SequencesExt

CONSTANTS
  NULL,
  Boards,      \* the boards that can be plugged in
  Addresses,   \* the memory that kmalloc gives to private data
  Files,       \* the open files of programs
  HotUnplug    \* boards may be removed while the driver is loaded

ASSUME DriverAssumption ==
  /\ IsFiniteSet(Boards) /\ Boards # {}
  /\ NULL \notin Boards \cup {"lookup"}
  /\ HotUnplug \in BOOLEAN

VARIABLES
  driver,      \* "unloaded", "loaded" or "exiting"
  core,        \* the board that is probed or removed, and the next step
  bound,       \* the boards of the driver, in the order they were probed
  drvdata,     \* pci_get_drvdata: the address of a board's private data
  heap,        \* the content of the private data at an address
  live,        \* the addresses that are allocated
  regions, mapped, irq,   \* the boards whose resources are taken
  count,       \* xpci3xxx_count
  nodes,       \* the minor numbers that have a device node
  procs,       \* the boards that have a /proc entry
  known,       \* known_dev, the head of the list
  file,        \* of each file: its minor number and its board
  fault,       \* history: a call used a board that is not there, and none was removed
  removed,     \* history: a board was removed
  outOfOrder,  \* history: a board was removed that was the first or not the last one
  refused,     \* history: a board was kept after its interrupt was refused
  hung         \* a walk through the list never ended

coreVars == <<driver, core, bound, drvdata, heap, live, regions, mapped, irq,
              count, nodes, procs, known, file, fault, removed, outOfOrder, refused, hung>>
fileVars == <<file, fault>>
listVars == <<known, hung>>
resourceVars == <<regions, mapped, irq>>
entryVars == <<count, nodes, procs>>
history == <<removed, outOfOrder, refused>>

Resting == [board |-> NULL, step |-> "none"]
Closed == [minor |-> NULL, board |-> NULL]
NewData == [next |-> NULL, previous |-> NULL, minor |-> 0]

CoreInit ==
  /\ driver = "unloaded"
  /\ core = Resting
  /\ bound = <<>>
  /\ drvdata = [b \in Boards |-> NULL]
  /\ heap = [a \in Addresses |-> NewData]
  /\ live = {}
  /\ regions = {} /\ mapped = {} /\ irq = {}
  /\ count = 0 /\ nodes = {} /\ procs = {}
  /\ known = NULL
  /\ file = [f \in Files |-> Closed]
  /\ fault = FALSE
  /\ removed = FALSE /\ outOfOrder = FALSE /\ refused = FALSE
  /\ hung = FALSE

At(b, step) == core = [board |-> b, step |-> step]
Goto(b, step) == core' = [board |-> b, step |-> step]
Data(b) == heap[drvdata[b]]

-----------------------------------------------------------------------------
(* The list of known devices: each operation runs under its own spinlock.  *)

(* The n-th board of the list from b on, NULL after its end. *)
Nth(b, n) ==
  LET at[i \in 0 .. n] ==
        IF i = 0 THEN b
        ELSE IF at[i - 1] = NULL THEN NULL ELSE Data(at[i - 1]).next
  IN at[n]

LookupBoardByIndex(index) == Nth(known, index)

(* The walk to the end of the list does not end in a list with a cycle. *)
Endless == Nth(known, Cardinality(Boards)) # NULL
GetLast ==
  IF known = NULL THEN NULL
  ELSE CHOOSE b \in Boards : \E n \in 0 .. Cardinality(Boards) - 1 :
         Nth(known, n) = b /\ Data(b).next = NULL

(* Variant: the new board becomes the head. *)
KnownDevAppend_AtHead(b) ==
  /\ known' = b
  /\ heap' = [heap EXCEPT ![drvdata[b]].next = known]
  /\ UNCHANGED hung
KnownDevAppend(b) ==
  \/ /\ Endless
     /\ hung' = TRUE
     /\ UNCHANGED <<known, heap>>
  \/ /\ known = NULL
     /\ known' = b
     /\ heap' = [heap EXCEPT ![drvdata[b]].previous = NULL, ![drvdata[b]].next = NULL]
     /\ UNCHANGED hung
  \/ /\ known # NULL
     /\ ~Endless
     /\ heap' = [heap EXCEPT ![drvdata[GetLast]].next = b, ![drvdata[b]].previous = GetLast]
     /\ UNCHANGED listVars

(* The neighbours are linked; the head of the list is not moved. *)
KnownDevRemove(b) ==
  LET n == Data(b).next
      p == Data(b).previous
      h == IF n = NULL THEN heap ELSE [heap EXCEPT ![drvdata[n]].previous = p]
  IN /\ heap' = IF p = NULL THEN h ELSE [h EXCEPT ![drvdata[p]].next = h[drvdata[b]].next]
     /\ UNCHANGED listVars

-----------------------------------------------------------------------------
(* xpci3xxx_init and xpci3xxx_exit. *)

(* Whatever fails, the module is loaded: the number that register_chrdev   *)
(* returns is unsigned, and the other errors are only reported.  Without   *)
(* the pci driver no board is probed, without a major number no file is    *)
(* opened, and without a class or a /proc root no entry is made, as when   *)
(* each of the entries fails.                                              *)
Load ==
  /\ driver = "unloaded"
  /\ driver' = "loaded"
  /\ known' = NULL /\ hung' = FALSE
  /\ count' = 0
  /\ removed' = FALSE /\ outOfOrder' = FALSE /\ refused' = FALSE /\ fault' = FALSE
  /\ UNCHANGED <<core, bound, drvdata, heap, live, resourceVars, nodes, procs, file>>

Exit ==
  /\ driver = "loaded" /\ core = Resting
  /\ driver' = "exiting"
  /\ UNCHANGED <<core, bound, drvdata, heap, live, resourceVars, entryVars,
                 listVars, fileVars, history>>

(* After the kernel has removed the boards, the driver goes.  Files that   *)
(* are still open (the file operations have no owner) are beyond it, and   *)
(* nothing refers to the memory it has freed.                              *)
ExitEnds ==
  /\ driver = "exiting" /\ core = Resting /\ bound = <<>>
  /\ driver' = "unloaded"
  /\ procs' = {}
  /\ file' = [f \in Files |-> Closed]
  /\ drvdata' = [b \in Boards |-> NULL]
  /\ heap' = [a \in Addresses |-> NewData]
  /\ known' = NULL
  /\ UNCHANGED <<core, bound, live, resourceVars, count, nodes, hung, fault, history>>

-----------------------------------------------------------------------------
(* xpci3xxx_probe_one. *)

ProbeAlloc(b) ==
  /\ driver = "loaded"
  /\ core = Resting
  /\ b \notin ToSet(bound)
  /\ \E a \in Addresses \ live :
       /\ live' = live \cup {a}
       /\ drvdata' = [drvdata EXCEPT ![b] = a]
       /\ heap' = [heap EXCEPT ![a] = NewData]
  /\ Goto(b, "regions")
  /\ UNCHANGED <<driver, bound, resourceVars, entryVars, listVars, fileVars, history>>

ProbeRegions(b) ==
  /\ At(b, "regions")
  /\ \/ /\ regions' = regions \cup {b}
        /\ mapped' = mapped \cup {b}
        /\ Goto(b, "irq")
        /\ UNCHANGED live
     \/ /\ live' = live \ {drvdata[b]}
        /\ core' = Resting
        /\ UNCHANGED <<regions, mapped>>
  /\ UNCHANGED <<driver, bound, drvdata, heap, irq, entryVars, listVars,
                 fileVars, history>>

(* When the interrupt is refused, everything is given back, and the probe  *)
(* goes on.                                                                *)
ProbeIrq(b) ==
  /\ At(b, "irq")
  /\ \/ /\ irq' = irq \cup {b}
        /\ UNCHANGED <<regions, mapped, live, refused>>
     \/ /\ refused' = TRUE
        /\ live' = live \ {drvdata[b]}
        /\ mapped' = mapped \ {b}
        /\ regions' = regions \ {b}
        /\ UNCHANGED irq
  /\ Goto(b, "count")
  /\ UNCHANGED <<driver, bound, drvdata, heap, entryVars, listVars, fileVars,
                 removed, outOfOrder>>

ProbeCount(b) ==
  /\ At(b, "count")
  /\ count' = count + 1
  /\ Goto(b, "minor")
  /\ UNCHANGED <<driver, bound, drvdata, heap, live, resourceVars, nodes, procs,
                 listVars, fileVars, history>>

(* The /proc entry, if it can be made, and the number. *)
ProbeMinor(b) ==
  /\ At(b, "minor")
  /\ \/ procs' = procs \cup {b}
     \/ UNCHANGED procs
  /\ heap' = [heap EXCEPT ![drvdata[b]].minor = count - 1]
  /\ Goto(b, "append")
  /\ UNCHANGED <<driver, bound, drvdata, live, resourceVars, count, nodes,
                 listVars, fileVars, history>>

ProbeAppend(b) ==
  /\ At(b, "append")
  /\ KnownDevAppend(b)
  /\ Goto(b, "node")
  /\ UNCHANGED <<driver, bound, drvdata, live, resourceVars, entryVars, fileVars, history>>

ProbeNode(b) ==
  /\ At(b, "node")
  /\ \/ nodes' = nodes \cup {count - 1}
     \/ UNCHANGED nodes
  /\ bound' = Append(bound, b)
  /\ core' = Resting
  /\ UNCHANGED <<driver, drvdata, heap, live, resourceVars, count, procs,
                 listVars, fileVars, history>>

ProbeOne(b) ==
  \/ ProbeAlloc(b) \/ ProbeRegions(b) \/ ProbeIrq(b) \/ ProbeCount(b)
  \/ ProbeMinor(b) \/ ProbeAppend(b) \/ ProbeNode(b)

-----------------------------------------------------------------------------
(* xpci3xxx_remove_one: by the kernel when a board goes away, and for all  *)
(* boards, the last one first, when the driver does.                       *)

(* The board is stopped and its interrupt given back. *)
(* Variant: the interrupt handler stays. *)
RemoveIrq_Keeps(b) ==
  /\ core = Resting
  /\ \/ driver = "loaded" /\ HotUnplug /\ b \in ToSet(bound)
     \/ driver = "exiting" /\ bound # <<>> /\ b = bound[Len(bound)]
  /\ Goto(b, "unmap")
  /\ removed' = TRUE
  /\ outOfOrder' = (outOfOrder \/ b # bound[Len(bound)] \/ (driver = "loaded" /\ b = bound[1]))
  /\ UNCHANGED <<driver, bound, drvdata, heap, live, resourceVars, entryVars,
                 listVars, fileVars, refused>>
RemoveIrq(b) ==
  /\ core = Resting
  /\ \/ driver = "loaded" /\ HotUnplug /\ b \in ToSet(bound)
     \/ driver = "exiting" /\ bound # <<>> /\ b = bound[Len(bound)]
  /\ irq' = irq \ {b}
  /\ Goto(b, "unmap")
  /\ removed' = TRUE
  /\ outOfOrder' = (outOfOrder \/ b # bound[Len(bound)] \/ (driver = "loaded" /\ b = bound[1]))
  /\ UNCHANGED <<driver, bound, drvdata, heap, live, regions, mapped, entryVars,
                 listVars, fileVars, refused>>

RemoveUnmap(b) ==
  /\ At(b, "unmap")
  /\ mapped' = mapped \ {b}
  /\ regions' = regions \ {b}
  /\ Goto(b, "free")
  /\ UNCHANGED <<driver, bound, drvdata, heap, live, irq, entryVars, listVars,
                 fileVars, history>>

RemoveFree(b) ==
  /\ At(b, "free")
  /\ live' = live \ {drvdata[b]}
  /\ procs' = procs \ {b}
  /\ Goto(b, "gone")
  /\ UNCHANGED <<driver, bound, drvdata, heap, resourceVars, count, nodes,
                 listVars, fileVars, history>>

(* The node of the last minor number goes, whichever board is removed. *)
(* Variant: the count has gone down before. *)
DestroyNode_Late == nodes' = nodes \ {count - 2}
DestroyNode == nodes' = nodes \ {count - 1}
RemoveNode(b) ==
  /\ At(b, "gone")
  /\ DestroyNode
  /\ Goto(b, "count down")
  /\ UNCHANGED <<driver, bound, drvdata, heap, live, resourceVars, count, procs,
                 listVars, fileVars, history>>

CountDown == count' = count - 1
RemoveCount(b) ==
  /\ At(b, "count down")
  /\ CountDown
  /\ Goto(b, "unlist")
  /\ UNCHANGED <<driver, bound, drvdata, heap, live, resourceVars, nodes, procs,
                 listVars, fileVars, history>>

(* The links of the board are read from memory that is freed. *)
RemoveList(b) ==
  /\ At(b, "unlist")
  /\ KnownDevRemove(b)
  /\ \E i \in DOMAIN bound : bound[i] = b /\ bound' = RemoveAt(bound, i)
  /\ core' = Resting
  /\ UNCHANGED <<driver, drvdata, live, resourceVars, entryVars, fileVars, history>>

RemoveOne(b) ==
  \/ RemoveIrq(b) \/ RemoveUnmap(b) \/ RemoveFree(b)
  \/ RemoveNode(b) \/ RemoveCount(b) \/ RemoveList(b)

-----------------------------------------------------------------------------
(* fs.c.  A node may be there without its board (made by mkdevs.sh), so    *)
(* any minor number can be opened.                                         *)

IndexValid(minor) == minor < count
Alive(b) == b # NULL /\ drvdata[b] \in live

OpenCheck(f, minor) ==
  /\ driver # "unloaded"
  /\ file[f] = Closed
  /\ IndexValid(minor)
  /\ file' = [file EXCEPT ![f] = [minor |-> minor, board |-> "lookup"]]
  /\ UNCHANGED <<driver, core, bound, drvdata, heap, live, resourceVars, entryVars,
                 listVars, fault, history>>

OpenLookup(f) ==
  /\ file[f].board = "lookup"
  /\ file' = [file EXCEPT ![f].board = LookupBoardByIndex(file[f].minor)]
  /\ UNCHANGED <<driver, core, bound, drvdata, heap, live, resourceVars, entryVars,
                 listVars, fault, history>>

(* A file whose board was not in the list yet is refused.  (fasync and     *)
(* mmap do not look and would use it.)                                     *)
(* Variant: only the index is tested. *)
Ioctl_AnyFile(f) ==
  /\ file[f].minor # NULL /\ file[f].board # "lookup"
  /\ IndexValid(file[f].minor)
  /\ fault' = (fault \/ (~removed /\ ~Alive(file[f].board)))
  /\ UNCHANGED <<driver, core, bound, drvdata, heap, live, resourceVars, entryVars,
                 listVars, file, history>>
Ioctl(f) ==
  /\ file[f].minor # NULL /\ file[f].board # "lookup"
  /\ IndexValid(file[f].minor) /\ file[f].board # NULL
  /\ fault' = (fault \/ (~removed /\ ~Alive(file[f].board)))
  /\ UNCHANGED <<driver, core, bound, drvdata, heap, live, resourceVars, entryVars,
                 listVars, file, history>>

Release(f) ==
  /\ file[f].minor # NULL /\ file[f].board # "lookup"
  /\ file' = [file EXCEPT ![f] = Closed]
  /\ UNCHANGED <<driver, core, bound, drvdata, heap, live, resourceVars, entryVars,
                 listVars, fault, history>>

CoreNext ==
  /\ ~hung
  /\ \/ Load
     \/ Exit
     \/ ExitEnds
     \/ \E b \in Boards : ProbeOne(b)
     \/ \E b \in Boards : RemoveOne(b)
     \/ \E f \in Files, minor \in 0 .. Cardinality(Boards) - 1 : OpenCheck(f, minor)
     \/ \E f \in Files : OpenLookup(f)
     \/ \E f \in Files : Ioctl(f)
     \/ \E f \in Files : Release(f)

CoreSpec == CoreInit /\ [][CoreNext]_coreVars

-----------------------------------------------------------------------------

(* Unless an interrupt was refused, the interrupt routine is only          *)
(* installed while its board's private data is there and its memory        *)
(* mapped; and as long as no board is removed, no ioctl uses a board that  *)
(* is not there, whatever is being probed (xpci3xxx_probe_one,             *)
(* xpci3xxx_remove_one, xpci3xxx_ioctl_lookup).                            *)
BoardsInUseAreThere ==
  ~refused =>
    /\ \A b \in irq : Alive(b) /\ b \in mapped \cap regions
    /\ ~fault

(* As long as boards are removed from the end only, and the first one      *)
(* stays until the driver goes, opening a minor number finds the board     *)
(* that has that number (xpci3xxx_known_dev_append and remove,             *)
(* xpci3xxx_lookup_board_by_index, i_MinorNumber).                         *)
Found == \A i \in 0 .. count - 1 :
           LookupBoardByIndex(i) # NULL =>
             Alive(LookupBoardByIndex(i)) /\ Data(LookupBoardByIndex(i)).minor = i
LookupIsMinor ==
  ~outOfOrder /\ ~refused =>
    /\ ~hung
    /\ core = Resting =>
         Found /\ \A i \in 0 .. count - 1 : LookupBoardByIndex(i) # NULL

(* Between the operations the nodes are those of the first minor numbers   *)
(* and each entry has its board; and when the driver is unloaded nothing   *)
(* is left of it (xpci3xxx_remove_one, xpci3xxx_exit).                     *)
EntriesMatchBoards ==
  /\ core = Resting => /\ nodes \subseteq 0 .. count - 1
                       /\ count = Len(bound)
                       /\ procs \subseteq ToSet(bound)
  /\ driver = "unloaded" =>
       live = {} /\ regions = {} /\ mapped = {} /\ irq = {} /\ nodes = {} /\ procs = {}

=============================================================================
