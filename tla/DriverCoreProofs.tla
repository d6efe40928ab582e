-------------------------- MODULE DriverCoreProofs --------------------------
(***************************************************************************)
(* Proofs about the life of the driver and of its boards, for every number *)
(* of boards, addresses and files.                                         *)
(***************************************************************************)
EXTENDS DriverCore, FiniteSetTheorems, SequenceTheorems, TLAPS

Probing  == {"regions", "irq", "count", "minor", "append", "node"}
Removing == {"unmap", "free", "gone", "count down", "unlist"}
Freed    == {"gone", "count down", "unlist"}

(* The boards of the driver and the one that is to become one of them, and *)
(* the boards that the list should have.                                   *)
Present == ToSet(bound) \cup (IF core.step \in Probing THEN {core.board} ELSE {})
Listed  == IF core.step = "node" THEN Append(bound, core.board) ELSE bound

(* No board is bound twice. *)
Once(s) == \A i, j \in DOMAIN s : s[i] = s[j] => i = j

(* Where the driver is: which step of a probe or of a removal can meet     *)
(* which boards.                                                           *)
Place ==
  /\ driver \in {"unloaded", "loaded", "exiting"}
  /\ core = Resting \/ core \in [board : Boards, step : Probing \cup Removing]
  /\ bound \in Seq(Boards)
  /\ Once(bound)
  /\ drvdata \in [Boards -> Addresses \cup {NULL}]
  /\ live \subseteq Addresses
  /\ driver = "unloaded" => /\ core = Resting /\ bound = <<>>
                            /\ heap = [a \in Addresses |-> NewData]
  /\ core.step \in Probing => driver = "loaded" /\ core.board \notin ToSet(bound)
  /\ core.step \in Removing => driver # "unloaded" /\ core.board \in ToSet(bound) /\ removed
  /\ outOfOrder => removed

(* What there is belongs to a board that is present, and what a removal    *)
(* has taken away is not there any more.                                   *)
Entries ==
  /\ count = IF core.step \in {"minor", "append", "node"} THEN Len(bound) + 1
             ELSE IF core.step = "unlist" THEN Len(bound) - 1
             ELSE Len(bound)
  /\ nodes \subseteq IF core.step = "count down" THEN 0 .. count - 2 ELSE 0 .. count - 1
  /\ procs \subseteq ToSet(bound) \cup (IF core.step \in {"append", "node"} THEN {core.board} ELSE {})
  /\ regions \cup mapped \cup irq \subseteq Present
  /\ \A a \in live : \E b \in Present : drvdata[b] = a
  /\ core.step = "regions" => core.board \notin regions \cup mapped
  /\ core.step \in {"regions", "irq"} \cup Removing => core.board \notin irq
  /\ core.step \in Removing \ {"unmap"} => core.board \notin regions \cup mapped
  /\ core.step \in Freed => core.board \notin procs /\ drvdata[core.board] \notin live

(* Unless an interrupt was refused, every board that is present has what   *)
(* the steps of its probe and removal have left it, and memory of its own. *)
Owned ==
  ~refused =>
    /\ \A b, c \in Present : drvdata[b] = drvdata[c] => b = c
    /\ \A b \in Present :
         /\ ~(b = core.board /\ core.step \in Freed) => drvdata[b] \in live
         /\ ~(b = core.board /\ core.step \in {"regions", "free"} \cup Freed) => b \in mapped \cap regions

Record == [next : Boards \cup {NULL}, previous : Boards \cup {NULL}, minor : Int]

(* As long as boards are removed from the end, the memory of the boards is *)
(* a list of the boards of the driver in their order.                      *)
Link(s, i) ==
  [next     |-> IF i = Len(s) THEN NULL ELSE s[i + 1],
   previous |-> IF i = 1 THEN NULL ELSE s[i - 1],
   minor    |-> i - 1]
InOrder ==
  /\ ~hung
  /\ heap \in [Addresses -> Record]
  /\ IF Listed = <<>> THEN known = NULL \/ (driver = "exiting" /\ removed) ELSE known = Listed[1]
  /\ \A i \in 1 .. Len(Listed) : Data(Listed[i]) = Link(Listed, i)
  /\ core.step \in {"regions", "irq", "count", "minor"} => Data(core.board) = NewData
  /\ core.step = "append" => Data(core.board) = [NewData EXCEPT !.minor = Len(bound)]
  /\ core.step \in Removing =>
       core.board = bound[Len(bound)] /\ (driver = "loaded" => Len(bound) > 1)
Chain == ~outOfOrder /\ ~refused => InOrder

(* As long as no board is removed, files are of boards in the list.        *)
Opened ==
  /\ file = [f \in Files |-> [minor |-> file[f].minor, board |-> file[f].board]]
  /\ \A f \in Files : /\ driver = "unloaded" => file[f] = Closed
                      /\ file[f].board = "lookup" => file[f].minor \in Nat
  /\ ~refused => ~fault
  /\ ~refused /\ ~removed => \A f \in Files : file[f].board \in ToSet(Listed) \cup {NULL, "lookup"}

-----------------------------------------------------------------------------
(* The sequence of boards *)

LEMMA Members ==
  ASSUME NEW S, NEW s \in Seq(S)
  PROVE  ToSet(s) \subseteq S
BY DEF ToSet

LEMMA Appends ==
  ASSUME NEW S, NEW s \in Seq(S), NEW b \in S
  PROVE  /\ Append(s, b) \in Seq(S)
         /\ Len(Append(s, b)) = Len(s) + 1
         /\ DOMAIN Append(s, b) = 1 .. Len(s) + 1
         /\ Append(s, b)[Len(s) + 1] = b
         /\ \A i \in DOMAIN s : Append(s, b)[i] = s[i]
         /\ ToSet(Append(s, b)) = ToSet(s) \cup {b}
         /\ Once(s) /\ b \notin ToSet(s) => Once(Append(s, b))
<1> DEFINE t == Append(s, b)
<1>1. /\ t \in Seq(S) /\ Len(t) = Len(s) + 1 /\ DOMAIN t = 1 .. Len(s) + 1 /\ t[Len(s) + 1] = b
      /\ \A i \in DOMAIN s : t[i] = s[i]
      /\ DOMAIN s = 1 .. Len(s) /\ Len(s) \in Nat
  OBVIOUS
<1> HIDE DEF t
<1>2. ToSet(t) = ToSet(s) \cup {b}
  BY <1>1 DEF ToSet
<1>3. Once(s) /\ b \notin ToSet(s) => Once(t)
  BY <1>1 DEF ToSet, Once
<1> QED
  BY <1>1, <1>2, <1>3 DEF t

LEMMA Removes ==
  ASSUME NEW S, NEW s \in Seq(S), Once(s), NEW i \in DOMAIN s
  PROVE  /\ RemoveAt(s, i) \in Seq(S)
         /\ Len(RemoveAt(s, i)) = Len(s) - 1
         /\ DOMAIN RemoveAt(s, i) = 1 .. Len(s) - 1
         /\ ToSet(RemoveAt(s, i)) = ToSet(s) \ {s[i]}
         /\ Once(RemoveAt(s, i))
         /\ i = Len(s) => \A j \in 1 .. Len(s) - 1 : RemoveAt(s, i)[j] = s[j]
<1> DEFINE t == RemoveAt(s, i)
<1>0. Len(s) \in Nat /\ DOMAIN s = 1 .. Len(s)
  OBVIOUS
<1>1. /\ t \in Seq(S) /\ Len(t) = Len(s) - 1 /\ DOMAIN t = 1 .. Len(s) - 1
      /\ \A j \in 1 .. Len(s) - 1 : t[j] = IF j < i THEN s[j] ELSE s[j + 1]
  <2> DEFINE u == SubSeq(s, 1, i - 1)
             v == SubSeq(s, i + 1, Len(s))
  <2>1. /\ u \in Seq(S) /\ Len(u) = i - 1 /\ \A j \in 1 .. i - 1 : u[j] = s[j]
    BY <1>0
  <2>2. /\ v \in Seq(S) /\ Len(v) = Len(s) - i /\ \A j \in 1 .. Len(s) - i : v[j] = s[j + i]
    BY <1>0
  <2> HIDE DEF u, v
  <2>3. t = u \o v
    BY DEF t, u, v, RemoveAt
  <2>4. u \in Seq(S) /\ v \in Seq(S)
    BY <2>1, <2>2
  <2>5. /\ t \in Seq(S) /\ Len(t) = Len(u) + Len(v)
        /\ \A j \in 1 .. Len(u) + Len(v) : t[j] = IF j <= Len(u) THEN u[j] ELSE v[j - Len(u)]
    BY <2>3, <2>4, ConcatProperties, Zenon
  <2>6. Len(t) = Len(s) - 1 /\ DOMAIN t = 1 .. Len(s) - 1
    BY <1>0, <2>1, <2>2, <2>5
  <2>7. ASSUME NEW j \in 1 .. Len(s) - 1 PROVE t[j] = IF j < i THEN s[j] ELSE s[j + 1]
    <3>1. CASE j < i
      BY <1>0, <2>1, <2>2, <2>5, <3>1
    <3>2. CASE j >= i
      <4>1. /\ j \in 1 .. Len(u) + Len(v) /\ ~(j <= Len(u)) /\ j - Len(u) = j - i + 1
            /\ j - i + 1 \in 1 .. Len(s) - i /\ (j - i + 1) + i = j + 1
        BY <1>0, <2>1, <2>2, <3>2
      <4>2. t[j] = v[j - i + 1]
        BY <2>5, <4>1
      <4>3. v[j - i + 1] = s[j + 1]
        BY <2>2, <4>1
      <4> QED
        BY <1>0, <3>2, <4>2, <4>3
    <3> QED
      BY <1>0, <3>1, <3>2
  <2> QED
    BY <2>5, <2>6, <2>7
<1> HIDE DEF t
<1>2. ToSet(t) = ToSet(s) \ {s[i]}
  <2>1. ASSUME NEW j \in DOMAIN s, s[j] # s[i] PROVE \E k \in DOMAIN t : t[k] = s[j]
    <3>1. CASE j < i
      BY <1>0, <1>1, <3>1
    <3>2. CASE j > i
      <4>1. j - 1 \in 1 .. Len(s) - 1 /\ ~(j - 1 < i) /\ (j - 1) + 1 = j
        BY <1>0, <3>2
      <4> QED
        BY <1>1, <4>1
    <3> QED
      BY <1>0, <2>1, <3>1, <3>2
  <2>2. ASSUME NEW k \in DOMAIN t PROVE \E j \in DOMAIN s : t[k] = s[j] /\ j # i
    <3>1. t[k] = IF k < i THEN s[k] ELSE s[k + 1]
      BY <1>1
    <3>2. k \in DOMAIN s /\ k + 1 \in DOMAIN s /\ (k < i => k # i) /\ (~(k < i) => k + 1 # i)
      BY <1>0, <1>1
    <3> QED
      BY <3>1, <3>2
  <2> QED
    BY <2>1, <2>2 DEF ToSet, Once
<1>3. Once(t)
  <2> SUFFICES ASSUME NEW j \in DOMAIN t, NEW k \in DOMAIN t, t[j] = t[k] PROVE j = k
    BY DEF Once
  <2> QED
    BY <1>0, <1>1 DEF Once
<1> QED
  BY <1>0, <1>1, <1>2, <1>3 DEF t

-----------------------------------------------------------------------------
(* Where the driver is *)

(* What programs do with their files leaves the rest of the driver alone.  *)
FileStep ==
  \E f \in Files :
    \/ \E minor \in 0 .. Cardinality(Boards) - 1 : OpenCheck(f, minor)
    \/ OpenLookup(f) \/ Ioctl(f) \/ Release(f)

LEMMA FileSteps ==
  ASSUME FileStep
  PROVE  UNCHANGED <<driver, core, bound, drvdata, heap, live, resourceVars, entryVars, listVars, history>>
BY DEF FileStep, OpenCheck, OpenLookup, Ioctl, Release

LEMMA PlaceInit == CoreInit => Place
<1> SUFFICES ASSUME CoreInit PROVE Place
  OBVIOUS
<1> QED
  BY DEF CoreInit, Place, Once, Resting, Probing, Removing

LEMMA PlaceNext == Place /\ [CoreNext]_coreVars => Place'
<1> SUFFICES ASSUME Place, [CoreNext]_coreVars PROVE Place'
  OBVIOUS
<1> USE DEF At, Goto, Resting, Probing, Removing
<1>0. Place
  OBVIOUS
<1>1. CASE Load
  BY <1>0, <1>1 DEF Load, Place
<1>2. CASE Exit
  BY <1>0, <1>2 DEF Exit, Place, history
<1>3. CASE ExitEnds
  BY <1>0, <1>3 DEF ExitEnds, Place, history
<1>4. ASSUME NEW b \in Boards, ProbeOne(b) PROVE Place'
  <2>1. CASE ProbeAlloc(b)
    BY <1>0, <2>1 DEF ProbeAlloc, Place, history
  <2>2. CASE ProbeRegions(b)
    <3>1. core.board = b /\ core.step = "regions" /\ driver = "loaded" /\ live' \subseteq live
      BY <1>0, <2>2 DEF ProbeRegions, Place
    <3>2. UNCHANGED <<driver, bound, drvdata, removed, outOfOrder>>
      BY <2>2 DEF ProbeRegions, history
    <3>3. CASE core' = Resting
      BY <1>0, <3>1, <3>2, <3>3 DEF Place
    <3>4. CASE core' = [board |-> b, step |-> "irq"]
      BY <1>0, <3>1, <3>2, <3>4 DEF Place
    <3> QED
      BY <2>2, <3>3, <3>4 DEF ProbeRegions
  <2>3. CASE ProbeIrq(b)
    BY <1>0, <2>3 DEF ProbeIrq, Place, history
  <2>4. CASE ProbeCount(b)
    BY <1>0, <2>4 DEF ProbeCount, Place, history
  <2>5. CASE ProbeMinor(b)
    BY <1>0, <2>5 DEF ProbeMinor, Place, history
  <2>6. CASE ProbeAppend(b)
    BY <1>0, <2>6 DEF ProbeAppend, Place, history
  <2>7. CASE ProbeNode(b)
    <3>1. bound \in Seq(Boards) /\ Once(bound) /\ b \notin ToSet(bound)
      BY <1>0, <2>7 DEF ProbeNode, Place
    <3>2. bound' \in Seq(Boards) /\ Once(bound)'
      BY <2>7, <3>1, Appends DEF ProbeNode, Once
    <3> QED
      BY <1>0, <2>7, <3>2 DEF ProbeNode, Place, history
  <2> QED
    BY <1>4, <2>1, <2>2, <2>3, <2>4, <2>5, <2>6, <2>7 DEF ProbeOne
<1>5. ASSUME NEW b \in Boards, RemoveOne(b) PROVE Place'
  <2>1. CASE RemoveIrq(b)
    <3>1. b \in ToSet(bound)
      BY <1>0, <2>1 DEF RemoveIrq, Place, ToSet
    <3> QED
      BY <1>0, <2>1, <3>1 DEF RemoveIrq, Place
  <2>2. CASE RemoveUnmap(b)
    BY <1>0, <2>2 DEF RemoveUnmap, Place, history
  <2>3. CASE RemoveFree(b)
    BY <1>0, <2>3 DEF RemoveFree, Place, history
  <2>4. CASE RemoveNode(b)
    BY <1>0, <2>4 DEF RemoveNode, Place, history
  <2>5. CASE RemoveCount(b)
    BY <1>0, <2>5 DEF RemoveCount, Place, history
  <2>6. CASE RemoveList(b)
    <3>1. PICK i \in DOMAIN bound : bound[i] = b /\ bound' = RemoveAt(bound, i)
      BY <2>6 DEF RemoveList
    <3>2. bound \in Seq(Boards) /\ Once(bound)
      BY <1>0 DEF Place
    <3>3. bound' \in Seq(Boards) /\ Once(bound')
      BY <3>1, <3>2, Removes, Zenon
    <3> QED
      BY <1>0, <2>6, <3>3 DEF RemoveList, Place, history
  <2> QED
    BY <1>5, <2>1, <2>2, <2>3, <2>4, <2>5, <2>6 DEF RemoveOne
<1>6. CASE FileStep
  <2>1. UNCHANGED <<driver, core, bound, drvdata, heap, live, removed, outOfOrder>>
    BY <1>6, FileSteps DEF history
  <2> QED
    BY <1>0, <2>1 DEF Place
<1>7. CASE UNCHANGED coreVars
  BY <1>0, <1>7 DEF coreVars, Place
<1> QED
  BY <1>1, <1>2, <1>3, <1>4, <1>5, <1>6, <1>7 DEF CoreNext, FileStep

-----------------------------------------------------------------------------
(* What there is *)

LEMMA EntriesInit == CoreInit => Entries
<1> SUFFICES ASSUME CoreInit PROVE Entries
  OBVIOUS
<1> QED
  BY DEF CoreInit, Entries, Resting, Probing, Removing, Freed, Present

(* Probes and removals, but for their last step, leave the boards alone.   *)
LEMMA ProbeNodeDoes ==
  ASSUME Place, NEW b \in Boards, ProbeNode(b)
  PROVE  /\ core = [board |-> b, step |-> "node"] /\ core' = Resting
         /\ ToSet(bound') = ToSet(bound) \cup {b}
         /\ Len(bound) \in Nat /\ Len(bound') = Len(bound) + 1
         /\ \A i \in 1 .. Len(bound) : bound'[i] = bound[i]
         /\ bound' = Append(bound, b) /\ bound' \in Seq(Boards)
         /\ DOMAIN bound' = 1 .. Len(bound')
<1>1. core = [board |-> b, step |-> "node"] /\ core' = Resting /\ bound' = Append(bound, b)
  BY DEF ProbeNode, At
<1>2. bound \in Seq(Boards)
  BY DEF Place
<1> QED
  BY <1>1, <1>2, Appends

LEMMA RemoveListDoes ==
  ASSUME Place, NEW b \in Boards, RemoveList(b)
  PROVE  /\ core = [board |-> b, step |-> "unlist"] /\ core' = Resting
         /\ b \in ToSet(bound)
         /\ ToSet(bound') = ToSet(bound) \ {b}
         /\ Len(bound) \in Nat \ {0} /\ Len(bound') = Len(bound) - 1
         /\ bound' \in Seq(Boards) /\ DOMAIN bound' = 1 .. Len(bound) - 1
         /\ b = bound[Len(bound)] => \A i \in 1 .. Len(bound) - 1 : bound'[i] = bound[i]
<1>1. core = [board |-> b, step |-> "unlist"] /\ core' = Resting
  BY DEF RemoveList, At
<1>2. PICK i \in DOMAIN bound : bound[i] = b /\ bound' = RemoveAt(bound, i)
  BY DEF RemoveList
<1>3. bound \in Seq(Boards) /\ Once(bound)
  BY DEF Place
<1>4. Len(bound) \in Nat /\ DOMAIN bound = 1 .. Len(bound)
  BY <1>3
<1>5. b = bound[Len(bound)] => i = Len(bound)
  BY <1>2, <1>3, <1>4 DEF Once
<1>6. b \in ToSet(bound)
  BY <1>2 DEF ToSet
<1>7. /\ bound' \in Seq(Boards) /\ Len(bound') = Len(bound) - 1
      /\ DOMAIN bound' = 1 .. Len(bound) - 1 /\ ToSet(bound') = ToSet(bound) \ {b}
      /\ i = Len(bound) => \A j \in 1 .. Len(bound) - 1 : bound'[j] = bound[j]
  BY <1>2, <1>3, Removes, Zenon
<1> QED
  BY <1>1, <1>2, <1>4, <1>5, <1>6, <1>7

LEMMA EntriesNext == Place /\ Entries /\ [CoreNext]_coreVars => Entries'
<1> SUFFICES ASSUME Place, Entries, [CoreNext]_coreVars PROVE Entries'
  OBVIOUS
<1> USE DEF At, Goto, Resting, Probing, Removing, Freed, Present, resourceVars, entryVars
<1>0. Place /\ Entries /\ Len(bound) \in Nat
  <2>1. bound \in Seq(Boards)
    BY DEF Place
  <2> QED
    BY <2>1
<1>1. CASE Load
  <2>0. core = Resting /\ bound = <<>>
    BY <1>0, <1>1 DEF Load, Place
  <2>1. ToSet(bound) = {} /\ Len(bound) = 0
    BY <2>0 DEF ToSet
  <2> QED
    BY <1>0, <1>1, <2>0, <2>1 DEF Load, Entries
<1>2. CASE Exit
  BY <1>0, <1>2 DEF Exit, Entries
<1>3. CASE ExitEnds
  <2>1. ToSet(bound) = {} /\ Len(bound) = 0
    BY <1>0, <1>3 DEF ExitEnds, ToSet
  <2> QED
    BY <1>0, <1>3, <2>1 DEF ExitEnds, Place, Entries
<1>4. ASSUME NEW b \in Boards, ProbeOne(b) PROVE Entries'
  <2>1. CASE ProbeAlloc(b)
    BY <1>0, <2>1 DEF ProbeAlloc, Entries, Place
  <2>2. CASE ProbeRegions(b)
    <3>1. /\ core = [board |-> b, step |-> "regions"]
          /\ UNCHANGED <<bound, drvdata, irq, count, nodes, procs>>
      BY <2>2 DEF ProbeRegions
    <3>2. CASE core' = [board |-> b, step |-> "irq"] /\ live' = live
               /\ regions' = regions \cup {b} /\ mapped' = mapped \cup {b}
      BY <1>0, <3>1, <3>2 DEF Entries
    <3>3. CASE core' = Resting /\ live' = live \ {drvdata[b]} /\ UNCHANGED <<regions, mapped>>
      BY <1>0, <3>1, <3>3 DEF Entries
    <3> QED
      BY <2>2, <3>2, <3>3 DEF ProbeRegions
  <2>3. CASE ProbeIrq(b)
    BY <1>0, <2>3 DEF ProbeIrq, Entries, Place
  <2>4. CASE ProbeCount(b)
    BY <1>0, <2>4 DEF ProbeCount, Entries
  <2>5. CASE ProbeMinor(b)
    BY <1>0, <2>5 DEF ProbeMinor, Entries
  <2>6. CASE ProbeAppend(b)
    BY <1>0, <2>6 DEF ProbeAppend, Entries
  <2>7. CASE ProbeNode(b)
    <3>1. /\ core = [board |-> b, step |-> "node"] /\ core' = Resting
          /\ ToSet(bound') = ToSet(bound) \cup {b} /\ Len(bound') = Len(bound) + 1
          /\ nodes' = nodes \cup {count - 1} \/ nodes' = nodes
          /\ UNCHANGED <<drvdata, live, regions, mapped, irq, count, procs>>
      BY <1>0, <2>7, ProbeNodeDoes DEF ProbeNode
    <3>2. /\ count = Len(bound) + 1 /\ nodes \subseteq 0 .. count - 1
      BY <1>0, <3>1 DEF Entries
    <3>3. nodes' \subseteq 0 .. count' - 1
      <4>1. count = Len(bound) + 1 /\ Len(bound) \in Nat
        BY <1>0, <3>2
      <4>2. count - 1 \in 0 .. count - 1
        BY <4>1
      <4>3. nodes' \subseteq 0 .. count - 1
        BY <3>1, <3>2, <4>2
      <4> QED
        BY <3>1, <4>3
    <3> QED
      BY <1>0, <3>1, <3>2, <3>3 DEF Entries
  <2> QED
    BY <1>4, <2>1, <2>2, <2>3, <2>4, <2>5, <2>6, <2>7 DEF ProbeOne
<1>5. ASSUME NEW b \in Boards, RemoveOne(b) PROVE Entries'
  <2>1. CASE RemoveIrq(b)
    BY <1>0, <2>1 DEF RemoveIrq, Entries
  <2>2. CASE RemoveUnmap(b)
    BY <1>0, <2>2 DEF RemoveUnmap, Entries
  <2>3. CASE RemoveFree(b)
    BY <1>0, <2>3 DEF RemoveFree, Entries, Place
  <2>4. CASE RemoveNode(b)
    <3>1. /\ core = [board |-> b, step |-> "gone"] /\ core' = [board |-> b, step |-> "count down"]
          /\ nodes' = nodes \ {count - 1}
          /\ UNCHANGED <<bound, drvdata, live, regions, mapped, irq, count, procs>>
      BY <2>4 DEF RemoveNode, DestroyNode
    <3>2. nodes \subseteq 0 .. count - 1 /\ count \in Int
      <4>1. count = Len(bound)
        BY <1>0, <3>1 DEF Entries
      <4>2. nodes \subseteq 0 .. count - 1
        BY <1>0, <3>1 DEF Entries
      <4> QED
        BY <1>0, <4>1, <4>2
    <3>3. nodes' \subseteq 0 .. count' - 2
      <4> SUFFICES ASSUME NEW m \in nodes' PROVE m \in 0 .. count' - 2
        OBVIOUS
      <4>1. m \in 0 .. count - 1 /\ m # count - 1 /\ count' = count
        BY <3>1, <3>2
      <4> QED
        BY <3>2, <4>1
    <3> QED
      BY <1>0, <3>1, <3>3 DEF Entries
  <2>5. CASE RemoveCount(b)
    <3>1. /\ core = [board |-> b, step |-> "count down"] /\ core' = [board |-> b, step |-> "unlist"]
          /\ count' = count - 1
          /\ UNCHANGED <<bound, drvdata, live, regions, mapped, irq, nodes, procs>>
      BY <2>5 DEF RemoveCount, CountDown
    <3>2. nodes \subseteq 0 .. count - 2 /\ count = Len(bound)
      BY <1>0, <3>1 DEF Entries
    <3>3. count' = Len(bound) - 1
      BY <1>0, <3>1, <3>2
    <3>4. nodes' \subseteq 0 .. count' - 1
      <4>0. count = Len(bound) /\ Len(bound) \in Nat
        BY <1>0, <3>2
      <4>1. count' = count - 1
        BY <3>1
      <4>2. count - 2 = count' - 1
        BY <4>0, <4>1
      <4> QED
        BY <3>1, <3>2, <4>2
    <3> QED
      BY <1>0, <3>1, <3>3, <3>4 DEF Entries
  <2>6. CASE RemoveList(b)
    BY <1>0, <2>6, RemoveListDoes DEF RemoveList, Entries
  <2> QED
    BY <1>5, <2>1, <2>2, <2>3, <2>4, <2>5, <2>6 DEF RemoveOne
<1>6. CASE FileStep
  <2>1. UNCHANGED <<core, bound, drvdata, live, regions, mapped, irq, count, nodes, procs>>
    BY <1>6, FileSteps
  <2> QED
    BY <1>0, <2>1 DEF Entries
<1>7. CASE UNCHANGED coreVars
  BY <1>0, <1>7 DEF coreVars, Entries
<1> QED
  BY <1>1, <1>2, <1>3, <1>4, <1>5, <1>6, <1>7 DEF CoreNext, FileStep

LEMMA NothingLeft == Place /\ Entries => EntriesMatchBoards
<1> SUFFICES ASSUME Place, Entries PROVE EntriesMatchBoards
  OBVIOUS
<1> USE DEF Resting, Probing, Removing, Freed, Present
<1>1. core = Resting => nodes \subseteq 0 .. count - 1 /\ count = Len(bound) /\ procs \subseteq ToSet(bound)
  BY DEF Entries
<1>2. CASE driver = "unloaded"
  <2>0. core = Resting /\ bound = <<>>
    BY <1>2 DEF Place
  <2>1. core = Resting /\ ToSet(bound) = {} /\ Len(bound) = 0
    BY <2>0 DEF ToSet
  <2> QED
    BY <1>1, <2>1 DEF Entries, EntriesMatchBoards
<1> QED
  BY <1>1, <1>2 DEF EntriesMatchBoards

(* Between the operations the nodes, the count and the entries under /proc *)
(* match the boards, and an unloaded driver leaves nothing behind, however *)
(* often boards come and go and whatever fails (xpci3xxx_probe_one,        *)
(* xpci3xxx_remove_one, xpci3xxx_exit).                                    *)
THEOREM NothingStays == CoreSpec => []EntriesMatchBoards
<1>1. CoreInit => Place /\ Entries
  BY PlaceInit, EntriesInit
<1>2. Place /\ Entries /\ [CoreNext]_coreVars => (Place /\ Entries)'
  BY PlaceNext, EntriesNext
<1> QED
  BY <1>1, <1>2, NothingLeft, PTL DEF CoreSpec

-----------------------------------------------------------------------------
(* What a board that is present has *)

LEMMA OwnedInit == CoreInit => Owned
<1> SUFFICES ASSUME CoreInit PROVE Owned
  OBVIOUS
<1>1. Present = {}
  BY DEF CoreInit, Present, Resting, Probing, ToSet
<1> QED
  BY <1>1 DEF Owned, CoreInit, Resting

LEMMA OwnedNext == Place /\ Entries /\ Owned /\ [CoreNext]_coreVars => Owned'
<1> SUFFICES ASSUME Place, Entries, Owned, [CoreNext]_coreVars, ~refused' PROVE Owned'
  BY DEF Owned
<1> USE DEF At, Goto, Resting, Probing, Removing, Freed, Present, resourceVars, history
<1>0. Place /\ Entries /\ Owned /\ ~refused'
  OBVIOUS
<1>1. CASE Load
  <2>1. core = Resting /\ bound = <<>>
    BY <1>0, <1>1 DEF Load, Place
  <2>2. ToSet(bound) = {}
    BY <2>1 DEF ToSet
  <2> QED
    BY <1>1, <2>1, <2>2 DEF Load, Owned
<1>2. CASE Exit
  BY <1>0, <1>2 DEF Exit, Owned
<1>3. CASE ExitEnds
  <2>1. ToSet(bound) = {} /\ core = Resting
    BY <1>3 DEF ExitEnds, ToSet
  <2> QED
    BY <1>3, <2>1 DEF ExitEnds, Owned
<1>4. ASSUME NEW b \in Boards, ProbeOne(b) PROVE Owned'
  <2>1. CASE ProbeAlloc(b)
    <3>1. PICK a \in Addresses \ live : live' = live \cup {a} /\ drvdata' = [drvdata EXCEPT ![b] = a]
      BY <2>1 DEF ProbeAlloc
    <3>2. /\ core = Resting /\ b \notin ToSet(bound) /\ core' = [board |-> b, step |-> "regions"]
          /\ UNCHANGED <<bound, regions, mapped, irq, refused>>
      BY <2>1 DEF ProbeAlloc
    <3>3. drvdata'[b] = a /\ \A c \in Boards \ {b} : drvdata'[c] = drvdata[c]
      BY <1>0, <3>1 DEF Place
    <3>4. \A c \in ToSet(bound) : c \in Boards
      BY <1>0, Members DEF Place
    <3> QED
      BY <1>0, <3>1, <3>2, <3>3, <3>4 DEF Owned
  <2>2. CASE ProbeRegions(b)
    <3>1. /\ core = [board |-> b, step |-> "regions"]
          /\ UNCHANGED <<bound, drvdata, irq, refused>>
      BY <2>2 DEF ProbeRegions
    <3>2. CASE core' = [board |-> b, step |-> "irq"] /\ live' = live
               /\ regions' = regions \cup {b} /\ mapped' = mapped \cup {b}
      BY <1>0, <3>1, <3>2 DEF Owned
    <3>3. CASE core' = Resting /\ live' = live \ {drvdata[b]} /\ UNCHANGED <<regions, mapped>>
      <4>1. b \notin ToSet(bound)
        BY <1>0, <3>1 DEF Place
      <4> QED
        BY <1>0, <3>1, <3>3, <4>1 DEF Owned
    <3> QED
      BY <2>2, <3>2, <3>3 DEF ProbeRegions
  <2>3. CASE ProbeIrq(b)
    BY <1>0, <2>3 DEF ProbeIrq, Owned
  <2>4. CASE ProbeCount(b)
    BY <1>0, <2>4 DEF ProbeCount, Owned
  <2>5. CASE ProbeMinor(b)
    BY <1>0, <2>5 DEF ProbeMinor, Owned
  <2>6. CASE ProbeAppend(b)
    BY <1>0, <2>6 DEF ProbeAppend, Owned
  <2>7. CASE ProbeNode(b)
    BY <1>0, <2>7, ProbeNodeDoes DEF ProbeNode, Owned
  <2> QED
    BY <1>4, <2>1, <2>2, <2>3, <2>4, <2>5, <2>6, <2>7 DEF ProbeOne
<1>5. ASSUME NEW b \in Boards, RemoveOne(b) PROVE Owned'
  <2>1. CASE RemoveIrq(b)
    BY <1>0, <2>1 DEF RemoveIrq, Owned
  <2>2. CASE RemoveUnmap(b)
    BY <1>0, <2>2 DEF RemoveUnmap, Owned
  <2>3. CASE RemoveFree(b)
    <3>1. b \in Present
      BY <1>0, <2>3 DEF RemoveFree, Place
    <3> QED
      BY <1>0, <2>3, <3>1 DEF RemoveFree, Owned
  <2>4. CASE RemoveNode(b)
    BY <1>0, <2>4 DEF RemoveNode, Owned
  <2>5. CASE RemoveCount(b)
    BY <1>0, <2>5 DEF RemoveCount, Owned
  <2>6. CASE RemoveList(b)
    BY <1>0, <2>6, RemoveListDoes DEF RemoveList, Owned
  <2> QED
    BY <1>5, <2>1, <2>2, <2>3, <2>4, <2>5, <2>6 DEF RemoveOne
<1>6. CASE FileStep
  <2>1. UNCHANGED <<core, bound, drvdata, live, regions, mapped, irq, refused>>
    BY <1>6, FileSteps
  <2> QED
    BY <1>0, <2>1 DEF Owned
<1>7. CASE UNCHANGED coreVars
  BY <1>0, <1>7 DEF coreVars, Owned
<1> QED
  BY <1>1, <1>2, <1>3, <1>4, <1>5, <1>6, <1>7 DEF CoreNext, FileStep

-----------------------------------------------------------------------------
(* The walk through the list *)

(* The natural numbers are well-ordered: the lower bounds of a set have a  *)
(* greatest element, for the successor would inject them into those but 0. *)
LEMMA Least ==
  ASSUME NEW S, S \subseteq Nat, S # {}
  PROVE  \E m \in S : \A n \in S : m <= n
<1> DEFINE Below == {m \in Nat : \A n \in S : m <= n}
<1>1. PICK k \in S : k \in Nat
  OBVIOUS
<1>2. /\ IsFiniteSet(Below) /\ IsFiniteSet(Below \ {0})
      /\ Cardinality(Below) \in Nat
      /\ Cardinality(Below \ {0}) = Cardinality(Below) - 1
  <2>1. Below \in SUBSET Nat /\ (\A m \in Below : m <= k) /\ 0 \in Below
    BY <1>1
  <2> HIDE DEF Below
  <2>2. IsFiniteSet(Below)
    BY <2>1, <1>1, FS_BoundedSetOfNaturals, Zenon
  <2> QED
    BY <2>1, <2>2, FS_RemoveElement, FS_CardinalityType, Zenon
<1>3. PICK m \in Below : m + 1 \notin Below
  <2> SUFFICES ASSUME \A m \in Below : m + 1 \in Below PROVE FALSE
    OBVIOUS
  <2> DEFINE Successor == [m \in Below |-> m + 1]
  <2>1. Successor \in Injection(Below, Below \ {0})
    BY DEF Injection, IsInjective
  <2> HIDE DEF Successor, Below
  <2>2. Cardinality(Below) <= Cardinality(Below \ {0})
    BY <2>1, <1>2, FS_Injection, Zenon
  <2> QED
    BY <1>2, <2>2
<1>4. PICK n \in S : ~(m + 1 <= n)
  BY <1>3
<1> QED
  BY <1>3, <1>4

(* The list that memory holds is s, from its head on. *)
IsList(s) ==
  /\ known = IF s = <<>> THEN NULL ELSE s[1]
  /\ \A i \in 1 .. Len(s) : Data(s[i]).next = IF i = Len(s) THEN NULL ELSE s[i + 1]

Step(b) == IF b = NULL THEN NULL ELSE Data(b).next
Walk(w, b, n) == w = [i \in 0 .. n |-> IF i = 0 THEN b
                                       ELSE IF w[i - 1] = NULL THEN NULL ELSE Data(w[i - 1]).next]

(* Nth is the end of a walk, if there is one.  That there is one must be   *)
(* shown first; the leaves name Zenon, since the translation to SMT takes  *)
(* a CHOOSE that is given by an equation for its solution.                 *)
LEMMA NthIsWalked ==
  ASSUME NEW b, NEW n \in Nat, NEW w, Walk(w, b, n)
  PROVE  \E at : Walk(at, b, n) /\ Nth(b, n) = at[n]
<1>1. Nth(b, n) = (CHOOSE at : Walk(at, b, n))[n]
  BY Zenon DEF Nth, Walk
<1>2. Walk(CHOOSE at : Walk(at, b, n), b, n)
  BY Zenon
<1> QED
  BY <1>1, <1>2, Zenon

(* In a list the n-th board is the one at index n + 1, and none after it.  *)
LEMMA NthOfList ==
  ASSUME NEW s \in Seq(Boards), IsList(s), NEW n \in Nat
  PROVE  Nth(known, n) = IF n < Len(s) THEN s[n + 1] ELSE NULL
<1> DEFINE W(i) == IF i < Len(s) THEN s[i + 1] ELSE NULL
           w == [i \in 0 .. n |-> W(i)]
<1>0. Len(s) \in Nat /\ \A i \in 1 .. Len(s) : s[i] \in Boards /\ s[i] # NULL
  BY DriverAssumption
<1>1. W(0) = known
  BY <1>0 DEF IsList
<1>2. ASSUME NEW i \in 1 .. n
      PROVE  W(i) = IF W(i - 1) = NULL THEN NULL ELSE Data(W(i - 1)).next
  <2>1. CASE i - 1 < Len(s)
    <3>1. W(i - 1) = s[i] /\ s[i] # NULL /\ i \in 1 .. Len(s)
      BY <1>0, <2>1
    <3>2. Data(s[i]).next = W(i)
      BY <1>0, <3>1 DEF IsList
    <3> QED
      BY <3>1, <3>2
  <2>2. CASE ~(i - 1 < Len(s))
    BY <1>0, <2>2
  <2> QED
    BY <2>1, <2>2
<1> HIDE DEF W
<1>3. Walk(w, known, n)
  BY <1>1, <1>2 DEF Walk
<1>4. PICK at : Walk(at, known, n) /\ Nth(known, n) = at[n]
  BY <1>3, NthIsWalked
<1>5. \A i \in 0 .. n :
        at[i] = IF i = 0 THEN known ELSE IF at[i - 1] = NULL THEN NULL ELSE Data(at[i - 1]).next
  BY <1>4 DEF Walk
<1>6. \A i \in 0 .. n : at[i] = W(i)
  <2> DEFINE Wrong == {i \in 0 .. n : at[i] # W(i)}
  <2> SUFFICES ASSUME Wrong # {} PROVE FALSE
    OBVIOUS
  <2>1. Wrong \subseteq Nat
    OBVIOUS
  <2>2. PICK m \in Wrong : \A i \in Wrong : m <= i
    <3> HIDE DEF Wrong
    <3> QED BY <2>1, Least
  <2>3. m # 0
    BY <1>1, <1>5
  <2>4. m \in 1 .. n /\ m - 1 \in 0 .. n /\ m - 1 \notin Wrong
    BY <2>2, <2>3
  <2>5. at[m - 1] = W(m - 1)
    BY <2>4
  <2> QED
    BY <1>2, <1>5, <2>4, <2>5
<1> QED
  BY <1>4, <1>6 DEF W

LEMMA ListFits ==
  ASSUME NEW s \in Seq(Boards), Once(s)
  PROVE  Cardinality(Boards) \in Nat /\ Len(s) <= Cardinality(Boards)
<1>1. Cardinality(Boards) \in Nat
  BY DriverAssumption, FS_CardinalityType
<1>2. s \in Injection(1 .. Len(s), Boards)
  BY DEF Once, Injection, IsInjective
<1>3. Cardinality(1 .. Len(s)) <= Cardinality(Boards)
  BY <1>2, DriverAssumption, FS_Injection
<1>4. Cardinality(1 .. Len(s)) = Len(s)
  <2>1. Len(s) \in Nat
    OBVIOUS
  <2>2. Cardinality(1 .. Len(s)) = IF 1 > Len(s) THEN 0 ELSE Len(s) - 1 + 1
    BY <2>1, FS_Interval
  <2> QED
    BY <2>1, <2>2
<1> QED
  BY <1>1, <1>3, <1>4

(* The walk to the end of a list ends, at the last board. *)
LEMMA LastOfList ==
  ASSUME NEW s \in Seq(Boards), Once(s), IsList(s)
  PROVE  ~Endless /\ (s # <<>> => known = s[1] /\ known # NULL /\ GetLast = s[Len(s)])
<1>0. Len(s) \in Nat /\ \A i \in 1 .. Len(s) : s[i] \in Boards /\ s[i] # NULL
  BY DriverAssumption
<1>1. Cardinality(Boards) \in Nat /\ Len(s) <= Cardinality(Boards)
  BY ListFits
<1>2. ~Endless
  BY <1>0, <1>1, NthOfList DEF Endless
<1>3. ASSUME s # <<>> PROVE known = s[1] /\ known # NULL /\ GetLast = s[Len(s)]
  <2> DEFINE IsLast(b) == \E n \in 0 .. Cardinality(Boards) - 1 :
                            Nth(known, n) = b /\ Data(b).next = NULL
  <2>1. 1 \in 1 .. Len(s) /\ Len(s) \in 1 .. Len(s) /\ Len(s) - 1 \in 0 .. Cardinality(Boards) - 1
    BY <1>0, <1>1, <1>3
  <2>2. known = s[1] /\ known # NULL
    BY <1>0, <1>3, <2>1 DEF IsList
  <2>3. s[Len(s)] \in Boards /\ IsLast(s[Len(s)])
    <3>1. Nth(known, Len(s) - 1) = s[Len(s)]
      BY <1>0, <2>1, NthOfList
    <3>2. Data(s[Len(s)]).next = NULL
      BY <2>1 DEF IsList
    <3> QED
      BY <1>0, <2>1, <3>1, <3>2
  <2>4. ASSUME NEW b \in Boards, IsLast(b) PROVE b = s[Len(s)]
    <3>1. PICK n \in 0 .. Cardinality(Boards) - 1 : Nth(known, n) = b /\ Data(b).next = NULL
      BY <2>4
    <3>2. n \in Nat /\ b # NULL
      BY DriverAssumption
    <3>3. n < Len(s) /\ b = s[n + 1]
      BY <3>1, <3>2, NthOfList
    <3>4. n + 1 \in 1 .. Len(s)
      BY <1>0, <3>2, <3>3
    <3>5. n + 1 # Len(s) => s[n + 2] # NULL /\ Data(s[n + 1]).next = s[n + 2]
      BY <1>0, <3>2, <3>4 DEF IsList
    <3> QED
      BY <3>1, <3>3, <3>5
  <2>5. GetLast = CHOOSE b \in Boards : IsLast(b)
    BY <2>2, Zenon DEF GetLast
  <2> HIDE DEF IsLast
  <2>6. \E b \in Boards : IsLast(b)
    BY <2>3
  <2>7. (CHOOSE b \in Boards : IsLast(b)) \in Boards /\ IsLast(CHOOSE b \in Boards : IsLast(b))
    BY <2>6, Zenon
  <2> QED
    BY <2>2, <2>4, <2>5, <2>7, Zenon
<1> QED
  BY <1>2, <1>3

-----------------------------------------------------------------------------
(* The list keeps the boards in their order *)

LEMMA ChainInit == CoreInit => Chain
<1> SUFFICES ASSUME CoreInit PROVE Chain
  OBVIOUS
<1> QED
  BY DEF CoreInit, Chain, InOrder, Listed, Record, NewData, Resting, Removing

LEMMA LinkFields ==
  \A s, i : /\ Link(s, i).next = IF i = Len(s) THEN NULL ELSE s[i + 1]
            /\ Link(s, i).previous = IF i = 1 THEN NULL ELSE s[i - 1]
            /\ Link(s, i).minor = i - 1
BY DEF Link

LEMMA InOrderThen ==
  ASSUME ~hung', heap' \in [Addresses -> Record],
         IF Listed' = <<>> THEN driver' = "exiting" /\ removed' ELSE known' = Listed'[1],
         \A i \in 1 .. Len(Listed') : heap'[drvdata'[Listed'[i]]] = Link(Listed', i),
         core'.step \in {"none", "node"}
  PROVE  InOrder'
<1>1. (\A i \in 1 .. Len(Listed) : Data(Listed[i]) = Link(Listed, i))'
  BY DEF Data
<1> QED
  BY <1>1 DEF InOrder, Removing

LEMMA ListOfBound ==
  ASSUME Place, InOrder, Listed = bound, bound = <<>> => known = NULL
  PROVE  IsList(bound)
<1>1. Len(bound) \in Nat /\ bound \in Seq(Boards)
  BY DEF Place
<1>2. known = IF bound = <<>> THEN NULL ELSE bound[1]
  BY DEF InOrder
<1>3. \A i \in 1 .. Len(bound) : Data(bound[i]).next = IF i = Len(bound) THEN NULL ELSE bound[i + 1]
  BY LinkFields DEF InOrder
<1> QED
  BY <1>2, <1>3 DEF IsList

LEMMA Numbers ==
  ASSUME Place
  PROVE  /\ bound \in Seq(Boards) /\ Len(bound) \in Nat /\ DOMAIN bound = 1 .. Len(bound)
         /\ \A i \in 1 .. Len(bound) : bound[i] \in Boards /\ bound[i] \in ToSet(bound)
         /\ \A i, j \in 1 .. Len(bound) : bound[i] = bound[j] => i = j
         /\ bound # <<>> <=> Len(bound) > 0
<1>1. bound \in Seq(Boards) /\ Once(bound)
  BY DEF Place
<1>2. Len(bound) \in Nat /\ DOMAIN bound = 1 .. Len(bound) /\ (bound # <<>> <=> Len(bound) > 0)
  BY <1>1
<1>3. \A i \in 1 .. Len(bound) : bound[i] \in Boards /\ bound[i] \in ToSet(bound)
  BY <1>1, <1>2 DEF ToSet
<1> QED
  BY <1>1, <1>2, <1>3 DEF Once

(* Different boards that are present have their data at different places.  *)
LEMMA Apart ==
  ASSUME Place, Owned, ~refused, NEW b \in Present, NEW c \in Present, b # c
  PROVE  drvdata[b] # drvdata[c]
BY DEF Owned

(* The new board goes to the end of the list. *)
LEMMA AppendKeeps ==
  ASSUME Place, Owned, InOrder, ~refused, NEW b \in Boards, ProbeAppend(b)
  PROVE  InOrder'
<1> DEFINE n == Len(bound)
           last == bound[n]
<1>0. /\ bound \in Seq(Boards) /\ n \in Nat /\ Once(bound)
      /\ \A i \in 1 .. n : bound[i] \in Boards /\ bound[i] \in ToSet(bound)
      /\ \A i, j \in 1 .. n : bound[i] = bound[j] => i = j
      /\ bound # <<>> <=> n > 0
  BY Numbers DEF Place
<1>1. /\ core = [board |-> b, step |-> "append"] /\ core' = [board |-> b, step |-> "node"]
      /\ KnownDevAppend(b)
      /\ UNCHANGED <<driver, bound, drvdata, live, refused, removed>>
  BY DEF ProbeAppend, At, Goto, history
<1>2. driver = "loaded" /\ b \notin ToSet(bound)
  BY <1>1 DEF Place, Probing
<1>3. Listed = bound /\ Listed' = Append(bound, b)
  BY <1>1 DEF Listed
<1>4. IsList(bound)
  <2>1. bound = <<>> => known = NULL
    BY <1>2, <1>3 DEF InOrder
  <2> QED
    BY <1>2, <1>3, <2>1, ListOfBound
<1>5. ~Endless /\ (bound # <<>> => known = bound[1] /\ known # NULL /\ GetLast = last)
  BY <1>0, <1>4, LastOfList
<1>6. drvdata[b] \in Addresses /\ \A i \in 1 .. n : drvdata[bound[i]] \in Addresses
  <2>1. b \in Present /\ \A i \in 1 .. n : bound[i] \in Present
    BY <1>0, <1>1 DEF Present, Probing
  <2> QED
    BY <1>0, <1>1, <2>1 DEF Owned, Place, Freed
<1>7. \A i, j \in 1 .. n : i # j => drvdata[bound[i]] # drvdata[bound[j]]
  BY <1>0, Apart DEF Present
<1>8. \A i \in 1 .. n : drvdata[bound[i]] # drvdata[b]
  BY <1>0, <1>1, <1>2, Apart DEF Present, Probing
<1>9. heap \in [Addresses -> Record] /\ heap[drvdata[b]] = [next |-> NULL, previous |-> NULL, minor |-> n]
  BY <1>1 DEF InOrder, Data, NewData
<1>10. \A i \in 1 .. n : heap[drvdata[bound[i]]] = Link(bound, i)
  BY <1>3 DEF InOrder, Data
<1>11. /\ Len(Listed') = n + 1 /\ Listed' # <<>> /\ Listed'[n + 1] = b
       /\ \A i \in 1 .. n : Listed'[i] = bound[i]
  BY <1>0, <1>3
<1>12. CASE bound = <<>>
  <2>1. known = NULL /\ n = 0
    BY <1>0, <1>4, <1>12 DEF IsList
  <2>2. known' = b /\ ~hung' /\ heap' = [heap EXCEPT ![drvdata[b]].previous = NULL, ![drvdata[b]].next = NULL]
    BY <1>1, <1>5, <2>1 DEF KnownDevAppend, InOrder
  <2>3. heap' = heap
    BY <1>6, <1>9, <2>2 DEF Record
  <2>4. Len(Listed') = 1 /\ Listed'[1] = b
    BY <1>11, <2>1
  <2>5. Link(Listed', 1) = [next |-> NULL, previous |-> NULL, minor |-> n]
    BY <2>1, <2>4 DEF Link
  <2>6. \A i \in 1 .. Len(Listed') : heap'[drvdata'[Listed'[i]]] = Link(Listed', i)
    BY <1>1, <1>9, <2>3, <2>4, <2>5
  <2>7. known' = Listed'[1] /\ Listed' # <<>> /\ core'.step = "node"
    BY <1>1, <1>11, <2>2, <2>4
  <2> QED
    BY <1>9, <2>2, <2>3, <2>6, <2>7, InOrderThen
<1>13. CASE bound # <<>>
  <2>1. known = bound[1] /\ known # NULL /\ GetLast = last /\ n \in 1 .. n /\ 1 \in 1 .. n
    BY <1>0, <1>5, <1>13
  <2>2. UNCHANGED <<known, hung>>
        /\ heap' = [heap EXCEPT ![drvdata[last]].next = b, ![drvdata[b]].previous = last]
    BY <1>1, <1>5, <2>1 DEF KnownDevAppend, listVars
  <2>3. /\ drvdata[last] \in Addresses /\ drvdata[last] # drvdata[b]
    BY <1>6, <1>8, <2>1
  <2>4. /\ heap'[drvdata[last]] = [heap[drvdata[last]] EXCEPT !.next = b]
        /\ heap'[drvdata[b]] = [heap[drvdata[b]] EXCEPT !.previous = last]
        /\ \A a \in Addresses \ {drvdata[last], drvdata[b]} : heap'[a] = heap[a]
    BY <1>6, <1>9, <2>2, <2>3
  <2>5. heap' \in [Addresses -> Record]
    BY <1>0, <1>6, <1>9, <2>1, <2>2, <2>3 DEF Record
  <2>6. ASSUME NEW i \in 1 .. n + 1 PROVE heap'[drvdata[Listed'[i]]] = Link(Listed', i)
    <3>1. CASE i = n + 1
      <4>1. Link(Listed', i) = [next |-> NULL, previous |-> last, minor |-> n]
        BY <1>0, <1>11, <2>1, <3>1 DEF Link
      <4> QED
        BY <1>9, <1>11, <2>4, <3>1, <4>1
    <3>2. CASE i = n
      <4>1. heap[drvdata[last]] = Link(bound, n)
        BY <1>10, <2>1
      <4>2. Link(Listed', n) = [Link(bound, n) EXCEPT !.next = b]
        <5>1. n # Len(Listed') /\ Listed'[n + 1] = b
          BY <1>0, <1>11
        <5>2. n # 1 => n - 1 \in 1 .. n
          <6>1. n \in Nat /\ n \in 1 .. n
            BY <1>0, <2>1
          <6> HIDE DEF n
          <6> QED
            BY <6>1
        <5>3. n # 1 => Listed'[n - 1] = bound[n - 1]
          BY <1>11, <5>2
        <5> QED
          BY <5>1, <5>3 DEF Link
      <4> QED
        BY <1>11, <2>1, <2>4, <3>2, <4>1, <4>2
    <3>3. CASE i < n
      <4>1. i \in 1 .. n /\ i + 1 \in 1 .. n /\ (i # 1 => i - 1 \in 1 .. n)
        BY <1>0, <3>3
      <4>2. Link(Listed', i) = Link(bound, i)
        BY <1>0, <1>11, <3>3, <4>1 DEF Link
      <4>3. /\ drvdata[bound[i]] # drvdata[last] /\ drvdata[bound[i]] # drvdata[b]
            /\ drvdata[bound[i]] \in Addresses
        BY <1>0, <1>6, <1>7, <1>8, <2>1, <3>3, <4>1
      <4> QED
        BY <1>10, <1>11, <2>4, <4>1, <4>2, <4>3
    <3> QED
      BY <1>0, <3>1, <3>2, <3>3
  <2>7. known' = Listed'[1] /\ ~hung'
    BY <1>11, <2>1, <2>2 DEF InOrder
  <2>8. \A i \in 1 .. Len(Listed') : heap'[drvdata'[Listed'[i]]] = Link(Listed', i)
    BY <1>1, <1>11, <2>6
  <2>9. Listed' # <<>> /\ core'.step = "node"
    BY <1>1, <1>11
  <2> QED
    BY <2>5, <2>7, <2>8, <2>9, InOrderThen
<1> QED
  BY <1>12, <1>13

(* The last board leaves the list. *)
LEMMA RemoveKeeps ==
  ASSUME Place, Owned, InOrder, ~refused, NEW b \in Boards, RemoveList(b)
  PROVE  InOrder'
<1> DEFINE n == Len(bound)
<1>0. /\ bound \in Seq(Boards) /\ n \in Nat
      /\ \A i \in 1 .. n : bound[i] \in Boards /\ bound[i] \in ToSet(bound)
      /\ \A i, j \in 1 .. n : bound[i] = bound[j] => i = j
      /\ bound # <<>> <=> n > 0
  BY Numbers
<1>1. /\ core = [board |-> b, step |-> "unlist"] /\ core' = Resting
      /\ n > 0 /\ b = bound[n] /\ (driver = "loaded" => n > 1) /\ driver # "unloaded" /\ removed
  <2>1. core = [board |-> b, step |-> "unlist"] /\ core' = Resting /\ n > 0
    BY <1>0, RemoveListDoes
  <2> QED
    BY <2>1 DEF InOrder, Place, Removing
<1>2. /\ Len(bound') = n - 1 /\ bound' \in Seq(Boards)
      /\ \A i \in 1 .. n - 1 : bound'[i] = bound[i]
  BY <1>1, RemoveListDoes
<1>3. Listed = bound /\ Listed' = bound'
  BY <1>1 DEF Listed, Resting
<1>4. UNCHANGED <<driver, drvdata, known, hung, removed>>
  BY DEF RemoveList, KnownDevRemove, listVars, history
<1>5. heap \in [Addresses -> Record] /\ \A i \in 1 .. n : heap[drvdata[bound[i]]] = Link(bound, i)
  BY <1>3 DEF InOrder, Data
<1>6. Data(b) = Link(bound, n) /\ Data(b).next = NULL
  <2>1. n \in 1 .. n
    BY <1>0, <1>1
  <2>2. Data(b) = Link(bound, n)
    BY <1>1, <1>5, <2>1 DEF Data
  <2> QED
    BY <2>2, LinkFields
<1>7. CASE n = 1
  <2>1. Data(b).previous = NULL
    BY <1>6, <1>7 DEF Link
  <2>2. heap' = heap
    BY <1>6, <2>1 DEF RemoveList, KnownDevRemove
  <2>3. driver = "exiting" /\ bound' = <<>>
    BY <1>1, <1>2, <1>7 DEF Place
  <2> QED
    BY <1>1, <1>2, <1>3, <1>4, <1>5, <1>7, <2>2, <2>3 DEF InOrder, Resting, Removing
<1>8. CASE n > 1
  <2> DEFINE p == bound[n - 1]
  <2>1. n - 1 \in 1 .. n /\ p \in Boards /\ p # NULL /\ Data(b).previous = p
    BY <1>0, <1>6, <1>8, DriverAssumption DEF Link
  <2>2. heap' = [heap EXCEPT ![drvdata[p]].next = NULL]
    BY <1>6, <2>1 DEF RemoveList, KnownDevRemove, Data
  <2>3. \A i \in 1 .. n : drvdata[bound[i]] \in Addresses \cup {NULL}
    BY <1>0 DEF Place
  <2>4. \A i \in 1 .. n - 1 : i # n - 1 => drvdata[bound[i]] # drvdata[p]
    <3> SUFFICES ASSUME NEW i \in 1 .. n - 1, i # n - 1 PROVE drvdata[bound[i]] # drvdata[p]
      OBVIOUS
    <3>1. i \in 1 .. n /\ bound[i] # p
      BY <1>0, <2>1
    <3> QED
      BY <1>0, <2>1, <3>1, Apart DEF Present
  <2>5. heap' \in [Addresses -> Record]
    BY <1>5, <2>2 DEF Record
  <2>6. drvdata[p] \in Addresses
    <3>1. p # b /\ p \in Present
      BY <1>0, <1>1, <1>8, <2>1 DEF Present
    <3> QED
      BY <1>1, <3>1 DEF Owned, Place
  <2>7. ASSUME NEW i \in 1 .. n - 1 PROVE heap'[drvdata[bound'[i]]] = Link(bound', i)
    <3>1. CASE i = n - 1
      <4>1. Link(bound', i) = [Link(bound, i) EXCEPT !.next = NULL]
        <5>1. i = Len(bound') /\ (i # 1 => i - 1 \in 1 .. n - 1)
          BY <1>0, <1>2, <1>8, <3>1
        <5>2. i # 1 => bound'[i - 1] = bound[i - 1]
          BY <1>2, <5>1
        <5>3. Link(bound', i) = [next |-> NULL, previous |-> IF i = 1 THEN NULL ELSE bound[i - 1],
                                 minor |-> i - 1]
          BY <5>1, <5>2 DEF Link
        <5> QED
          BY <5>3 DEF Link
      <4> QED
        BY <1>2, <1>5, <2>1, <2>2, <2>6, <3>1, <4>1
    <3>2. CASE i < n - 1
      <4>1. Link(bound', i) = Link(bound, i)
        BY <1>0, <1>2, <1>8, <3>2 DEF Link
      <4>2. heap'[drvdata[bound[i]]] = heap[drvdata[bound[i]]]
        BY <1>5, <2>2, <2>4, <3>2
      <4> QED
        BY <1>0, <1>2, <1>5, <4>1, <4>2
    <3> QED
      BY <1>0, <3>1, <3>2
  <2>8. known' = bound'[1] /\ bound' # <<>>
    <3>1. bound # <<>> /\ 1 \in 1 .. n - 1
      BY <1>0, <1>8
    <3>2. known = bound[1]
      BY <1>3, <3>1 DEF InOrder
    <3> QED
      BY <1>2, <1>4, <1>8, <3>1, <3>2
  <2>9. \A i \in 1 .. Len(Listed') : heap'[drvdata'[Listed'[i]]] = Link(Listed', i)
    <3>1. Len(Listed') = n - 1 /\ drvdata' = drvdata
      BY <1>2, <1>3, <1>4
    <3> QED
      BY <1>3, <2>7, <3>1
  <2>10. known' = Listed'[1] /\ Listed' # <<>> /\ ~hung' /\ core'.step = "none"
    BY <1>1, <1>3, <1>4, <2>8 DEF Resting, InOrder
  <2> QED
    BY <2>5, <2>9, <2>10, InOrderThen
<1>9. n = 1 \/ n > 1
  <2>1. n \in Nat /\ n > 0
    BY <1>0, <1>1
  <2> HIDE DEF n
  <2> QED
    BY <2>1
<1> QED
  BY <1>7, <1>8, <1>9

(* Steps that leave the list, the boards and what they have alone.         *)
LEMMA ListUntouched ==
  ASSUME InOrder, UNCHANGED <<driver, bound, drvdata, heap, known, hung>>,
         removed => removed',
         Listed' = Listed,
         core'.step \in {"regions", "irq", "count", "minor"} =>
           core'.board = core.board /\ core.step \in {"regions", "irq", "count", "minor"},
         core'.step # "append",
         core'.step \in Removing =>
           core'.board = bound[Len(bound)] /\ (driver = "loaded" => Len(bound) > 1)
  PROVE  InOrder'
<1>1. ~hung' /\ heap' \in [Addresses -> Record]
  BY DEF InOrder
<1>2. IF Listed' = <<>> THEN known' = NULL \/ (driver' = "exiting" /\ removed') ELSE known' = Listed'[1]
  BY DEF InOrder
<1>3. (\A i \in 1 .. Len(Listed) : Data(Listed[i]) = Link(Listed, i))'
  BY DEF InOrder, Data
<1>4. (core.step \in {"regions", "irq", "count", "minor"} => Data(core.board) = NewData)'
  BY DEF InOrder, Data
<1> QED
  BY <1>1, <1>2, <1>3, <1>4 DEF InOrder, Removing

LEMMA ChainNext == Place /\ Entries /\ Owned /\ Chain /\ [CoreNext]_coreVars => Chain'
<1> SUFFICES ASSUME Place, Entries, Owned, Chain, [CoreNext]_coreVars, ~outOfOrder', ~refused'
             PROVE  InOrder'
  BY DEF Chain
<1>0. Place /\ Entries /\ Owned
  OBVIOUS
<1> USE DEF At, Goto, Resting, Removing, history, listVars, resourceVars
<1>1. CASE Load
  <2>1. core = Resting /\ bound = <<>> /\ heap = [a \in Addresses |-> NewData]
    BY <1>0, <1>1 DEF Load, Place
  <2>2. /\ core'.step = "none" /\ Listed' = <<>> /\ Len(Listed') = 0
        /\ heap' = [a \in Addresses |-> NewData] /\ known' = NULL /\ ~hung'
    BY <1>1, <2>1 DEF Load, Listed
  <2>3. heap' \in [Addresses -> Record]
    BY <2>2 DEF Record, NewData
  <2> QED
    BY <2>2, <2>3 DEF InOrder
<1>2. CASE Exit
  <2>1. InOrder
    BY <1>2 DEF Exit, Chain
  <2> QED
    BY <1>2, <2>1 DEF Exit, InOrder, Listed, Data
<1>3. CASE ExitEnds
  <2>0. InOrder
    BY <1>3 DEF ExitEnds, Chain
  <2>1. /\ core'.step = "none" /\ Listed' = <<>> /\ Len(Listed') = 0
        /\ heap' = [a \in Addresses |-> NewData] /\ known' = NULL /\ ~hung'
    BY <1>3, <2>0 DEF ExitEnds, Listed, InOrder
  <2>2. heap' \in [Addresses -> Record]
    BY <2>1 DEF Record, NewData
  <2> QED
    BY <2>1, <2>2 DEF InOrder
<1>4. ASSUME NEW b \in Boards, ProbeOne(b) PROVE InOrder'
  <2>0. InOrder
    BY <1>4 DEF Chain, ProbeOne, ProbeAlloc, ProbeRegions, ProbeIrq, ProbeCount, ProbeMinor,
                ProbeAppend, ProbeNode
  <2>1. CASE ProbeAlloc(b)
    <3>1. PICK a \in Addresses \ live : /\ drvdata' = [drvdata EXCEPT ![b] = a]
                                        /\ heap' = [heap EXCEPT ![a] = NewData]
      BY <2>1 DEF ProbeAlloc
    <3>2. /\ core = Resting /\ core' = [board |-> b, step |-> "regions"]
          /\ UNCHANGED <<driver, bound, known, hung, removed, outOfOrder, refused>>
      BY <2>1 DEF ProbeAlloc
    <3>3. /\ Listed = bound /\ Listed' = bound
      BY <3>2 DEF Listed
    <3>4. drvdata'[b] = a /\ heap'[a] = NewData /\ heap' \in [Addresses -> Record]
      <4>1. drvdata \in [Boards -> Addresses \cup {NULL}] /\ heap \in [Addresses -> Record]
        BY <1>0, <2>0 DEF Place, InOrder
      <4>2. NewData \in Record
        BY DEF NewData, Record
      <4> QED
        BY <3>1, <4>1, <4>2
    <3>5. ASSUME NEW i \in 1 .. Len(bound) PROVE heap'[drvdata'[bound[i]]] = Link(bound, i)
      <4>1. bound[i] \in Boards /\ bound[i] \in ToSet(bound) /\ bound[i] # b
        BY <1>0, <2>1, Numbers DEF ProbeAlloc
      <4>2. drvdata[bound[i]] \in live /\ live \subseteq Addresses
        BY <1>0, <3>2, <4>1 DEF Owned, Present, Freed, Place
      <4>3. drvdata'[bound[i]] = drvdata[bound[i]]
        BY <1>0, <3>1, <4>1 DEF Place
      <4>4. heap'[drvdata[bound[i]]] = heap[drvdata[bound[i]]]
        BY <2>0, <3>1, <4>2 DEF InOrder
      <4>5. heap[drvdata[bound[i]]] = Link(bound, i)
        BY <2>0, <3>3 DEF InOrder, Data
      <4> QED
        BY <4>3, <4>4, <4>5
    <3>6. (\A i \in 1 .. Len(Listed) : Data(Listed[i]) = Link(Listed, i))'
      BY <3>2, <3>3, <3>5 DEF Data
    <3>7. (core.step \in {"regions", "irq", "count", "minor"} => Data(core.board) = NewData)'
      BY <3>2, <3>4 DEF Data
    <3>8. IF Listed' = <<>> THEN known' = NULL \/ (driver' = "exiting" /\ removed') ELSE known' = Listed'[1]
      BY <2>0, <3>2, <3>3 DEF InOrder
    <3> QED
      BY <2>0, <3>2, <3>4, <3>6, <3>7, <3>8 DEF InOrder
  <2>2. CASE ProbeRegions(b)
    <3>1. /\ UNCHANGED <<driver, bound, drvdata, heap, known, hung, removed>>
          /\ core = [board |-> b, step |-> "regions"]
          /\ core' = [board |-> b, step |-> "irq"] \/ core' = Resting
      BY <2>2 DEF ProbeRegions
    <3>2. Listed' = Listed
      BY <3>1 DEF Listed
    <3>3. CASE core' = [board |-> b, step |-> "irq"]
      BY <2>0, <3>1, <3>2, <3>3, ListUntouched
    <3>4. CASE core' = Resting
      BY <2>0, <3>1, <3>2, <3>4, ListUntouched
    <3> QED
      BY <3>1, <3>3, <3>4
  <2>3. CASE ProbeIrq(b)
    <3>1. /\ UNCHANGED <<driver, bound, drvdata, heap, known, hung, removed>>
          /\ core = [board |-> b, step |-> "irq"] /\ core' = [board |-> b, step |-> "count"]
      BY <2>3 DEF ProbeIrq
    <3>2. Listed' = Listed
      BY <3>1 DEF Listed
    <3> QED
      BY <2>0, <3>1, <3>2, ListUntouched
  <2>4. CASE ProbeCount(b)
    <3>1. /\ UNCHANGED <<driver, bound, drvdata, heap, known, hung, removed>>
          /\ core = [board |-> b, step |-> "count"] /\ core' = [board |-> b, step |-> "minor"]
      BY <2>4 DEF ProbeCount
    <3>2. Listed' = Listed
      BY <3>1 DEF Listed
    <3> QED
      BY <2>0, <3>1, <3>2, ListUntouched
  <2>5. CASE ProbeMinor(b)
    <3>1. /\ UNCHANGED <<driver, bound, drvdata, known, hung, removed, outOfOrder, refused>>
          /\ core = [board |-> b, step |-> "minor"] /\ core' = [board |-> b, step |-> "append"]
          /\ heap' = [heap EXCEPT ![drvdata[b]].minor = count - 1]
      BY <2>5 DEF ProbeMinor
    <3>2. Listed = bound /\ Listed' = bound
      BY <3>1 DEF Listed
    <3>3. count - 1 = Len(bound) /\ count - 1 \in Int
      <4>1. Len(bound) \in Nat /\ count = Len(bound) + 1
        BY <1>0, <3>1, Numbers DEF Entries
      <4> QED
        BY <4>1
    <3>4. b \in Present /\ b \notin ToSet(bound) /\ drvdata[b] \in Addresses
      <4>1. b \in Present /\ b \notin ToSet(bound)
        BY <1>0, <3>1 DEF Present, Probing, Place
      <4> QED
        BY <1>0, <3>1, <4>1 DEF Owned, Freed, Place
    <3>5. heap \in [Addresses -> Record] /\ heap[drvdata[b]] = NewData
      BY <2>0, <3>1 DEF InOrder, Data
    <3>6. heap' \in [Addresses -> Record] /\ heap'[drvdata[b]] = [NewData EXCEPT !.minor = Len(bound)]
      BY <3>1, <3>3, <3>4, <3>5 DEF Record
    <3>7. ASSUME NEW i \in 1 .. Len(bound) PROVE heap'[drvdata[bound[i]]] = Link(bound, i)
      <4>1. bound[i] \in Present /\ bound[i] # b
        BY <1>0, <3>4, Numbers DEF Present
      <4>2. drvdata[bound[i]] # drvdata[b]
        BY <1>0, <3>1, <3>4, <4>1, Apart
      <4>3. heap[drvdata[bound[i]]] = Link(bound, i)
        BY <2>0, <3>2 DEF InOrder, Data
      <4>4. heap'[drvdata[bound[i]]] = heap[drvdata[bound[i]]]
        <5>1. drvdata[bound[i]] \in Addresses
          BY <1>0, <3>1, <4>1 DEF Owned, Place, Freed
        <5> QED
          BY <3>1, <3>5, <4>2, <5>1
      <4> QED
        BY <4>3, <4>4
    <3>8. (\A i \in 1 .. Len(Listed) : Data(Listed[i]) = Link(Listed, i))'
      BY <3>1, <3>2, <3>7 DEF Data
    <3>9. (core.step = "append" => Data(core.board) = [NewData EXCEPT !.minor = Len(bound)])'
      BY <3>1, <3>6 DEF Data
    <3>10. IF Listed' = <<>> THEN known' = NULL \/ (driver' = "exiting" /\ removed') ELSE known' = Listed'[1]
      BY <2>0, <3>1, <3>2 DEF InOrder
    <3> QED
      BY <2>0, <3>1, <3>6, <3>8, <3>9, <3>10 DEF InOrder
  <2>6. CASE ProbeAppend(b)
    <3>1. ~refused
      BY <2>6 DEF ProbeAppend
    <3> QED
      BY <1>0, <2>0, <2>6, <3>1, AppendKeeps
  <2>7. CASE ProbeNode(b)
    <3>1. /\ UNCHANGED <<driver, drvdata, heap, known, hung, removed>>
          /\ core = [board |-> b, step |-> "node"] /\ core' = Resting
          /\ bound' = Append(bound, b)
      BY <2>7 DEF ProbeNode
    <3>2. Listed = bound' /\ Listed' = bound'
      BY <3>1 DEF Listed
    <3>3. (\A i \in 1 .. Len(Listed) : Data(Listed[i]) = Link(Listed, i))'
      BY <2>0, <3>1, <3>2 DEF InOrder, Data
    <3>4. IF Listed' = <<>> THEN known' = NULL \/ (driver' = "exiting" /\ removed') ELSE known' = Listed'[1]
      BY <2>0, <3>1, <3>2 DEF InOrder
    <3> QED
      BY <2>0, <3>1, <3>3, <3>4 DEF InOrder
  <2> QED
    BY <1>4, <2>1, <2>2, <2>3, <2>4, <2>5, <2>6, <2>7 DEF ProbeOne
<1>5. ASSUME NEW b \in Boards, RemoveOne(b) PROVE InOrder'
  <2>0. InOrder
    BY <1>5 DEF Chain, RemoveOne, RemoveIrq, RemoveUnmap, RemoveFree, RemoveNode, RemoveCount, RemoveList
  <2>1. CASE RemoveIrq(b)
    <3>1. /\ UNCHANGED <<driver, bound, drvdata, heap, known, hung>> /\ removed'
          /\ core = Resting /\ core' = [board |-> b, step |-> "unmap"]
          /\ b = bound[Len(bound)] /\ (driver = "loaded" => b # bound[1] /\ b \in ToSet(bound))
      BY <2>1 DEF RemoveIrq
    <3>2. Listed' = Listed
      BY <3>1 DEF Listed
    <3>3. driver = "loaded" => Len(bound) > 1
      BY <1>0, <3>1, Numbers DEF ToSet
    <3> QED
      BY <2>0, <3>1, <3>2, <3>3, ListUntouched
  <2>2. CASE RemoveUnmap(b) \/ RemoveFree(b) \/ RemoveNode(b) \/ RemoveCount(b)
    <3>1. /\ UNCHANGED <<driver, bound, drvdata, heap, known, hung, removed>>
          /\ core.board = b /\ core.step \in Removing
          /\ core'.board = b /\ core'.step \in Removing
      <4>1. CASE RemoveUnmap(b)
        BY <4>1 DEF RemoveUnmap
      <4>2. CASE RemoveFree(b)
        BY <4>2 DEF RemoveFree
      <4>3. CASE RemoveNode(b)
        BY <4>3 DEF RemoveNode
      <4>4. CASE RemoveCount(b)
        BY <4>4 DEF RemoveCount
      <4> QED
        BY <2>2, <4>1, <4>2, <4>3, <4>4
    <3>2. Listed' = Listed
      BY <3>1 DEF Listed
    <3>3. b = bound[Len(bound)] /\ (driver = "loaded" => Len(bound) > 1)
      BY <2>0, <3>1 DEF InOrder
    <3> QED
      BY <2>0, <3>1, <3>2, <3>3, ListUntouched
  <2>3. CASE RemoveList(b)
    <3>1. ~refused
      BY <2>3 DEF RemoveList
    <3> QED
      BY <1>0, <2>0, <2>3, <3>1, RemoveKeeps
  <2> QED
    BY <1>5, <2>1, <2>2, <2>3 DEF RemoveOne
<1>6. CASE FileStep \/ UNCHANGED coreVars
  <2>1. UNCHANGED <<driver, core, bound, drvdata, heap, known, hung, removed, outOfOrder, refused>>
    BY <1>6, FileSteps DEF coreVars
  <2>2. InOrder
    BY <2>1 DEF Chain
  <2> QED
    BY <2>1, <2>2 DEF InOrder, Listed, Data
<1> QED
  BY <1>1, <1>2, <1>3, <1>4, <1>5, <1>6 DEF CoreNext, FileStep

-----------------------------------------------------------------------------
(* What is opened *)

LEMMA LookupFinds ==
  ASSUME Place, InOrder, Listed = <<>> => known = NULL, NEW n \in Nat
  PROVE  LookupBoardByIndex(n) = IF n < Len(Listed) THEN Listed[n + 1] ELSE NULL
<1>1. Listed \in Seq(Boards)
  <2>1. CASE core.step = "node"
    <3>1. core.board \in Boards
      BY <2>1 DEF Place, Resting
    <3> QED
      BY <2>1, <3>1 DEF Listed, Place
  <2>2. CASE core.step # "node"
    BY <2>2 DEF Listed, Place
  <2> QED
    BY <2>1, <2>2
<1>2. IsList(Listed)
  <2>1. known = IF Listed = <<>> THEN NULL ELSE Listed[1]
    BY DEF InOrder
  <2>2. \A i \in 1 .. Len(Listed) : Data(Listed[i]).next = IF i = Len(Listed) THEN NULL ELSE Listed[i + 1]
    BY LinkFields DEF InOrder
  <2> QED
    BY <2>1, <2>2 DEF IsList
<1> QED
  BY <1>1, <1>2, NthOfList DEF LookupBoardByIndex

LEMMA ListedArePresent ==
  ASSUME Place
  PROVE  /\ Listed \in Seq(Boards) /\ ToSet(bound) \subseteq ToSet(Listed)
         /\ ToSet(Listed) \subseteq Present
<1>1. CASE core.step = "node"
  <2>1. core.board \in Boards /\ bound \in Seq(Boards)
    BY <1>1 DEF Place, Resting
  <2>2. Listed = Append(bound, core.board)
    BY <1>1 DEF Listed
  <2> QED
    BY <1>1, <2>1, <2>2, Appends DEF Present, Probing
<1>2. CASE core.step # "node"
  BY <1>2 DEF Listed, Place, Present
<1> QED
  BY <1>1, <1>2

LEMMA OpenedInit == CoreInit => Opened
<1> SUFFICES ASSUME CoreInit PROVE Opened
  OBVIOUS
<1>1. NULL # "lookup"
  BY DriverAssumption
<1> QED
  BY <1>1 DEF CoreInit, Opened, Closed

LEMMA OpenedNext ==
  Place /\ Owned /\ Chain /\ Opened /\ [CoreNext]_coreVars => Opened'
<1> SUFFICES ASSUME Place, Owned, Chain, Opened, [CoreNext]_coreVars PROVE Opened'
  OBVIOUS
<1>0. Place /\ Owned /\ Chain /\ Opened
  OBVIOUS
<1>00. NULL # "lookup"
  BY DriverAssumption
<1> USE DEF At, Goto, Resting, Removing, history, listVars, resourceVars, fileVars
<1>1. CASE Load
  BY <1>0, <1>00, <1>1 DEF Load, Opened, Closed
<1>2. CASE Exit
  <2>1. Listed' = Listed
    BY <1>2 DEF Exit, Listed
  <2> QED
    BY <1>0, <1>2, <2>1 DEF Exit, Opened
<1>3. CASE ExitEnds
  BY <1>0, <1>00, <1>3 DEF ExitEnds, Opened, Closed
<1>4. ASSUME NEW b \in Boards, ProbeOne(b) PROVE Opened'
  <2>1. /\ UNCHANGED <<file, fault, removed>> /\ driver' = driver /\ (refused => refused')
    BY <1>4 DEF ProbeOne, ProbeAlloc, ProbeRegions, ProbeIrq, ProbeCount, ProbeMinor, ProbeAppend, ProbeNode
  <2>2. ToSet(Listed) \subseteq ToSet(Listed')
    <3>1. CASE UNCHANGED bound /\ core.step # "node" /\ core'.step # "node"
      BY <3>1 DEF Listed
    <3>2. CASE UNCHANGED bound /\ core.step # "node" /\ core' = [board |-> b, step |-> "node"]
      <4>1. Listed = bound /\ Listed' = Append(bound, b) /\ bound \in Seq(Boards)
        BY <1>0, <3>2 DEF Listed, Place
      <4> QED
        BY <4>1, Appends
    <3>3. CASE core = [board |-> b, step |-> "node"] /\ core' = Resting /\ bound' = Append(bound, b)
      BY <3>3 DEF Listed
    <3> QED
      BY <1>4, <3>1, <3>2, <3>3 DEF ProbeOne, ProbeAlloc, ProbeRegions, ProbeIrq, ProbeCount,
         ProbeMinor, ProbeAppend, ProbeNode
  <2> QED
    BY <1>0, <2>1, <2>2 DEF Opened
<1>5. ASSUME NEW b \in Boards, RemoveOne(b) PROVE Opened'
  <2>1. UNCHANGED <<file, fault, refused>> /\ driver' = driver /\ removed'
    <3>1. CASE RemoveIrq(b)
      BY <3>1 DEF RemoveIrq
    <3>2. CASE ~RemoveIrq(b)
      <4>1. core.step \in Removing /\ UNCHANGED <<file, fault, driver, refused, removed>>
        <5>1. CASE RemoveUnmap(b)
          BY <5>1 DEF RemoveUnmap
        <5>2. CASE RemoveFree(b)
          BY <5>2 DEF RemoveFree
        <5>3. CASE RemoveNode(b)
          BY <5>3 DEF RemoveNode
        <5>4. CASE RemoveCount(b)
          BY <5>4 DEF RemoveCount
        <5>5. CASE RemoveList(b)
          BY <5>5 DEF RemoveList
        <5> QED
          BY <1>5, <3>2, <5>1, <5>2, <5>3, <5>4, <5>5 DEF RemoveOne
      <4> QED
        BY <1>0, <4>1 DEF Place
    <3> QED
      BY <3>1, <3>2
  <2> QED
    BY <1>0, <2>1 DEF Opened
<1>6. CASE FileStep
  <2>1. /\ UNCHANGED <<driver, core, bound, drvdata, heap, live, known, hung, removed, outOfOrder, refused>>
        /\ Listed' = Listed
    BY <1>6, FileSteps DEF Listed
  <2>2. ASSUME ~refused, ~removed, NEW n \in Nat
        PROVE  LookupBoardByIndex(n) \in ToSet(Listed) \cup {NULL}
    <3>1. InOrder /\ (Listed = <<>> => known = NULL)
      BY <1>0, <2>2 DEF Place, Chain, InOrder
    <3>2. LookupBoardByIndex(n) = IF n < Len(Listed) THEN Listed[n + 1] ELSE NULL
      BY <1>0, <3>1, LookupFinds
    <3>3. Listed \in Seq(Boards)
      BY <1>0, ListedArePresent
    <3>4. n < Len(Listed) => n + 1 \in DOMAIN Listed
      BY <3>3
    <3> QED
      BY <3>2, <3>4 DEF ToSet
  <2>3. ASSUME ~refused, ~removed, NEW b \in ToSet(Listed) PROVE Alive(b)
    <3>1. b \in Present
      BY <1>0, <2>3, ListedArePresent
    <3>2. b \in Boards /\ b # NULL
      BY <1>0, ListedArePresent, Members, DriverAssumption
    <3>3. core.step \notin Freed
      BY <1>0, <2>3 DEF Place, Freed
    <3> QED
      BY <1>0, <2>3, <3>1, <3>2, <3>3 DEF Owned, Alive
  <2>4. ASSUME NEW g \in Files, NEW minor \in 0 .. Cardinality(Boards) - 1, OpenCheck(g, minor) PROVE Opened'
    <3>1. driver # "unloaded" /\ fault' = fault
          /\ file' = [file EXCEPT ![g] = [minor |-> minor, board |-> "lookup"]]
      BY <2>4 DEF OpenCheck
    <3>2. file'[g] = [minor |-> minor, board |-> "lookup"] /\ \A f \in Files \ {g} : file'[f] = file[f]
      BY <1>0, <3>1 DEF Opened
    <3>3. (file = [f \in Files |-> [minor |-> file[f].minor, board |-> file[f].board]])'
      <4>1. file = [f \in Files |-> [minor |-> file[f].minor, board |-> file[f].board]]
        BY <1>0 DEF Opened
      <4>2. file' = [f \in Files |-> IF f = g THEN [minor |-> minor, board |-> "lookup"] ELSE file[f]]
        BY <3>1, <4>1
      <4>3. \A f \in Files : file'[f] = [minor |-> file'[f].minor, board |-> file'[f].board]
        BY <4>1, <4>2
      <4> QED
        BY <4>2, <4>3
    <3>4. \A f \in Files : file'[f].board = "lookup" => file'[f].minor \in Nat
      BY <1>0, <3>2 DEF Opened
    <3>5. ~refused /\ ~removed => \A f \in Files : file'[f].board \in ToSet(Listed) \cup {NULL, "lookup"}
      BY <1>0, <3>2 DEF Opened
    <3> QED
      BY <1>0, <2>1, <3>1, <3>3, <3>4, <3>5 DEF Opened
  <2>5. ASSUME NEW g \in Files, OpenLookup(g) PROVE Opened'
    <3>1. fault' = fault /\ file' = [file EXCEPT ![g].board = LookupBoardByIndex(file[g].minor)]
          /\ file[g].board = "lookup"
      BY <2>5 DEF OpenLookup
    <3>2. file[g].minor \in Nat /\ driver # "unloaded"
      BY <1>0, <1>00, <3>1 DEF Opened, Closed
    <3> QED
      BY <1>0, <2>1, <2>2, <3>1, <3>2, SMTT(30) DEF Opened
  <2>6. ASSUME NEW g \in Files, Ioctl(g) PROVE Opened'
    <3>1. /\ file' = file /\ file[g].board \notin {NULL, "lookup"}
          /\ fault' = (fault \/ (~removed /\ ~Alive(file[g].board)))
      BY <2>6 DEF Ioctl
    <3> QED
      BY <1>0, <2>1, <2>3, <3>1 DEF Opened
  <2>7. ASSUME NEW g \in Files, Release(g) PROVE Opened'
    <3>1. fault' = fault /\ file' = [file EXCEPT ![g] = Closed]
      BY <2>7 DEF Release
    <3> QED
      BY <1>0, <1>00, <2>1, <3>1 DEF Opened, Closed
  <2> QED
    BY <1>6, <2>4, <2>5, <2>6, <2>7 DEF FileStep
<1>7. CASE UNCHANGED coreVars
  BY <1>0, <1>7 DEF coreVars, Opened, Listed
<1> QED
  BY <1>1, <1>2, <1>3, <1>4, <1>5, <1>6, <1>7 DEF CoreNext, FileStep

-----------------------------------------------------------------------------
CoreInv == Place /\ Entries /\ Owned /\ Chain /\ Opened

LEMMA CoreStart == CoreInit => CoreInv
BY PlaceInit, EntriesInit, OwnedInit, ChainInit, OpenedInit DEF CoreInv

LEMMA CoreStep == CoreInv /\ [CoreNext]_coreVars => CoreInv'
BY PlaceNext, EntriesNext, OwnedNext, ChainNext, OpenedNext DEF CoreInv

LEMMA InUseIsThere == CoreInv => BoardsInUseAreThere
<1> SUFFICES ASSUME CoreInv, ~refused
             PROVE  (\A b \in irq : Alive(b) /\ b \in mapped \cap regions) /\ ~fault
  BY DEF BoardsInUseAreThere
<1>0. Place /\ Entries /\ Owned /\ ~fault
  BY DEF CoreInv, Opened
<1>1. ASSUME NEW b \in irq PROVE Alive(b) /\ b \in mapped \cap regions
  <2>1. b \in Present
    BY <1>0 DEF Entries
  <2>2. ~(b = core.board /\ core.step \in {"regions", "irq"} \cup Removing)
    BY <1>0 DEF Entries
  <2>3. b # NULL
    <3>1. b \in Boards
      <4>1. bound \in Seq(Boards) /\ (core.step \in Probing => core.board \in Boards)
        BY <1>0 DEF Place, Resting, Probing
      <4> QED
        BY <2>1, <4>1, Members DEF Present
    <3> QED
      BY <3>1, DriverAssumption
  <2> QED
    BY <1>0, <2>1, <2>2, <2>3 DEF Owned, Alive, Removing, Freed
<1> QED
  BY <1>0, <1>1

LEMMA LookupFindsMinor == CoreInv => LookupIsMinor
<1> SUFFICES ASSUME CoreInv, ~outOfOrder, ~refused
             PROVE  /\ ~hung
                    /\ core = Resting =>
                         Found /\ \A i \in 0 .. count - 1 : LookupBoardByIndex(i) # NULL
  BY DEF LookupIsMinor
<1>0. Place /\ Entries /\ Owned /\ InOrder
  BY DEF CoreInv, Chain
<1>1. ~hung
  BY <1>0 DEF InOrder
<1>2. ASSUME core = Resting, NEW i \in 0 .. count - 1
      PROVE  /\ LookupBoardByIndex(i) # NULL
             /\ Alive(LookupBoardByIndex(i)) /\ Data(LookupBoardByIndex(i)).minor = i
  <2>1. count = Len(bound) /\ Listed = bound /\ core.step = "none"
    BY <1>0, <1>2 DEF Entries, Listed, Resting
  <2>2. Len(bound) \in Nat /\ i \in Nat /\ i < Len(bound) /\ i + 1 \in 1 .. Len(bound) /\ bound # <<>>
    BY <1>0, <2>1, Numbers
  <2>3. LookupBoardByIndex(i) = bound[i + 1]
    BY <1>0, <2>1, <2>2, LookupFinds
  <2>4. bound[i + 1] \in Boards /\ bound[i + 1] \in Present
    BY <1>0, <2>2, Numbers DEF Present
  <2>5. bound[i + 1] # NULL
    BY <2>4, DriverAssumption
  <2>6. drvdata[bound[i + 1]] \in live
    BY <1>0, <2>1, <2>4 DEF Owned, Freed
  <2>7. Data(bound[i + 1]).minor = i
    <3>1. Data(bound[i + 1]) = Link(bound, i + 1)
      BY <1>0, <2>1, <2>2 DEF InOrder
    <3>2. Link(bound, i + 1).minor = (i + 1) - 1
      BY LinkFields
    <3> QED
      BY <2>2, <3>1, <3>2
  <2> QED
    BY <2>3, <2>5, <2>6, <2>7 DEF Alive
<1> QED
  BY <1>1, <1>2 DEF Found

(* The interrupt routine of a board is installed only while the board's    *)
(* data and memory are there, and no ioctl uses a board that is not there  *)
(* as long as none was removed, unless an interrupt was refused            *)
(* (xpci3xxx_probe_one, xpci3xxx_remove_one, xpci3xxx_ioctl_lookup).       *)
THEOREM InterruptsFindBoards == CoreSpec => []BoardsInUseAreThere
<1> QED
  BY CoreStart, CoreStep, InUseIsThere, PTL DEF CoreSpec

(* The list that is walked through memory finds for every minor number the *)
(* board that has it, and no walk is endless, as long as boards go from    *)
(* the end of the list (xpci3xxx_known_dev_append and remove,              *)
(* xpci3xxx_lookup_board_by_index).                                        *)
THEOREM MinorsFindBoards == CoreSpec => []LookupIsMinor
<1> QED
  BY CoreStart, CoreStep, LookupFindsMinor, PTL DEF CoreSpec

=============================================================================
