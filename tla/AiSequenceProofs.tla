-------------------------- MODULE AiSequenceProofs ---------------------------
(***************************************************************************)
(* Proofs about EventFifo and AiSequence.                                  *)
(*                                                                         *)
(* The FIFO, for every FifoSize >= 2 and every set of callers, source      *)
(* words and payloads: the arithmetic of the ring is in three lemmas, the  *)
(* invariants are then proved one action at a time, and every step is a    *)
(* step of LossyQueue.  These proofs use nothing of AiSequence.            *)
(*                                                                         *)
(* The sequence: the interrupt routine finds every buffer that the DMA     *)
(* filled, once and in order, for every list of descriptors, every length  *)
(* of an acquisition and any number of callers, if the callers keep to the *)
(* header (Disciplined).                                                   *)
(***************************************************************************)
EXTENDS AiSequence, SequenceTheorems, TLAPS

-----------------------------------------------------------------------------
(* The FIFO of events *)

(* The successor of a slot, without the modulus. *)
LEMMA NextSlot ==
  ASSUME NEW x \in Slots
  PROVE  /\ Next1(x) = IF x + 1 = FifoSize THEN 0 ELSE x + 1
         /\ Next1(x) \in Slots
         /\ Next1(x) # x
  BY FifoAssumption, SMT DEF Next1, Slots

(* How far slot x is ahead of slot y on the ring. *)
LEMMA Distance ==
  ASSUME NEW x \in Slots, NEW y \in Slots
  PROVE  /\ (x - y) % FifoSize = IF y <= x THEN x - y ELSE x - y + FifoSize
         /\ (x - y) % FifoSize \in Slots
  BY FifoAssumption, SMT DEF Slots

(* The slots from r up to, not including, w: Live is the one from evRead   *)
(* to evWrite.  Appending adds slot w to it, taking removes slot r.        *)
Window(r, w) == {i \in Slots : (i - r) % FifoSize < (w - r) % FifoSize}

LEMMA InWindow ==
  ASSUME NEW r \in Slots, NEW w \in Slots, NEW i \in Slots
  PROVE  i \in Window(r, w) <=> IF r <= w THEN r <= i /\ i < w ELSE r <= i \/ i < w
  <1>1. i \in Window(r, w) <=> (i - r) % FifoSize < (w - r) % FifoSize
    BY DEF Window
  <1>2. (i - r) % FifoSize = IF r <= i THEN i - r ELSE i - r + FifoSize
    BY Distance
  <1>3. (w - r) % FifoSize = IF r <= w THEN w - r ELSE w - r + FifoSize
    BY Distance
  <1> QED
    BY <1>1, <1>2, <1>3, FifoAssumption, SMT DEF Slots

LEMMA WindowPush ==
  ASSUME NEW r \in Slots, NEW w \in Slots
  PROVE  /\ w \notin Window(r, w)
         /\ Next1(w) # r => Window(r, Next1(w)) = Window(r, w) \cup {w}
  <1>1. w \notin Window(r, w)
    BY InWindow, FifoAssumption, SMT DEF Slots
  <1>2. ASSUME Next1(w) # r, NEW i \in Slots
        PROVE  i \in Window(r, Next1(w)) <=> i \in Window(r, w) \/ i = w
    <2>1. i \in Window(r, Next1(w)) <=>
            IF r <= Next1(w) THEN r <= i /\ i < Next1(w) ELSE r <= i \/ i < Next1(w)
      BY InWindow, NextSlot
    <2>2. i \in Window(r, w) <=> IF r <= w THEN r <= i /\ i < w ELSE r <= i \/ i < w
      BY InWindow
    <2> QED
      BY <1>2, <2>1, <2>2, NextSlot, FifoAssumption, SMT DEF Slots
  <1> QED
    BY <1>1, <1>2 DEF Window

LEMMA WindowTake ==
  ASSUME NEW r \in Slots, NEW w \in Slots, r # w
  PROVE  /\ r \in Window(r, w)
         /\ Window(Next1(r), w) \subseteq Window(r, w)
  <1>1. r \in Window(r, w)
    BY InWindow, FifoAssumption, SMT DEF Slots
  <1>2. ASSUME NEW i \in Slots, i \in Window(Next1(r), w)
        PROVE  i \in Window(r, w)
    <2>1. IF Next1(r) <= w THEN Next1(r) <= i /\ i < w ELSE Next1(r) <= i \/ i < w
      BY <1>2, InWindow, NextSlot
    <2>2. i \in Window(r, w) <=> IF r <= w THEN r <= i /\ i < w ELSE r <= i \/ i < w
      BY InWindow
    <2> QED
      BY <2>1, <2>2, NextSlot, FifoAssumption, SMT DEF Slots
  <1> QED
    BY <1>1, <1>2 DEF Window

-----------------------------------------------------------------------------
(* The answers of TestInterrupt are of the type that FifoTypeOK gives them.*)
LEMMA CopiedType ==
  ASSUME NEW s \in Sources \cup {Full, Empty, {}}, s # {},
         NEW d \in Payload \cup {NoData}
  PROVE  Copied(s, d) \in Answer
  BY DEF Copied, Answer

(* An event that waits is one that the interrupt routine queued: the       *)
(* overflow mark never lies between evRead and evWrite.                    *)
Intact == FifoTypeOK /\ WaitingEventsIntact

LEMMA PushIntact ==
  ASSUME Intact, NEW source \in Sources, NEW data \in Payload, Push(source, data)
  PROVE  /\ irqSource' \in [Slots -> Sources \cup {Full, {}}]
         /\ irqData' \in [Slots -> Payload \cup {NoData}]
         /\ evWrite' \in Slots
         /\ evRead' = evRead
         /\ reader' = reader
         /\ lost' \in BOOLEAN
         /\ WaitingEventsIntact'
  <1> USE DEF Intact, FifoTypeOK
  <1>1. CASE Next1(evWrite) # evRead
    <2>1. irqSource' = [irqSource EXCEPT ![evWrite] = source]
      BY <1>1 DEF Push
    <2>2. /\ irqData' \in [Slots -> Payload \cup {NoData}]
          /\ \A i \in Slots \ {evWrite} : irqData'[i] = irqData[i]
          /\ source = Dma => irqData'[evWrite] = data
      BY <1>1 DEF Push, Dma
    <2>3. evWrite' = Next1(evWrite) /\ evRead' = evRead /\ reader' = reader /\ lost' = lost
      BY <1>1 DEF Push
    <2>4. Live = Window(evRead, evWrite) /\ Live' = Live \cup {evWrite}
      BY <1>1, <2>3, WindowPush DEF Live, Count, Window
    <2>5. WaitingEventsIntact'
      BY <2>1, <2>2, <2>4 DEF WaitingEventsIntact, Live
    <2> QED
      BY <2>1, <2>2, <2>3, <2>5, NextSlot
  <1>2. CASE Next1(evWrite) = evRead
    <2>1. /\ irqSource' = [irqSource EXCEPT ![evWrite] = Full]
          /\ UNCHANGED <<irqData, evWrite, evRead, reader>>
          /\ lost' = TRUE
      BY <1>2 DEF Push
    <2>2. evWrite \notin Live /\ Live' = Live
      BY <2>1, WindowPush DEF Live, Count, Window
    <2>3. WaitingEventsIntact'
      BY <2>1, <2>2 DEF WaitingEventsIntact, Live
    <2> QED
      BY <2>1, <2>3
  <1> QED
    BY <1>1, <1>2

LEMMA RingUnchanged ==
  ASSUME Intact, UNCHANGED <<irqSource, irqData, evWrite, evRead, lost>>
  PROVE  /\ irqSource' \in [Slots -> Sources \cup {Full, {}}]
         /\ irqData' \in [Slots -> Payload \cup {NoData}]
         /\ evWrite' \in Slots
         /\ evRead' \in Slots
         /\ lost' \in BOOLEAN
         /\ WaitingEventsIntact'
  BY DEF Intact, FifoTypeOK, WaitingEventsIntact, Live, Count

(* The steps of a caller keep the ring intact. *)
LEMMA CallerIntact ==
  ASSUME Intact, NEW r \in Readers, TestInterrupt(r)
  PROVE  Intact'
  <1>1. CASE TestInterrupt_Call(r)
    BY <1>1, RingUnchanged DEF TestInterrupt_Call, ring, Intact, FifoTypeOK
  <1>2. CASE TestInterrupt_Signal(r)
    BY <1>2, RingUnchanged DEF TestInterrupt_Signal, ring, Intact, FifoTypeOK
  <1>3. CASE TestInterrupt_Take(r) /\ HasEvent
    <2> DEFINE a == Copied(irqSource[evRead], irqData[evRead])
    <2>1. /\ reader' = [reader EXCEPT ![r] = Done(a)]
          /\ evRead' = Next1(evRead)
          /\ lost' \in BOOLEAN
          /\ UNCHANGED <<irqSource, irqData, evWrite, isr>>
      BY <1>3 DEF TestInterrupt_Take, Intact, FifoTypeOK
    <2>2. evRead \in Live /\ Live' \subseteq Live
      BY <1>3, <2>1, WindowTake DEF HasEvent, Live, Count, Window, Intact, FifoTypeOK
    <2>3. irqSource[evRead] \in Sources /\ irqData[evRead] \in Payload \cup {NoData}
      BY <2>2 DEF Intact, FifoTypeOK, WaitingEventsIntact
    <2>4. a \in Answer
      BY <2>3 DEF Copied, Answer
    <2>5. reader' \in [Readers -> {Idle, Asleep, Woken, Locking, Interrupted}
                                    \cup [pc : {"done"}, answer : Answer]]
      BY <2>1, <2>4 DEF Intact, FifoTypeOK, Done
    <2>6. WaitingEventsIntact'
      BY <2>1, <2>2 DEF Intact, WaitingEventsIntact
    <2> QED
      BY <2>1, <2>5, <2>6, NextSlot DEF Intact, FifoTypeOK
  <1>4. CASE TestInterrupt_Take(r) /\ ~HasEvent
    <2>1. Copied(Empty, NoData) \in Answer
      BY DEF Copied, Answer
    <2>2. /\ reader' = [reader EXCEPT ![r] = Done(Copied(Empty, NoData))]
          /\ UNCHANGED <<irqSource, irqData, evWrite, evRead, lost, isr>>
      BY <1>4 DEF TestInterrupt_Take
    <2>3. reader' \in [Readers -> {Idle, Asleep, Woken, Locking, Interrupted}
                                    \cup [pc : {"done"}, answer : Answer]]
      BY <2>1, <2>2 DEF Intact, FifoTypeOK, Done
    <2> QED
      BY <2>2, <2>3, RingUnchanged DEF Intact, FifoTypeOK
  <1>5. CASE TestInterrupt_Return(r)
    BY <1>5, RingUnchanged DEF TestInterrupt_Return, ring, Intact, FifoTypeOK
  <1> QED
    BY <1>1, <1>2, <1>3, <1>4, <1>5 DEF TestInterrupt

LEMMA InitIntact == FifoInit => Intact
  <1> SUFFICES ASSUME FifoInit
               PROVE  Intact
    OBVIOUS
  <1>1. 0 \in Slots /\ evWrite = 0 /\ evRead = 0
    BY FifoAssumption, SMT DEF FifoInit, Slots
  <1>2. FifoTypeOK
    BY <1>1 DEF FifoInit, FifoTypeOK
  <1>3. Live = {}
    <2>1. \A i \in Slots : i \notin Window(0, 0)
      BY <1>1, InWindow, SMT DEF Slots
    <2> QED
      BY <1>1, <2>1 DEF Live, Count, Window
  <1> QED
    BY <1>2, <1>3 DEF Intact, WaitingEventsIntact

LEMMA NextIntact == Intact /\ [FifoNext]_fifoVars => Intact'
  <1> SUFFICES ASSUME Intact, [FifoNext]_fifoVars
               PROVE  Intact'
    OBVIOUS
  <1>1. CASE Isr_Enter
    BY <1>1, RingUnchanged DEF Isr_Enter, ring, Intact, FifoTypeOK
  <1>2. ASSUME NEW source \in Sources, NEW data \in Payload, Isr_Push(source, data)
        PROVE  Intact'
    BY <1>2, PushIntact DEF Isr_Push, Intact, FifoTypeOK
  <1>3. CASE Isr_WakeUp
    BY <1>3, RingUnchanged DEF Isr_WakeUp, WakeUp, ring, Intact, FifoTypeOK
  <1>4. CASE Isr_None
    BY <1>4, RingUnchanged DEF Isr_None, ring, Intact, FifoTypeOK
  <1>5. CASE ResetFifo
    <2>1. 0 \in Slots /\ evWrite' = 0 /\ evRead' = 0
      BY <1>5, FifoAssumption, SMT DEF ResetFifo, Slots
    <2>2. Live' = {}
      <3>1. \A i \in Slots : i \notin Window(0, 0)
        BY <2>1, InWindow, SMT DEF Slots
      <3> QED
        BY <2>1, <3>1 DEF Live, Count, Window
    <2> QED
      BY <1>5, <2>1, <2>2 DEF ResetFifo, Intact, FifoTypeOK, WaitingEventsIntact
  <1>6. ASSUME NEW r \in Readers, TestInterrupt(r)
        PROVE  Intact'
    BY <1>6, CallerIntact
  <1>7. CASE UNCHANGED fifoVars
    BY <1>7, RingUnchanged DEF fifoVars, Intact, FifoTypeOK
  <1> QED
    BY <1>1, <1>2, <1>3, <1>4, <1>5, <1>6, <1>7 DEF FifoNext

(* The counters, the slots and the states of the callers keep their types. *)
THEOREM Typing == FifoSpec => []FifoTypeOK
  <1>1. Intact => FifoTypeOK
    BY DEF Intact
  <1> QED
    BY <1>1, InitIntact, NextIntact, PTL DEF FifoSpec

(* The overflow mark never lands on a waiting event, in a ring of any size *)
(* (interrupt.c 474-490, 685-705).                                         *)
THEOREM Integrity == FifoSpec => []WaitingEventsIntact
  <1>1. Intact => WaitingEventsIntact
    BY DEF Intact
  <1> QED
    BY <1>1, InitIntact, NextIntact, PTL DEF FifoSpec

-----------------------------------------------------------------------------
(* NoLostWakeUp is not inductive: the interrupt routine may leave without  *)
(* waking anybody.  It does so only from "entered", before it has queued   *)
(* anything, and then nobody slept on an event when it entered.            *)
WakeUpDue ==
  /\ FifoTypeOK
  /\ isr \in {"out", "entered"} /\ HasEvent => \A r \in Readers : reader[r] # Asleep

LEMMA NextWakeUpDue == WakeUpDue /\ Intact /\ [FifoNext]_fifoVars => WakeUpDue'
  <1> SUFFICES ASSUME WakeUpDue, Intact, [FifoNext]_fifoVars
               PROVE  WakeUpDue'
    OBVIOUS
  <1> USE DEF WakeUpDue, HasEvent
  <1>0. FifoTypeOK'
    BY NextIntact DEF Intact
  <1>1. CASE Isr_Enter
    BY <1>0, <1>1 DEF Isr_Enter, ring
  <1>2. ASSUME NEW source \in Sources, NEW data \in Payload, Isr_Push(source, data)
        PROVE  WakeUpDue'
    BY <1>0, <1>2 DEF Isr_Push
  <1>3. CASE Isr_WakeUp
    <2>1. \A r \in Readers : reader'[r] # Asleep
      BY <1>3, Zenon DEF Isr_WakeUp, WakeUp, Asleep, Woken
    <2> QED
      BY <1>0, <2>1
  <1>4. CASE Isr_None
    BY <1>0, <1>4 DEF Isr_None, ring
  <1>5. CASE ResetFifo
    BY <1>0, <1>5 DEF ResetFifo
  <1>6. ASSUME NEW r \in Readers, TestInterrupt(r)
        PROVE  WakeUpDue'
    <2>1. CASE TestInterrupt_Call(r)
      <3>1. CASE HasEvent
        BY <1>0, <2>1, <3>1 DEF TestInterrupt_Call, ring, Asleep, Locking, FifoTypeOK
      <3>2. CASE ~HasEvent
        BY <1>0, <2>1, <3>2 DEF TestInterrupt_Call, ring
      <3> QED
        BY <3>1, <3>2
    <2>2. CASE TestInterrupt_Signal(r)
      BY <1>0, <2>2 DEF TestInterrupt_Signal, ring, Asleep, Interrupted, FifoTypeOK
    <2>3. CASE TestInterrupt_Take(r)
      BY <1>0, <2>3 DEF TestInterrupt_Take, Asleep, Done, FifoTypeOK
    <2>4. CASE TestInterrupt_Return(r)
      BY <1>0, <2>4 DEF TestInterrupt_Return, ring, Asleep, Idle, FifoTypeOK
    <2> QED
      BY <1>6, <2>1, <2>2, <2>3, <2>4 DEF TestInterrupt
  <1>7. CASE UNCHANGED fifoVars
    BY <1>0, <1>7 DEF fifoVars
  <1> QED
    BY <1>1, <1>2, <1>3, <1>4, <1>5, <1>6, <1>7 DEF FifoNext

(* No wake-up is lost, for any number of callers (interrupt.c 720, 831).   *)
THEOREM WakeUps == FifoSpec => []NoLostWakeUp
  <1>1. FifoInit => WakeUpDue
    BY InitIntact DEF FifoInit, WakeUpDue, HasEvent, Intact
  <1>2. WakeUpDue => NoLostWakeUp
    BY DEF WakeUpDue, NoLostWakeUp
  <1> QED
    BY <1>1, <1>2, InitIntact, NextIntact, NextWakeUpDue, PTL DEF FifoSpec

-----------------------------------------------------------------------------
(* The refinement.  A function on 1 .. n is a sequence of length n, and    *)
(* what appending and taking mean for such functions.                      *)
LEMMA FunctionIsSeq ==
  ASSUME NEW S, NEW n \in Nat, NEW f \in [1 .. n -> S]
  PROVE  f \in Seq(S) /\ Len(f) = n
  BY SeqDef, LenProperties

LEMMA IsEmpty ==
  ASSUME NEW S, NEW n \in Nat, NEW f \in [1 .. n -> S]
  PROVE  f = <<>> <=> n = 0
  <1>1. f \in Seq(S) /\ Len(f) = n
    BY FunctionIsSeq
  <1>2. <<>> \in Seq(S) /\ Len(<<>>) = 0
    BY EmptySeq
  <1>3. n = 0 => f = <<>>
    BY <1>1, <1>2, SeqEqual
  <1> QED
    BY <1>1, <1>2, <1>3

LEMMA IsAppend ==
  ASSUME NEW S, NEW n \in Nat, NEW f \in [1 .. n -> S], NEW g \in [1 .. n + 1 -> S],
         \A k \in 1 .. n : g[k] = f[k]
  PROVE  g = Append(f, g[n + 1])
  <1>1. f \in Seq(S) /\ Len(f) = n
    BY FunctionIsSeq
  <1>2. g \in Seq(S) /\ Len(g) = n + 1
    BY FunctionIsSeq
  <1>3. g[n + 1] \in S
    OBVIOUS
  <1> DEFINE a == Append(f, g[n + 1])
  <1>4. /\ a \in Seq(S) /\ Len(a) = n + 1
        /\ \A k \in 1 .. n : a[k] = f[k]
        /\ a[n + 1] = g[n + 1]
    BY <1>1, <1>3, AppendProperties
  <1>5. \A k \in 1 .. n + 1 : g[k] = a[k]
    BY <1>4
  <1> HIDE DEF a
  <1>6. g = a
    BY <1>2, <1>4, <1>5, SeqEqual
  <1> QED
    BY <1>6 DEF a

LEMMA IsTail ==
  ASSUME NEW S, NEW n \in Nat, NEW f \in [1 .. n + 1 -> S], NEW g \in [1 .. n -> S],
         \A k \in 1 .. n : g[k] = f[k + 1]
  PROVE  f # <<>> /\ g = Tail(f) /\ Head(f) = f[1]
  <1>1. f \in Seq(S) /\ Len(f) = n + 1 /\ f # <<>>
    BY FunctionIsSeq, IsEmpty
  <1>2. g \in Seq(S) /\ Len(g) = n
    BY FunctionIsSeq
  <1>3. /\ Tail(f) \in Seq(S) /\ Len(Tail(f)) = n
        /\ \A k \in 1 .. n : Tail(f)[k] = f[k + 1]
    BY <1>1, HeadTailProperties
  <1>4. \A k \in 1 .. n : g[k] = Tail(f)[k]
    BY <1>3
  <1>5. g = Tail(f)
    BY <1>2, <1>3, <1>4, SeqEqual
  <1> QED
    BY <1>1, <1>5

(* The k-th slot from r on, and how the window from r to w is counted.     *)
Slot(r, k) == (r + k - 1) % FifoSize
Size(r, w) == (w - r) % FifoSize

LEMMA SlotValue ==
  ASSUME NEW r \in Slots, NEW k \in 1 .. FifoSize
  PROVE  /\ Slot(r, k) = IF r + k - 1 < FifoSize THEN r + k - 1 ELSE r + k - 1 - FifoSize
         /\ Slot(r, k) \in Slots
  BY FifoAssumption, SMT DEF Slot, Slots

LEMMA SizeValue ==
  ASSUME NEW r \in Slots, NEW w \in Slots
  PROVE  /\ Size(r, w) = IF r <= w THEN w - r ELSE w - r + FifoSize
         /\ Size(r, w) \in Slots
         /\ Size(r, w) = 0 <=> r = w
  BY Distance, FifoAssumption, SMT DEF Size, Slots

LEMMA SlotsOfWindow ==
  ASSUME NEW r \in Slots, NEW w \in Slots, NEW k \in 1 .. Size(r, w)
  PROVE  Slot(r, k) \in Window(r, w)
  <1>1. Size(r, w) = (IF r <= w THEN w - r ELSE w - r + FifoSize) /\ Size(r, w) \in Slots
    BY SizeValue
  <1>2. k \in 1 .. FifoSize
    BY <1>1, FifoAssumption, SMT DEF Slots
  <1>3. /\ Slot(r, k) = IF r + k - 1 < FifoSize THEN r + k - 1 ELSE r + k - 1 - FifoSize
        /\ Slot(r, k) \in Slots
    BY <1>2, SlotValue
  <1>4. Slot(r, k) \in Window(r, w) <=>
          IF r <= w THEN r <= Slot(r, k) /\ Slot(r, k) < w
          ELSE r <= Slot(r, k) \/ Slot(r, k) < w
    BY <1>3, InWindow
  <1> QED
    BY <1>1, <1>2, <1>3, <1>4, FifoAssumption, SMT DEF Slots

LEMMA SizePush ==
  ASSUME NEW r \in Slots, NEW w \in Slots, Next1(w) # r
  PROVE  /\ Size(r, w) < FifoSize - 1
         /\ Size(r, Next1(w)) = Size(r, w) + 1
         /\ Slot(r, Size(r, w) + 1) = w
  <1>1. /\ Next1(w) = IF w + 1 = FifoSize THEN 0 ELSE w + 1
        /\ Next1(w) \in Slots
    BY NextSlot
  <1>2. Size(r, w) = IF r <= w THEN w - r ELSE w - r + FifoSize
    BY SizeValue
  <1>3. Size(r, Next1(w)) = IF r <= Next1(w) THEN Next1(w) - r ELSE Next1(w) - r + FifoSize
    BY <1>1, SizeValue
  <1>4. Size(r, w) < FifoSize - 1 /\ Size(r, Next1(w)) = Size(r, w) + 1
    BY <1>1, <1>2, <1>3, FifoAssumption, SMT DEF Slots
  <1>5. Size(r, w) + 1 \in 1 .. FifoSize
    BY <1>2, <1>4, FifoAssumption, SMT DEF Slots
  <1> DEFINE k == Size(r, w) + 1
  <1>6. Slot(r, k) = IF r + k - 1 < FifoSize THEN r + k - 1 ELSE r + k - 1 - FifoSize
    BY <1>5, SlotValue
  <1>7. Slot(r, Size(r, w) + 1) = w
    BY <1>2, <1>6, FifoAssumption, SMT DEF Slots
  <1> QED
    BY <1>4, <1>7

LEMMA SizeTake ==
  ASSUME NEW r \in Slots, NEW w \in Slots, r # w
  PROVE  /\ Size(r, w) = Size(Next1(r), w) + 1
         /\ Slot(r, 1) = r
         /\ \A k \in 1 .. Size(Next1(r), w) : Slot(Next1(r), k) = Slot(r, k + 1)
  <1>1. /\ Next1(r) = IF r + 1 = FifoSize THEN 0 ELSE r + 1
        /\ Next1(r) \in Slots
    BY NextSlot
  <1>2. Size(r, w) = IF r <= w THEN w - r ELSE w - r + FifoSize
    BY SizeValue
  <1>3. Size(Next1(r), w) = IF Next1(r) <= w THEN w - Next1(r) ELSE w - Next1(r) + FifoSize
    BY <1>1, SizeValue
  <1>4. Size(r, w) = Size(Next1(r), w) + 1
    BY <1>1, <1>2, <1>3, FifoAssumption, SMT DEF Slots
  <1>5. Slot(r, 1) = r
    <2>1. 1 \in 1 .. FifoSize
      BY FifoAssumption, SMT
    <2>2. Slot(r, 1) = IF r + 1 - 1 < FifoSize THEN r + 1 - 1 ELSE r + 1 - 1 - FifoSize
      BY <2>1, SlotValue
    <2> QED
      BY <2>2, FifoAssumption, SMT DEF Slots
  <1>6. ASSUME NEW k \in 1 .. Size(Next1(r), w)
        PROVE  Slot(Next1(r), k) = Slot(r, k + 1)
    <2>1. k \in 1 .. FifoSize /\ k + 1 \in 1 .. FifoSize
      <3>1. Size(r, w) \in Slots /\ Size(Next1(r), w) \in Slots
        BY <1>1, SizeValue
      <3> QED
        BY <1>4, <3>1, FifoAssumption, SMT DEF Slots
    <2> DEFINE n == Next1(r)
    <2>2. Slot(n, k) = IF n + k - 1 < FifoSize THEN n + k - 1 ELSE n + k - 1 - FifoSize
      BY <1>1, <2>1, SlotValue
    <2>3. Slot(r, k + 1) = IF r + (k + 1) - 1 < FifoSize THEN r + (k + 1) - 1
                           ELSE r + (k + 1) - 1 - FifoSize
      BY <2>1, SlotValue
    <2> QED
      BY <1>1, <2>1, <2>2, <2>3, FifoAssumption, SMT DEF Slots
  <1> QED
    BY <1>4, <1>5, <1>6

(* The abstract queue, slot by slot. *)
Entry(i) == Copied(irqSource[i], irqData[i])

LEMMA QueueIs ==
  ASSUME Intact
  PROVE  /\ Count = Size(evRead, evWrite) /\ Count \in Nat
         /\ \A k \in 1 .. Count : QueueOf[k] = Entry(Slot(evRead, k))
         /\ \A S : (\A k \in 1 .. Count : QueueOf[k] \in S) => QueueOf \in [1 .. Count -> S]
  <1>1. Count = Size(evRead, evWrite)
    BY DEF Count, Size
  <1>2. evRead \in Slots /\ evWrite \in Slots
    BY DEF Intact, FifoTypeOK
  <1>3. Count \in Nat
    BY <1>1, <1>2, SizeValue DEF Slots
  <1>4. \A k \in 1 .. Count : QueueOf[k] = Entry(Slot(evRead, k))
    BY DEF QueueOf, Entry, Slot
  <1>5. \A S : (\A k \in 1 .. Count : QueueOf[k] \in S) => QueueOf \in [1 .. Count -> S]
    BY DEF QueueOf
  <1> QED
    BY <1>1, <1>3, <1>4, <1>5

LEMMA QueueSame ==
  ASSUME Intact, UNCHANGED <<evRead, evWrite>>,
         \A i \in Live : irqSource'[i] = irqSource[i] /\ irqData'[i] = irqData[i]
  PROVE  QueueOf' = QueueOf
  <1>1. Count' = Count
    BY DEF Count
  <1>2. Live = Window(evRead, evWrite)
    BY DEF Live, Count, Window
  <1>3. ASSUME NEW k \in 1 .. Count
        PROVE  LET i == (evRead + k - 1) % FifoSize IN
               irqSource'[i] = irqSource[i] /\ irqData'[i] = irqData[i]
    <2>1. Slot(evRead, k) \in Live
      BY <1>2, QueueIs, SlotsOfWindow DEF Intact, FifoTypeOK
    <2> QED
      BY <2>1 DEF Slot
  <1> QED
    BY <1>1, <1>3 DEF QueueOf

LEMMA QueuePush ==
  ASSUME Intact, Intact', NEW source \in Sources, NEW data \in Payload, Push(source, data)
  PROVE  \/ QueueOf' = QueueOf
         \/ /\ Len(QueueOf) < FifoSize - 1
            /\ QueueOf' = Append(QueueOf, Copied(source, data))
  <1>0. evRead \in Slots /\ evWrite \in Slots /\ evRead' = evRead
    BY DEF Intact, FifoTypeOK, Push
  <1>1. CASE Next1(evWrite) # evRead
    <2>1. /\ irqSource' = [irqSource EXCEPT ![evWrite] = source]
          /\ evWrite' = Next1(evWrite)
          /\ \A i \in Slots \ {evWrite} : irqData'[i] = irqData[i]
          /\ source \cap {"dma", "eos"} # {} => irqData'[evWrite] = data
      BY <1>1 DEF Push, Intact, FifoTypeOK
    <2>2. Copied(irqSource'[evWrite], irqData'[evWrite]) = Copied(source, data)
      <3>1. irqSource'[evWrite] = source
        BY <1>0, <2>1 DEF Intact, FifoTypeOK
      <3>2. source \in {Dma, {"eos"}} => irqData'[evWrite] = data
        BY <2>1 DEF Dma
      <3> QED
        BY <3>1, <3>2 DEF Copied
    <2>3. /\ Count < FifoSize - 1 /\ Count' = Count + 1 /\ Count \in Nat
          /\ Slot(evRead, Count + 1) = evWrite
      BY <1>0, <1>1, <2>1, SizePush, QueueIs DEF Count, Size
    <2>4. ASSUME NEW k \in 1 .. Count
          PROVE  QueueOf'[k] = QueueOf[k]
      <3> DEFINE i == (evRead + k - 1) % FifoSize
      <3>1. i \in Slots \ {evWrite}
        BY <1>0, QueueIs, SlotsOfWindow, WindowPush DEF Window, Slot
      <3>2. irqSource'[i] = irqSource[i] /\ irqData'[i] = irqData[i]
        BY <1>0, <2>1, <3>1 DEF Intact, FifoTypeOK
      <3>3. k \in 1 .. Count'
        BY <2>3
      <3> HIDE DEF i
      <3>4. QueueOf[k] = Copied(irqSource[i], irqData[i])
        BY DEF QueueOf, i
      <3>5. QueueOf'[k] = Copied(irqSource'[i], irqData'[i])
        BY <1>0, <3>3 DEF QueueOf, i
      <3> QED
        BY <3>2, <3>4, <3>5
    <2>5. QueueOf'[Count + 1] = Copied(source, data)
      <3>1. Count + 1 \in 1 .. Count' /\ (evRead + (Count + 1) - 1) % FifoSize = evWrite
        BY <2>3 DEF Slot
      <3> QED
        BY <1>0, <2>2, <3>1 DEF QueueOf
    <2> DEFINE S == {QueueOf[k] : k \in 1 .. Count} \cup {Copied(source, data)}
    <2>6. QueueOf \in [1 .. Count -> S]
      BY QueueIs
    <2>7. QueueOf' \in [1 .. Count + 1 -> S]
      <3>1. ASSUME NEW k \in 1 .. Count + 1
            PROVE  QueueOf'[k] \in S
        BY <2>3, <2>4, <2>5
      <3>2. QueueOf' \in [1 .. Count' -> {QueueOf'[k] : k \in 1 .. Count'}]
        BY DEF QueueOf
      <3> HIDE DEF S
      <3> QED
        BY <2>3, <3>1, <3>2
    <2> HIDE DEF S
    <2> QED
      BY <2>3, <2>4, <2>5, <2>6, <2>7, IsAppend, FunctionIsSeq
  <1>2. CASE Next1(evWrite) = evRead
    <2>1. /\ irqSource' = [irqSource EXCEPT ![evWrite] = Full]
          /\ UNCHANGED <<irqData, evWrite, evRead>>
      BY <1>2 DEF Push
    <2>2. evWrite \notin Live
      BY <1>0, WindowPush DEF Live, Count, Window
    <2> QED
      BY <2>1, <2>2, QueueSame DEF Intact, FifoTypeOK, Live
  <1> QED
    BY <1>1, <1>2

(* The places of a queue that is one shorter, among those of the longer.   *)
LEMMA Shorter ==
  ASSUME NEW n \in Nat, NEW m, m = n + 1
  PROVE  /\ 1 \in 1 .. m
         /\ \A k \in 1 .. n : k + 1 \in 1 .. m
  OBVIOUS

LEMMA QueueTake ==
  ASSUME Intact, HasEvent, evRead' = Next1(evRead), UNCHANGED <<irqSource, irqData, evWrite>>
  PROVE  /\ QueueOf # <<>>
         /\ Head(QueueOf) = Copied(irqSource[evRead], irqData[evRead])
         /\ QueueOf' = Tail(QueueOf)
  <1>0. evRead \in Slots /\ evWrite \in Slots /\ evRead # evWrite
    BY DEF Intact, FifoTypeOK, HasEvent
  <1>1. Count = Count' + 1
    BY <1>0, SizeTake DEF Count, Size
  <1>1a. Slot(evRead, 1) = evRead
    BY <1>0, SizeTake
  <1>1b. \A k \in 1 .. Count' : Slot(Next1(evRead), k) = Slot(evRead, k + 1)
    BY <1>0, SizeTake DEF Count, Size
  <1>2. Count' \in Nat
    <2>1. Next1(evRead) \in Slots
      BY <1>0, NextSlot
    <2>2. Size(Next1(evRead), evWrite) \in Slots
      BY <1>0, <2>1, SizeValue
    <2>3. Count' = Size(Next1(evRead), evWrite)
      BY DEF Count, Size
    <2> QED
      BY <2>2, <2>3, FifoAssumption DEF Slots
  <1>3. ASSUME NEW k \in 1 .. Count'
        PROVE  QueueOf'[k] = QueueOf[k + 1]
    <2>1. k + 1 \in 1 .. Count
      BY <1>1, <1>2, Shorter
    <2>2. (Next1(evRead) + k - 1) % FifoSize = (evRead + (k + 1) - 1) % FifoSize
      BY <1>1b DEF Slot
    <2> QED
      BY <2>1, <2>2 DEF QueueOf
  <1> DEFINE S == {QueueOf[k] : k \in 1 .. Count}
  <1>4. QueueOf \in [1 .. Count' + 1 -> S]
    BY <1>1 DEF QueueOf
  <1>5. QueueOf' \in [1 .. Count' -> S]
    <2>1. \A k \in 1 .. Count' : QueueOf'[k] \in S
      BY <1>1, <1>2, <1>3, Shorter
    <2>2. QueueOf' \in [1 .. Count' -> {QueueOf'[k] : k \in 1 .. Count'}]
      BY DEF QueueOf
    <2> HIDE DEF S
    <2> QED
      BY <2>1, <2>2
  <1> HIDE DEF S
  <1>6. QueueOf # <<>> /\ QueueOf' = Tail(QueueOf) /\ Head(QueueOf) = QueueOf[1]
    BY <1>2, <1>3, <1>4, <1>5, IsTail
  <1>7. QueueOf[1] = Copied(irqSource[evRead], irqData[evRead])
    <2>1. 1 \in 1 .. Count
      BY <1>1, <1>2, Shorter
    <2>2. (evRead + 1 - 1) % FifoSize = evRead
      BY <1>1a DEF Slot
    <2> QED
      BY <2>1, <2>2 DEF QueueOf
  <1> QED
    BY <1>6, <1>7

LEMMA QueueEmpty ==
  ASSUME Intact
  PROVE  QueueOf = <<>> <=> ~HasEvent
  <1>1. Count = 0 <=> ~HasEvent
    BY QueueIs, SizeValue DEF Intact, FifoTypeOK, HasEvent
  <1>2. QueueOf \in [1 .. Count -> {QueueOf[k] : k \in 1 .. Count}] /\ Count \in Nat
    BY QueueIs
  <1> QED
    BY <1>1, <1>2, IsEmpty

(* What each state of a caller shows, and a step of one caller.            *)
LEMMA CallShows ==
  /\ CallOf(Idle) = Queue!Outside
  /\ \A state \in {Asleep, Woken, Locking} : CallOf(state) = Queue!Waiting
  /\ CallOf(Interrupted) = Queue!Returned("interrupted")
  /\ \A a : CallOf(Done(a)) = IF a.source = Empty THEN Queue!Returned("empty") ELSE Queue!Got(a)
  BY DEF CallOf, Idle, Asleep, Woken, Locking, Interrupted, Done,
     Queue!Outside, Queue!Waiting, Queue!Returned, Queue!Got

LEMMA OneCall ==
  ASSUME FifoTypeOK, NEW r \in Readers, NEW state, reader' = [reader EXCEPT ![r] = state]
  PROVE  Calls[r] = CallOf(reader[r]) /\ Calls' = [Calls EXCEPT ![r] = CallOf(state)]
  BY DEF FifoTypeOK, Calls

LEMMA InitRefines == FifoInit => Queue!Init
  <1> SUFFICES ASSUME FifoInit
               PROVE  Queue!Init
    OBVIOUS
  <1>1. QueueOf = <<>>
    BY InitIntact, QueueEmpty DEF FifoInit, HasEvent
  <1>2. Calls = [r \in Readers |-> Queue!Outside]
    BY CallShows DEF FifoInit, Calls
  <1> QED
    BY <1>1, <1>2 DEF Queue!Init

LEMMA CallerRefines ==
  ASSUME Intact, Intact', NEW r \in Readers, TestInterrupt(r)
  PROVE  [Queue!Next]_(Queue!queueVars)
  <1>0. FifoTypeOK
    BY DEF Intact
  <1>1. CASE TestInterrupt_Call(r)
    <2>1. QueueOf' = QueueOf
      BY <1>1, QueueSame DEF TestInterrupt_Call, ring
    <2>2. PICK state \in {Asleep, Locking} : reader' = [reader EXCEPT ![r] = state]
      BY <1>1 DEF TestInterrupt_Call
    <2>3. Calls' = [Calls EXCEPT ![r] = Queue!Waiting] /\ Calls[r] = CallOf(reader[r])
      <3>1. CallOf(state) = Queue!Waiting
        BY CallShows
      <3>2. Calls[r] = CallOf(reader[r]) /\ Calls' = [Calls EXCEPT ![r] = CallOf(state)]
        BY <1>0, <2>2, OneCall
      <3> QED
        BY <3>1, <3>2
    <2>4. CASE reader[r] = Idle
      <3>1. Calls[r] = Queue!Outside
        BY <2>3, <2>4, CallShows
      <3>2. Queue!Call(r)
        BY <2>1, <2>3, <3>1 DEF Queue!Call
      <3> QED
        BY <3>2 DEF Queue!Next
    <2>5. CASE reader[r] = Woken
      <3>1. Calls[r] = Queue!Waiting
        BY <2>3, <2>5, CallShows
      <3>2. Calls' = Calls
        BY <2>3, <3>1 DEF Calls
      <3> QED
        BY <2>1, <3>2 DEF Queue!queueVars
    <2> QED
      BY <1>1, <2>4, <2>5 DEF TestInterrupt_Call
  <1>2. CASE TestInterrupt_Signal(r)
    <2>1. QueueOf' = QueueOf
      BY <1>2, QueueSame DEF TestInterrupt_Signal, ring
    <2>2. Calls' = [Calls EXCEPT ![r] = Queue!Returned("interrupted")] /\ Calls[r] = Queue!Waiting
      <3>1. reader[r] \in {Asleep, Woken} /\ reader' = [reader EXCEPT ![r] = Interrupted]
        BY <1>2 DEF TestInterrupt_Signal
      <3>2. Calls[r] = CallOf(reader[r]) /\ Calls' = [Calls EXCEPT ![r] = CallOf(Interrupted)]
        BY <1>0, <3>1, OneCall
      <3> QED
        BY <3>1, <3>2, CallShows
    <2>3. Queue!Nothing(r)
      BY <2>1, <2>2 DEF Queue!Nothing
    <2> QED
      BY <2>3 DEF Queue!Next
  <1>3. CASE TestInterrupt_Take(r) /\ HasEvent
    <2> DEFINE a == Copied(irqSource[evRead], irqData[evRead])
    <2>1. /\ reader[r] = Locking
          /\ reader' = [reader EXCEPT ![r] = Done(a)]
          /\ evRead' = Next1(evRead)
          /\ UNCHANGED <<irqSource, irqData, evWrite>>
      BY <1>3 DEF TestInterrupt_Take
    <2>2. a.source # Empty
      <3>1. evRead \in Live
        BY <1>3, WindowTake DEF HasEvent, Live, Count, Window, Intact, FifoTypeOK
      <3>2. irqSource[evRead] \in Words
        BY <3>1, FifoAssumption DEF Intact, WaitingEventsIntact
      <3> QED
        BY <3>2 DEF Copied, Words, Dma, Empty
    <2>3. Calls' = [Calls EXCEPT ![r] = Queue!Got(a)] /\ Calls[r] = Queue!Waiting
      <3> HIDE DEF a
      <3>1. Calls[r] = CallOf(reader[r]) /\ Calls' = [Calls EXCEPT ![r] = CallOf(Done(a))]
        BY <1>0, <2>1, OneCall
      <3>2. CallOf(Done(a)) = Queue!Got(a) /\ CallOf(Locking) = Queue!Waiting
        BY <2>2, CallShows
      <3> QED
        BY <2>1, <3>1, <3>2
    <2>4. QueueOf # <<>> /\ Head(QueueOf) = a /\ QueueOf' = Tail(QueueOf)
      BY <1>3, <2>1, QueueTake
    <2> HIDE DEF a
    <2>5. Queue!Deliver(r)
      BY <2>3, <2>4 DEF Queue!Deliver
    <2> QED
      BY <2>5 DEF Queue!Next
  <1>4. CASE TestInterrupt_Take(r) /\ ~HasEvent
    <2>1. QueueOf' = QueueOf /\ QueueOf = <<>>
      BY <1>4, QueueSame, QueueEmpty DEF TestInterrupt_Take
    <2>2. Calls' = [Calls EXCEPT ![r] = Queue!Returned("empty")] /\ Calls[r] = Queue!Waiting
      <3> DEFINE a == Copied(Empty, NoData)
      <3>1. reader[r] = Locking /\ reader' = [reader EXCEPT ![r] = Done(a)]
        BY <1>4 DEF TestInterrupt_Take
      <3>2. a.source = Empty
        BY DEF Copied
      <3> HIDE DEF a
      <3>3. Calls[r] = CallOf(reader[r]) /\ Calls' = [Calls EXCEPT ![r] = CallOf(Done(a))]
        BY <1>0, <3>1, OneCall
      <3> QED
        BY <3>1, <3>2, <3>3, CallShows
    <2>3. Queue!Nothing(r)
      BY <2>1, <2>2 DEF Queue!Nothing
    <2> QED
      BY <2>3 DEF Queue!Next
  <1>5. CASE TestInterrupt_Return(r)
    <2>1. QueueOf' = QueueOf
      BY <1>5, QueueSame DEF TestInterrupt_Return, ring
    <2>2. Calls' = [Calls EXCEPT ![r] = Queue!Outside] /\ Calls[r] = CallOf(reader[r])
      <3>1. reader' = [reader EXCEPT ![r] = Idle]
        BY <1>5 DEF TestInterrupt_Return
      <3>2. Calls[r] = CallOf(reader[r]) /\ Calls' = [Calls EXCEPT ![r] = CallOf(Idle)]
        BY <1>0, <3>1, OneCall
      <3> QED
        BY <3>2, CallShows
    <2>3. CallOf(reader[r]).at = "returned"
      <3>1. reader[r] = Interrupted \/ \E a : reader[r] = Done(a)
        BY <1>0, <1>5 DEF TestInterrupt_Return, FifoTypeOK, Idle, Asleep, Woken, Locking, Done
      <3> QED
        BY <3>1, CallShows DEF Queue!Returned, Queue!Got
    <2>4. Queue!Return(r)
      BY <2>1, <2>2, <2>3 DEF Queue!Return
    <2> QED
      BY <2>4 DEF Queue!Next
  <1> QED
    BY <1>1, <1>2, <1>3, <1>4, <1>5 DEF TestInterrupt

LEMMA NextRefines ==
  Intact /\ Intact' /\ [FifoNext]_fifoVars => [Queue!Next]_(Queue!queueVars)
  <1> SUFFICES ASSUME Intact, Intact', [FifoNext]_fifoVars
               PROVE  [Queue!Next]_(Queue!queueVars)
    OBVIOUS
  <1> USE DEF Queue!queueVars
  <1>1. CASE Isr_Enter \/ Isr_None
    <2>1. QueueOf' = QueueOf /\ Calls' = Calls
      BY <1>1, QueueSame DEF Isr_Enter, Isr_None, ring, Calls
    <2> QED
      BY <2>1
  <1>2. ASSUME NEW source \in Sources, NEW data \in Payload, Isr_Push(source, data)
        PROVE  [Queue!Next]_(Queue!queueVars)
    <2> DEFINE e == Copied(source, data)
    <2>1. Calls' = Calls
      BY <1>2 DEF Isr_Push, Push, Calls
    <2>2. \/ QueueOf' = QueueOf
          \/ Len(QueueOf) < FifoSize - 1 /\ QueueOf' = Append(QueueOf, e)
      BY <1>2, QueuePush DEF Isr_Push
    <2>3. e \in {Copied(s, d) : s \in Sources, d \in Payload}
      OBVIOUS
    <2> HIDE DEF e
    <2> QED
      BY <2>1, <2>2, <2>3 DEF Queue!Next, Queue!Accept
  <1>3. CASE Isr_WakeUp
    <2>1. QueueOf' = QueueOf
      BY <1>3, QueueSame DEF Isr_WakeUp, ring
    <2>2. \A r \in Readers : CallOf(reader'[r]) = CallOf(reader[r])
      <3>1. \A r \in Readers : reader'[r] = IF reader[r] = Asleep THEN Woken ELSE reader[r]
        BY <1>3 DEF Isr_WakeUp, WakeUp
      <3> QED
        BY <3>1, CallShows
    <2> QED
      BY <2>1, <2>2 DEF Calls
  <1>4. CASE ResetFifo
    <2>1. Calls' = Calls
      BY <1>4 DEF ResetFifo, Calls
    <2>2. QueueOf' = <<>>
      <3>1. Count' = 0
        BY <1>4, FifoAssumption, SMT DEF ResetFifo, Count
      <3>2. QueueOf' \in [1 .. 0 -> {}]
        BY <3>1 DEF QueueOf
      <3> QED
        BY <3>2, IsEmpty
    <2> QED
      BY <2>1, <2>2 DEF Queue!Next, Queue!Clear
  <1>5. ASSUME NEW r \in Readers, TestInterrupt(r)
        PROVE  [Queue!Next]_(Queue!queueVars)
    BY <1>5, CallerRefines
  <1>6. CASE UNCHANGED fifoVars
    <2>1. QueueOf' = QueueOf /\ Calls' = Calls
      BY <1>6, QueueSame DEF fifoVars, Calls
    <2> QED
      BY <2>1
  <1> QED
    BY <1>1, <1>2, <1>3, <1>4, <1>5, <1>6 DEF FifoNext

(* The ring, its callers and the interrupt routine are a bounded queue:    *)
(* every accepted event reaches exactly one caller, in order, for every    *)
(* size of the ring and any number of callers (interrupt.c 471-490,        *)
(* 684-721, 820-855).                                                      *)
THEOREM RefinesQueue == FifoSpec => ImplementsQueue
  BY InitIntact, NextIntact, InitRefines, NextRefines, PTL
     DEF FifoSpec, ImplementsQueue, Queue!Spec

-----------------------------------------------------------------------------
(* Rests of divisions: the place of a cycle in the ring of buffers.        *)
LEMMA Division ==
  ASSUME NEW a \in Int, NEW n \in Nat \ {0}
  PROVE  a \div n \in Int /\ a % n \in 0 .. n - 1 /\ a = n * (a \div n) + (a % n)
  <1>1. a \div n \in Int
    OBVIOUS
  <1>2. a % n \in 0 .. n - 1
    OBVIOUS
  <1>3. a = n * (a \div n) + (a % n)
    OBVIOUS
  <1> QED
    BY <1>1, <1>2, <1>3

LEMMA Multiples ==
  ASSUME NEW n \in Nat \ {0}, NEW p \in Int, NEW q \in Int, n * p < n * q + n, n * q < n * p + n
  PROVE  p = q
  <1>1. CASE p > q
    <2>1. p >= q + 1
      BY <1>1
    <2>2. n * p >= n * (q + 1)
      BY <2>1
    <2>3. n * (q+1) = n * q + n
      OBVIOUS
    <2> QED
      BY <2>2, <2>3
  <1>2. CASE p < q
    <2>1. q >= p + 1
      BY <1>2
    <2>2. n * q >= n * (p + 1)
      BY <2>1
    <2>3. n * (p+1) = n * p + n
      OBVIOUS
    <2> QED
      BY <2>2, <2>3
  <1> QED
    BY <1>1, <1>2

LEMMA Remainder ==
  ASSUME NEW n \in Nat \ {0}, NEW q \in Int, NEW r \in 0 .. n - 1
  PROVE (n * q + r) % n = r /\ (n * q + r) \div n = q
  <1> DEFINE a == n * q + r
  <1>1. a \in Int
    OBVIOUS
  <1>2. a \div n \in Int /\ a % n \in 0 .. n - 1 /\ a = n * (a \div n) + (a % n)
    BY <1>1, Division
  <1> DEFINE p == a \div n  s == a % n
  <1>3. n * p + s = n * q + r
    BY <1>2
  <1>4. p \in Int /\ s \in 0 .. n - 1
    BY <1>2
  <1> HIDE DEF p, s
  <1>5. n * p \in Int /\ n * q \in Int
    BY <1>4
  <1>6. n * p < n * q + n /\ n * q < n * p + n
    BY <1>3, <1>4, <1>5
  <1>7. p = q
    BY <1>4, <1>6, Multiples
  <1>8. s = r
    BY <1>3, <1>4, <1>5, <1>7
  <1> QED
    BY <1>7, <1>8 DEF p, s

LEMMA SameRest ==
  ASSUME NEW n \in Nat \ {0}, NEW a \in Int, NEW b \in Int, a <= b, b < a + n, a % n = b % n
  PROVE a = b
  <1> DEFINE p == a \div n  q == b \div n r == a % n
  <1>1. p \in Int /\ q \in Int /\ r \in 0 .. n - 1 /\ a = n * p + r /\ b = n * q + r
    BY Division
  <1> HIDE DEF p, q, r
  <1>2. n * p \in Int /\ n * q \in Int
    BY <1>1
  <1>3. n * p < n * q + n /\ n * q < n * p + n
    BY <1>1, <1>2
  <1>4. p = q
    BY <1>1, <1>3, Multiples
  <1> QED
    BY <1>1, <1>4

LEMMA NextRest ==
  ASSUME NEW n \in Nat \ {0}, NEW a \in Int
  PROVE ((a % n) + 1) % n = (a + 1) % n
  <1> DEFINE p == a \div n  r == a % n
  <1>1. p \in Int /\ r \in 0 .. n - 1 /\ a = n * p + r
    BY Division
  <1> HIDE DEF p, r
  <1>0. n * p \in Int /\ n * (p + 1) = n * p + n /\ p + 1 \in Int
    BY <1>1
  <1>2. CASE r + 1 < n
    <2>1. r + 1 \in 0 .. n - 1
      BY <1>1, <1>2
    <2>2. (n * p + (r + 1)) % n = r + 1
      BY <1>1, <2>1, Remainder
    <2>3. (n * 0 + (r + 1)) % n = r + 1
      BY <2>1, Remainder
    <2>4. n * p + (r + 1) = a + 1 /\ n * 0 + (r + 1) = r + 1
      BY <1>0, <1>1
    <2> QED
      BY <2>2, <2>3, <2>4 DEF r
  <1>3. CASE r + 1 >= n
    <2>1. r + 1 = n /\ 0 \in 0 .. n - 1
      BY <1>1, <1>3
    <2>2. (n * (p + 1) + 0) % n = 0
      BY <1>0, <2>1, Remainder
    <2>3. (n * 1 + 0) % n = 0
      BY <2>1, Remainder
    <2>4. n * (p + 1) + 0 = a + 1 /\ n * 1 + 0 = r + 1
      BY <1>0, <1>1, <2>1
    <2> QED
      BY <2>2, <2>3, <2>4 DEF r
  <1> QED
    BY <1>1, <1>2, <1>3

LEMMA NewestIs ==
  ASSUME N \in Nat \ {0}, NEW f \in Nat, NEW i \in 0 .. N - 1, i < f
  PROVE  /\ Newest(i, f) \in Nat /\ Newest(i, f) % N = i
         /\ Newest(i, f) < f /\ f <= Newest(i, f) + N
  <1> DEFINE n == N  q == (f - 1 - i) \div n  r == (f - 1 - i) % n
  <1>0. n \in Nat \ {0} /\ i \in 0 .. n - 1
    OBVIOUS
  <1>1. Newest(i, f) = i + n * q
    BY DEF Newest
  <1> HIDE DEF n
  <1>2. f - 1 - i \in Int
    OBVIOUS
  <1>3. q \in Int /\ r \in 0 .. n - 1 /\ f - 1 - i = n * q + r
    BY <1>0, <1>2, Division
  <1> HIDE DEF q, r
  <1>4. n * q \in Int
    BY <1>0, <1>3
  <1>5. q >= 0
    <2> SUFFICES ASSUME q < 0
                 PROVE  FALSE
      BY <1>3
    <2>1. n * q <= n * (-1)
      BY <1>0, <1>3
    <2>2. n * (-1) = -n
      BY <1>0
    <2> QED
      BY <1>0, <1>3, <1>4, <2>1, <2>2
  <1>6. n * q >= 0
    BY <1>0, <1>3, <1>5
  <1>7. (n * q + i) % n = i
    BY <1>0, <1>3, Remainder
  <1>8. Newest(i, f) = n * q + i
    BY <1>0, <1>1, <1>4
  <1>9. /\ Newest(i, f) \in Nat /\ Newest(i, f) % n = i
        /\ Newest(i, f) < f /\ f <= Newest(i, f) + n
    BY <1>0, <1>3, <1>4, <1>6, <1>7, <1>8
  <1> QED
    BY <1>9 DEF n

-----------------------------------------------------------------------------
(* The inductive invariant.  First the types, then how ioctls and hardware *)
(* agree about the acquisition.                                            *)
Flags == {"eos", "ovf", "dma", "done"}

Switches ==
  /\ initialised \in BOOLEAN /\ started \in BOOLEAN /\ useDma \in BOOLEAN
  /\ hwRun \in BOOLEAN /\ tcw \in BOOLEAN /\ lapped \in BOOLEAN

Types ==
  /\ Switches
  /\ desc # NoDesc => desc \in Descriptors /\ last \in 0 .. N - 1
  /\ last \in Nat /\ filled \in Nat /\ upTo \in 0 .. filled
  /\ status \subseteq Flags
  /\ run \in 0 .. MaxRuns /\ timers \in 0 .. MaxTimers

Acquisition ==
  /\ started = hwRun
  /\ hwRun => initialised
  /\ initialised /\ useDma => desc # NoDesc
  /\ ~initialised => filled = 0
  /\ status \cap DmaDone # {} => hwRun /\ useDma
  /\ "done" \in status => desc.mode = "single" /\ filled = N
  /\ initialised /\ useDma /\ (hwRun \/ filled = 0) => last = upTo % N
  /\ hwRun /\ useDma /\ desc.mode = "single" =>
       upTo < N /\ filled <= N /\ (filled = N => "done" \in status)
  /\ hwRun /\ useDma /\ desc.mode = "continuous" => filled <= MaxFilled

(* What the loop of the routine has collected: consecutive cycles, from    *)
(* From to Position - 1.  The DMA was less than a ring ahead of Position,  *)
(* unless nothing is collected yet of an acquisition that it has lapped.   *)
From == IF Len(scan.array) = 0 THEN upTo ELSE scan.array[1].cycle
Position == From + Len(scan.array)

Collected ==
  /\ scan.counter \in 0 .. N /\ Len(scan.array) <= scan.counter
  /\ \A k \in 1 .. Len(scan.array) :
       scan.array[k] = [buf |-> (From + k - 1) % N, cycle |-> From + k - 1]
  /\ From = upTo \/ (lapped /\ From > upTo)
  /\ scan.index = Position % N
  /\ scan.index = (last + Len(scan.array)) % N
  /\ Position <= scan.seen
  /\ desc.mode = "single" => From = upTo /\ Position < N /\ scan.counter <= Position
  /\ desc.mode = "continuous" =>
       /\ Len(scan.array) > 0 \/ ~lapped => scan.seen < Position + N
       /\ ~lapped => scan.seen < Position + N - scan.counter

(* Where the routine is, what it knows and what is still true of it.       *)
Out == scan = NoScan /\ isr = "out"
Branch ==
  /\ scan \in [pc : {"branch"}, status : SUBSET Flags, tcw : {{}, {"tcw"}}]
  /\ isr = "entered"
  /\ scan.status \subseteq status
Address ==
  /\ scan \in [pc : {"address"}, done : BOOLEAN]
  /\ isr = "entered"
  /\ hwRun /\ useDma
  /\ scan.done => "done" \in status
Scanning ==
  /\ scan \in [pc : {"scan"}, done : BOOLEAN, seen : Nat, counter : Nat, index : Nat,
               array : Seq([buf : Nat, cycle : Nat])]
  /\ isr \in {"entered", "dma"}
  /\ hwRun /\ useDma
  /\ scan.done => "done" \in status /\ scan.seen = N
  /\ scan.seen <= filled
  /\ status \cap DmaDone = {} => filled = scan.seen
  /\ Collected
Queueing ==
  /\ scan \in [pc : {"queue"}, source : Words \cup {{}}]
  /\ isr \in {"entered", "dma", "other"}
  /\ scan.source # Dma => isr = "entered"
Routine == Out \/ Branch \/ Address \/ Scanning \/ Queueing

(* What is reported ends with a group, and no group ends between it and    *)
(* what the routine has seen; between two runs of the routine, that is all *)
(* that was filled, unless the next interrupt is pending.                  *)
Covered(b) == \A g \in upTo + 1 .. b : ~Irq((g - 1) % N)
Accounted ==
  hwRun /\ useDma =>
    /\ upTo = 0 \/ Irq((upTo - 1) % N)
    /\ ~lapped /\ scan.pc = "scan" => Covered(Position)
    /\ ~lapped /\ scan.pc \notin {"address", "scan"} /\ status \cap DmaDone = {}
         => Covered(filled)

AiInv == Types /\ Acquisition /\ Routine /\ Accounted

-----------------------------------------------------------------------------
LEMMA ListLength ==
  ASSUME desc \in Descriptors
  PROVE  /\ N \in Nat \ {0}
         /\ desc.mode \in {"single", "continuous"}
         /\ desc.mode = "single" => Irq(N - 1)
  <1>1. \A list : list \in Seq(BOOLEAN) /\ list # <<>> => Len(list) \in Nat \ {0}
    OBVIOUS
  <1>2. CASE desc \in [mode : {"single"}, irq : Single]
    <2>1. desc.mode = "single" /\ desc.irq \in Single
      BY <1>2
    <2>2. desc.irq \in Seq(BOOLEAN) /\ desc.irq # <<>> /\ desc.irq[Len(desc.irq)]
      BY <2>1, AiAssumption
    <2>3. Len(desc.irq) \in Nat \ {0}
      BY <1>1, <2>2
    <2> QED
      BY <2>1, <2>2, <2>3 DEF N, Irq
  <1>3. CASE desc \in [mode : {"continuous"}, irq : Continuous]
    <2>1. desc.mode = "continuous" /\ desc.irq \in Continuous
      BY <1>3
    <2>2. desc.irq \in Seq(BOOLEAN) /\ desc.irq # <<>>
      BY <2>1, AiAssumption
    <2> QED
      BY <1>1, <2>1, <2>2 DEF N
  <1> QED
    BY <1>2, <1>3 DEF Descriptors

(* While a DMA sequence runs there is a list.                              *)
LEMMA RunningList ==
  ASSUME AiInv, hwRun, useDma
  PROVE  /\ desc # NoDesc /\ desc \in Descriptors
         /\ N \in Nat \ {0}
         /\ desc.mode \in {"single", "continuous"}
         /\ desc.mode = "single" => Irq(N - 1)
         /\ last = upTo % N
  BY ListLength DEF AiInv, Types, Acquisition

LEMMA AiStart == AiInit => AiInv
  <1> SUFFICES ASSUME AiInit
               PROVE  AiInv
    OBVIOUS
  <1>1. Types
    <2>1. 0 \in 0 .. MaxRuns /\ 0 \in 0 .. MaxTimers
      BY AiAssumption
    <2>2. /\ initialised = FALSE /\ started = FALSE /\ useDma = FALSE
          /\ hwRun = FALSE /\ tcw = FALSE /\ lapped = FALSE
      BY DEF AiInit
    <2>3. desc = NoDesc /\ last = 0 /\ filled = 0 /\ upTo = 0 /\ run = 0 /\ timers = 0
      BY DEF AiInit
    <2>4. status \subseteq Flags
      BY DEF AiInit
    <2>5. Switches
      BY <2>2 DEF Switches
    <2>6. /\ last \in Nat /\ filled \in Nat /\ upTo \in 0 .. filled
          /\ run \in 0 .. MaxRuns /\ timers \in 0 .. MaxTimers
      BY <2>1, <2>3
    <2> QED
      BY <2>3, <2>4, <2>5, <2>6 DEF Types
  <1>2. Acquisition
    BY DEF AiInit, Acquisition
  <1>3. Routine
    BY DEF AiInit, FifoInit, Routine, Out
  <1>4. Accounted
    BY DEF AiInit, Accounted
  <1> QED
    BY <1>1, <1>2, <1>3, <1>4 DEF AiInv

-----------------------------------------------------------------------------
(* The ioctls run while the routine does not.                              *)
LEMMA OutsideRoutine ==
  ASSUME AiInv, isr = "out"
  PROVE  Out
  BY DEF AiInv, Routine, Branch, Address, Scanning, Queueing

LEMMA StaysOutside ==
  ASSUME AiInv, isr = "out", UNCHANGED <<isr, scan>>
  PROVE  Routine'
  BY OutsideRoutine DEF Routine, Out

(* Between two acquisitions of a board that is set up anew nothing is      *)
(* filled and nothing reported.                                            *)
LEMMA Initialises ==
  ASSUME Disciplined, AiInv, InitAllowed, UNCHANGED <<isr, scan, started, hwRun, filled, status,
                                                      tcw, run, timers, upTo, lapped>>,
         initialised' \in BOOLEAN, useDma' \in BOOLEAN, last' \in Nat,
         desc' # NoDesc => desc' \in Descriptors /\ last' \in 0 .. N' - 1,
         initialised' /\ useDma' => desc' # NoDesc /\ last' = 0
  PROVE  AiInv'
  <1>1. ~hwRun /\ ~initialised /\ isr = "out"
    BY DEF InitAllowed
  <1>2. filled = 0 /\ upTo = 0
    BY <1>1 DEF AiInv, Types, Acquisition
  <1>3. status \cap DmaDone = {} /\ "done" \notin status
    BY <1>1 DEF AiInv, Acquisition, DmaDone
  <1>4. Types'
    <2>1. Switches'
      BY DEF AiInv, Types, Switches
    <2> QED
      BY <2>1 DEF AiInv, Types
  <1>5. Acquisition'
    <2>1. desc' # NoDesc => 0 = 0 % N'
      <3> SUFFICES ASSUME desc' # NoDesc
                   PROVE  0 = 0 % N'
        OBVIOUS
      <3> DEFINE n == N'
      <3>1. n \in Nat \ {0}
        <4>1. \A d \in Descriptors : Len(d.irq) \in Nat \ {0}
          <5>1. \A list : list \in Seq(BOOLEAN) /\ list # <<>> => Len(list) \in Nat \ {0}
            OBVIOUS
          <5> QED
            BY <5>1, AiAssumption DEF Descriptors
        <4> QED
          BY <4>1 DEF N
      <3> HIDE DEF n
      <3>2. 0 \in 0 .. n - 1 /\ n * 0 + 0 = 0
        BY <3>1
      <3>3. (n * 0 + 0) % n = 0
        BY <3>1, <3>2, Remainder
      <3>4. 0 = 0 % n
        BY <3>2, <3>3
      <3> QED
        BY <3>4 DEF n
    <2> QED
      BY <1>1, <1>2, <1>3, <2>1 DEF AiInv, Acquisition
  <1>6. Routine'
    BY <1>1, StaysOutside
  <1>7. Accounted'
    BY <1>1 DEF Accounted
  <1> QED
    BY <1>4, <1>5, <1>6, <1>7 DEF AiInv

LEMMA InitKeeps ==
  ASSUME Disciplined, AiInv,
         (\E d \in Descriptors : InitDma(d)) \/ InitDmaFails \/ InitNoDma
  PROVE  AiInv'
  <1>0. Types /\ Switches
    BY DEF AiInv, Types
  <1>1. ASSUME NEW d \in Descriptors, InitDma(d)
        PROVE  AiInv'
    <2>1. d # NoDesc
      BY AiAssumption
    <2>2. desc' = d /\ last' = 0 /\ initialised' = TRUE /\ useDma' = TRUE
      BY <1>1 DEF InitDma
    <2>3. 0 \in 0 .. N' - 1
      <3>1. Len(d.irq) \in Nat \ {0}
        <4>1. \A list : list \in Seq(BOOLEAN) /\ list # <<>> => Len(list) \in Nat \ {0}
          OBVIOUS
        <4> QED
          BY <4>1, AiAssumption DEF Descriptors
      <3> QED
        BY <2>2, <3>1 DEF N
    <2> QED
      BY <1>1, <2>1, <2>2, <2>3, Initialises DEF InitDma, fifoVars, history
  <1>2. CASE InitDmaFails
    <2>1. InitAllowed /\ ~initialised
      BY <1>2 DEF InitDmaFails, InitAllowed
    <2> QED
      BY <1>0, <1>2, <2>1, Initialises DEF InitDmaFails, fifoVars, history, Types, Switches
  <1>3. CASE InitNoDma
    <2>1. desc' # NoDesc => desc' \in Descriptors /\ last' \in 0 .. N' - 1
      BY <1>0, <1>3 DEF InitNoDma, Types, N
    <2>2. last' \in Nat /\ useDma' = FALSE /\ initialised' = TRUE
      BY <1>0, <1>3 DEF InitNoDma, Types
    <2> QED
      BY <1>3, <2>1, <2>2, Initialises DEF InitNoDma, fifoVars, history
  <1> QED
    BY <1>1, <1>2, <1>3

LEMMA StartKeeps ==
  ASSUME Disciplined, AiInv, StartSequence
  PROVE  AiInv'
  <1>1. /\ isr = "out" /\ initialised /\ filled = 0 /\ run < MaxRuns
        /\ started' = TRUE /\ hwRun' = TRUE /\ lapped' = FALSE
        /\ status' = status \ {"dma", "done", "ovf"}
        /\ filled' = 0 /\ upTo' = 0 /\ run' = run + 1
        /\ UNCHANGED <<isr, scan, initialised, useDma, desc, last, tcw, timers>>
    BY DEF StartSequence, fifoVars
  <1>2. Types /\ Acquisition /\ upTo = 0
    BY <1>1 DEF AiInv, Types
  <1>3. Types'
    <2>1. Switches'
      BY <1>1, <1>2 DEF Types, Switches
    <2>2. run' \in 0 .. MaxRuns
      BY <1>1, <1>2, AiAssumption DEF Types
    <2>3. desc' # NoDesc => desc' \in Descriptors /\ last' \in 0 .. N' - 1
      BY <1>1, <1>2 DEF Types, N
    <2>4. status' \subseteq Flags
      BY <1>1, <1>2 DEF Types
    <2>5. last' \in Nat /\ filled' \in Nat /\ upTo' \in 0 .. filled' /\ timers' \in 0 .. MaxTimers
      BY <1>1, <1>2 DEF Types
    <2> QED
      BY <2>1, <2>2, <2>3, <2>4, <2>5 DEF Types
  <1>4. Acquisition'
    <2>1. N' = N
      BY <1>1 DEF N
    <2>2. useDma => desc # NoDesc /\ last = 0 % N /\ N \in Nat \ {0}
      BY <1>1, <1>2, ListLength DEF Types, Acquisition
    <2>3. "done" \notin status' /\ status' \cap DmaDone = {}
      BY <1>1 DEF DmaDone
    <2>4. MaxFilled >= 0
      BY AiAssumption
    <2> QED
      BY <1>1, <2>1, <2>2, <2>3, <2>4 DEF Acquisition
  <1>5. Routine'
    BY <1>1, StaysOutside
  <1>6. Accounted'
    <2>1. Covered(filled)'
      BY <1>1 DEF Covered
    <2>2. Out'
      BY <1>1, OutsideRoutine DEF Out
    <2> QED
      BY <1>1, <2>1, <2>2 DEF Accounted, Out, NoScan
  <1> QED
    BY <1>3, <1>4, <1>5, <1>6 DEF AiInv

LEMMA StopKeeps ==
  ASSUME AiInv, StopSequence
  PROVE  AiInv'
  <1>1. /\ isr = "out"
        /\ started' = FALSE /\ hwRun' = FALSE
        /\ status' = status \ {"dma", "done", "ovf"}
        /\ UNCHANGED <<isr, scan, initialised, useDma, desc, last, filled, tcw,
                       run, timers, upTo, lapped>>
    BY DEF StopSequence, fifoVars, history
  <1>2. Types /\ Acquisition /\ N' = N
    BY <1>1 DEF AiInv, N
  <1>3. Types'
    <2>1. Switches'
      BY <1>1, <1>2 DEF Types, Switches
    <2> QED
      BY <1>1, <1>2, <2>1 DEF Types
  <1>4. Acquisition'
    <2>1. "done" \notin status' /\ status' \cap DmaDone = {}
      BY <1>1 DEF DmaDone
    <2> QED
      BY <1>1, <1>2, <2>1 DEF Acquisition
  <1>5. Routine'
    BY <1>1, StaysOutside
  <1>6. Accounted'
    BY <1>1 DEF Accounted
  <1> QED
    BY <1>3, <1>4, <1>5, <1>6 DEF AiInv

LEMMA ReleaseKeeps ==
  ASSUME AiInv, ReleaseSequence
  PROVE  AiInv'
  <1>1. /\ isr = "out" /\ ~hwRun
        /\ initialised' = FALSE /\ useDma' = FALSE /\ desc' = NoDesc
        /\ last' = 0 /\ filled' = 0 /\ upTo' = 0
        /\ UNCHANGED <<isr, scan, started, hwRun, status, tcw, run, timers, lapped>>
    BY DEF ReleaseSequence, ResetFifo
  <1>2. Types /\ Acquisition
    BY DEF AiInv
  <1>3. Types'
    <2>1. Switches'
      BY <1>1, <1>2 DEF Types, Switches
    <2>2. last' \in Nat /\ filled' \in Nat /\ upTo' \in 0 .. filled'
      BY <1>1
    <2> QED
      BY <1>1, <1>2, <2>1, <2>2 DEF Types
  <1>4. Acquisition'
    <2>1. "done" \notin status' /\ status' \cap DmaDone = {}
      BY <1>1, <1>2 DEF DmaDone, Acquisition
    <2> QED
      BY <1>1, <1>2, <2>1 DEF Acquisition
  <1>5. Routine'
    BY <1>1, StaysOutside
  <1>6. Accounted'
    BY <1>1 DEF Accounted
  <1> QED
    BY <1>3, <1>4, <1>5, <1>6 DEF AiInv

-----------------------------------------------------------------------------
(* The hardware works at any time.  It fills a buffer and raises a flag, or*)
(* raises one: what the routine has collected does not change.             *)
LEMMA RoutineKept ==
  ASSUME AiInv, UNCHANGED <<isr, scan, hwRun, useDma, desc, last, upTo, lapped>>,
         status \subseteq status', filled \in Nat, filled' \in Nat, filled <= filled',
         filled' = filled \/ status' \cap DmaDone # {}
  PROVE  Routine'
  <1>1. CASE Out
    BY <1>1 DEF Routine, Out
  <1>2. CASE Branch
    <2>1. Branch'
      BY <1>2 DEF Branch
    <2> QED
      BY <2>1 DEF Routine
  <1>3. CASE Address
    <2>1. Address'
      BY <1>3 DEF Address
    <2> QED
      BY <2>1 DEF Routine
  <1>4. CASE Scanning
    <2>1. N' = N /\ From' = From
      BY DEF N, From
    <2>2. Position' = Position
      BY <2>1 DEF Position
    <2>3. Collected'
      BY <1>4, <2>1, <2>2 DEF Scanning, Collected
    <2>4. scan.seen \in Nat /\ scan.seen <= filled
      BY <1>4 DEF Scanning
    <2>5. scan.seen <= filled'
      BY <2>4
    <2>6. status' \cap DmaDone = {} => filled' = scan.seen
      BY <1>4 DEF Scanning
    <2>7. Scanning'
      BY <1>4, <2>1, <2>3, <2>5, <2>6 DEF Scanning
    <2> QED
      BY <2>7 DEF Routine
  <1>5. CASE Queueing
    <2>1. Queueing'
      BY <1>5 DEF Queueing
    <2> QED
      BY <2>1 DEF Routine
  <1> QED
    BY <1>1, <1>2, <1>3, <1>4, <1>5 DEF AiInv, Routine

LEMMA FillKeeps ==
  ASSUME AiInv, FillBuffer
  PROVE  AiInv'
  <1>1. /\ hwRun /\ useDma /\ filled' = filled + 1
        /\ UNCHANGED <<isr, scan, initialised, started, hwRun, useDma, desc, last, tcw,
                       run, timers, upTo, lapped>>
    BY DEF FillBuffer, fifoVars, sequence, history
  <1>2. Types /\ Acquisition /\ N' = N
    BY <1>1 DEF AiInv, N
  <1>3. desc # NoDesc /\ desc \in Descriptors /\ N \in Nat \ {0}
    BY <1>1, RunningList
  <1>4. "dma" \in status' /\ status \subseteq status' /\ status' \subseteq Flags
    BY <1>2 DEF FillBuffer, DmaDone, Types, Flags
  <1>5. filled \in Nat /\ filled' \in Nat /\ filled <= filled' /\ upTo \in 0 .. filled'
    BY <1>1, <1>2 DEF Types
  <1>6. Types'
    <2>1. Switches'
      BY <1>1, <1>2 DEF Types, Switches
    <2> QED
      BY <1>1, <1>2, <1>4, <1>5, <2>1 DEF Types
  <1>7. desc.mode = "single" => /\ filled < N /\ filled' <= N
                                /\ "done" \in status' <=> filled' = N
    <2> SUFFICES ASSUME desc.mode = "single"
                 PROVE  /\ filled < N /\ filled' <= N
                        /\ "done" \in status' <=> filled' = N
      OBVIOUS
    <2>1. filled < N
      BY DEF FillBuffer
    <2>2. "done" \notin status
      BY <1>2, <1>3, <1>5, <2>1 DEF Acquisition
    <2>3. filled + 1 = N => "done" \in status'
      BY DEF FillBuffer, DmaDone
    <2>4. filled + 1 # N => "done" \notin status'
      BY <2>2 DEF FillBuffer
    <2> QED
      BY <1>1, <1>3, <1>5, <2>1, <2>3, <2>4
  <1>8. desc.mode # "single" => "done" \notin status' /\ filled' <= MaxFilled
    BY <1>1, <1>2, <1>5, AiAssumption DEF FillBuffer, Acquisition
  <1>9. Acquisition'
    BY <1>1, <1>2, <1>3, <1>5, <1>7, <1>8 DEF Acquisition
  <1>10. status' \cap DmaDone # {}
    BY <1>4 DEF DmaDone
  <1>11. Routine'
    BY <1>1, <1>4, <1>5, <1>10, RoutineKept
  <1>12. Accounted'
    <2>1. From' = From /\ Position' = Position
      BY <1>1 DEF From, Position
    <2> QED
      BY <1>1, <1>2, <1>10, <2>1 DEF AiInv, Accounted, Covered, Irq
  <1> QED
    BY <1>6, <1>9, <1>11, <1>12 DEF AiInv

(* Any other step beside the routine that leaves the DMA alone.            *)
LEMMA Beside ==
  ASSUME AiInv, UNCHANGED <<isr, scan, initialised, started, hwRun, useDma, desc, last,
                            filled, run, upTo, lapped>>,
         status \subseteq status', status' \subseteq Flags,
         status' \cap DmaDone = status \cap DmaDone,
         tcw' \in BOOLEAN, timers' \in 0 .. MaxTimers
  PROVE  AiInv'
  <1>1. Types /\ Acquisition /\ N' = N
    BY DEF AiInv, N
  <1>2. Types'
    <2>1. Switches'
      BY <1>1 DEF Types, Switches
    <2> QED
      BY <1>1, <2>1 DEF Types
  <1>3. Acquisition'
    <2>1. "done" \in status' <=> "done" \in status
      BY DEF DmaDone
    <2> QED
      BY <1>1, <2>1 DEF Acquisition
  <1>4. Routine'
    <2>1. filled \in Nat /\ filled <= filled
      BY <1>1 DEF Types
    <2> QED
      BY <2>1, RoutineKept
  <1>5. Accounted'
    <2>1. From' = From /\ Position' = Position
      BY DEF From, Position
    <2> QED
      BY <1>1, <2>1 DEF AiInv, Accounted, Covered, Irq
  <1> QED
    BY <1>2, <1>3, <1>4, <1>5 DEF AiInv

LEMMA HardwareKeeps ==
  ASSUME AiInv, Hardware
  PROVE  AiInv'
  <1>0. Types /\ Switches
    BY DEF AiInv, Types
  <1>1. CASE FillBuffer
    BY <1>1, FillKeeps
  <1>2. ASSUME NEW flag \in {"ovf", "eos"}, RaiseStatus(flag)
        PROVE  AiInv'
    <2>1. /\ status' \subseteq Flags /\ status \subseteq status'
          /\ status' \cap DmaDone = status \cap DmaDone
      BY <1>0, <1>2 DEF RaiseStatus, Types, Flags, DmaDone
    <2> QED
      BY <1>0, <1>2, <2>1, Beside DEF RaiseStatus, fifoVars, sequence, history, Types, Switches
  <1>3. CASE TimerFires
    <2>1. timers' \in 0 .. MaxTimers
      BY <1>0, <1>3, AiAssumption DEF TimerFires, Types
    <2> QED
      BY <1>0, <1>3, <2>1, Beside DEF TimerFires, fifoVars, sequence, Types
  <1> QED
    BY <1>1, <1>2, <1>3 DEF Hardware

(* Callers of TestInterrupt do not touch the acquisition.                  *)
LEMMA CallersKeep ==
  ASSUME AiInv, (\E r \in Readers : Caller(r)) \/ UNCHANGED aiVars
  PROVE  AiInv'
  <1>1. UNCHANGED <<isr, scan, initialised, started, hwRun, useDma, desc, last,
                    filled, status, tcw, run, timers, upTo, lapped>>
    BY DEF Caller, sequence, history, aiVars, fifoVars, TestInterrupt, TestInterrupt_Call,
           TestInterrupt_Signal, TestInterrupt_Take, TestInterrupt_Return
  <1>2. status \subseteq Flags /\ tcw \in BOOLEAN /\ timers \in 0 .. MaxTimers
    BY DEF AiInv, Types, Switches
  <1> QED
    BY <1>1, <1>2, Beside

-----------------------------------------------------------------------------
(* The routine up to its loop.                                             *)
LEMMA WhereItIs ==
  ASSUME AiInv
  PROVE  /\ scan.pc = "out" => Out
         /\ scan.pc = "branch" => Branch
         /\ scan.pc = "address" => Address
         /\ scan.pc = "scan" => Scanning
         /\ scan.pc = "queue" => Queueing
  BY DEF AiInv, Routine, Out, NoScan, Branch, Address, Scanning, Queueing

(* A step of the routine that leaves the acquisition alone and clears at   *)
(* most flags that nothing depends on.                                     *)
LEMMA RoutineMoves ==
  ASSUME AiInv, UNCHANGED <<initialised, started, hwRun, useDma, desc, last, filled,
                            run, timers, upTo>>,
         status' \subseteq status, "done" \in status => "done" \in status',
         tcw' \in BOOLEAN, lapped' \in BOOLEAN
  PROVE  Types' /\ Acquisition'
  <1>1. Types /\ Acquisition /\ N' = N
    BY DEF AiInv, N
  <1>2. Types'
    <2>1. Switches'
      BY <1>1 DEF Types, Switches
    <2> QED
      BY <1>1, <2>1 DEF Types
  <1>3. Acquisition'
    <2>1. "done" \in status' <=> "done" \in status
      OBVIOUS
    <2>2. status' \cap DmaDone # {} => status \cap DmaDone # {}
      OBVIOUS
    <2> QED
      BY <1>1, <2>1, <2>2 DEF Acquisition
  <1> QED
    BY <1>2, <1>3

LEMMA BeginKeeps ==
  ASSUME AiInv, IsrBegin
  PROVE  AiInv'
  <1>1. /\ isr = "out" /\ isr' = "entered" /\ tcw' = FALSE
        /\ scan' = [pc |-> "branch", status |-> status, tcw |-> IF tcw THEN {"tcw"} ELSE {}]
        /\ UNCHANGED <<initialised, started, hwRun, useDma, desc, last, filled, status,
                       run, timers, upTo, lapped>>
    BY DEF IsrBegin, Isr_Enter, sequence, history
  <1>2. status \subseteq Flags /\ lapped \in BOOLEAN
    BY DEF AiInv, Types, Switches
  <1>3. Types' /\ Acquisition'
    BY <1>1, <1>2, RoutineMoves
  <1>4. Routine'
    BY <1>1, <1>2 DEF Routine, Branch
  <1>5. Accounted'
    <2>1. scan.pc = "out" /\ scan'.pc = "branch"
      BY <1>1, OutsideRoutine DEF Out, NoScan
    <2> QED
      BY <1>1, <2>1 DEF AiInv, Accounted, Covered, Irq, N
  <1> QED
    BY <1>3, <1>4, <1>5 DEF AiInv

LEMMA NotDmaKeeps ==
  ASSUME AiInv, NEW flag \in {{"eos"}, {"ovf"}, {}}, IsrNotDma(flag)
  PROVE  AiInv'
  <1>1. /\ scan.pc = "branch" /\ status' = status \ flag
        /\ scan' = [pc |-> "queue", source |-> flag \cup scan.tcw]
        /\ UNCHANGED <<isr, initialised, started, hwRun, useDma, desc, last, filled, tcw,
                       run, timers, upTo, lapped>>
    BY DEF IsrNotDma, fifoVars, sequence, history
  <1>2. tcw \in BOOLEAN /\ lapped \in BOOLEAN
    BY DEF AiInv, Types, Switches
  <1>3. "done" \notin flag /\ "dma" \notin flag
    OBVIOUS
  <1>4. Types' /\ Acquisition'
    BY <1>1, <1>2, <1>3, RoutineMoves
  <1>5. Branch
    BY <1>1, WhereItIs
  <1>6. Routine'
    <2>1. flag \cup scan.tcw \in (Words \cup {{}}) \ {Dma}
      BY <1>5 DEF Branch, Words, Dma
    <2> QED
      BY <1>1, <1>5, <2>1 DEF Routine, Queueing, Branch
  <1>7. Accounted'
    <2>1. status' \cap DmaDone = status \cap DmaDone
      BY <1>1, <1>3 DEF DmaDone
    <2>2. scan'.pc = "queue"
      BY <1>1
    <2> QED
      BY <1>1, <2>1, <2>2 DEF AiInv, Accounted, Covered, Irq, N
  <1> QED
    BY <1>4, <1>6, <1>7 DEF AiInv

LEMMA ClearKeeps ==
  ASSUME AiInv, IsrClear
  PROVE  AiInv'
  <1>1. /\ scan.pc = "branch" /\ status' = status \ {"dma"}
        /\ scan.status \cap DmaDone # {}
        /\ scan' = [pc |-> "address", done |-> "done" \in scan.status]
        /\ UNCHANGED <<isr, initialised, started, hwRun, useDma, desc, last, filled, tcw,
                       run, timers, upTo, lapped>>
    BY DEF IsrClear, fifoVars, sequence, history
  <1>2. tcw \in BOOLEAN /\ lapped \in BOOLEAN
    BY DEF AiInv, Types, Switches
  <1>3. Types' /\ Acquisition'
    BY <1>1, <1>2, RoutineMoves
  <1>4. Branch
    BY <1>1, WhereItIs
  <1>5. hwRun /\ useDma
    BY <1>1, <1>4 DEF Branch, AiInv, Acquisition
  <1>6. "done" \in scan.status => "done" \in status'
    BY <1>1, <1>4 DEF Branch
  <1>7. Routine'
    <2>1. scan' \in [pc : {"address"}, done : BOOLEAN]
      BY <1>1
    <2>2. scan'.done => "done" \in status'
      BY <1>1, <1>6
    <2> QED
      BY <1>1, <1>4, <1>5, <2>1, <2>2 DEF Routine, Address, Branch
  <1>8. Accounted'
    <2>1. scan'.pc = "address"
      BY <1>1
    <2> QED
      BY <1>1, <2>1 DEF AiInv, Accounted, Irq, N
  <1> QED
    BY <1>3, <1>7, <1>8 DEF AiInv

LEMMA AddressKeeps ==
  ASSUME AiInv, IsrAddress
  PROVE  AiInv'
  <1>1. /\ scan.pc = "address"
        /\ scan' = [pc |-> "scan", done |-> scan.done, seen |-> filled,
                    counter |-> 0, index |-> last, array |-> <<>>]
        /\ lapped' = (lapped \/ (desc.mode = "continuous" /\ filled - upTo >= N))
        /\ UNCHANGED <<isr, initialised, started, hwRun, useDma, desc, last, filled, status, tcw,
                       run, timers, upTo>>
    BY DEF IsrAddress, fifoVars, sequence
  <1>2. Types /\ Acquisition /\ Address /\ N' = N
    BY <1>1, WhereItIs DEF AiInv, N
  <1>3. /\ desc # NoDesc /\ N \in Nat \ {0} /\ last = upTo % N
        /\ last \in 0 .. N - 1 /\ filled \in Nat /\ upTo \in 0 .. filled
        /\ tcw \in BOOLEAN
    BY <1>2, RunningList DEF Address, Types, Switches
  <1>4. lapped' \in BOOLEAN
    BY <1>1, <1>2 DEF Types, Switches
  <1>5. Types' /\ Acquisition'
    BY <1>1, <1>3, <1>4, RoutineMoves
  <1>6. /\ scan'.array = <<>> /\ Len(scan'.array) = 0
        /\ scan'.counter = 0 /\ scan'.index = last /\ scan'.seen = filled
        /\ scan'.done = scan.done /\ scan'.pc = "scan"
    BY <1>1
  <1>7. From' = upTo /\ Position' = upTo
    BY <1>1, <1>3, <1>6 DEF From, Position
  <1>8. Collected'
    <2>1. (last + 0) % N = last
      <3> DEFINE n == N
      <3>2. n \in Nat \ {0} /\ last \in 0 .. n - 1 /\ n * 0 + last = last + 0
        BY <1>3
      <3> HIDE DEF n
      <3>3. (n * 0 + last) % n = last
        BY <3>2, Remainder
      <3>4. (last + 0) % n = last
        BY <3>2, <3>3
      <3> QED
        BY <3>4 DEF n
    <2>2. desc.mode = "single" => upTo < N
      BY <1>2 DEF Acquisition, Address
    <2>3. desc.mode = "continuous" /\ ~lapped' => filled < upTo + N
      <3>1. filled - upTo >= N \/ filled < upTo + N
        BY <1>3
      <3>2. CASE desc.mode = "continuous" /\ filled - upTo >= N
        <4>1. (lapped \/ (desc.mode = "continuous" /\ filled - upTo >= N)) = TRUE
          BY <3>2
        <4> QED
          BY <1>1, <4>1
      <3> QED
        BY <3>1, <3>2
    <2> QED
      BY <1>1, <1>2, <1>3, <1>6, <1>7, <2>1, <2>2, <2>3 DEF Collected
  <1>9. Routine'
    <2>1. scan' \in [pc : {"scan"}, done : BOOLEAN, seen : Nat, counter : Nat, index : Nat,
                     array : Seq([buf : Nat, cycle : Nat])]
      BY <1>1, <1>2, <1>3 DEF Address
    <2>2. scan.done => "done" \in status /\ filled = N
      BY <1>2 DEF Acquisition, Address
    <2>3. Scanning'
      BY <1>1, <1>2, <1>3, <1>6, <1>8, <2>1, <2>2 DEF Scanning, Address
    <2> QED
      BY <2>3 DEF Routine
  <1>10. Accounted'
    <2>1. Covered(Position)'
      BY <1>1, <1>3, <1>7 DEF Covered
    <2> QED
      BY <1>1, <1>6, <2>1 DEF AiInv, Accounted, Irq, N
  <1> QED
    BY <1>5, <1>9, <1>10 DEF AiInv

-----------------------------------------------------------------------------
(* The loop.  What one iteration finds is the next cycle, or, if nothing   *)
(* is collected yet of an acquisition that was lapped, a later one.        *)
LEMMA RestOfSmall ==
  ASSUME NEW n \in Nat \ {0}, NEW a \in 0 .. n - 1
  PROVE  a % n = a
  <1>1. n * 0 + a = a
    OBVIOUS
  <1>2. (n * 0 + a) % n = a
    BY Remainder
  <1> QED
    BY <1>1, <1>2

LEMMA RestAtMost ==
  ASSUME NEW n \in Nat \ {0}, NEW a \in Nat
  PROVE  a % n <= a /\ a % n \in 0 .. n - 1
  <1>1. a % n \in 0 .. n - 1
    BY Division
  <1>2. CASE a < n
    BY <1>2, RestOfSmall
  <1>3. CASE a >= n
    BY <1>1, <1>3
  <1> QED
    BY <1>1, <1>2, <1>3

LEMMA ElementOf ==
  ASSUME NEW S, NEW s \in Seq(S), NEW k \in 1 .. Len(s)
  PROVE  s[k] \in S
  OBVIOUS

LEMMA SeqIsFunction ==
  ASSUME NEW S, NEW s \in Seq(S)
  PROVE  s = [j \in 1 .. Len(s) |-> s[j]]
  OBVIOUS

Cycle == Newest(scan.index, scan.seen)

LEMMA ScanFacts ==
  ASSUME AiInv, scan.pc = "scan"
  PROVE  /\ Types /\ Acquisition /\ Scanning /\ Collected
         /\ hwRun /\ useDma /\ desc # NoDesc /\ desc \in Descriptors
         /\ N \in Nat \ {0} /\ desc.mode \in {"single", "continuous"}
         /\ desc.mode = "single" => Irq(N - 1)
         /\ last = upTo % N
         /\ scan.seen \in Nat /\ scan.counter \in 0 .. N /\ scan.index \in Nat
         /\ scan.array \in Seq([buf : Nat, cycle : Nat]) /\ Len(scan.array) \in Nat
         /\ filled \in Nat /\ upTo \in Nat /\ From \in Nat /\ Position \in Nat
         /\ scan.index = Position % N /\ scan.index \in 0 .. N - 1
         /\ Position <= scan.seen /\ scan.seen <= filled
  <1>1. Types /\ Acquisition /\ Scanning /\ Collected
    BY WhereItIs DEF AiInv, Scanning
  <1>2. hwRun /\ useDma
    BY <1>1 DEF Scanning
  <1>3. /\ desc # NoDesc /\ desc \in Descriptors
        /\ N \in Nat \ {0} /\ desc.mode \in {"single", "continuous"}
        /\ desc.mode = "single" => Irq(N - 1)
        /\ last = upTo % N
    BY <1>2, RunningList
  <1>4. /\ scan.seen \in Nat /\ scan.index \in Nat
        /\ scan.array \in Seq([buf : Nat, cycle : Nat])
        /\ scan.seen <= filled
    BY <1>1 DEF Scanning
  <1>5. Len(scan.array) \in Nat
    BY <1>4
  <1>6. filled \in Nat /\ upTo \in Nat
    BY <1>1 DEF Types
  <1>7. From \in Nat
    <2>1. \A k \in 1 .. Len(scan.array) : scan.array[k] \in [buf : Nat, cycle : Nat]
      BY ONLY <1>4, ElementOf
    <2> QED
      BY <1>5, <1>6, <2>1 DEF From
  <1>8. Position \in Nat
    BY <1>5, <1>7 DEF Position
  <1>9. /\ scan.counter \in 0 .. N /\ scan.index = Position % N /\ Position <= scan.seen
    BY <1>1 DEF Collected
  <1>10. Position % N \in 0 .. N - 1
    BY <1>3, <1>8, RestAtMost
  <1> QED
    BY <1>1, <1>2, <1>3, <1>4, <1>5, <1>6, <1>7, <1>8, <1>9, <1>10

LEMMA Finds ==
  ASSUME AiInv, scan.pc = "scan", ScanMore
  PROVE  /\ Cycle \in Nat /\ Cycle % N = scan.index
         /\ Cycle < scan.seen /\ scan.seen <= Cycle + N
         /\ \/ Cycle = Position
            \/ lapped /\ Len(scan.array) = 0 /\ Cycle > Position
         /\ desc.mode = "single" => Cycle = Position /\ scan.index = Position
  <1> DEFINE n == N  t == Position  f == scan.seen  i == scan.index  c == Cycle
  <1>1. /\ n \in Nat \ {0} /\ t \in Nat /\ f \in Nat /\ i \in 0 .. n - 1
        /\ i = t % n /\ t <= f
    BY ScanFacts
  <1>2. ASSUME i < f
        PROVE  c \in Nat /\ c % n = i /\ c < f /\ f <= c + n
    BY <1>1, <1>2, NewestIs DEF Cycle
  <1>3. CASE desc.mode = "single"
    <2>1. t < n /\ f <= n
      BY <1>3, ScanFacts DEF Collected, Acquisition
    <2>2. i = t
      BY <1>1, <2>1, RestOfSmall
    <2>3. t < f
      <3>1. CASE f < n
        <4>1. Current(f) = f
          BY <1>3, <3>1 DEF Current
        <4>2. ~scan.done
          BY <3>1, ScanFacts DEF Scanning
        <4> QED
          BY <1>1, <2>2, <4>1, <4>2 DEF ScanMore
      <3>2. CASE f = n
        BY <2>1, <3>2
      <3> QED
        BY <1>1, <2>1, <3>1, <3>2
    <2>4. c \in Nat /\ c % n = i /\ c < f /\ f <= c + n
      BY <1>2, <2>2, <2>3
    <2>5. c \in 0 .. n - 1
      BY <1>1, <2>1, <2>4
    <2>6. c % n = c
      BY <1>1, <2>5, RestOfSmall
    <2> QED
      BY <2>2, <2>4, <2>6
  <1>4. CASE desc.mode # "single"
    <2>1. desc.mode = "continuous"
      BY <1>4, ScanFacts
    <2>2. i # f % n
      BY <2>1 DEF ScanMore, Current
    <2>3. t < f
      BY <1>1, <2>2
    <2>4. i <= t
      BY <1>1, RestAtMost
    <2>5. c \in Nat /\ c % n = i /\ c < f /\ f <= c + n
      BY <1>1, <1>2, <2>3, <2>4
    <2>6. CASE f < t + n
      <3> HIDE DEF n, t, f, i, c
      <3>0. c \in Int /\ t \in Int /\ c % n = t % n /\ n \in Nat \ {0}
        BY <1>1, <2>5
      <3>1. c = t
        <4>1. CASE c <= t
          <5>1. t < c + n
            BY <1>1, <2>3, <2>5
          <5> QED
            BY <3>0, <4>1, <5>1, SameRest
        <4>2. CASE t <= c
          <5>1. c < t + n
            BY <1>1, <2>5, <2>6
          <5> QED
            BY <3>0, <4>2, <5>1, SameRest
        <4> QED
          BY <1>1, <2>5, <4>1, <4>2
      <3> QED
        BY <1>4, <2>5, <3>1 DEF n, t, f, i, c
    <2>7. CASE f >= t + n
      <3>1. ~(Len(scan.array) > 0 \/ ~lapped)
        <4>1. Len(scan.array) > 0 \/ ~lapped => f < t + n
          BY <2>1, ScanFacts DEF Collected
        <4> QED
          BY <1>1, <2>7, <4>1
      <3>2. Len(scan.array) = 0 /\ lapped
        BY <3>1, ScanFacts
      <3>3. c >= t
        BY <1>1, <2>5, <2>7
      <3> QED
        BY <1>1, <1>4, <2>5, <3>2, <3>3
    <2> QED
      BY <1>1, <2>6, <2>7
  <1> QED
    BY <1>3, <1>4

(* What is appended.                                                       *)
LEMMA Appended ==
  ASSUME AiInv, scan.pc = "scan", ScanMore
  PROVE  /\ ScanArray \in Seq([buf : Nat, cycle : Nat])
         /\ Len(ScanArray) = Len(scan.array) + 1
         /\ ScanArray[1].cycle \in Nat
         /\ ScanArray[1].cycle + Len(ScanArray) = Cycle + 1
         /\ ScanArray[1].cycle = upTo \/ (lapped /\ ScanArray[1].cycle > upTo)
         /\ \A k \in 1 .. Len(ScanArray) :
              ScanArray[k] = [buf |-> (ScanArray[1].cycle + k - 1) % N,
                              cycle |-> ScanArray[1].cycle + k - 1]
  <1> DEFINE a == scan.array  m == Len(a)  e == [buf |-> scan.index, cycle |-> Cycle]
             from == IF m = 0 THEN Cycle ELSE From
  <1>1. /\ a \in Seq([buf : Nat, cycle : Nat]) /\ m \in Nat /\ From \in Nat
        /\ Position = From + m /\ scan.index \in Nat /\ N \in Nat \ {0}
    BY ScanFacts DEF Position
  <1>2. /\ Cycle \in Nat /\ Cycle % N = scan.index
        /\ Cycle = Position \/ (lapped /\ m = 0 /\ Cycle > Position)
    BY Finds
  <1>3. ScanArray = Append(a, e)
    BY DEF ScanArray, Cycle
  <1>4. e \in [buf : Nat, cycle : Nat]
    BY <1>1, <1>2
  <1>5. /\ ScanArray \in Seq([buf : Nat, cycle : Nat])
        /\ Len(ScanArray) = m + 1
        /\ ScanArray[m + 1] = e
        /\ \A k \in 1 .. m : ScanArray[k] = a[k]
    BY <1>1, <1>3, <1>4
  <1>6. m # 0 => Cycle = From + m
    BY <1>1, <1>2
  <1>7. from \in Nat /\ from + (m + 1) = Cycle + 1 /\ from + m = Cycle
    <2>1. CASE m = 0
      BY <1>2, <2>1
    <2>2. CASE m # 0
      BY <1>1, <1>6, <2>2
    <2> QED
      BY <2>1, <2>2
  <1>8. \A k \in 1 .. m : a[k] = [buf |-> (From + k - 1) % N, cycle |-> From + k - 1]
    BY ScanFacts DEF Collected
  <1>9. ScanArray[1].cycle = from
    <2>1. CASE m = 0
      BY <1>5, <2>1
    <2>2. CASE m # 0
      <3>1. 1 \in 1 .. m
        BY <1>1, <2>2
      <3>2. ScanArray[1] = a[1]
        BY <1>5, <3>1
      <3> QED
        BY <2>2, <3>2 DEF From
    <2> QED
      BY <2>1, <2>2
  <1>10. from = upTo \/ (lapped /\ from > upTo)
    <2>1. CASE m = 0
      <3>1. From = upTo
        BY <2>1 DEF From
      <3> QED
        BY <1>1, <1>2, <2>1, <3>1
    <2>2. CASE m # 0
      BY <2>2, ScanFacts DEF Collected
    <2> QED
      BY <2>1, <2>2
  <1>11. ASSUME NEW k \in 1 .. m + 1
         PROVE  ScanArray[k] = [buf |-> (from + k - 1) % N, cycle |-> from + k - 1]
    <2>1. CASE k = m + 1
      <3>1. from + k - 1 = from + m
        BY <1>1, <1>7, <2>1
      <3> QED
        BY <1>2, <1>5, <1>7, <2>1, <3>1
    <2>2. CASE k # m + 1
      <3>1. k \in 1 .. m /\ m # 0
        BY <1>1, <2>2
      <3> QED
        BY <1>5, <1>8, <3>1
    <2> QED
      BY <2>1, <2>2
  <1> HIDE DEF a, m, e, from
  <1> QED
    BY <1>5, <1>7, <1>9, <1>10, <1>11 DEF a, m

LEMMA NextIndex ==
  ASSUME AiInv, scan.pc = "scan", ScanMore
  PROVE  /\ (scan.index + 1) % N = (Cycle + 1) % N
         /\ (scan.index + 1) % N = (last + (Len(scan.array) + 1)) % N
         /\ (scan.index + 1) % N \in 0 .. N - 1
         /\ (((scan.index + 1) % N) + 0) % N = (scan.index + 1) % N
  <1> DEFINE n == N  c == Cycle  d == last + Len(scan.array)  i == scan.index
  <1>1. /\ n \in Nat \ {0} /\ c \in Int /\ d \in Int /\ i \in Nat
        /\ c % n = i /\ d % n = i
        /\ last + (Len(scan.array) + 1) = d + 1
    <2>1. N \in Nat \ {0} /\ scan.index \in Nat /\ Len(scan.array) \in Nat /\ last \in Nat
      BY ScanFacts DEF Types
    <2>2. Cycle \in Nat /\ Cycle % N = scan.index
      BY Finds
    <2>3. (last + Len(scan.array)) % N = scan.index
      BY ScanFacts DEF Collected
    <2>4. d \in Int /\ last + (Len(scan.array) + 1) = d + 1
      BY <2>1
    <2>5. d % n = i /\ c % n = i
      BY <2>2, <2>3
    <2>6. n \in Nat \ {0} /\ c \in Int /\ i \in Nat
      BY <2>1, <2>2
    <2> QED
      BY ONLY <2>4, <2>5, <2>6
  <1> HIDE DEF n, c, d, i
  <1>0. i + 1 \in Int
    BY <1>1
  <1>2. ((c % n) + 1) % n = (c + 1) % n /\ ((d % n) + 1) % n = (d + 1) % n
    BY <1>1, NextRest
  <1>3. (i + 1) % n = (c + 1) % n /\ (i + 1) % n = (d + 1) % n
    BY <1>1, <1>2
  <1>4. (i + 1) % n \in 0 .. n - 1
    BY <1>0, <1>1, Division
  <1> DEFINE r == (i + 1) % n
  <1>9. r \in 0 .. n - 1
    BY <1>4
  <1> HIDE DEF r
  <1>5. r % n = r /\ r + 0 = r
    BY <1>1, <1>9, RestOfSmall
  <1>6. (r + 0) % n = r
    BY <1>5
  <1>7. /\ (i + 1) % n = (c + 1) % n /\ (i + 1) % n = (d + 1) % n
        /\ (i + 1) % n \in 0 .. n - 1 /\ (((i + 1) % n) + 0) % n = (i + 1) % n
    BY <1>3, <1>4, <1>6 DEF r
  <1>8. (last + (Len(scan.array) + 1)) % n = (d + 1) % n
    BY <1>1
  <1> QED
    BY <1>7, <1>8 DEF n, c, i

(* A buffer that does not interrupt is kept for the next event.            *)
LEMMA QuietKeeps ==
  ASSUME AiInv, IsrScanQuiet
  PROVE  AiInv'
  <1>1. /\ scan.pc = "scan" /\ ScanMore /\ ~Irq(scan.index)
        /\ scan' = Advance(ScanArray)
        /\ UNCHANGED <<isr, initialised, started, hwRun, useDma, desc, last, filled, status, tcw,
                       run, timers, upTo, lapped>>
    BY DEF IsrScanQuiet, fifoVars, sequence, history
  <1>2. /\ Types /\ Acquisition /\ Scanning /\ Collected
        /\ N \in Nat \ {0} /\ scan.counter \in 0 .. N /\ Len(scan.array) \in Nat
        /\ scan.seen \in Nat /\ Position \in Nat /\ From \in Nat /\ upTo \in Nat
        /\ desc.mode = "single" => Irq(N - 1)
        /\ Position = From + Len(scan.array)
    BY <1>1, ScanFacts DEF Position
  <1>3. /\ Cycle \in Nat /\ Cycle % N = scan.index
        /\ Cycle < scan.seen /\ scan.seen <= Cycle + N
        /\ Cycle = Position \/ (lapped /\ Len(scan.array) = 0 /\ Cycle > Position)
        /\ desc.mode = "single" => Cycle = Position /\ scan.index = Position
    BY <1>1, Finds
  <1>4. N' = N
    BY <1>1 DEF N
  <1>5. /\ scan' = [pc |-> "scan", done |-> scan.done, seen |-> scan.seen,
                    counter |-> scan.counter + 1, index |-> (scan.index + 1) % N,
                    array |-> ScanArray]
    BY <1>1, <1>2 DEF Scanning, Advance
  <1>6. /\ scan'.pc = "scan" /\ scan'.done = scan.done /\ scan'.seen = scan.seen
        /\ scan'.counter = scan.counter + 1 /\ scan'.index = (scan.index + 1) % N
        /\ scan'.array = ScanArray
    BY <1>5
  <1>7. Types' /\ Acquisition'
    <2>1. tcw' \in BOOLEAN /\ lapped' \in BOOLEAN
      BY <1>1, <1>2 DEF Types, Switches
    <2> QED
      BY <1>1, <2>1, RoutineMoves
  <1>8. /\ Len(ScanArray) = Len(scan.array) + 1
        /\ From' = ScanArray[1].cycle /\ From' \in Nat /\ Position' = Cycle + 1
    <2>1. Len(ScanArray) = Len(scan.array) + 1
      BY <1>1, Appended
    <2>2. From' = ScanArray[1].cycle
      BY <1>2, <1>6, <2>1 DEF From
    <2>3. Position' = From' + Len(ScanArray)
      BY <1>6 DEF Position
    <2> QED
      BY <1>1, <2>1, <2>2, <2>3, Appended
  <1>9. Collected'
    <2>1. scan.counter + 1 \in 0 .. N /\ Len(ScanArray) <= scan.counter + 1
      BY <1>1, <1>2, <1>8, SMTT(30) DEF Collected, ScanMore
    <2>2. \A k \in 1 .. Len(ScanArray) :
             ScanArray[k] = [buf |-> (From' + k - 1) % N, cycle |-> From' + k - 1]
      BY <1>1, <1>8, Appended
    <2>3. From' = upTo \/ (lapped /\ From' > upTo)
      BY <1>1, <1>8, Appended
    <2>4. /\ (scan.index + 1) % N = (Cycle + 1) % N
          /\ (scan.index + 1) % N = (last + Len(ScanArray)) % N
      BY <1>1, <1>8, NextIndex
    <2>5. Cycle + 1 <= scan.seen
      BY <1>2, <1>3
    <2>6. desc.mode = "single" =>
             From' = upTo /\ Cycle + 1 < N /\ scan.counter + 1 <= Cycle + 1
      <3> SUFFICES ASSUME desc.mode = "single"
                   PROVE  From' = upTo /\ Cycle + 1 < N /\ scan.counter + 1 <= Cycle + 1
        OBVIOUS
      <3>1. From = upTo /\ Position < N /\ scan.counter <= Position
        BY <1>2 DEF Collected
      <3>2. Cycle = Position /\ scan.index = Position
        BY <1>3
      <3>3. From' + (Len(scan.array) + 1) = Cycle + 1
        BY <1>1, <1>8, Appended
      <3>4. From' = upTo
        <4>1. From' + (Len(scan.array) + 1) = From + Len(scan.array) + 1
          BY <1>2, <3>2, <3>3
        <4> QED
          BY <1>2, <1>8, <3>1, <4>1
      <3>5. Position # N - 1
        BY <1>1, <1>2, <3>2
      <3> QED
        BY <1>2, <3>1, <3>2, <3>4, <3>5
    <2>7. scan.seen < Cycle + 1 + N
      BY <1>2, <1>3
    <2>8. desc.mode = "continuous" /\ ~lapped => scan.seen < Cycle + 1 + N - (scan.counter + 1)
      BY <1>2, <1>3, SMTT(30) DEF Collected
    <2> QED
      BY <1>1, <1>4, <1>6, <1>8, <2>1, <2>2, <2>3, <2>4, <2>5, <2>6, <2>7, <2>8 DEF Collected
  <1>10. Routine'
    <2>1. scan' \in [pc : {"scan"}, done : BOOLEAN, seen : Nat, counter : Nat, index : Nat,
                     array : Seq([buf : Nat, cycle : Nat])]
      <3>1. (scan.index + 1) % N \in Nat
        BY <1>1, <1>2, NextIndex
      <3>2. ScanArray \in Seq([buf : Nat, cycle : Nat])
        BY <1>1, Appended
      <3> QED
        BY <1>2, <1>5, <3>1, <3>2 DEF Scanning
    <2>2. Scanning'
      BY <1>1, <1>2, <1>4, <1>6, <1>9, <2>1 DEF Scanning
    <2> QED
      BY <2>2 DEF Routine
  <1>11. Accounted'
    <2>1. ~lapped => Covered(Position)'
      <3> SUFFICES ASSUME ~lapped, NEW g \in upTo + 1 .. Cycle + 1
                   PROVE  ~Irq((g - 1) % N)
        BY <1>1, <1>4, <1>8 DEF Covered, Irq
      <3>1. Cycle = Position
        BY <1>3
      <3>2. CASE g = Cycle + 1
        <4>1. g - 1 = Cycle
          BY <1>3, <3>2
        <4> QED
          BY <1>1, <1>3, <4>1
      <3>3. CASE g # Cycle + 1
        <4>1. g \in upTo + 1 .. Position
          BY <1>2, <3>1, <3>3
        <4> QED
          BY <1>1, <1>2, <4>1 DEF AiInv, Accounted, Covered, Scanning
      <3> QED
        BY <3>2, <3>3
    <2> QED
      BY <1>1, <1>4, <1>6, <2>1 DEF AiInv, Accounted, Irq
  <1> QED
    BY <1>7, <1>9, <1>10, <1>11 DEF AiInv

(* A buffer that interrupts makes an event of what is collected.           *)
LEMMA EventKeeps ==
  ASSUME AiInv, IsrScanEvent, ~(desc.mode = "single" /\ scan.done)
  PROVE  AiInv'
  <1>1. /\ scan.pc = "scan" /\ ScanMore /\ Irq(scan.index)
        /\ isr' = "dma" /\ upTo' = Cycle + 1
        /\ scan' = Advance(<<>>) /\ last' = (scan.index + 1) % N
        /\ UNCHANGED <<initialised, started, hwRun, useDma, desc, filled, status, tcw,
                       run, timers, lapped>>
    BY DEF IsrScanEvent, Isr_Push, Dma, Cycle
  <1>2. /\ Types /\ Acquisition /\ Scanning /\ Collected
        /\ hwRun /\ useDma /\ desc # NoDesc
        /\ N \in Nat \ {0} /\ scan.counter \in 0 .. N /\ Len(scan.array) \in Nat
        /\ scan.seen \in Nat /\ filled \in Nat /\ Position \in Nat /\ scan.seen <= filled
    BY <1>1, ScanFacts
  <1>3. /\ Cycle \in Nat /\ Cycle % N = scan.index
        /\ Cycle < scan.seen /\ scan.seen <= Cycle + N
        /\ Cycle = Position \/ (lapped /\ Len(scan.array) = 0 /\ Cycle > Position)
        /\ desc.mode = "single" => Cycle = Position /\ scan.index = Position
    BY <1>1, Finds
  <1>4. N' = N
    BY <1>1 DEF N
  <1>5. /\ (scan.index + 1) % N = (Cycle + 1) % N
        /\ (scan.index + 1) % N \in 0 .. N - 1
        /\ (((scan.index + 1) % N) + 0) % N = (scan.index + 1) % N
    BY <1>1, NextIndex
  <1>6. scan' = [pc |-> "scan", done |-> scan.done, seen |-> scan.seen,
                 counter |-> scan.counter + 1, index |-> (scan.index + 1) % N,
                 array |-> <<>>]
    BY <1>1, <1>2 DEF Scanning, Advance
  <1>7. /\ scan'.pc = "scan" /\ scan'.done = scan.done /\ scan'.seen = scan.seen
        /\ scan'.counter = scan.counter + 1 /\ scan'.index = (scan.index + 1) % N
        /\ scan'.array = <<>> /\ Len(scan'.array) = 0
    BY <1>6
  <1>8. From' = Cycle + 1 /\ Position' = Cycle + 1
    <2>1. From' = upTo'
      BY <1>7 DEF From
    <2>2. Position' = From' + 0
      BY <1>7 DEF Position
    <2> QED
      BY <1>1, <1>3, <2>1, <2>2
  <1>9. desc.mode = "single" => Cycle + 1 < N
    <2> SUFFICES ASSUME desc.mode = "single"
                 PROVE  Cycle + 1 < N
      OBVIOUS
    <2>1. Position < N /\ filled <= N
      BY <1>2 DEF Collected, Acquisition
    <2>2. scan.index # Current(scan.seen)
      BY <1>1 DEF ScanMore
    <2>3. CASE scan.seen < N
      BY <1>2, <1>3, <2>3
    <2>4. CASE scan.seen = N
      <3>1. Current(scan.seen) = N - 1
        BY <1>2, <2>4 DEF Current
      <3> QED
        BY <1>2, <1>3, <2>1, <2>2, <3>1
    <2> QED
      BY <1>2, <2>1, <2>3, <2>4
  <1>10. Types'
    <2>1. Switches'
      BY <1>1, <1>2 DEF Types, Switches
    <2>2. upTo' \in 0 .. filled'
      BY <1>1, <1>2, <1>3
    <2>3. last' \in Nat /\ last' \in 0 .. N' - 1
      BY <1>1, <1>2, <1>4, <1>5
    <2> QED
      BY <1>1, <1>2, <2>1, <2>2, <2>3 DEF Types
  <1>11. Acquisition'
    <2>1. last' = upTo' % N'
      BY <1>1, <1>4, <1>5
    <2> QED
      BY <1>1, <1>2, <1>4, <1>9, <2>1 DEF Acquisition
  <1>12. Collected'
    <2>1. scan.counter + 1 \in 0 .. N /\ 0 <= scan.counter + 1
      BY <1>1, <1>2 DEF ScanMore
    <2>2. Cycle + 1 <= scan.seen
      BY <1>2, <1>3
    <2>3. desc.mode = "single" => scan.counter + 1 <= Cycle + 1
      <3>1. desc.mode = "single" => scan.counter <= Position
        BY <1>2 DEF Collected
      <3> QED
        BY <1>2, <1>3, <3>1
    <2>4. scan.seen < Cycle + 1 + N
      BY <1>2, <1>3
    <2>5. desc.mode = "continuous" /\ ~lapped => scan.seen < Cycle + 1 + N - (scan.counter + 1)
      BY <1>2, <1>3 DEF Collected
    <2> QED
      BY <1>1, <1>4, <1>5, <1>7, <1>8, <1>9, <2>1, <2>2, <2>3, <2>4, <2>5 DEF Collected
  <1>13. Routine'
    <2>1. scan' \in [pc : {"scan"}, done : BOOLEAN, seen : Nat, counter : Nat, index : Nat,
                     array : Seq([buf : Nat, cycle : Nat])]
      <3>1. (scan.index + 1) % N \in Nat
        BY <1>2, <1>5
      <3> QED
        BY <1>2, <1>6, <3>1 DEF Scanning
    <2>2. Scanning'
      BY <1>1, <1>2, <1>4, <1>7, <1>12, <2>1 DEF Scanning
    <2> QED
      BY <2>2 DEF Routine
  <1>14. Accounted'
    <2>1. Irq((upTo' - 1) % N)
      <3>1. Cycle + 1 - 1 = Cycle
        BY <1>3
      <3> QED
        BY <1>1, <1>3, <3>1
    <2>2. Covered(Position)'
      BY <1>1, <1>3, <1>8 DEF Covered
    <2> QED
      BY <1>1, <1>4, <1>7, <2>1, <2>2 DEF Accounted, Irq
  <1> QED
    BY <1>10, <1>11, <1>13, <1>14 DEF AiInv

(* In a single acquisition that is done, it ends the acquisition.          *)
LEMMA LastEventKeeps ==
  ASSUME AiInv, IsrScanEvent, desc.mode = "single" /\ scan.done
  PROVE  AiInv'
  <1>1. /\ scan.pc = "scan" /\ ScanMore
        /\ isr' = "dma" /\ upTo' = Cycle + 1 /\ started' = FALSE /\ hwRun' = FALSE
        /\ status' = status \ {"dma", "done", "ovf"} /\ scan' = Dequeued
        /\ UNCHANGED <<last, initialised, useDma, desc, filled, tcw, run, timers, lapped>>
    BY DEF IsrScanEvent, Isr_Push, Dma, Cycle
  <1>2. /\ Types /\ Acquisition /\ Scanning
        /\ scan.seen \in Nat /\ filled \in Nat /\ scan.seen <= filled
    BY <1>1, ScanFacts
  <1>3. Cycle \in Nat /\ Cycle < scan.seen
    BY <1>1, Finds
  <1>4. N' = N
    BY <1>1 DEF N
  <1>5. Types'
    <2>1. Switches'
      BY <1>1, <1>2 DEF Types, Switches
    <2>2. upTo' \in 0 .. filled'
      BY <1>1, <1>2, <1>3
    <2>3. status' \subseteq Flags
      BY <1>1, <1>2 DEF Types
    <2> QED
      BY <1>1, <1>2, <1>4, <2>1, <2>2, <2>3 DEF Types
  <1>6. Acquisition'
    <2>1. "done" \notin status' /\ status' \cap DmaDone = {}
      BY <1>1 DEF DmaDone
    <2>2. filled # 0
      BY <1>2, <1>3
    <2> QED
      BY <1>1, <1>2, <2>1, <2>2 DEF Acquisition
  <1>7. Routine'
    BY <1>1 DEF Routine, Queueing, Dequeued, Words
  <1>8. Accounted'
    BY <1>1 DEF Accounted
  <1> QED
    BY <1>5, <1>6, <1>7, <1>8 DEF AiInv

(* When the loop finds no more, everything that it could see is reported   *)
(* or waits for the end of its group.                                      *)
LEMMA SeesAll ==
  ASSUME AiInv, scan.pc = "scan", ~ScanMore, ~lapped, status \cap DmaDone = {}
  PROVE  Position = filled
  <1> DEFINE n == N  t == Position  f == scan.seen
  <1>1. /\ n \in Nat \ {0} /\ t \in Nat /\ f \in Nat /\ t <= f /\ scan.index = t % n
        /\ scan.counter \in 0 .. n
    BY ScanFacts
  <1>2. filled = f
    BY ScanFacts DEF Scanning
  <1>3. CASE desc.mode = "single"
    <2>1. t < n /\ scan.counter <= t
      BY <1>3, ScanFacts DEF Collected
    <2>2. scan.index = t
      BY <1>1, <2>1, RestOfSmall
    <2>3. f < n
      <3>1. filled <= N /\ (filled = N => "done" \in status)
        BY <1>3, ScanFacts DEF Acquisition
      <3> QED
        BY <1>1, <1>2, <3>1 DEF DmaDone
    <2>4. scan.index = Current(scan.seen)
      BY <1>1, <2>1 DEF ScanMore
    <2> QED
      BY <1>2, <1>3, <2>2, <2>3, <2>4 DEF Current
  <1>4. CASE desc.mode # "single"
    <2>1. desc.mode = "continuous"
      BY <1>4, ScanFacts
    <2>2. f < t + n - scan.counter
      BY <2>1, ScanFacts DEF Collected
    <2>3. scan.counter < n /\ f < t + n
      BY <1>1, <2>2
    <2>4. scan.index = f % n
      BY <1>4, <2>1, <2>3 DEF ScanMore, Current
    <2> HIDE DEF n, t, f
    <2>5. t \in Int /\ f \in Int /\ t % n = f % n
      BY <1>1, <2>4
    <2>6. t = f
      BY <1>1, <2>3, <2>5, SameRest
    <2> QED
      BY <1>2, <2>6 DEF t
  <1> QED
    BY <1>3, <1>4

LEMMA EndsKeep ==
  ASSUME AiInv, IsrScanEnds
  PROVE  AiInv'
  <1>1. /\ scan.pc = "scan" /\ ~ScanMore /\ scan' = Dequeued
        /\ UNCHANGED <<isr, initialised, started, hwRun, useDma, desc, last, filled, status, tcw,
                       run, timers, upTo, lapped>>
    BY DEF IsrScanEnds, fifoVars, sequence, history
  <1>2. Types' /\ Acquisition'
    <2>1. tcw' \in BOOLEAN /\ lapped' \in BOOLEAN
      BY <1>1 DEF AiInv, Types, Switches
    <2> QED
      BY <1>1, <2>1, RoutineMoves
  <1>3. Routine'
    <2>1. isr \in {"entered", "dma"}
      BY <1>1, WhereItIs DEF Scanning
    <2> QED
      BY <1>1, <2>1 DEF Routine, Queueing, Dequeued, Words
  <1>4. Accounted'
    <2>1. scan'.pc = "queue"
      BY <1>1 DEF Dequeued
    <2>2. hwRun /\ useDma /\ ~lapped /\ status \cap DmaDone = {} => Covered(filled)
      BY <1>1, SeesAll DEF AiInv, Accounted
    <2> QED
      BY <1>1, <2>1, <2>2 DEF AiInv, Accounted, Covered, Irq, N
  <1> QED
    BY <1>2, <1>3, <1>4 DEF AiInv

(* The other sources, and the end of the routine.                          *)
LEMMA QueueKeeps ==
  ASSUME AiInv, IsrQueue \/ IsrEnd
  PROVE  AiInv'
  <1>1. /\ scan.pc = "queue"
        /\ \/ scan' = Dequeued /\ isr' \in {"dma", "other"}
           \/ scan' = NoScan /\ isr' = "out"
        /\ UNCHANGED <<initialised, started, hwRun, useDma, desc, last, filled, status, tcw,
                       run, timers, upTo, lapped>>
    BY DEF IsrQueue, IsrEnd, Isr_Push, Isr_WakeUp, Isr_None, sequence, history
  <1>2. Types' /\ Acquisition'
    <2>1. tcw' \in BOOLEAN /\ lapped' \in BOOLEAN
      BY <1>1 DEF AiInv, Types, Switches
    <2> QED
      BY <1>1, <2>1, RoutineMoves
  <1>3. Routine'
    BY <1>1 DEF Routine, Out, Queueing, Dequeued, Words
  <1>4. Accounted'
    <2>1. scan'.pc \in {"queue", "out"}
      BY <1>1 DEF Dequeued, NoScan
    <2> QED
      BY <1>1, <2>1 DEF AiInv, Accounted, Covered, Irq, N
  <1> QED
    BY <1>2, <1>3, <1>4 DEF AiInv

-----------------------------------------------------------------------------
LEMMA AiStep == Disciplined /\ AiInv /\ [AiNext]_aiVars => AiInv'
  <1> SUFFICES ASSUME Disciplined, AiInv, [AiNext]_aiVars
               PROVE  AiInv'
    OBVIOUS
  <1>1. CASE (\E d \in Descriptors : InitDma(d)) \/ InitDmaFails \/ InitNoDma
    BY <1>1, InitKeeps
  <1>2. CASE StartSequence \/ StopSequence \/ ReleaseSequence
    BY <1>2, StartKeeps, StopKeeps, ReleaseKeeps
  <1>3. CASE Hardware
    BY <1>3, HardwareKeeps
  <1>4. CASE IsrBegin
    BY <1>4, BeginKeeps
  <1>5. CASE Isr
    BY <1>5, NotDmaKeeps, ClearKeeps, AddressKeeps, QuietKeeps, EventKeeps, LastEventKeeps,
       EndsKeep, QueueKeeps DEF Isr
  <1>6. CASE (\E r \in Readers : Caller(r)) \/ UNCHANGED aiVars
    BY <1>6, CallersKeep
  <1> QED
    BY <1>1, <1>2, <1>3, <1>4, <1>5, <1>6 DEF AiNext

(* The inductive invariant, for callers that keep to the header: what the  *)
(* ioctls, the hardware and the interrupt routine know of each other       *)
(* (primary_ai.c, primary_dma.c, interrupt.c).                             *)
THEOREM AiInvariant ==
  ASSUME Disciplined
  PROVE  AiSpec => []AiInv
  <1>1. AiInit => AiInv
    BY AiStart
  <1>2. AiInv /\ [AiNext]_aiVars => AiInv'
    BY AiStep
  <1> QED
    BY <1>1, <1>2, PTL DEF AiSpec

(* The list of descriptors is there whenever the interrupt routine or      *)
(* Start dereferences it (interrupt.c 402, primary_dma.c 1382).            *)
THEOREM DescriptorIsThere ==
  ASSUME Disciplined
  PROVE  AiSpec => []DescriptorPresent
  <1>1. AiInv => DescriptorPresent
    <2> SUFFICES ASSUME AiInv
                 PROVE  DescriptorPresent
      OBVIOUS
    <2>1. initialised /\ useDma => desc # NoDesc
      BY DEF AiInv, Acquisition
    <2>2. status \cap DmaDone # {} => desc # NoDesc
      BY RunningList DEF AiInv, Acquisition
    <2>3. scan.pc = "branch" => scan.status \subseteq status
      BY WhereItIs DEF Branch
    <2> QED
      BY <2>1, <2>2, <2>3 DEF DescriptorPresent
  <1> QED
    BY <1>1, AiInvariant, PTL

(* Between two runs of the interrupt routine, and with no DMA interrupt    *)
(* pending, every complete group of buffers has been reported, unless the  *)
(* DMA ran a whole ring ahead (interrupt.c 394-556).                       *)
THEOREM NoBufferForgotten ==
  ASSUME Disciplined
  PROVE  AiSpec => []NothingForgotten
  <1>1. AiInv => NothingForgotten
    <2> SUFFICES ASSUME AiInv, hwRun, useDma, isr = "out", status \cap DmaDone = {}, ~lapped
                 PROVE  upTo = WholeGroups(filled)
      BY DEF NothingForgotten
    <2> DEFINE ends == {g \in 1 .. filled : Irq((g - 1) % N)}
    <2>1. upTo \in 0 .. filled /\ filled \in Nat
      BY DEF AiInv, Types
    <2>2. upTo = 0 \/ Irq((upTo - 1) % N)
      BY DEF AiInv, Accounted
    <2>3. Covered(filled)
      BY OutsideRoutine DEF AiInv, Accounted, Out, NoScan
    <2>4. \A g \in ends : g <= upTo
      BY <2>1, <2>3 DEF Covered
    <2>5. CASE upTo = 0
      <3>1. ends = {}
        BY <2>4, <2>5
      <3> QED
        BY <2>5, <3>1 DEF WholeGroups
    <2>6. CASE upTo # 0
      <3>1. upTo \in ends
        BY <2>1, <2>2, <2>6
      <3>2. \A g \in ends : (\A h \in ends : h <= g) <=> g = upTo
        BY <2>1, <2>4, <3>1
      <3>3. WholeGroups(filled) = CHOOSE g \in ends : \A h \in ends : h <= g
        BY <3>1 DEF WholeGroups
      <3> HIDE DEF ends
      <3>4. (CHOOSE g \in ends : \A h \in ends : h <= g) = upTo
        BY <3>1, <3>2
      <3> QED
        BY <3>3, <3>4
    <2> QED
      BY <2>5, <2>6
  <1> QED
    BY <1>1, AiInvariant, PTL

-----------------------------------------------------------------------------
(* The sequence and the event FIFO.                                        *)
LEMMA ArrayFits ==
  ASSUME AiInv, scan.pc = "scan", ScanMore
  PROVE  ScanArray \in Payload
  <1> DEFINE from == ScanArray[1].cycle  k == Len(ScanArray)
  <1>1. /\ desc \in Descriptors /\ N \in Nat \ {0} /\ Len(scan.array) \in Nat
        /\ scan.counter \in 0 .. N /\ Len(scan.array) <= scan.counter
        /\ filled \in Nat /\ scan.seen \in Nat /\ scan.seen <= filled
    BY ScanFacts DEF Collected
  <1>2. Cycle \in Nat /\ Cycle < scan.seen
    BY Finds
  <1>3. /\ ScanArray \in Seq([buf : Nat, cycle : Nat])
        /\ k = Len(scan.array) + 1 /\ from \in Nat /\ from + k = Cycle + 1
        /\ \A j \in 1 .. k : ScanArray[j] = [buf |-> (from + j - 1) % N, cycle |-> from + j - 1]
    BY Appended
  <1>4. filled <= MostFilled(desc)
    BY ScanFacts DEF Acquisition, MostFilled, N
  <1>5. MostFilled(desc) \in Nat
    BY <1>1, AiAssumption DEF MostFilled, N
  <1>6. from \in 0 .. MostFilled(desc) - 1
    <2>1. from \in Nat /\ from <= Cycle
      BY <1>1, <1>2, <1>3
    <2>2. Cycle < MostFilled(desc)
      BY <1>1, <1>2, <1>4, <1>5
    <2> QED
      BY <1>2, <1>5, <2>1, <2>2
  <1>7. k \in 1 .. N
    BY <1>1, <1>3 DEF ScanMore
  <1>8. ScanArray = [j \in 1 .. k |-> [buf |-> (from + j - 1) % N, cycle |-> from + j - 1]]
    <2>1. ScanArray = [j \in 1 .. k |-> ScanArray[j]]
      BY ONLY <1>3, SeqIsFunction
    <2> QED
      BY <1>3, <2>1
  <1>9. ScanArray = Buffers(desc.irq, from, k)
    BY <1>8 DEF Buffers, N
  <1> HIDE DEF from, k
  <1>10. Buffers(desc.irq, from, k) \in Payload
    BY <1>1, <1>6, <1>7, AiAssumption DEF N
  <1> QED
    BY <1>9, <1>10

LEMMA FifoStep == AiInv /\ [AiNext]_aiVars => [FifoNext]_fifoVars
  <1> SUFFICES ASSUME AiInv, [AiNext]_aiVars
               PROVE  [FifoNext]_fifoVars
    OBVIOUS
  <1>1. CASE \/ (\E d \in Descriptors : InitDma(d)) \/ InitDmaFails \/ InitNoDma
             \/ StartSequence \/ StopSequence \/ Hardware \/ UNCHANGED aiVars
    BY <1>1 DEF InitDma, InitDmaFails, InitNoDma, StartSequence, StopSequence, Hardware,
                FillBuffer, RaiseStatus, TimerFires, aiVars
  <1>2. CASE ReleaseSequence \/ IsrBegin \/ \E r \in Readers : Caller(r)
    BY <1>2 DEF ReleaseSequence, IsrBegin, Caller, FifoNext
  <1>3. CASE Isr
    <2>1. CASE \/ \E flag \in {{"eos"}, {"ovf"}, {}} : IsrNotDma(flag)
               \/ IsrClear \/ IsrAddress \/ IsrScanQuiet \/ IsrScanEnds
      BY <2>1 DEF IsrNotDma, IsrClear, IsrAddress, IsrScanQuiet, IsrScanEnds
    <2>2. CASE IsrScanEvent
      <3>1. ScanArray \in Payload
        BY <2>2, ArrayFits DEF IsrScanEvent
      <3>2. Dma \in Sources
        BY AiAssumption DEF Words
      <3>3. Isr_Push(Dma, ScanArray)
        BY <2>2 DEF IsrScanEvent
      <3> QED
        BY <3>1, <3>2, <3>3 DEF FifoNext
    <2>3. CASE IsrQueue
      <3>1. scan.source \in Sources
        BY <2>3, WhereItIs, AiAssumption DEF IsrQueue, Queueing
      <3>2. Values \in Payload
        BY AiAssumption
      <3>3. Isr_Push(scan.source, Values)
        BY <2>3 DEF IsrQueue
      <3> QED
        BY <3>1, <3>2, <3>3 DEF FifoNext
    <2>4. CASE IsrEnd
      BY <2>4 DEF IsrEnd, FifoNext
    <2> QED
      BY <1>3, <2>1, <2>2, <2>3, <2>4 DEF Isr
  <1> QED
    BY <1>1, <1>2, <1>3 DEF AiNext

(* Every step of the sequence is a step of the event FIFO as EventFifo has *)
(* it, or none (interrupt.c): what is proved of the FIFO holds here.       *)
THEOREM SequenceUsesFifo ==
  ASSUME Disciplined
  PROVE  AiSpec => UsesFifo
  <1>1. AiInit => FifoInit
    BY DEF AiInit
  <1>2. AiInv /\ [AiNext]_aiVars => [FifoNext]_fifoVars
    BY FifoStep
  <1> QED
    BY <1>1, <1>2, AiInvariant, PTL DEF AiSpec, UsesFifo, FifoSpec

(* So the callers get the events of the sequence as from a bounded queue   *)
(* (interrupt.c, i_xpci3xxx_GetInterruptInformation).                      *)
THEOREM SequenceImplementsQueue ==
  ASSUME Disciplined
  PROVE  AiSpec => ImplementsQueue
  BY SequenceUsesFifo, RefinesQueue, PTL DEF UsesFifo

(* Every variable of the sequence keeps to its range: the indices of the   *)
(* routine stay in the list of descriptors (interrupt.c 394-556).          *)
THEOREM SequenceTyping ==
  ASSUME Disciplined
  PROVE  AiSpec => []AiTypeOK
  <1>1. AiInv /\ FifoTypeOK => AiTypeOK
    <2> SUFFICES ASSUME AiInv, FifoTypeOK
                 PROVE  AiTypeOK
      OBVIOUS
    <2>1. Types /\ Switches
      BY DEF AiInv, Types
    <2>2. {initialised, started, useDma, hwRun, tcw, lapped} \subseteq BOOLEAN
      BY <2>1 DEF Switches
    <2>3. desc \in Descriptors \cup {NoDesc}
      BY <2>1 DEF Types
    <2>4. scan.pc # "scan" => scan \in Scans
      BY DEF AiInv, Routine, Out, Branch, Address, Scanning, Queueing, Scans, Flags
    <2>5. scan.pc = "scan" => /\ scan.seen \in 0 .. filled
                              /\ scan.index = (last + Len(scan.array)) % N
                              /\ Len(scan.array) <= scan.counter
      BY ScanFacts DEF Collected
    <2> QED
      BY <2>1, <2>2, <2>3, <2>4, <2>5 DEF AiTypeOK, Types, Flags
  <1> QED
    BY <1>1, AiInvariant, SequenceUsesFifo, Typing, PTL DEF UsesFifo

-----------------------------------------------------------------------------
(* The order of the reports.                                               *)
InOrder ==
  LET data == irqData'[evWrite] IN
    isr # "out" /\ evWrite' # evWrite /\ irqSource'[evWrite] = Dma =>
      /\ data[1].cycle = upTo \/ (lapped /\ data[1].cycle > upTo)
      /\ \A k \in 2 .. Len(data) : data[k].cycle = data[k - 1].cycle + 1

LEMMA StepInOrder == AiInv /\ FifoTypeOK /\ AiNext => InOrder
  <1> SUFFICES ASSUME AiInv, FifoTypeOK, AiNext, isr # "out", evWrite' # evWrite,
                      irqSource'[evWrite] = Dma
               PROVE  /\ \/ irqData'[evWrite][1].cycle = upTo
                         \/ lapped /\ irqData'[evWrite][1].cycle > upTo
                      /\ \A k \in 2 .. Len(irqData'[evWrite]) :
                           irqData'[evWrite][k].cycle = irqData'[evWrite][k - 1].cycle + 1
    BY DEF InOrder
  <1>0. /\ DOMAIN irqSource = Slots /\ DOMAIN irqData = Slots /\ evWrite \in Slots
    BY DEF FifoTypeOK
  <1>1. IsrScanEvent \/ IsrQueue
    <2>1. ~UNCHANGED fifoVars
      BY DEF fifoVars
    <2>2. ~ReleaseSequence /\ ~IsrBegin
      BY DEF ReleaseSequence, ResetFifo, IsrBegin, Isr_Enter
    <2>3. ~\E r \in Readers : Caller(r)
      BY DEF Caller, TestInterrupt, TestInterrupt_Call, TestInterrupt_Signal,
             TestInterrupt_Take, TestInterrupt_Return, ring
    <2>4. ~IsrEnd
      BY DEF IsrEnd, Isr_WakeUp, Isr_None, ring
    <2> QED
      BY <2>1, <2>2, <2>3, <2>4
         DEF AiNext, Isr, InitDma, InitDmaFails, InitNoDma, StartSequence, StopSequence,
             Hardware, FillBuffer, RaiseStatus, TimerFires, IsrNotDma, IsrClear, IsrAddress,
             IsrScanQuiet, IsrScanEnds
  <1>2. ~IsrQueue
    <2> SUFFICES ASSUME IsrQueue
                 PROVE  FALSE
      OBVIOUS
    <2>1. scan.source # Dma /\ Push(scan.source, Values)
      BY DEF IsrQueue, Isr_Push
    <2>2. irqSource'[evWrite] = scan.source
      BY <1>0, <2>1 DEF Push
    <2> QED
      BY <2>1, <2>2
  <1>3. scan.pc = "scan" /\ ScanMore /\ Push(Dma, ScanArray)
    BY <1>1, <1>2 DEF IsrScanEvent, Isr_Push
  <1>4. irqData'[evWrite] = ScanArray
    BY <1>0, <1>3 DEF Push, Dma
  <1> DEFINE first == ScanArray[1].cycle  k == Len(ScanArray)
  <1>5. /\ first \in Nat /\ k \in Nat
        /\ first = upTo \/ (lapped /\ first > upTo)
        /\ \A j \in 1 .. k : ScanArray[j] = [buf |-> (first + j - 1) % N, cycle |-> first + j - 1]
    <2>1. Len(scan.array) \in Nat
      BY <1>3, ScanFacts
    <2> QED
      BY <1>3, <2>1, Appended
  <1> HIDE DEF first, k
  <1>6. ASSUME NEW i \in 1 .. k
        PROVE  ScanArray[i].cycle = first + i - 1
    <2>1. ScanArray[i] = [buf |-> (first + i - 1) % N, cycle |-> first + i - 1]
      BY <1>5
    <2> QED
      BY <2>1
  <1>7. ASSUME NEW j \in 2 .. k
        PROVE  ScanArray[j].cycle = ScanArray[j - 1].cycle + 1
    <2>0. first \in Nat /\ k \in Nat
      BY <1>5
    <2>1. j \in 1 .. k /\ j - 1 \in 1 .. k
      BY <2>0
    <2>2. ScanArray[j].cycle = first + j - 1
      BY <1>6, <2>1
    <2>3. ScanArray[j - 1].cycle = first + (j - 1) - 1
      BY <1>6, <2>1
    <2> QED
      BY <2>0, <2>1, <2>2, <2>3
  <1> QED
    BY <1>4, <1>5, <1>7 DEF first, k

(* Events carry the buffers in the order in which the DMA filled them, each*)
(* cycle once; none is left out unless the DMA was a ring ahead            *)
(* (interrupt.c 394-556).                                                  *)
THEOREM InOrderOfFilling ==
  ASSUME Disciplined
  PROVE  AiSpec => ReportsInOrder
  <1>1. AiInv /\ FifoTypeOK /\ [AiNext]_aiVars => [InOrder]_aiVars
    BY StepInOrder
  <1> QED
    BY <1>1, AiInvariant, SequenceUsesFifo, Typing, PTL
       DEF AiSpec, UsesFifo, ReportsInOrder, InOrder

=============================================================================
