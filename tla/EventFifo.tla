----------------------------- MODULE EventFifo ------------------------------
(***************************************************************************)
(* The interrupt event FIFO of one board (interrupt.c of the xpci3xxx      *)
(* driver): a ring of ADDIDATA_MAX_EVENT_COUNTER slots that the interrupt  *)
(* service routine fills and that callers of CMD_xpci3xxx_TestInterrupt    *)
(* empty.                                                                  *)
(*                                                                         *)
(* The ring and its two counters are protected by the driver's spin lock,  *)
(* which the interrupt routine holds from its entry to its end; the        *)
(* condition of wait_event_interruptible is read without the lock.  A      *)
(* caller therefore tests the condition, sleeps or takes the lock, and     *)
(* tests the condition again: each of these is an action, and they         *)
(* interleave with the steps of the interrupt routine and other callers.   *)
(***************************************************************************)
EXTENDS Integers

CONSTANTS
  FifoSize,   \* ADDIDATA_MAX_EVENT_COUNTER
  Readers,    \* threads that call TestInterrupt on this board
  Sources,    \* the source words the interrupt routine computes
  Payload,    \* what dw_SequenceArray / dw_ChannelValue of a slot may hold
  NoData      \* the content of an answer into which nothing was copied

VARIABLES
  irqSource,  \* dw_InterruptSource[]: the source word of every slot
  irqData,    \* dw_SequenceArray[] and dw_ChannelValue[] of every slot
  evWrite,    \* dw_EventCounterWrite
  evRead,     \* dw_EventCounterRead
  isr,        \* what the interrupt routine, which holds the lock, has found
  reader,     \* reader[r]: where thread r is inside TestInterrupt
  lost        \* history: an event was refused and no caller has been told

fifoVars == <<irqSource, irqData, evWrite, evRead, isr, reader, lost>>
ring     == <<irqSource, irqData, evWrite, evRead, lost>>

(***************************************************************************)
(* A source word is the set of its bits: "dma" is 0x1, "eos" 0x2, "ovf"    *)
(* 0x4, "tcw" any of the timer, counter and watchdog bits.  The DMA branch *)
(* queues its events itself, with the word 0x1 (interrupt.c 477); all      *)
(* other words combine what the sources of one interrupt reported.         *)
(* Full and Empty are the codes 0xffffffff and 0xfffffffe.                 *)
(***************************************************************************)
Dma   == {"dma"}
Words == {Dma, {"eos"}, {"ovf"}, {"tcw"}, {"eos", "tcw"}, {"ovf", "tcw"}}
Full  == {"full"}
Empty == {"empty"}

ASSUME FifoAssumption ==
  /\ FifoSize \in Nat
  /\ FifoSize >= 2
  /\ Sources \subseteq Words
  /\ NoData \notin Payload

Slots    == 0 .. FifoSize - 1
Next1_NoWrap(i) == i + 1   \* mutated: the counter does not wrap
Next1(i) == (i + 1) % FifoSize
HasEvent == evRead # evWrite

(* What a caller gets of a slot: the payload is copied only when the       *)
(* source word is exactly 0x1 or exactly 0x2.                              *)
Copied(source, data) ==
  [source |-> source, data |-> IF source \in {Dma, {"eos"}} THEN data ELSE NoData]

Answer == [source : Sources \cup {Empty, Full}, data : Payload \cup {NoData}]

Idle        == [pc |-> "idle"]
Asleep      == [pc |-> "asleep"]       \* on the wait queue
Woken       == [pc |-> "woken"]        \* made runnable, has to test again
Locking     == [pc |-> "locking"]      \* saw an event, wants the lock
Interrupted == [pc |-> "ERESTARTSYS"]
Done(a)     == [pc |-> "done", answer |-> a]

FifoInit ==
  /\ irqSource = [i \in Slots |-> {}]
  /\ irqData = [i \in Slots |-> NoData]
  /\ evWrite = 0
  /\ evRead = 0
  /\ isr = "out"
  /\ reader = [r \in Readers |-> Idle]
  /\ lost = FALSE

(* Mutated: a refused event marks the newest waiting one.                  *)
Push_MarksNewest(source, data) ==
  /\ IF Next1(evWrite) # evRead
       THEN /\ irqSource' = [irqSource EXCEPT ![evWrite] = source]
            /\ irqData' = [irqData EXCEPT ![evWrite] = data]
            /\ evWrite' = Next1(evWrite)
            /\ UNCHANGED lost
       ELSE /\ irqSource' = [irqSource EXCEPT ![(evWrite - 1) % FifoSize] = Full]
            /\ lost' = TRUE
            /\ UNCHANGED <<irqData, evWrite>>
  /\ UNCHANGED <<evRead, reader>>

(***************************************************************************)
(* An event is appended if the ring has room.  If not, the source word of  *)
(* the free slot becomes 0xffffffff and the counter stays where it is.     *)
(***************************************************************************)
Push(source, data) ==
  /\ IF Next1(evWrite) # evRead
       THEN /\ irqSource' = [irqSource EXCEPT ![evWrite] = source]
            /\ irqData' = IF source \cap {"dma", "eos"} # {}
                            THEN [irqData EXCEPT ![evWrite] = data] ELSE irqData
            /\ evWrite' = Next1(evWrite)
            /\ UNCHANGED lost
       ELSE /\ irqSource' = [irqSource EXCEPT ![evWrite] = Full]
            /\ lost' = TRUE
            /\ UNCHANGED <<irqData, evWrite>>
  /\ UNCHANGED <<evRead, reader>>

(* Mutated: one sleeper only, or none at all, is woken.                    *)
WakeUp_One(rd) ==
  LET sleepers == {r \in Readers : rd[r] = Asleep}
  IN  IF sleepers = {} THEN rd ELSE [rd EXCEPT ![CHOOSE r \in sleepers : TRUE] = Woken]
WakeUp_None(rd) == rd

(* wake_up_interruptible: every sleeper becomes runnable. *)
WakeUp(rd) == [r \in Readers |-> IF rd[r] = Asleep THEN Woken ELSE rd[r]]

(***************************************************************************)
(* The interrupt routine: it takes the lock, queues the events it finds (a *)
(* DMA interrupt any number of them, the other sources one together), wakes*)
(* the sleepers if there was any source, and gives up the lock.            *)
(***************************************************************************)
Isr_Enter ==
  /\ isr = "out"
  /\ isr' = "entered"
  /\ UNCHANGED <<ring, reader>>

Isr_Push(source, data) ==
  /\ isr \in IF source = Dma THEN {"entered", "dma"} ELSE {"entered"}
  /\ Push(source, data)
  /\ isr' = IF source = Dma THEN "dma" ELSE "other"

Isr_WakeUp ==
  /\ isr # "out"
  /\ reader' = WakeUp(reader)
  /\ isr' = "out"
  /\ UNCHANGED ring

Isr_None ==
  /\ isr = "entered"
  /\ isr' = "out"
  /\ UNCHANGED <<ring, reader>>

(* ReleaseAnalogInputSequence empties the FIFO, under the lock. *)
ResetFifo ==
  /\ isr = "out"
  /\ evWrite' = 0
  /\ evRead' = 0
  /\ lost' = FALSE
  /\ UNCHANGED <<irqSource, irqData, isr, reader>>

(* TestInterrupt: the condition, tested without the lock. *)
TestInterrupt_Call(r) ==
  /\ reader[r] \in {Idle, Woken}
  /\ reader' = [reader EXCEPT ![r] = IF HasEvent THEN Locking ELSE Asleep]
  /\ UNCHANGED <<ring, isr>>

(* A signal ends the wait with -ERESTARTSYS. *)
TestInterrupt_Signal(r) ==
  /\ reader[r] \in {Asleep, Woken}
  /\ reader' = [reader EXCEPT ![r] = Interrupted]
  /\ UNCHANGED <<ring, isr>>

(* Mutated: the condition is not tested again under the lock.              *)
TestInterrupt_TakeBlindly(r) ==
  /\ reader[r] = Locking
  /\ isr = "out"
  /\ reader' = [reader EXCEPT ![r] = Done(Copied(irqSource[evRead], irqData[evRead]))]
  /\ evRead' = Next1(evRead)
  /\ UNCHANGED <<irqSource, irqData, evWrite, isr, lost>>

(* The critical section: the condition again, then the oldest slot. *)
TestInterrupt_Take(r) ==
  /\ reader[r] = Locking
  /\ isr = "out"
  /\ IF HasEvent
       THEN LET a == Copied(irqSource[evRead], irqData[evRead]) IN
            /\ reader' = [reader EXCEPT ![r] = Done(a)]
            /\ evRead' = Next1(evRead)
            /\ lost' = (lost /\ a.source # Full)
       ELSE /\ reader' = [reader EXCEPT ![r] = Done(Copied(Empty, NoData))]
            /\ UNCHANGED <<evRead, lost>>
  /\ UNCHANGED <<irqSource, irqData, evWrite, isr>>

TestInterrupt_Return(r) ==
  /\ reader[r].pc \in {"done", "ERESTARTSYS"}
  /\ reader' = [reader EXCEPT ![r] = Idle]
  /\ UNCHANGED <<ring, isr>>

TestInterrupt(r) ==
  \/ TestInterrupt_Call(r)
  \/ TestInterrupt_Signal(r)
  \/ TestInterrupt_Take(r)
  \/ TestInterrupt_Return(r)

FifoNext ==
  \/ Isr_Enter
  \/ \E source \in Sources, data \in Payload : Isr_Push(source, data)
  \/ Isr_WakeUp
  \/ Isr_None
  \/ ResetFifo
  \/ \E r \in Readers : TestInterrupt(r)

(* The interrupt routine runs to its end; a runnable thread gets the       *)
(* processor, and the lock, which nobody holds across a sleep.             *)
Fairness ==
  /\ WF_fifoVars(Isr_WakeUp)
  /\ \A r \in Readers : /\ WF_fifoVars(reader[r] # Idle /\ TestInterrupt_Call(r))
                        /\ SF_fifoVars(TestInterrupt_Take(r))

FifoSpec == FifoInit /\ [][FifoNext]_fifoVars
FairFifoSpec == FifoSpec /\ Fairness

-----------------------------------------------------------------------------
(* The number of waiting events, and the slots that hold them. *)
Count == (evWrite - evRead) % FifoSize
Live  == {i \in Slots : (i - evRead) % FifoSize < Count}

(* Every variable stays in the range the code's types and guards give it.  *)
FifoTypeOK ==
  /\ irqSource \in [Slots -> Sources \cup {Full, {}}]
  /\ irqData \in [Slots -> Payload \cup {NoData}]
  /\ evWrite \in Slots
  /\ evRead \in Slots
  /\ isr \in {"out", "entered", "dma", "other"}
  /\ reader \in [Readers -> {Idle, Asleep, Woken, Locking, Interrupted}
                              \cup [pc : {"done"}, answer : Answer]]
  /\ lost \in BOOLEAN

(* The overflow mark of a refused event (interrupt.c 487-490, 699-704)     *)
(* never lands on an event that still waits, and a DMA event that waits    *)
(* has the buffer list that was queued with it.                            *)
WaitingEventsIntact ==
  \A i \in Live : /\ irqSource[i] \in Sources
                  /\ irqSource[i] = Dma => irqData[i] \in Payload

(* Outside the interrupt routine nobody sleeps on a FIFO that holds an     *)
(* event: no wake-up is lost between the unlocked test of the condition    *)
(* (interrupt.c 831) and the wake-up at the end of the routine (720).      *)
NoLostWakeUp ==
  isr = "out" /\ HasEvent => \A r \in Readers : reader[r] # Asleep

(* A thread that sleeps in TestInterrupt while an event is queued comes    *)
(* back, unless the other callers, or a release, empty the FIFO first.     *)
SleeperServed ==
  \A r \in Readers :
    (reader[r] = Asleep /\ HasEvent)
      ~> (reader[r].pc \in {"done", "ERESTARTSYS"} \/ ~HasEvent)

(* The header documents the code 0xffffffff "FIFO is Full"                 *)
(* (xpci3xxx.h 349) and data_management waits for it (hpc_threads.c 175):  *)
(* a caller that has emptied the FIFO was told of the events it refused.   *)
LossReported == lost => HasEvent

-----------------------------------------------------------------------------
(***************************************************************************)
(* The FIFO implements the bounded queue of LossyQueue: the ring is the    *)
(* queue, one slot of it stays free, and the unlocked test of the wait     *)
(* condition is invisible.                                                 *)
(***************************************************************************)
QueueOf == [k \in 1 .. Count |->
              LET i == (evRead + k - 1) % FifoSize IN Copied(irqSource[i], irqData[i])]

(* What the abstract call shows of the state of a caller. *)
CallOf(state) ==
  CASE state = Idle -> [at |-> "outside"]
    [] state \in {Asleep, Woken, Locking} -> [at |-> "waiting"]
    [] state = Interrupted -> [at |-> "returned", status |-> "interrupted"]
    [] OTHER -> IF state.answer.source = Empty
                  THEN [at |-> "returned", status |-> "empty"]
                  ELSE [at |-> "returned", status |-> "event", event |-> state.answer]

Calls == [r \in Readers |-> CallOf(reader[r])]

Queue == INSTANCE LossyQueue WITH
  queue    <- QueueOf,
  call     <- Calls,
  Event    <- {Copied(s, d) : s \in Sources, d \in Payload},
  Capacity <- FifoSize - 1

(* Every accepted event reaches exactly one caller, in the order of        *)
(* acceptance; a caller comes back without one only for an empty FIFO or a *)
(* signal.                                                                 *)
ImplementsQueue == Queue!Spec
=============================================================================
