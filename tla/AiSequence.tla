----------------------------- MODULE AiSequence -----------------------------
(***************************************************************************)
(* The analog input sequence of one board: the ioctls Init, Start, Stop    *)
(* and Release (primary_ai.c, primary_dma.c), the DMA transfer of the      *)
(* board, and the interrupt routine that turns filled scatter-gather       *)
(* buffers into events of the FIFO (interrupt.c).                          *)
(*                                                                         *)
(* ioctls and the interrupt routine exclude each other by the spin lock.   *)
(* The hardware does not: it fills buffers and raises status flags between *)
(* any two register accesses of the routine, which is therefore split at   *)
(* each of them.                                                           *)
(***************************************************************************)
EXTENDS EventFifo, Sequences, FiniteSets

CONSTANTS
  Single,       \* descriptor lists of single acquisitions: <<b_Interrupt, ...>>
  Continuous,   \* descriptor lists of continuous acquisitions (a DMA ring)
  Values,       \* the channel values that an end of sequence delivers
  NoDesc,       \* ps_ScatterGatherDescriptor = NULL
  MaxFilled,    \* bound: buffers that one continuous acquisition fills
  MaxRuns,      \* bound: acquisitions started
  MaxTimers,    \* bound: timer interrupts
  Disciplined   \* callers release before they initialise again and start an
                \* initialised sequence once, as the header asks them to

Descriptors == [mode : {"single"}, irq : Single] \cup [mode : {"continuous"}, irq : Continuous]

(* The n buffers from cycle from on that the DMA fills along a list, and   *)
(* the largest number of buffers that it fills in one acquisition.         *)
Buffers(list, from, n) ==
  [k \in 1 .. n |-> [buf |-> (from + k - 1) % Len(list), cycle |-> from + k - 1]]
MostFilled(d) == IF d.mode = "single" THEN Len(d.irq) ELSE MaxFilled

(* The last descriptor of a single acquisition interrupts: its memory is a *)
(* multiple of what one interrupt reports (primary_dma.c 1123-1137).  An   *)
(* event can carry the values of an end of sequence, or buffers of a list  *)
(* in their order, each at most once.                                      *)
ASSUME AiAssumption ==
  /\ Sources = Words
  /\ \A list \in Single : list \in Seq(BOOLEAN) /\ list # <<>> /\ list[Len(list)]
  /\ \A list \in Continuous : list \in Seq(BOOLEAN) /\ list # <<>>
  /\ NoDesc \notin Descriptors
  /\ MaxFilled \in Nat /\ MaxRuns \in Nat /\ MaxTimers \in Nat
  /\ Values \in Payload
  /\ \A d \in Descriptors :
       \A from \in 0 .. MostFilled(d) - 1 : \A n \in 1 .. Len(d.irq) :
         Buffers(d.irq, from, n) \in Payload

VARIABLES
  initialised,  \* b_AnalogInputSequenceInitialised
  started,      \* b_AnalogInputSequenceStarted
  useDma,       \* b_AnalogInputDMA
  desc,         \* ps_ScatterGatherDescriptor: mode and b_Interrupt per buffer
  last,         \* dw_LastScatterGatherBuffer
  hwRun,        \* the START bit of the sequence configuration register
  filled,       \* buffers the DMA has filled in this acquisition
  status,       \* the analog input interrupt status register
  tcw,          \* a timer, counter or watchdog has raised its interrupt
  scan,         \* local variables of the interrupt routine
  run,          \* history: acquisitions started so far
  timers,       \* history: timer interrupts so far
  upTo,         \* history: buffers 0 .. upTo-1 of this acquisition are reported
  lapped        \* history: the DMA was a whole ring ahead when it was looked at

aiVars   == <<fifoVars, initialised, started, useDma, desc, last, hwRun,
              filled, status, tcw, scan, run, timers, upTo, lapped>>
sequence == <<initialised, started, useDma, desc, last>>
history  == <<run, timers, upTo, lapped>>

NoScan == [pc |-> "out"]

(* The number of buffers, and whether buffer i of the list interrupts. *)
N       == Len(desc.irq)
Irq(i)  == desc.irq[i + 1]
DmaDone == {"dma", "done"}

AiInit ==
  /\ FifoInit
  /\ initialised = FALSE
  /\ started = FALSE
  /\ useDma = FALSE
  /\ desc = NoDesc
  /\ last = 0
  /\ hwRun = FALSE
  /\ filled = 0
  /\ status = {}
  /\ tcw = FALSE
  /\ scan = NoScan
  /\ run = 0
  /\ timers = 0
  /\ upTo = 0
  /\ lapped = FALSE

-----------------------------------------------------------------------------
(* The ioctls, each under the lock. *)
InitAllowed == isr = "out" /\ ~hwRun /\ run < MaxRuns /\ (Disciplined => ~initialised)

(* InitAnalogInputSequence with DMA: the descriptor list is built. *)
InitDma(d) ==
  /\ InitAllowed
  /\ initialised' = TRUE
  /\ useDma' = TRUE
  /\ desc' = d
  /\ last' = 0
  /\ UNCHANGED <<fifoVars, started, hwRun, filled, status, tcw, scan, history>>

(* No memory: the list, an earlier one too, is released; code 15. *)
InitDmaFails ==
  /\ InitAllowed
  /\ desc' = NoDesc
  /\ UNCHANGED <<fifoVars, initialised, started, useDma, last, hwRun, filled,
                 status, tcw, scan, history>>

InitNoDma ==
  /\ InitAllowed
  /\ initialised' = TRUE
  /\ useDma' = FALSE
  /\ UNCHANGED <<fifoVars, started, desc, last, hwRun, filled, status, tcw,
                 scan, history>>

(* Start clears the status flags 0x35 (all but the end of sequence), but   *)
(* neither dw_LastScatterGatherBuffer nor the FIFO.                        *)
StartSequence ==
  /\ isr = "out"
  /\ initialised
  /\ ~hwRun
  /\ run < MaxRuns
  /\ Disciplined => filled = 0
  /\ started' = TRUE
  /\ hwRun' = TRUE
  /\ status' = status \ {"dma", "done", "ovf"}
  /\ filled' = 0
  /\ run' = run + 1
  /\ upTo' = 0
  /\ lapped' = FALSE
  /\ UNCHANGED <<fifoVars, initialised, useDma, desc, last, tcw, scan, timers>>

(* Mutated: the status flags are left as they are.                         *)
StopSequence_KeepsStatus ==
  /\ isr = "out"
  /\ initialised
  /\ started
  /\ started' = FALSE
  /\ hwRun' = FALSE
  /\ UNCHANGED <<fifoVars, initialised, useDma, desc, last, filled, status, tcw, scan, history>>

(* The START, DMA and IRQ bits are cleared before the status flags, and    *)
(* the DMA is aborted.                                                     *)
StopSequence ==
  /\ isr = "out"
  /\ initialised
  /\ started
  /\ started' = FALSE
  /\ hwRun' = FALSE
  /\ status' = status \ {"dma", "done", "ovf"}
  /\ UNCHANGED <<fifoVars, initialised, useDma, desc, last, filled, tcw, scan, history>>

ReleaseSequence ==
  /\ initialised
  /\ ~started
  /\ ~hwRun
  /\ ResetFifo
  /\ initialised' = FALSE
  /\ useDma' = FALSE
  /\ desc' = NoDesc
  /\ last' = 0
  /\ filled' = 0
  /\ upTo' = 0
  /\ UNCHANGED <<started, hwRun, status, tcw, scan, run, timers, lapped>>

-----------------------------------------------------------------------------
(* The hardware. *)
FillBuffer ==
  /\ hwRun
  /\ useDma
  /\ filled < IF desc.mode = "single" THEN N ELSE MaxFilled
  /\ filled' = filled + 1
  /\ status' = status \cup
       IF desc.mode = "single" /\ filled + 1 = N THEN DmaDone ELSE {"dma"}
  /\ UNCHANGED <<fifoVars, sequence, hwRun, tcw, scan, history>>

(* The on-board FIFO overflows while the DMA transfers; a sequence without *)
(* DMA ends; a timer, a counter or a watchdog interrupts.                  *)
RaiseStatus(flag) ==
  /\ hwRun
  /\ flag = IF useDma THEN "ovf" ELSE "eos"
  /\ flag \notin status
  /\ status' = status \cup {flag}
  /\ UNCHANGED <<fifoVars, sequence, hwRun, filled, tcw, scan, history>>

TimerFires ==
  /\ ~tcw
  /\ timers < MaxTimers
  /\ tcw' = TRUE
  /\ timers' = timers + 1
  /\ UNCHANGED <<fifoVars, sequence, hwRun, filled, status, scan, run, upTo, lapped>>

Hardware == FillBuffer \/ RaiseStatus("ovf") \/ RaiseStatus("eos") \/ TimerFires

(* The buffer whose address the DMA controller holds after f filled ones:  *)
(* a single acquisition ends on the address of its last buffer.            *)
Current(f) == IF desc.mode = "continuous" THEN f % N
              ELSE IF f < N THEN f ELSE N - 1

(* The acquisition cycle of the newest complete content of buffer i, or -1.*)
Newest(i, f) == IF i >= f THEN -1 ELSE i + N * ((f - 1 - i) \div N)

-----------------------------------------------------------------------------
(* The interrupt routine.  The timer functions run first, reading a timer  *)
(* status clears it; then the analog input status is read.                 *)
IsrBegin ==
  /\ Isr_Enter
  /\ scan' = [pc |-> "branch", status |-> status, tcw |-> IF tcw THEN {"tcw"} ELSE {}]
  /\ tcw' = FALSE
  /\ UNCHANGED <<sequence, hwRun, filled, status, history>>

(* Flag 0x20 is looked at only without DMA flags, those only without 0x3. *)
IsrNotDma(flag) ==
  /\ scan.pc = "branch"
  /\ \/ flag = {"eos"} /\ "eos" \in scan.status
     \/ flag = {"ovf"} /\ scan.status = {"ovf"}
     \/ flag = {} /\ scan.status = {}
  /\ status' = status \ flag
  /\ scan' = [pc |-> "queue", source |-> flag \cup scan.tcw]
  /\ UNCHANGED <<fifoVars, sequence, hwRun, filled, tcw, history>>

(* The flag 0x4 is cleared, flag 0x10 stays. *)
IsrClear ==
  /\ scan.pc = "branch"
  /\ "eos" \notin scan.status
  /\ scan.status \cap DmaDone # {}
  /\ status' = status \ {"dma"}
  /\ scan' = [pc |-> "address", done |-> "done" \in scan.status]
  /\ UNCHANGED <<fifoVars, sequence, hwRun, filled, tcw, history>>

IsrAddress ==
  /\ scan.pc = "address"
  /\ scan' = [pc |-> "scan", done |-> scan.done, seen |-> filled,
              counter |-> 0, index |-> last, array |-> <<>>]
  /\ lapped' = (lapped \/ (desc.mode = "continuous" /\ filled - upTo >= N))
  /\ UNCHANGED <<fifoVars, sequence, hwRun, filled, status, tcw, run, timers, upTo>>

(* Mutated: the last buffer of a single acquisition is never found.        *)
ScanMore_NoLast == scan.counter < N /\ scan.index # Current(scan.seen)

(* One iteration finds buffer scan.index full: it is not the one being     *)
(* filled, or it is the last one of a single acquisition that is done.     *)
ScanMore ==
  /\ scan.counter < N
  /\ \/ scan.index # Current(scan.seen)
     \/ desc.mode = "single" /\ scan.index + 1 = N /\ scan.done

ScanArray == Append(scan.array, [buf |-> scan.index, cycle |-> Newest(scan.index, scan.seen)])
Advance_NoWrap(array) ==   \* mutated: the index runs off the list
  [scan EXCEPT !.counter = @ + 1, !.index = @ + 1, !.array = array]
Advance(array) == [scan EXCEPT !.counter = @ + 1, !.index = (@ + 1) % N, !.array = array]
Dequeued == [pc |-> "queue", source |-> Dma]

IsrScanQuiet ==
  /\ scan.pc = "scan"
  /\ ScanMore
  /\ ~Irq(scan.index)
  /\ scan' = Advance(ScanArray)
  /\ UNCHANGED <<fifoVars, sequence, hwRun, filled, status, tcw, history>>

(* Mutated: dw_LastScatterGatherBuffer is not advanced.                    *)
IsrScanEvent_KeepsLast ==
  /\ scan.pc = "scan"
  /\ ScanMore
  /\ Irq(scan.index)
  /\ Isr_Push(Dma, ScanArray)
  /\ upTo' = Newest(scan.index, scan.seen) + 1
  /\ scan' = Advance(<<>>)
  /\ UNCHANGED <<sequence, hwRun, filled, status, tcw, run, timers, lapped>>

(* A buffer with b_Interrupt closes the list of buffers of one event.  In  *)
(* a single acquisition that is done, it also ends the acquisition.        *)
IsrScanEvent ==
  /\ scan.pc = "scan"
  /\ ScanMore
  /\ Irq(scan.index)
  /\ Isr_Push(Dma, ScanArray)
  /\ upTo' = Newest(scan.index, scan.seen) + 1
  /\ IF desc.mode = "single" /\ scan.done
       THEN /\ started' = FALSE
            /\ hwRun' = FALSE
            /\ status' = status \ {"dma", "done", "ovf"}
            /\ scan' = Dequeued
            /\ UNCHANGED last
       ELSE /\ scan' = Advance(<<>>)
            /\ last' = (scan.index + 1) % N
            /\ UNCHANGED <<started, hwRun, status>>
  /\ UNCHANGED <<initialised, useDma, desc, filled, tcw, run, timers, lapped>>

(* Mutated: the flag 0x4 is cleared (once more) after the scan.            *)
IsrScanEnds_Clears ==
  /\ scan.pc = "scan"
  /\ ~ScanMore
  /\ scan' = Dequeued
  /\ status' = status \ {"dma"}
  /\ UNCHANGED <<fifoVars, sequence, hwRun, filled, tcw, history>>

IsrScanEnds ==
  /\ scan.pc = "scan"
  /\ ~ScanMore
  /\ scan' = Dequeued
  /\ UNCHANGED <<fifoVars, sequence, hwRun, filled, status, tcw, history>>

(* Sources other than DMA are queued together; not if there was DMA. *)
IsrQueue ==
  /\ scan.pc = "queue"
  /\ scan.source \notin {{}, Dma}
  /\ Isr_Push(scan.source, Values)
  /\ scan' = Dequeued
  /\ UNCHANGED <<sequence, hwRun, filled, status, tcw, history>>

(* Mutated: the routine leaves without a wake-up.                          *)
IsrEnd_NoWakeUp ==
  /\ scan.pc = "queue"
  /\ scan.source \in {{}, Dma}
  /\ isr' = "out"
  /\ scan' = NoScan
  /\ UNCHANGED <<ring, reader, sequence, hwRun, filled, status, tcw, history>>

IsrEnd ==
  /\ scan.pc = "queue"
  /\ scan.source \in {{}, Dma}
  /\ IF scan.source = {} THEN Isr_None ELSE Isr_WakeUp
  /\ scan' = NoScan
  /\ UNCHANGED <<sequence, hwRun, filled, status, tcw, history>>

Isr ==
  \/ \E flag \in {{"eos"}, {"ovf"}, {}} : IsrNotDma(flag)
  \/ IsrClear \/ IsrAddress
  \/ IsrScanQuiet \/ IsrScanEvent \/ IsrScanEnds
  \/ IsrQueue \/ IsrEnd

-----------------------------------------------------------------------------
Caller(r) == TestInterrupt(r) /\ UNCHANGED <<sequence, hwRun, filled, status, tcw, scan, history>>

AiNext ==
  \/ \E d \in Descriptors : InitDma(d)
  \/ InitDmaFails \/ InitNoDma
  \/ StartSequence \/ StopSequence \/ ReleaseSequence
  \/ Hardware
  \/ IsrBegin \/ Isr
  \/ \E r \in Readers : Caller(r)

AiSpec == AiInit /\ [][AiNext]_aiVars

(* The board goes on filling buffers; a raised interrupt is served, and    *)
(* the routine runs to its end.                                            *)
AiFairness ==
  /\ WF_aiVars(FillBuffer)
  /\ WF_aiVars(status # {} /\ IsrBegin)
  /\ WF_aiVars(Isr)

FairAiSpec == AiSpec /\ AiFairness
-----------------------------------------------------------------------------
Scans ==
  {NoScan}
  \cup [pc : {"branch"}, status : SUBSET {"eos", "ovf", "dma", "done"}, tcw : {{}, {"tcw"}}]
  \cup [pc : {"address"}, done : BOOLEAN]
  \cup [pc : {"queue"}, source : Words \cup {{}}]

(* Every variable of the sequence keeps to its range.                      *)
AiTypeOK ==
  /\ FifoTypeOK
  /\ {initialised, started, useDma, hwRun, tcw, lapped} \subseteq BOOLEAN
  /\ desc \in Descriptors \cup {NoDesc}
  /\ desc # NoDesc => last \in 0 .. N - 1
  /\ status \subseteq {"eos", "ovf", "dma", "done"}
  /\ filled \in Nat
  /\ upTo \in 0 .. filled
  /\ run \in 0 .. MaxRuns
  /\ timers \in 0 .. MaxTimers
  /\ scan.pc # "scan" => scan \in Scans
  /\ scan.pc = "scan" => /\ scan.seen \in 0 .. filled
                         /\ scan.index = (last + Len(scan.array)) % N
                         /\ Len(scan.array) <= scan.counter

(* The DMA branch of the interrupt routine and Start dereference the       *)
(* descriptor list (interrupt.c 402, primary_dma.c 1382): there is one     *)
(* whenever a DMA flag is raised or a DMA sequence can be started.  The    *)
(* header says that a sequence that is started has been initialised        *)
(* (xpci3xxx.h 705).                                                       *)
DescriptorPresent ==
  /\ initialised /\ useDma => desc # NoDesc
  /\ (status \cup IF scan.pc = "branch" THEN scan.status ELSE {}) \cap DmaDone # {}
       => desc # NoDesc

(* The buffers of the complete groups among the first f ones. *)
WholeGroups(f) ==
  LET ends == {g \in 1 .. f : Irq((g - 1) % N)}
  IN  IF ends = {} THEN 0 ELSE CHOOSE g \in ends : \A h \in ends : h <= g

(* No buffer is forgotten: when the routine is out and no DMA interrupt is *)
(* pending, every complete group has been reported, whenever the flag was  *)
(* cleared, the address read and the buffer filled (interrupt.c 394-556).  *)
(* A DMA that has run a whole ring ahead is the exception.                 *)
NothingForgotten ==
  hwRun /\ useDma /\ isr = "out" /\ status \cap DmaDone = {} /\ ~lapped
    => upTo = WholeGroups(filled)

(* Events carry the buffers in the order in which the DMA filled them, each*)
(* acquisition cycle once and, unless the DMA was a ring ahead, none left  *)
(* out; no event carries a buffer that was not filled in this acquisition. *)
ReportsInOrder ==
  [][LET data == irqData'[evWrite] IN
       isr # "out" /\ evWrite' # evWrite /\ irqSource'[evWrite] = Dma =>
         /\ data[1].cycle = upTo \/ (lapped /\ data[1].cycle > upTo)
         /\ \A k \in 2 .. Len(data) : data[k].cycle = data[k - 1].cycle + 1]_aiVars

(* A single acquisition that is not stopped comes to its end by itself.    *)
SingleEnds == (started /\ useDma /\ desc.mode = "single") ~> ~started

(* The sequence uses the event FIFO as EventFifo says.                     *)
UsesFifo == FifoSpec
=============================================================================
