------------------------------ MODULE Measure -------------------------------
(***************************************************************************)
(* The measuring program (hpc_measure.c, hpc_threads.c, hpc_signals.c):    *)
(* main initialises the boards one after the other and starts one thread   *)
(* per board; the threads move events of the driver into raw files; signals*)
(* and finished threads set the flag stop; main waits for the threads and  *)
(* then stops and releases the boards.  The program may be killed at any   *)
(* point and started again; the driver keeps its state when it is.         *)
(*                                                                         *)
(* The driver is the abstraction that AiSequence justifies: an acquisition *)
(* is free, ready (initialised), running or ended, and has a bounded queue *)
(* of events, each with the run that acquired it.                          *)
(***************************************************************************)
EXTENDS Naturals, Sequences, FiniteSets

CONSTANTS
  NBoards,    \* boards in use: those whose nChannels is not 0
  Totals,     \* events an acquisition makes; 0 is a continuous acquisition
  FifoCap,    \* bound: events that wait in the driver
  MaxRuns     \* bound: times the program is started

ASSUME MeasureAssumption ==
  NBoards \in Nat \ {0} /\ FifoCap \in Nat \ {0} /\ Totals \subseteq Nat

Boards == 1 .. NBoards

VARIABLES
  seq,        \* seq[b]: the acquisition of board b in the driver
  fifo,       \* fifo[b]: the runs that acquired the events waiting there
  made,       \* made[b]: events made so far by a single acquisition
  short,      \* history: boards whose acquisition has lost an event
  total,      \* total_sequence_count / number_of_sequences_per_interrupt
  main,       \* where main is
  stop,       \* the shared flag
  thread,     \* thread[b]: the data_management thread of board b
  mapped,     \* mapped[b]: the program has the DMA memory mapped
  run,        \* history: which start of the program this is
  hasty,      \* history: main left for the release without waiting
  inherited   \* history: boards initialised over an acquisition not released

driver == <<seq, fifo, made, short>>
vars   == <<driver, total, main, stop, thread, mapped, run, hasty, inherited>>

NoThread == [pc |-> "none"]
At(pc, n) == [pc |-> pc, counter |-> n]
Off == [pc |-> "off"]
MainAt(pc, b) == [pc |-> pc, board |-> b]
Ended(b) == thread[b].pc \in {"ended", "none"}

MeasureInit ==
  /\ seq = [b \in Boards |-> "free"]
  /\ fifo = [b \in Boards |-> <<>>]
  /\ made = [b \in Boards |-> 0]
  /\ short = {}
  /\ total \in Totals
  /\ main = Off
  /\ stop = "run"
  /\ thread = [b \in Boards |-> NoThread]
  /\ mapped = [b \in Boards |-> FALSE]
  /\ run = 0
  /\ hasty = FALSE
  /\ inherited = {}

-----------------------------------------------------------------------------

(* A running acquisition makes an event (interrupt.c), which is lost if    *)
(* the FIFO is full; the last one of a single acquisition ends it.         *)
MakeEvent(b) ==
  /\ seq[b] = "running"
  /\ \/ /\ Len(fifo[b]) < FifoCap
        /\ fifo' = [fifo EXCEPT ![b] = Append(@, run)]
        /\ UNCHANGED short
     \/ /\ Len(fifo[b]) = FifoCap
        /\ short' = short \cup {b}
        /\ UNCHANGED fifo
  /\ made' = [made EXCEPT ![b] = IF total = 0 THEN 0 ELSE @ + 1]
  /\ seq' = [seq EXCEPT ![b] = IF total # 0 /\ made[b] + 1 = total THEN "ended" ELSE @]
  /\ UNCHANGED <<total, main, stop, thread, mapped, run, hasty, inherited>>

(* If several events of a single acquisition are pending at its end, only  *)
(* the first is queued.                                                    *)
ForgetTail(b) ==
  /\ seq[b] = "running"
  /\ total # 0 /\ made[b] + 1 < total
  /\ Len(fifo[b]) < FifoCap
  /\ fifo' = [fifo EXCEPT ![b] = Append(@, run)]
  /\ made' = [made EXCEPT ![b] = total]
  /\ seq' = [seq EXCEPT ![b] = "ended"]
  /\ short' = short \cup {b}
  /\ UNCHANGED <<total, main, stop, thread, mapped, run, hasty, inherited>>

-----------------------------------------------------------------------------
(* main *)
ProgramStart ==
  /\ main = Off
  /\ run < MaxRuns
  /\ run' = run + 1
  /\ stop' \in {"run", "quit"}      \* "quit": the raw directory cannot be made
  /\ main' = MainAt("init", 1)
  /\ hasty' = FALSE
  /\ inherited' = {}
  /\ UNCHANGED <<driver, total, thread, mapped>>

(* goto error *)
Leave == main' = MainAt("release", 1) /\ hasty' = TRUE

(* CMD_xpci3xxx_InitAnalogInputSequence: refused while the hardware runs. *)
InitBoard ==
  /\ main.pc = "init"
  /\ LET b == main.board IN
     \/ /\ seq[b] # "running"
        /\ seq' = [seq EXCEPT ![b] = "ready"]
        /\ made' = [made EXCEPT ![b] = 0]
        /\ short' = short \ {b}
        /\ inherited' = IF seq[b] = "free" THEN inherited ELSE inherited \cup {b}
        /\ main' = MainAt("start", b)
        /\ UNCHANGED <<fifo, hasty>>
     \/ Leave /\ UNCHANGED <<driver, inherited>>
  /\ UNCHANGED <<total, stop, thread, mapped, run>>

(* mmap, the hardware trigger and StartAnalogInputSequence. *)
StartBoard ==
  /\ main.pc = "start"
  /\ LET b == main.board IN
     \/ Leave /\ UNCHANGED <<seq, mapped>>
     \/ Leave /\ mapped' = [mapped EXCEPT ![b] = TRUE] /\ UNCHANGED seq
     \/ /\ mapped' = [mapped EXCEPT ![b] = TRUE]
        /\ seq' = [seq EXCEPT ![b] = "running"]
        /\ main' = MainAt("create", b)
        /\ UNCHANGED hasty
  /\ UNCHANGED <<fifo, made, short, total, stop, thread, run, inherited>>

CreateThread ==
  /\ main.pc = "create"
  /\ LET b == main.board IN
     \/ Leave /\ UNCHANGED thread
     \/ /\ thread' = [thread EXCEPT ![b] = At("read", 0)]
        /\ main' = IF b < NBoards THEN MainAt("init", b + 1) ELSE [pc |-> "enter"]
        /\ UNCHANGED hasty
  /\ UNCHANGED <<driver, total, stop, mapped, run, inherited>>

(* The trigger output and the alarm, then the first look at stop: it is    *)
(* the only one before all threads are joined.                             *)
EnterWait ==
  /\ main.pc = "enter"
  /\ \/ Leave      \* an error, or stop is set
     \/ stop = "run" /\ main' = [pc |-> "wait", joined |-> {}] /\ UNCHANGED hasty
  /\ UNCHANGED <<driver, total, stop, thread, mapped, run, inherited>>

(* Mutated: the first thread that ends is taken for all.                   *)
JoinThread_Any(b) ==
  /\ main.pc = "wait"
  /\ b \notin main.joined
  /\ Ended(b)
  /\ stop' = "quit"
  /\ main' = MainAt("release", 1)
  /\ UNCHANGED <<driver, total, thread, mapped, run, hasty, inherited>>

(* quit == useBoards ends the loop. *)
JoinThread(b) ==
  /\ main.pc = "wait"
  /\ b \notin main.joined
  /\ Ended(b)
  /\ IF main.joined \cup {b} = Boards
       THEN stop' = "quit" /\ main' = MainAt("release", 1)
       ELSE main' = [main EXCEPT !.joined = @ \cup {b}] /\ UNCHANGED stop
  /\ UNCHANGED <<driver, total, thread, mapped, run, hasty, inherited>>

(* Mutated: the FIFO is not emptied; a board that is not mapped is skipped.*)
ReleaseBoard_KeepsFifo ==
  /\ main.pc = "release"
  /\ LET b == main.board IN
     /\ seq' = [seq EXCEPT ![b] = "free"]
     /\ mapped' = [mapped EXCEPT ![b] = FALSE]
     /\ main' = IF b < NBoards THEN MainAt("release", b + 1) ELSE [pc |-> "exit"]
  /\ UNCHANGED <<fifo, made, short, total, stop, thread, run, hasty, inherited>>

ReleaseBoard_OnlyMapped ==
  /\ main.pc = "release"
  /\ LET b == main.board IN
     /\ seq' = [seq EXCEPT ![b] = IF mapped[b] THEN "free" ELSE @]
     /\ fifo' = [fifo EXCEPT ![b] = IF mapped[b] THEN <<>> ELSE @]
     /\ mapped' = [mapped EXCEPT ![b] = FALSE]
     /\ main' = IF b < NBoards THEN MainAt("release", b + 1) ELSE [pc |-> "exit"]
  /\ UNCHANGED <<made, short, total, stop, thread, run, hasty, inherited>>

(* Stop and Release, whose errors are ignored, and munmap.                 *)
ReleaseBoard ==
  /\ main.pc = "release"
  /\ LET b == main.board IN
     /\ seq' = [seq EXCEPT ![b] = "free"]
     /\ fifo' = [fifo EXCEPT ![b] = IF seq[b] = "free" THEN @ ELSE <<>>]
     /\ mapped' = [mapped EXCEPT ![b] = FALSE]
     /\ main' = IF b < NBoards THEN MainAt("release", b + 1) ELSE [pc |-> "exit"]
  /\ UNCHANGED <<made, short, total, stop, thread, run, hasty, inherited>>

(* The process is gone, with its threads and mappings; the driver's        *)
(* release_lookup does not touch the acquisition.                          *)
Gone ==
  /\ main' = Off
  /\ thread' = [b \in Boards |-> NoThread]
  /\ mapped' = [b \in Boards |-> FALSE]
  /\ UNCHANGED <<driver, total, stop, run, hasty, inherited>>

Exit  == main.pc = "exit" /\ Gone
Crash == main.pc # "off" /\ run < MaxRuns /\ Gone

(* SIGINT or SIGALRM: the handler sets stop, without the mutex.  It runs in*)
(* main, or it interrupts a thread that sleeps in TestInterrupt, whose     *)
(* ioctl then fails with EINTR.                                            *)
Signal ==
  /\ main.pc # "off"
  /\ stop' = "quit"
  /\ \/ UNCHANGED thread
     \/ \E b \in Boards :
          /\ thread[b].pc = "ioctl"
          /\ fifo[b] = <<>>
          /\ thread' = [thread EXCEPT ![b].pc = "quit"]
  /\ UNCHANGED <<driver, total, main, mapped, run, hasty, inherited>>

-----------------------------------------------------------------------------
(* data_management *)
Move(b, pc) == thread' = [thread EXCEPT ![b].pc = pc]

(* stop_local = stop, and the loop condition. *)
ReadStop(b) ==
  /\ thread[b].pc = "read"
  /\ Move(b, IF stop = "run" THEN "ioctl" ELSE "quit")
  /\ UNCHANGED <<driver, total, main, stop, mapped, run, hasty, inherited>>

(* TestInterrupt hands out the oldest event, and sleeps if there is none.  *)
(* The raw file is opened; if that fails the event is gone.                *)
TakeEvent(b) ==
  /\ thread[b].pc = "ioctl"
  /\ fifo[b] # <<>>
  /\ fifo' = [fifo EXCEPT ![b] = Tail(@)]
  /\ thread' = [thread EXCEPT ![b] =
       [pc |-> "copy", counter |-> thread[b].counter, event |-> Head(fifo[b])]]
  /\ UNCHANGED <<seq, made, short, total, main, stop, mapped, run, hasty, inherited>>

(* An event that is no DMA event, or a FIFO that was emptied meanwhile:    *)
(* stop is read again.                                                     *)
TakeOther(b) ==
  /\ thread[b].pc = "ioctl"
  /\ seq[b] # "ended"
  /\ Move(b, "read")
  /\ UNCHANGED <<driver, total, main, stop, mapped, run, hasty, inherited>>

(* fopen, the header and the data; on an error the thread gives up. *)
CopyData(b) ==
  /\ thread[b].pc = "copy"
  /\ \/ thread' = [thread EXCEPT ![b] = At("rename", thread[b].counter)]
     \/ thread' = [thread EXCEPT ![b] = At("quit", thread[b].counter)]
  /\ UNCHANGED <<driver, total, main, stop, mapped, run, hasty, inherited>>

(* Mutated: stop is not read again after an event.                         *)
RenameFile_StaleStop(b) ==
  /\ thread[b].pc = "rename"
  /\ LET n == IF total = 0 THEN 0 ELSE thread[b].counter + 1 IN
     thread' = [thread EXCEPT ![b] = At(IF total # 0 /\ n >= total THEN "quit" ELSE "ioctl", n)]
  /\ UNCHANGED <<driver, total, main, stop, mapped, run, hasty, inherited>>

(* rename, counter++, stop_local = stop, the test of the count and then    *)
(* that of the loop condition.                                             *)
RenameFile(b) ==
  /\ thread[b].pc = "rename"
  /\ LET n == IF total = 0 THEN 0 ELSE thread[b].counter + 1 IN
     thread' = [thread EXCEPT ![b] =
       At(IF (total # 0 /\ n >= total) \/ stop = "quit" THEN "quit" ELSE "ioctl", n)]
  /\ UNCHANGED <<driver, total, main, stop, mapped, run, hasty, inherited>>

(* Both ends of the thread set stop for all others. *)
QuitThread(b) ==
  /\ thread[b].pc = "quit"
  /\ Move(b, "ended")
  /\ stop' = "quit"
  /\ UNCHANGED <<driver, total, main, mapped, run, hasty, inherited>>

Thread(b) == ReadStop(b) \/ TakeEvent(b) \/ CopyData(b) \/ RenameFile(b) \/ QuitThread(b)

MainSteps ==
  \/ InitBoard \/ StartBoard \/ CreateThread \/ EnterWait
  \/ (\E b \in Boards : JoinThread(b))
  \/ ReleaseBoard \/ Exit

MeasureNext ==
  \/ ProgramStart \/ MainSteps \/ Crash \/ Signal
  \/ \E b \in Boards : MakeEvent(b) \/ ForgetTail(b) \/ Thread(b) \/ TakeOther(b)

(* main and the threads are scheduled, and running boards make events.     *)
MeasureFairness ==
  /\ WF_vars(MainSteps)
  /\ \A b \in Boards : WF_vars(Thread(b)) /\ WF_vars(MakeEvent(b))

MeasureSpec == MeasureInit /\ [][MeasureNext]_vars /\ MeasureFairness
-----------------------------------------------------------------------------

(* A thread copies from the DMA memory ("Read all data from the shared     *)
(* memory", hpc_threads.c 207) while main may already unmap it             *)
(* (hpc_measure.c 405): this happens only if main skipped the wait loop,   *)
(* after an error or because stop was set before line 350.                 *)
UnmapAfterJoin ==
  \A b \in Boards : thread[b].pc = "copy" /\ ~mapped[b] => hasty

(* A run of the program that comes to its end leaves every board released  *)
(* and its FIFO empty (hpc_measure.c 384-411), whatever failed in it and   *)
(* in whatever state an earlier run that was killed left the driver.       *)
CleanExit ==
  main.pc = "exit" => \A b \in Boards : seq[b] = "free" /\ fifo[b] = <<>>

(* A thread saves events of its own run only: events that a killed run     *)
(* left in the FIFO, which Init does not empty (primary_ai.c 1476 does),   *)
(* reach it only if the board was initialised over that acquisition.       *)
FreshEvents ==
  \A b \in Boards : thread[b].pc = "copy" /\ b \notin inherited => thread[b].event = run

(* Ctrl + C, the alarm, or the end of one thread stops the whole program,  *)
(* unless a thread has to wait for an event that was lost: main looks at   *)
(* stop only after the last join (hpc_measure.c 352-379), and nothing else *)
(* wakes the threads but the events that a board goes on making.           *)
Stranded(b) == b \in short /\ seq[b] = "ended" /\ fifo[b] = <<>> /\ thread[b].pc = "ioctl"
StopEnds ==
  (stop = "quit" /\ main.pc # "off") ~> (main.pc = "off" \/ \E b \in Boards : Stranded(b))

=============================================================================
