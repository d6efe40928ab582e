# A formal model of the EXCESS cluster power measurement tools

The system measures the electrical power of cluster nodes. ADDI-DATA boards
sample voltages and currents; a Linux driver moves the samples by DMA; a
measuring program writes them to raw files; a conversion program turns the raw
files into data files or messages to a monitoring server; scripts start and stop
both programs around batch jobs. This directory holds TLA+ models of the parts
in which these actors interact and of the driver's functions, the TLC runs that
check them, and proofs, for instances of every size, of every safety property
that the passing runs check.

Paths below are relative to `src/power-measurement-system/`; `hpcus` stands for
`driver/100483_HLRS_APCIe-3021_48Kanal_Sientific_Linux64Bit/hpcus`, `drv` for
`hpcus/xpci3xxx/drivers/addidata/xpci3xxx` and `scripts` for
`cluster/opt/power/hpcmeasure/36`, the revision in use.

## Inventory

| Part | Where | State | Operations | Correct if |
|---|---|---|---|---|
| Event FIFO | `drv/interrupt.c` | ring of 256 events, two counters, wait queue | interrupt routine, `TestInterrupt` | every accepted event reaches one caller, in order; nobody sleeps on an event |
| Analog input sequence | `drv/primary_ai.c`, `primary_dma.c`, `analog_input.c`, `interrupt.c` | initialised/started flags, descriptor list, last buffer, board registers | Init, Start, Stop, Release, interrupt routine | each filled buffer is reported once and in order; no NULL list is used; a single acquisition ends |
| DMA memory, descriptor list | `drv/primary_dma.c` | buffers, list of descriptors, controller | allocate, build, start, stop, free | the list covers the buffers in order, each event is whole, memory is freed once |
| Single readings, auto refresh, triggers, gate | `drv/primary_ai.c`, `analog_input.c` | sequence and configuration registers, flags | Init, Start, Stop, Release, Enable/Disable | what runs is what was asked, and can be stopped |
| Timers, counters, watchdogs | `drv/k_*.c`, `primary_tcw.c` | one use per unit, control registers | Init, Start, Stop, Trigger, Release per kind | a unit works as what it was initialised for; an unused one is quiet |
| Digital, TTL, analog outputs | `drv/primary_d*.c`, `primary_ttl.c`, `primary_ao.c` | output word, directions, voltage mode, registers | one command each | what the driver keeps is what the registers have |
| Driver core | `drv/main.c`, `knowndev.c`, `fs.c`, `procfs.c` | list and count of boards, resources, nodes | load, probe, remove, open, ioctl, unload | a board in use is there; a minor number finds its board; nothing is left |
| Measuring program | `hpcus/hpc/hpc_measure.c`, `hpc_threads.c`, `hpc_signals.c` | flag `stop`, threads, mappings | main, `data_management`, signal handler | stops when told, releases the boards, saves events of its own run |
| Raw file spool | `hpc_threads.c`, `hpc_convert.c` | files of a directory | write, rename, scan, convert, remove | no file lost, doubled or half-read; a stop drains |
| Service and scripts | `hpcus/sysfiles/hpcmeasure`, `scripts/*` | lock file, pid files, directories, archive | start, stop, copy | one measurement at a time; the archive is complete; a stop returns |
| Conversion, statistics, upload | `hpc_convert.c`, `hpc_mf.c`, `hpc_curl.c`, `hpc_timespec.c` | sample buffers | per file | numbers |
| Analysis tools, benchmarks, documents | `power_tools`, `benchmarks`, `OS`, `hardware` | none shared | | |

How they interact. The board raises interrupts; `xpci3xxx_do_interrupt`, under
the board's spin lock, turns them into events and wakes the callers of
`TestInterrupt`. The threads of the measuring program are these callers; they
copy samples from memory that the DMA goes on writing, mapped by main and
unmapped by main. A signal or a finished thread sets `stop`, a variable that main
and all threads share. Files under their final names pass to the conversion program,
which shares nothing else with the measurement. The scripts know both programs
by pid files and signals, and the directory by its content.

Hard behaviours: the wait condition that is tested outside the lock; hardware
that changes registers while the interrupt routine reads them; several pending
buffers; overflow; register words that several functions read, change and write
back; allocations and calls that fail half-way; boards that come and go while
programs open them; a stop at any moment; a killed program whose acquisition
runs on in the driver; file names that are used again after a restart; calls of
the service that overlap. `PROJECT.json` lists them line by line as hazards.

## Modules

| Module | Models | Rests on |
|---|---|---|
| `LossyQueue` | what the FIFO promises: a bounded queue that loses what finds no room | |
| `EventFifo` | the FIFO, its callers, the frame of the interrupt routine | refines `LossyQueue` |
| `AiSequence` | the sequence ioctls, the board, the interrupt routine in detail | extends `EventFifo` and refines it |
| `Descriptors` | the list of descriptors as a function of buffer sizes, and its reference | |
| `DmaMemory` | buffers, list, controller over Init, Start, Stop, Release | extends `Descriptors` |
| `Boards` | the families of boards and their functions | |
| `AnalogInput` | all analog input commands on the registers they share | extends `Boards` |
| `Tcw` | register block and board information of a unit | extends `Boards` |
| `Timer`, `Counter`, `Watchdog` | the calls of each kind | extend `Tcw` |
| `TcwBoard` | the three kinds on one board, hardware, interrupt branch, reload | composes the three |
| `PortIo` | digital, TTL and analog outputs, direct port access | extends `Boards` |
| `DriverCore` | load, probe, remove, list of boards, open and ioctl | |
| `Measure` | main, threads, signals, kills, against an abstract driver | |
| `RawSpool` | the directory between the two programs | |
| `MeasureService` | service, start, stop and copy scripts, both programs as processes | |
| `AiSequenceProofs` | theorems about `EventFifo`, then about `AiSequence`, and both composed | extends `AiSequence` |
| `DmaAndPortProofs` | theorems about `DmaMemory`, then about `PortIo` | extends both |
| `AnalogInputProofs`, `TcwBoardProofs`, `DriverCoreProofs`, `MeasureProofs`, `RawSpoolProofs`, `MeasureServiceProofs` | theorems about the module each is named after | extend that module |
| `MCEventFifo`, `MCAiSequence`, `MCAnalogInput`, `MCTcwBoard`, `MCPortIo` | small instances | |

The other modules take numbers and sets of model values as constants and are
checked directly. Operators named `X_...`, or introduced as a variant, are
plausible errors of definition `X`; no run of the models uses them, they show
that the property they are paired with in `PROJECT.json` can fail.

### EventFifo

`irqSource`, `irqData`, `evWrite`, `evRead` are the arrays and counters of the
board data (`privdata.h` 140-145). A source word is the set of its bits; a payload is any
value of `Payload`. The interrupt routine holds the lock from entry to end, so
`isr` says what it has found so far and nobody else touches the ring meanwhile
(`ResetFifo` and `TestInterrupt_Take` require `isr = "out"`). What the lock does
not cover is the condition of `wait_event_interruptible`:
`TestInterrupt_Call` may run at any time and sees the counters half-way through
an interrupt. A call is then: test (`_Call`), sleep or want the lock, test
again and take (`_Take`), return; a signal ends a sleep. `lost` is a
history variable. Putting oneself on the wait queue and testing are one action: this is
what the kernel's macro guarantees. Which slot holds which event is kept as in
the code, the queue appears only in the refinement mapping `QueueOf`.

### AiSequence

The ioctls are one action each, under the lock. The board is a set of actions of
its own: `FillBuffer` advances the DMA and raises a flag, `RaiseStatus` and
`TimerFires` the other interrupts. Because the board does not know the lock, the
interrupt routine is split at every register access: `IsrBegin` reads the
status, `IsrClear` clears flag 0x4, `IsrAddress` reads the DMA address, then
each turn of the loop is a step (`IsrScanQuiet`, `IsrScanEvent`), although the
address is not read again. Flag 0x1|0x2 is `"eos"`, 0x4 `"dma"`, 0x10 `"done"`, 0x20
`"ovf"`. `desc` is the descriptor list: mode and `b_Interrupt` of each
buffer. An event carries pairs of buffer and acquisition cycle; `Newest` says
what a buffer holds when the address is read. History: `upTo` buffers are
reported, `lapped` says that the DMA was a whole ring ahead of them, the one
situation in which data is overwritten before it was reported.

### Descriptors, DmaMemory

`i_xpci3xxx_Create9054DescriptorList` runs over the buffers twice: one descriptor
for each single buffer (the data of one interrupt) if enough of them fit
(`Whole`), else single buffers are split where a buffer ends (`Loop0` and its
steps, the counting and the filling pass). The reference (`ReferenceSplit`)
cuts the memory at every end of a buffer and of a single buffer and knows
nothing of passes. `DmaMemory` makes the input of that function the way the code
does: `Grant` asks kmalloc for less and less, buffers may be refused, may not lie in one
piece, the blocks of the list or the control structure may not be granted; every
error path is a step that frees what the code frees. Blocks are numbers and
kmalloc hands out the lowest one, so that a dangling number means another owner.
The controller loads a descriptor, follows the chain, ends or runs on
(`NOWHERE`). History: `unlisted`, `wrong`.

### AnalogInput

One action per command; the arguments are refused in the code's order, with the
code's numbers. `scan` and `config` are the two arrays of the board, `acq` the sequence
configuration with its counters, `trigger` both triggers and the gate. What a
call reads of a register, changes and writes back is a field it leaves alone.
Releasing an auto refresh takes the lock twice (`drv/analog_input.c` 333-358) and is two
steps with `releasing` in between. History: `kind` is what was started last,
`asked` what its set-up asked for, given up (`NONE`) when another call changes
the configuration legally.

### Boards, Tcw, Timer, Counter, Watchdog, TcwBoard

`Boards` is `xpci3xxx_init_priv_data`: which kinds each of the three units of a
family can be, where its registers are. A capability the function does not assign has the
value the memory had, since `memset` clears only the size of a pointer
(`drv/privdata.h` 224); `can` is chosen when the board is probed. A control
register is a record of its bits, and the masks of `primary_tcw.c` are
updates of the record. Some families have several units on one register block: `Block`.
`TcwBoard` adds the hardware (`Elapses`), the branch of the interrupt routine
with the register word it tests by mistake, and a reload of the driver, which
forgets the board information but not the registers.

### PortIo

`priv.word` is the one output word of the driver, `ports` the registers, each a
set of bits. Reads are operators over the registers, compared with the
word. `known` records which calls were made since the driver was loaded: before
them the driver cannot know the registers.

### DriverCore

Probe and remove are split into the steps other code can see (regions, private
data, interrupt, count, node, list); the kernel runs one of them at a time and
opens and ioctls come in between. Private data is memory at an address with
content that stays after kfree, and a list of boards is walked through that
memory as `knowndev.c` does. Two facts about the kernel this driver was built for
(2.6.32) are assumed: `pci_get_drvdata` keeps its value, and unloading removes
boards last-bound first.

### Measure

Each board has an acquisition in the driver (`free`, `ready`, `running`,
`ended`) and a queue of events, each with the run of the program that acquired it: this is
what `AiSequence` and `EventFifo` leave of the driver for its user. `MakeEvent`
loses an event when the FIFO is full, `ForgetTail` ends a single acquisition with events that
were never queued; `short` remembers both. main is its
program counter with the board it works on; every call that can fail has a
branch to the label `error`. `stop` is read and written where the code does, a
signal writes it without the mutex and may interrupt one sleeping thread.
`Crash` takes the process away and leaves the driver as it is
(`xpci3xxx_release_lookup` does not stop anything), and the program starts again.

### RawSpool

The directory is a function from names (board, counter) to what the files hold
(name and run). Writing is split into the temporary file and the rename; the
conversion into scan, open, convert, remove and the second scan after a stop.
Both programs end, fail and start again; a measurement counts from 0 again.

### MeasureService

Two callers, the batch system (prologue and epilogue) and a user, call start and
stop in any order; every call is a process that runs its script command by
command. `place` says where each raw file or its data are; lock and pid files are variables
of their own, but lie in the directory of the data: `CleanPower` removes and
`CopyMove` takes them along with it. `Drain` is the loop of stop with its limit `Patience`
(120 in the script). The two programs are what `Measure` and `RawSpool` say of
them: they write, rename and convert, end on SIGINT, may die at any time, and
may not heed the signal (`"deaf"`): because of a thread that waits for a lost event, or because
a background command of a script ignores SIGINT until it has set its handler.

## Runs

| Run | Bounds | Shows |
|---|---|---|
| `EventFifo` | ring of 3, two callers, two source words, two payloads | `FifoTypeOK`, `WaitingEventsIntact`, `NoLostWakeUp`, `SleeperServed`, refinement `ImplementsQueue` |
| `EventFifoLoss` | one caller | violated: `LossReported` |
| `AiSequence` | one list of three buffers (events of two and of one), one ring of two, three filled buffers, one start, one timer interrupt, FIFO of 2; payloads are the buffer lists these lists can report | `AiTypeOK`, `DescriptorPresent`, `NothingForgotten`, `ReportsInOrder`, `SingleEnds`, `UsesFifo` |
| `Dma` | single buffers of 1 to 4 words, 0 to 4 of them, 3 sizes per allocation, 4 buffers, 9 blocks, 3 list blocks | `ListIsReference`, `EventsAreWhole`, `NothingLeaks`, `TransfersIntoMemory` |
| `DmaChain` | as above | violated: `ChainEnds` |
| `AnalogInput` | three families, two positions, three single readings, four plans | `AcquiresAsAsked`, `SourcesFit`, `CanBeStopped`, `RunningUndisturbed` |
| `Tcw` | four families, a valid and an invalid value of every argument | `TcwTypeOK`, `UnusedUnitsQuiet`, `ModeOfUse`, `TimerReportsEnabled`, `TriggeredOnRequest` |
| `PortIo` | three families, three words, two analog outputs, all modes and directions and an invalid one | `StatusIsWord`, `ValuesFitMode` |
| `DriverCore` | two boards, two addresses, one file | `BoardsInUseAreThere`, `LookupIsMinor`, `EntriesMatchBoards` |
| `Measure` | two boards, continuous and single (two events), one waiting event, two starts | `UnmapAfterJoin`, `CleanExit`, `FreshEvents`, `StopEnds` |
| `RawSpool` | two boards, two files each, four files in all, two starts of each program | `NothingVanishes`, `OnceUnlessFailed`, `BoardOrder`, `StopDrains` |
| `MeasureService` | two callers, two starts, one raw file each, one second of patience | `OneMeasurement`, `ArchiveComplete`, `StopReturns` |

Why these bounds. A ring of three holds two events, enough to wrap with one
waiting and to overflow; the theorems then cover every size. Two callers are
enough for one to take the event that woke the other. Three buffers make an
event of two, an event of one, and both pending at once; a ring of two filled
three times laps once and reuses a buffer. One timer interrupt can
coincide with any step of the interrupt routine. Four buffers with single
buffers of up to four words give every remainder, a single buffer over several
buffers and several in one, and lists on both sides of the number of blocks.
Two positions are the least on which two plans overlap without being the same;
one of the plans is out of the order of its channels, one counts, one names a channel that is not there when
the inputs are differential. The four families of `Tcw` have one, two and three kinds per unit,
units on a common register block, and capabilities nobody assigns; numbers 1 and 3 select a unit that
exists and one that often does not. Two boards
are the least with a first and a last one in the list of the driver, or with a thread that stops another; as many
addresses as boards make every freed address used again. Two starts are the least with a restart, which
names files again and finds what the first left behind. The constant `Disciplined` of `AiSequence` keeps
callers to the order of calls that the header asks for (Release before another
Init, one Start per Init), `Again = FALSE` does the same for `DmaMemory`;
`AnalogInput` has no such restriction.

`CHECK_DEADLOCK FALSE` stands where the modelled world may come to an end: the
bounds on starts in `Measure`, `RawSpool` and `MeasureService`, and in
`DriverCore` a walk through a list of boards that leads back into itself, in which the
kernel hangs.

Several properties except a situation that they name; what the code does in it is
among the observations below: `LookupIsMinor` removals out of order and refused
interrupts, `BoardsInUseAreThere` calls after a removal and refused interrupts,
`NothingLeaks` lists that could not be built, `UnmapAfterJoin` a main
that left through `error`, `OneMeasurement` and `ArchiveComplete` a start beside another call
(`clash`), `StopEnds` and `StopReturns` what they wait for without limit.

### What the violated runs show

- `EventFifoLoss`: the FIFO documents a code "FIFO is Full" that no caller can
  ever get (`drv/interrupt.c` 487-490, 699-704).
- `DmaChain`: the end of the chain is written into the last block there could be
  instead of the block of the last descriptor; for lists of more descriptors
  than blocks the chain has no end (`drv/primary_dma.c` 1260).

### Observations

Met while modelling; the models have this behaviour, and no document of the
repository contradicts it or it concerns data that is not modelled.

- At the end of a single acquisition all pending events but the first are
  dropped (`drv/interrupt.c` 539); a measuring thread then waits for a count that
  never comes, and main for the thread (`hpc_measure.c` 352-379).
- A second Init of an initialised sequence overwrites the list and the noted
  buffers of the first, or leaves an initialised sequence without list if it fails (`drv/primary_ai.c` 1218-1226).
- A list that cannot be built leaves memory behind: the error paths free
  with the index of another loop (`drv/primary_dma.c` 793).
- An event of more than 16 buffers runs over `dw_SequenceArray` (`drv/interrupt.c`
  441); the reader steps through the buffers of an event by 4 words where the driver writes 6
  (`hpc_threads.c` 213).
- Removing the first board leaves the head of the list in freed memory
  (`drv/knowndev.c` 85); after a removal out of order two boards share a minor number
  (`drv/main.c` 434); a board whose interrupt was refused is kept with freed private
  data (`drv/main.c` 276).
- The removal of the driver disables the gate with a level that the call refuses
  (`drv/main.c` 156), so the gate stays on; a single reading started between the end of a counted sequence and
  its interrupt is stopped by the routine (`drv/interrupt.c` 503).
- A unit that was a counter keeps the counter mode as a watchdog; the output
  level of a timer is not the one asked for when it was set before.
- The filter of the digital inputs is looked for behind base address 2 on all
  boards; the xPCI-3501 has it behind base address 1 (`drv/primary_di.c` 134).
- A timer, counter or watchdog interrupt that coincides with a DMA interrupt is acknowledged but
  not queued (`drv/interrupt.c` 682).
- The first board that is done with a single acquisition stops the threads of all
  (`hpc_threads.c` 280).
- Not the oldest raw file is converted first, but the first in version order
  (`hpc_convert.c` 159).
- The lock of the service is created after the measurement was started and is
  moved into the archive before the archive is packed: two starts at once, or a start during
  an archive, pass it, and an epilogue that finds no pid files removes it (`hpcmeasure` 59-67, 85;
  `scripts/copy_hpcmeasure_addi.sh` 86). A stop of the user does not archive, and the epilogue
  then finds no lock: data of that job is removed by the next start.

## Fairness

- The interrupt routine runs to its end (weak): it does not block.
- A runnable caller gets the processor (weak), and the spin lock (strong on
  `TestInterrupt_Take`): the lock is a ticket lock of the kernel this system runs
  on, and the routine holds it only while it runs, so a caller that
  waits is served although the lock is taken again and again.
- The board goes on filling buffers of a started sequence, and a raised
  interrupt is delivered (weak).
- main, the threads of the measurement and the conversion program are scheduled
  (weak), and so is every script; a program that heeds SIGINT ends, and a converter that runs
  converts. Nobody is obliged to send a signal, to call the service, to start a
  program or to kill one, and no event other than those of the board is assumed.

`Tcw`, `AnalogInput`, `PortIo`, `DmaMemory` and `DriverCore` state safety only:
their calls end, and nothing in them waits.

## Proofs

The runs show each property on a small instance; the theorems below, which the
TLA+ proof system checks, hold for every value of the constants that meets the
assumptions. No theorem assumes more than the assumptions named with it, which TLC
evaluates on the runs. Every strengthening was checked by TLC as an invariant
before it was proved, but for `Built`, whose quantifier TLC cannot enumerate; what
it is for, `EventsAreWhole` in any order of calls, was. Two invariants are called `Orderly`; each belongs to its
module.

| Module | Theorem | States | Inductive invariant |
|---|---|---|---|
| `AiSequenceProofs` | `Typing`, `Integrity` | `FifoTypeOK`, `WaitingEventsIntact` | `Intact` |
| | `WakeUps` | `NoLostWakeUp` | `Intact`, `WakeUpDue` |
| | `RefinesQueue` | `ImplementsQueue` | `Intact` |
| | `AiInvariant` | the invariant itself | `AiInv` |
| | `SequenceTyping`, `DescriptorIsThere`, `NoBufferForgotten` | `AiTypeOK`, `DescriptorPresent`, `NothingForgotten` | `AiInv` |
| | `InOrderOfFilling` | `ReportsInOrder` (action property) | `AiInv`, `FifoTypeOK` |
| | `SequenceUsesFifo`, `SequenceImplementsQueue` | `UsesFifo`, and with it `ImplementsQueue` | `AiInv` |
| `AnalogInputProofs` | `AnalogInvariant`, `SetUpIsAcquired`, `SourcesOfKind`, `Stoppable` | itself, `AcquiresAsAsked`, `SourcesFit`, `CanBeStopped` | `AnalogInv` |
| | `NothingDisturbs` | `RunningUndisturbed` (action property) | `AnalogInv` |
| `TcwBoardProofs` | `TcwInvariant`, `TcwTyping`, `ReleasedIsQuiet`, `UseFixesMode` | itself, `TcwTypeOK`, `UnusedUnitsQuiet`, `ModeOfUse` | `TcwInv` |
| | `OnlyEnabledTimers` | `TimerReportsEnabled` | `TcwInv` |
| | `NoStrayTrigger` | `TriggeredOnRequest` (action property) | `TcwInv` |
| `DmaAndPortProofs` | `EnabledIntoMemory` | `TransfersIntoMemory` | `DmaInv` |
| | `InterruptsAreWhole` | `EventsAreWhole` | `DmaInv`, `Built` |
| | `MemoryComesBack`, `ListsAreCuts` | `NothingLeaks`, `ListIsReference` | `OrderedInv` |
| | `StatusAndDirection`, `AnalogValues` | `StatusIsWord`, `ValuesFitMode` | `PortInv` |
| `DriverCoreProofs` | `NothingStays` | `EntriesMatchBoards` | `Place`, `Entries` |
| | `InterruptsFindBoards`, `MinorsFindBoards` | `BoardsInUseAreThere`, `LookupIsMinor` | `CoreInv` |
| `MeasureProofs` | `Order`, `NoCopyFromUnmapped`, `ExitIsClean`, `EventsAreFresh` | itself, `UnmapAfterJoin`, `CleanExit`, `FreshEvents` | `Orderly` |
| `RawSpoolProofs` | `NoFileVanishes` | `NothingVanishes` | `Kept` |
| | `NothingTwice`, `InOrderOfWriting` | `OnceUnlessFailed`, `BoardOrder` | `Kept`, `Fresh`, `Ordered` |
| `MeasureServiceProofs` | `OneAtOnce` | `OneMeasurement` | `Types`, `Begun`, `Single` |
| | `ArchiveMissesNothing` | `ArchiveComplete` | and `Saving`, `Archived` |

### Event FIFO

For every `FifoSize >= 2`, every set of callers, source words and payloads
(`FifoAssumption`).

`Live`, the slots from `evRead` up to `evWrite`, is a window on the
ring. `NextSlot`, `Distance`, `InWindow` turn the modulus into comparisons;
`WindowPush` says that a push adds exactly the slot at `evWrite`, which was not
in the window before, `WindowTake` that a take only removes. From these,
`Intact`, the conjunction of type invariant and integrity, is inductive: neither
half is alone, since the answer of a caller has its type because the slot it
was copied from was intact, and the mark of an overflow stays out of the window
because the counters are in range. `NoLostWakeUp` speaks of a routine that is out
and is not inductive, since the routine may leave without waking anybody; `WakeUpDue` also covers
`"entered"`, the only place from which it may, and there nothing
was queued yet.

The refinement is a step simulation. `QueueOf` builds the abstract queue from the
ring; `QueueSame` says that it depends on the slots of the window only,
`QueuePush` that it grows by the event written at `evWrite`, `QueueTake` that it
loses the one at `evRead`, `QueueEmpty` what a reset leaves. With them every step
of `FifoNext` is a step of the queue or leaves it alone (`NextRefines`): the
routine's counting, waking and leaving, and a caller's sleeping, are stutters, an
overflow is the queue's loss.

### Analog input sequence

For every set of lists and rings, any bound on buffers, starts and timer
interrupts (`AiAssumption`: lists are not empty, the last descriptor of a single
acquisition interrupts, as `drv/primary_dma.c` 1123-1137 builds them, `NoDesc` is
no list, and the payloads contain every list of buffers), under `Disciplined`, the order of
calls that the header asks for.

The hard part is that the board goes on filling while the routine scans with an
address it read once. `AiInv` has four parts. `Types` gives every local of the
routine its range. `Acquisition` ties list, flags and count of filled buffers: a
sequence that is started has its list, and the count of a single acquisition
does not exceed it. `Routine` says what the routine knows at each place: at the
scan, what it has collected are consecutive buffers, the first of them the one after
the last reported (or a later one, once the board has lapped it), none beyond the
address it read (`Collected`), and a flag is raised again if buffers were filled
after the address was read. `Accounted` says that what was filled and not
reported is either still to be scanned, announced by a flag, or an incomplete group,
unless the board lapped the routine. `NothingForgotten` is the last part seen when the routine is
out. Positions on a ring are remainders; `Remainder`, `SameRest`, `NextRest` and
`NewestIs`, proved from the division property alone, let the provers compare
cycles without arithmetic on `%`.

Each step of the sequence is a step of the FIFO or leaves its variables alone
(`FifoStep`: what is queued is a payload because it is a list of buffers of the
list). With the FIFO's own refinement follows that the whole sequence with its
routine implements the abstract queue, without proving anything about the queue again.

### Analog input commands

For every set of families and plans, with the positions a finite set of numbers
(`PositionsAssumption`) and the arguments of callers within them
(`CallersAssumption`). The three properties are inductive only together and with
the types of the registers: `SourcesFit` needs `CanBeStopped` when the driver is
removed, since removal stops only what it takes to be started, and
both need to know which fields a register has. `SetUp` and `Untouched` say once what a set-up writes and what a
command that fails leaves.

### Timers, counters and watchdogs

For every set of families, unit numbers (`TcwAssumption`: natural numbers) and
edges (`TimerAssumption`: two bits). The calls of all three kinds fall into three classes of step,
proved once each to preserve `TcwInv`: initialisation (`InitStep`), a call on a
unit that is in use and stays what it is (`InUseStep`), release (`ReleaseStep`).
The rest of the proof shows which class a call is in; the hardware, the interrupt
branch and the reload are cases of their own. Which unit a block belongs to, and that a unit with a block of its own
shares it with nobody, are the lemmas about numbering.

### DMA memory and descriptor list

For every size and number of single buffers, every bound on blocks, buffers and
sizes (`DmaAssumption`: natural numbers, at least one attempt at an allocation,
and `NULL` is neither a request nor a list) and of the blocks of a list
(`DescriptorsAssumption`). Two theorems need no order of calls.
`EnabledIntoMemory`: `Held` says that what a used list consists of is allocated,
and that a transfer is enabled only for a started sequence, whatever was
initialised twice before. `InterruptsAreWhole`: `Built` says that the list was
laid over some division of memory, if not the one noted now. The other two are
stated for `~Again`, the order of calls that the header asks for; without it
they are false, as the observation about a second Init says, and TLC finds
counterexamples with `Again = TRUE`. There `Accounted` says that the allocated blocks are
those noted, once each, at every step of an Init. This rests on kmalloc handing
out blocks that are free and differ from one another (`FreshIsFree`): the
model picks the n-th lowest free block by counting those below it, and counting
is one-to-one from the free blocks to their ranks, therefore onto.

`Laid` says that the list is the value of `Pieces` for the buffers and the
request; what that value is, is proved about `Descriptors` alone, for every
division of memory. `Covers` describes a list in the terms of neither pass nor reference: its
descriptors follow one another without a gap, each lies in one buffer and
between two neighbouring cuts, and it interrupts exactly if it ends at a
multiple of the single buffer. Three things then meet in it:

- the first pass covers the memory, if it gives enough descriptors: it gives at
  most one for each single buffer, so if none is missing, no buffer had a rest
  (`WholeFills`, `WholeCuts`);
- the second covers it step by step: `LoopOk`, the invariant of the loop, says
  that what is left of a buffer ends at the buffer's end and what is left of a
  single buffer at a multiple (`IterateKeeps`, `SplitCovers`), and the number of
  steps that the model allows is enough, since each places a word at least;
- the reference is the only list that covers: the descriptors before
  the i-th begin at the i - 1 least cuts (`Ranks`, `CutsBound`,
  `CoversIsReference`).

`EventsAreWhole` follows from `Covers` directly (`CoversEvents`).

Sums, passes and loop are recursive functions. `Recursion` shows that a function
given by a step from each number to the next exists, `Induction` that a set
which contains 0 and the successor of each member contains every number up to a bound; both are about sets
and functions, not operators, and follow from `Least` (below, raw file spool).
Division is handled by its defining property alone (`Division`, `IsMultiple`, `NoneBetween`).

### Digital, TTL and analog outputs

For words of up to 32 lines and every set of values, modes and directions
(`PortAssumption`). A bit of the output word belongs to several kinds of port, and families differ in
which they have. `PortsKnown` therefore says port by port what each fact in `known` has
settled; with the types it is inductive, and the words and directions of the two properties follow.

### Driver core

For every finite set of boards, any addresses and any files
(`DriverAssumption`: there is a board, and `NULL` is none). `Place` says which
step of a probe or removal can meet which boards; `Entries` that whatever exists
of a board belongs to one that is present, with the count one ahead or behind in the
middle of a step. `Owned`: unless an interrupt was refused, boards that are present have
memory of their own and what their steps have left them. `Chain`: unless boards
were removed out of order, the list in memory is the boards of the driver in
their order, linked both ways, with minor numbers counted from 0; this needs
`Owned`, since a write to the memory of one board must not touch
another's. `Opened` follows what files refer to. The exceptions, `refused` and
`outOfOrder`, are those of the properties.

The code walks the list through memory, and the walk is a recursive function of the
number of steps. Lemma `NthIsWalked` shows first that a function with its
equation exists and then unfolds it; `NthOfList`, that the n-th board of the walk is the
n-th of the sequence, by a least counterexample; `ListFits`, by the
pigeonhole principle, that a list without repetitions is no longer than there
are boards, so that the walk ends before the model takes it to be endless. Where
the definition of such a function is used, the proof asks for Zenon: the
translation for SMT solvers takes a `CHOOSE` that is given by an equation to
satisfy it, whether or not anything does.

### Measuring program

For every number of boards, bound of the FIFO, count of a single acquisition and number of starts
(`MeasureAssumption`: at least one board, room for at least one event). `Orderly` says what holds at each place of main:
`Joined`, which threads can be alive given how far main has come in creating or joining
them; `Released`, which boards were released and are clean; `OwnEvents`, whose
events queue and threads hold. A kill is the hard step: it takes the program
from any place and leaves the driver, so `OwnEvents` must say about boards that
nobody owns what the next Init finds on them.

### Raw file spool

For every number of boards, files, and starts of both programs
(`SpoolAssumption`). `Kept` says that files are told apart by name and run,
that directory and converter hold saved files only, and that none
vanishes. `Fresh` gives `OnceUnlessFailed`: in its first run the converter finds
nothing in the directory that it has put out, but the file it is about to
remove. `Ordered` gives `BoardOrder`: what was converted precedes what is in
work, and this what is in the directory. Here the converter's choice matters, the
first file in version order. It is modelled by `CHOOSE`, which means something
only if a first one exists; that every set of natural numbers that is not empty has a
least member is lemma `Least`, proved without induction: the lower bounds of the set are finitely many;
if none of them were a member, each could be raised by one, which would inject all of them into those
other than 0 (the pigeonhole principle of the library's finite sets).

### Service and scripts

For every number of starts and files and every patience (`ServiceAssumption`),
for the two callers of the model. `Single` says that, while no start slipped past
the lock (`~clash`), only the last measurement runs, a start is alone and finds
nothing running, what runs is locked and in the pid files, and a
stop that has come past its first wait has ended the measurement, past its
second the converter. The hypothesis is the situation that the property itself
excepts and that the observation above describes: a start beside another call
need not be alone, and nothing that rests on its being alone holds after it. `Archived` follows the files: while a stop copies, none of the
last measurement's files was removed, and after the drain each is in the archive, on its way, or
was left by the patience running out.

## Only model-checked

- All liveness: `SleeperServed`, `SingleEnds`, `StopEnds`, `StopDrains`,
  `StopReturns`. Fairness is beyond the prover.
- That the properties of the two violated runs fail: their traces are the
  evidence.
- That the constants of a run meet the assumptions of the theorems: TLC evaluates
  them.

Every safety property of a passing run is stated by a theorem.

## Plan

All components listed as modelled or partly modelled have their modules, and all
safety properties their theorems. Left: repeated starts of one initialised
sequence in `AiSequence`, with the buffer the reports then begin at
(`drv/primary_ai.c` 1351).

## Not modelled

- Register offsets, conversion of times into reload values and of samples into
  volts, and the reading commands that change no register.
- The callback and the asynchronous signal of the interrupt routine (no user in
  these programs), the kernel interface `i_xpci3xxx_TestInterrupt`, and the time
  stamps of events.
- The mutex around `stop`: its critical sections are one read or write each.
- The buffers of one event as separate steps in the measuring thread, and the
  layout of the event array.
- The dispatch table of ioctl and the text of the entries under `/proc`: neither keeps state.
- Statistics, file formats, configuration files, jitter measurement and firmware update:
  sequential code over data and files of their own. Upload: formatting and HTTP; a failed upload
  changes nothing in the programs modelled.
- The AC variants of the conversion and of the scripts repeat the modelled ones on
  other directories; the dreamcloud and movidius scripts are callers of the service.
- Analysis tools in Fortran, benchmarks, example programs, profiles, hardware and
  operating system documents: they share no state with the measurement.
