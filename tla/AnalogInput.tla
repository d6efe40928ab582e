----------------------------- MODULE AnalogInput -----------------------------
(***************************************************************************)
(* The analog input of one board, seen from its registers (primary_ai.c,   *)
(* analog_input.c, iomap/analog_input.h): single readings, auto refresh    *)
(* and sequences, which share one set of registers, the triggers and the   *)
(* gate, for any number of callers.  A command runs under the board's      *)
(* lock, so it is one step; releasing an auto refresh takes the lock twice *)
(* and is two.  What a sequence does with its DMA memory and its events is *)
(* in AiSequence and DmaMemory.                                            *)
(***************************************************************************)
EXTENDS Boards, Sequences, FiniteSets, SequencesExt

CONSTANTS
  NONE,
  Families,   \* the families of boards
  Positions,  \* the entries of the board's arrays that are used
  Ranges,     \* the valid pairs of a gain and a polarity
  Singles,    \* what callers ask of a single reading: [channel, diff, range]
  Plans,      \* what they ask of the others: [list, ranges, diff, number, delay, every]
  Times,      \* convert times in microseconds
  Flags, Levels, Actions   \* of the triggers and the gate

ASSUME PositionsAssumption == Positions \subseteq Nat /\ IsFiniteSet(Positions)

(* The numbers in what callers ask for are unsigned, and the positions are *)
(* all those that what they ask for uses.                                  *)
ASSUME CallersAssumption ==
  /\ \A s \in Singles : s.channel \in Positions
  /\ \A p \in Plans : /\ p.list \in Seq(Nat) /\ 0 .. Len(p.list) - 1 \subseteq Positions
                      /\ p.number \in Nat
  /\ Times \subseteq Nat

SINGLE == 0
DIFFERENTIAL == 1
ENABLE == 1
DISABLE == 0
LOW == 1
HIGH == 2

VARIABLES
  board,      \* the family and the number of analog inputs
  scan,       \* the sequence array: the channel to acquire at a position
  config,     \* the configuration array: range and mode of a position
  acq,        \* sequence configuration, counters and convert time
  trigger,    \* hardware and software trigger and the gate
  ended,      \* the interrupt status of the last DMA transfer
  priv,       \* the driver's board information
  releasing,  \* callers between the two steps of a release
  kind,       \* history: what was started last
  asked       \* history: what its Init or Start asked, if nothing came between

analogVars == <<board, scan, config, acq, trigger, ended, priv, releasing, kind, asked>>

Channels(d) ==
  IF board.family.input.seDiff /\ d = DIFFERENTIAL
  THEN board.channels \div 2 ELSE board.channels

(* The modes a board may be asked for. *)
ValidDiff(d) == d \in {SINGLE, DIFFERENTIAL}
SupportedDiff(d) == board.family.input.seDiff \/ priv.diff = d

(* Only microseconds are modelled: nanoseconds and seconds are supported   *)
(* by some boards, and the same tests are made of them.                    *)
ValidTime(t) ==
  board.family.input.convert # 0 /\ t >= board.family.input.convert /\ t <= 65535
ValidDelay(mode, t) ==
  \/ mode = DISABLE
  \/ /\ mode \in {1, 2}
     /\ board.family.input.delay # 0 /\ t >= board.family.input.delay /\ t <= 65535

Idle == [first |-> 0, last |-> 0, continuous |-> FALSE, delay |-> 0, start |-> FALSE,
         irq |-> FALSE, dma |-> FALSE, count |-> 0, transfers |-> 0, time |-> 0]
NoTrigger == [hardware |-> NONE, software |-> NONE, gate |-> NONE]
NewPriv(f) ==
  [ready |-> {}, diff |-> IF f \in {xPCI3002, xPCI3002Audi} THEN DIFFERENTIAL ELSE SINGLE,
   refresh |-> FALSE, sequence |-> FALSE, started |-> FALSE, dma |-> FALSE, finite |-> FALSE]

AnalogInit ==
  /\ board \in {[family |-> f, channels |-> n] : f \in Families, n \in 0 .. 16}
  /\ board.channels \in board.family.input.channels
  /\ scan = [p \in Positions |-> 0]
  /\ config = [p \in Positions |-> NONE]
  /\ acq = Idle
  /\ trigger = NoTrigger
  /\ ended = FALSE
  /\ priv = NewPriv(board.family)
  /\ releasing = FALSE
  /\ kind = NONE
  /\ asked = NONE

(* A call that returns an error, or only reads, changes nothing. *)
Returns(code) == code # 0 /\ UNCHANGED analogVars
Started == acq.start
arrays == <<scan, config>>
history == <<kind, asked>>

-----------------------------------------------------------------------------
(* Single readings. *)

ValidSingle(s) ==
  /\ ValidDiff(s.diff) /\ SupportedDiff(s.diff)
  /\ s.channel < Channels(s.diff)
  /\ s.range \in Ranges

InitAnalogInput(s) ==
  \/ ~ValidSingle(s) /\ Returns(2)
  \/ ValidSingle(s) /\ Started /\ Returns(6)
  \/ /\ ValidSingle(s) /\ ~Started
     /\ config' = [config EXCEPT ![s.channel] = [range |-> s.range, diff |-> s.diff]]
     /\ scan' = [scan EXCEPT ![s.channel] = s.channel]
     /\ priv' = [priv EXCEPT !.diff = s.diff, !.ready = @ \cup {s.channel}]
     /\ asked' = NONE
     /\ UNCHANGED <<board, acq, trigger, ended, releasing, kind>>

(* The sequence configuration is written as a whole: one cycle of one      *)
(* position, without delay, interrupt or DMA.  The interrupt status is     *)
(* left as it is.                                                          *)
StartAnalogInput(c, t) ==
  LET valid == c < Channels(priv.diff) /\ c \in priv.ready /\ ValidTime(t) IN
  \/ ~valid /\ Returns(2)
  \/ valid /\ Started /\ Returns(6)
  \/ /\ valid /\ ~Started
     /\ scan' = [scan EXCEPT ![c] = c]
     /\ acq' = [Idle EXCEPT !.first = c, !.last = c, !.start = TRUE, !.count = 1,
                            !.time = t, !.transfers = acq.transfers]
     /\ kind' = "single"
     /\ asked' = [at |-> c, list |-> <<c>>, config |-> NONE, continuous |-> FALSE, count |-> 1]
     /\ UNCHANGED <<board, config, trigger, ended, priv, releasing>>

SingleCommands ==
  \/ \E s \in Singles : InitAnalogInput(s)
  \/ \E s \in Singles, t \in Times : StartAnalogInput(s.channel, t)

-----------------------------------------------------------------------------
(* What auto refresh and sequence have in common. *)

ValidPlan(p) ==
  /\ ValidDiff(p.diff) /\ SupportedDiff(p.diff)
  /\ Len(p.list) \in 1 .. Channels(p.diff)
  /\ \A i \in 1 .. Len(p.list) : p.list[i] < Channels(p.diff)
  /\ ToSet(p.ranges) \subseteq Ranges
  /\ ValidDelay(p.delay.mode, p.delay.time)

(* Both arrays are written at the position in the list, from 0 on. *)
Configured(p) ==
  [i \in Positions |-> IF i < Len(p.list) THEN [range |-> p.ranges[i + 1], diff |-> p.diff]
                                          ELSE config[i]]
Scanned(p) == [i \in Positions |-> IF i < Len(p.list) THEN p.list[i + 1] ELSE scan[i]]
InitializeChannels(p) == config' = Configured(p) /\ scan' = Scanned(p)

(* Positions, number of cycles and mode: continuous if the number is 0.    *)
(* Variant: only the last position is set. *)
SetPositions_Last(a, p) == [a EXCEPT !.last = Len(p.list) - 1, !.delay = p.delay.mode]
SetPositions(a, p) ==
  [a EXCEPT !.first = 0, !.last = Len(p.list) - 1, !.delay = p.delay.mode]
SetCycles(a, p) == [a EXCEPT !.continuous = p.number = 0, !.count = p.number]

Asked(p, continuous, count) ==
  [at |-> 0, list |-> p.list,
   config |-> [i \in 1 .. Len(p.list) |-> [range |-> p.ranges[i], diff |-> p.diff]],
   continuous |-> continuous, count |-> count]

-----------------------------------------------------------------------------
(* Auto refresh. *)

InitAutoRefresh(p) ==
  \/ ~ValidPlan(p) /\ Returns(3)
  \/ ValidPlan(p) /\ Started /\ Returns(10)
  \/ /\ ValidPlan(p) /\ ~Started
     /\ InitializeChannels(p)
     /\ acq' = [SetCycles(SetPositions(acq, p), p) EXCEPT !.dma = FALSE, !.transfers = 0]
     /\ priv' = [priv EXCEPT !.refresh = TRUE]
     /\ asked' = Asked(p, p.number = 0, p.number)
     /\ UNCHANGED <<board, trigger, ended, releasing, kind>>

(* Variant: the interrupt of an earlier sequence stays enabled. *)
Refreshing_Irq(a, t) == [a EXCEPT !.dma = FALSE, !.start = TRUE, !.time = t]
Refreshing(a, t) == [a EXCEPT !.dma = FALSE, !.irq = FALSE, !.start = TRUE, !.time = t]
StartAutoRefresh(t) ==
  LET valid == priv.refresh /\ ValidTime(t) IN
  \/ ~valid /\ Returns(2)
  \/ valid /\ Started /\ Returns(5)
  \/ /\ valid /\ ~Started
     /\ acq' = Refreshing(acq, t)
     /\ ended' = FALSE
     /\ kind' = "refresh"
     /\ UNCHANGED <<board, arrays, trigger, priv, releasing, asked>>

(* Whatever runs is stopped. *)
StopAutoRefresh ==
  \/ ~priv.refresh /\ Returns(2)
  \/ /\ priv.refresh
     /\ acq' = [acq EXCEPT !.dma = FALSE, !.irq = FALSE, !.start = FALSE]
     /\ ended' = FALSE
     /\ UNCHANGED <<board, arrays, trigger, priv, releasing, history>>

(* The release command first stops and then, with the lock taken anew,     *)
(* releases if nothing was started in between.                             *)
ReleaseStops ==
  /\ ~releasing
  /\ \/ ~priv.refresh /\ Returns(2)
     \/ /\ priv.refresh
        /\ acq' = [acq EXCEPT !.dma = FALSE, !.irq = FALSE, !.start = FALSE]
        /\ ended' = FALSE
        /\ releasing' = TRUE
        /\ UNCHANGED <<board, arrays, trigger, priv, history>>

(* Variant: what runs is not looked at. *)
ReleaseAutoRefresh_Running == priv.refresh
ReleaseAutoRefresh == priv.refresh /\ ~Started
ReleaseAutoRefreshEnds ==
  /\ releasing
  /\ releasing' = FALSE
  /\ priv' = IF ReleaseAutoRefresh THEN [priv EXCEPT !.refresh = FALSE] ELSE priv
  /\ UNCHANGED <<board, arrays, acq, trigger, ended, history>>

AutoRefreshCommands ==
  \/ \E p \in Plans : InitAutoRefresh(p)
  \/ \E t \in Times : StartAutoRefresh(t)
  \/ StopAutoRefresh
  \/ ReleaseStops
  \/ ReleaseAutoRefreshEnds

-----------------------------------------------------------------------------
(* Sequences: p.every is the number of sequences for each interrupt, 0     *)
(* without DMA.                                                            *)

UsesDma(p) == p.every # 0
ValidCombination(p) ==
  UsesDma(p) =>
    /\ p.number # 0 => p.number >= p.every /\ p.number % p.every = 0
    /\ (p.every * Len(p.list)) % 2 = 0

(* With DMA the board acquires continuously, and the transfers are counted *)
(* (as 32 bit words); their count is 0 for an endless sequence.            *)
InitSequence(p) ==
  LET valid == ValidPlan(p) /\ ValidCombination(p) IN
  \/ ~valid /\ Returns(3)
  \/ valid /\ Started /\ Returns(12)
  \/ valid /\ ~Started /\ UsesDma(p) /\ ~board.family.input.dma /\ Returns(13)
  \/ valid /\ ~Started /\ UsesDma(p) /\ board.family.input.dma /\ Returns(15)
  \/ /\ valid /\ ~Started
     /\ UsesDma(p) => board.family.input.dma
     /\ InitializeChannels(p)
     /\ acq' = IF UsesDma(p)
               THEN [SetPositions(acq, p) EXCEPT !.continuous = TRUE, !.count = 0,
                                                 !.transfers = p.number * Len(p.list)]
               ELSE [SetCycles(SetPositions(acq, p), p) EXCEPT !.dma = FALSE, !.transfers = 0]
     /\ priv' = [priv EXCEPT !.sequence = TRUE, !.dma = UsesDma(p),
                             !.finite = IF UsesDma(p) THEN p.number # 0 ELSE @]
     /\ asked' = Asked(p, UsesDma(p) \/ p.number = 0, IF UsesDma(p) THEN 0 ELSE p.number)
     /\ UNCHANGED <<board, trigger, ended, releasing, kind>>

StartSequence(t) ==
  LET valid == priv.sequence /\ ValidTime(t) IN
  \/ ~valid /\ Returns(2)
  \/ valid /\ Started /\ Returns(5)
  \/ valid /\ ~Started /\ priv.dma /\ Returns(6)
  \/ /\ valid /\ ~Started
     /\ acq' = [acq EXCEPT !.dma = priv.dma, !.irq = TRUE, !.start = TRUE, !.time = t]
     /\ ended' = FALSE
     /\ priv' = [priv EXCEPT !.started = TRUE]
     /\ kind' = "sequence"
     /\ UNCHANGED <<board, arrays, trigger, releasing, asked>>

StopSequence ==
  \/ ~priv.sequence /\ Returns(2)
  \/ priv.sequence /\ ~priv.started /\ Returns(3)
  \/ /\ priv.sequence /\ priv.started
     /\ acq' = [acq EXCEPT !.dma = FALSE, !.irq = FALSE, !.start = FALSE]
     /\ ended' = FALSE
     /\ priv' = [priv EXCEPT !.started = FALSE]
     /\ UNCHANGED <<board, arrays, trigger, releasing, history>>

ReleaseSequence ==
  \/ ~priv.sequence /\ Returns(2)
  \/ priv.sequence /\ (priv.started \/ Started) /\ Returns(3)
  \/ /\ priv.sequence /\ ~priv.started /\ ~Started
     /\ priv' = [priv EXCEPT !.sequence = FALSE, !.dma = FALSE]
     /\ UNCHANGED <<board, arrays, acq, trigger, ended, releasing, history>>

SequenceCommands ==
  \/ \E p \in Plans : InitSequence(p)
  \/ \E t \in Times : StartSequence(t)
  \/ StopSequence
  \/ ReleaseSequence

-----------------------------------------------------------------------------
(* The triggers and the gate. *)

ValidFlag(f) == f \in {ENABLE, DISABLE}
ValidAction(a) == a \in {0, 1, 2, 3, 6, 7, 10, 11}
NoInputs == board.channels = 0

(* The board's code of an action: 0 and 1 are exchanged for the hardware   *)
(* trigger and written as they are for the software trigger.               *)
HardwareAction(a) == CASE a = 0 -> 1 [] a = 1 -> 0 [] OTHER -> a % 4
SoftwareAction(a) == a % 4

(* Only enabling it needs a level and an idle board. *)
HardwareTrigger(f, level, a) ==
  LET valid == /\ ValidFlag(f) /\ ValidAction(a) /\ ~NoInputs
               /\ f = ENABLE => level \in {1, 2, 3} IN
  \/ ~valid /\ Returns(3)
  \/ valid /\ f = ENABLE /\ Started /\ Returns(7)
  \/ /\ valid
     /\ f = ENABLE => ~Started
     /\ trigger' = [trigger EXCEPT !.hardware = IF f = ENABLE THEN HardwareAction(a) ELSE NONE]
     /\ UNCHANGED <<board, arrays, acq, ended, priv, releasing, history>>

(* Variant: a board that runs is not refused. *)
SoftwareTrigger_Running(f, a) ==
  /\ ValidFlag(f) /\ ValidAction(a) /\ ~NoInputs
  /\ trigger' = [trigger EXCEPT !.software = IF f = ENABLE THEN SoftwareAction(a) ELSE NONE]
  /\ UNCHANGED <<board, arrays, acq, ended, priv, releasing, history>>
SoftwareTrigger(f, a) ==
  LET valid == ValidFlag(f) /\ ValidAction(a) /\ ~NoInputs IN
  \/ ~valid /\ Returns(3)
  \/ valid /\ Started /\ Returns(5)
  \/ /\ valid /\ ~Started
     /\ trigger' = [trigger EXCEPT !.software = IF f = ENABLE THEN SoftwareAction(a) ELSE NONE]
     /\ UNCHANGED <<board, arrays, acq, ended, priv, releasing, history>>

(* A level is needed to disable the gate, too. *)
ValidGate(f, level) == ValidFlag(f) /\ level \in {LOW, HIGH} /\ ~NoInputs
HardwareGate(f, level) ==
  \/ ~ValidGate(f, level) /\ Returns(3)
  \/ ValidGate(f, level) /\ Started /\ Returns(5)
  \/ /\ ValidGate(f, level) /\ ~Started
     /\ trigger' = [trigger EXCEPT !.gate = IF f = ENABLE THEN level ELSE NONE]
     /\ UNCHANGED <<board, arrays, acq, ended, priv, releasing, history>>

TriggerCommands ==
  \/ \E f \in Flags, level \in Levels, a \in Actions : HardwareTrigger(f, level, a)
  \/ \E f \in Flags, a \in Actions : SoftwareTrigger(f, a)
GateCommands == \E f \in Flags, level \in Levels : HardwareGate(f, level)

-----------------------------------------------------------------------------
(* The hardware, the interrupt routine and the removal of the driver. *)

(* A number of cycles is done, or the counted transfers are. *)
CyclesDone ==
  /\ Started /\ ~acq.continuous
  /\ acq' = [acq EXCEPT !.start = FALSE]
  /\ UNCHANGED <<board, arrays, trigger, ended, priv, releasing, history>>
TransfersDone ==
  /\ Started /\ acq.dma /\ acq.transfers # 0
  /\ acq' = [acq EXCEPT !.start = FALSE]
  /\ ended' = TRUE
  /\ UNCHANGED <<board, arrays, trigger, priv, releasing, history>>

(* The end of a counted DMA sequence stops whatever runs. *)
InterruptEnds ==
  /\ ended /\ priv.finite
  /\ acq' = [acq EXCEPT !.dma = FALSE, !.irq = FALSE, !.start = FALSE]
  /\ ended' = FALSE
  /\ priv' = [priv EXCEPT !.started = FALSE]
  /\ UNCHANGED <<board, arrays, trigger, releasing, history>>

(* xpci3xxx_stop_board: the triggers and the gate are disabled with level  *)
(* and action 0, then sequence and auto refresh are stopped.  The board    *)
(* information goes, and the next probe begins with a new one over the     *)
(* registers as they are.                                                  *)
(* Variant: the auto refresh is not stopped. *)
Stopped_Sequence == priv.sequence /\ priv.started
Stopped == (priv.sequence /\ priv.started) \/ priv.refresh
Reload ==
  /\ trigger' = IF NoInputs THEN trigger
                ELSE [trigger EXCEPT !.hardware = NONE,
                                     !.software = IF Started THEN @ ELSE NONE,
                                     !.gate = IF ValidGate(DISABLE, 0) /\ ~Started
                                              THEN NONE ELSE @]
  /\ acq' = IF Stopped THEN [acq EXCEPT !.dma = FALSE, !.irq = FALSE, !.start = FALSE]
                       ELSE acq
  /\ ended' = (ended /\ ~Stopped)
  /\ priv' = NewPriv(board.family)
  /\ releasing' = FALSE
  /\ UNCHANGED <<board, arrays, kind, asked>>

AnalogNext ==
  \/ SingleCommands
  \/ AutoRefreshCommands
  \/ SequenceCommands
  \/ TriggerCommands
  \/ GateCommands
  \/ CyclesDone
  \/ TransfersDone
  \/ InterruptEnds
  \/ Reload

AnalogSpec == AnalogInit /\ [][AnalogNext]_analogVars
-----------------------------------------------------------------------------

(* Unless the configuration of a channel came in between, what the board   *)
(* acquires is what the last set-up asked, whatever kind of acquisition    *)
(* used the registers before: the positions, the channel and the range of  *)
(* each, the mode and the number of cycles (i_xpci3xxx_StartAnalogInput,   *)
(* InitAnalogInputAutoRefresh, InitAnalogInputSequence).                   *)
AcquiresAsAsked ==
  asked # NONE =>
    /\ acq.first = asked.at /\ acq.last = asked.at + Len(asked.list) - 1
    /\ \A i \in 1 .. Len(asked.list) :
         /\ scan[asked.at + i - 1] = asked.list[i]
         /\ asked.config # NONE => config[asked.at + i - 1] = asked.config[i]
    /\ acq.continuous = asked.continuous /\ acq.count = asked.count

(* A running acquisition interrupts and transfers as its kind does,        *)
(* however the one before it ended: a single reading and an auto refresh   *)
(* do neither, a sequence interrupts, and transfers if it was initialised  *)
(* with DMA.                                                               *)
SourcesFit ==
  Started =>
    /\ kind \in {"single", "refresh"} => ~acq.irq /\ ~acq.dma
    /\ kind = "sequence" => acq.irq /\ (acq.dma <=> priv.dma)

(* An auto refresh or a sequence that runs can be stopped by the call of   *)
(* its kind, so also by the removal of the driver: no release, reset or    *)
(* end of another acquisition forgets it.                                  *)
CanBeStopped ==
  Started =>
    /\ kind = "refresh" => priv.refresh
    /\ kind = "sequence" => priv.sequence /\ priv.started

(* While an acquisition runs no call changes what it acquires, nor what    *)
(* triggers and gates it; only the hardware trigger may be disabled.       *)
RunningUndisturbed ==
  [][Started /\ acq'.start =>
       /\ UNCHANGED <<arrays, acq>>
       /\ trigger' \in {trigger, [trigger EXCEPT !.hardware = NONE]}]_analogVars

=============================================================================
