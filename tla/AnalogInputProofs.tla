-------------------------- MODULE AnalogInputProofs --------------------------
(***************************************************************************)
(* Proofs about AnalogInput, for every table of boards and every set of    *)
(* requests of the callers.  The three invariants and the types of the     *)
(* records they speak of are inductive together: SourcesFit needs          *)
(* CanBeStopped when the driver is removed, and both need to know which    *)
(* fields there are.                                                       *)
(***************************************************************************)
EXTENDS AnalogInput, TLAPS

Registers ==
  [ first : Nat, last : Nat, continuous : BOOLEAN, delay : {0, 1, 2}, start : BOOLEAN,
    irq : BOOLEAN, dma : BOOLEAN, count : Nat, transfers : Nat, time : Nat ]
BoardData ==
  [ ready : SUBSET Nat, diff : {SINGLE, DIFFERENTIAL}, refresh : BOOLEAN, sequence : BOOLEAN,
    started : BOOLEAN, dma : BOOLEAN, finite : BOOLEAN ]

AnalogTypeOK ==
  /\ scan \in [Positions -> Nat]
  /\ acq \in Registers
  /\ priv \in BoardData
  /\ trigger = [hardware |-> trigger.hardware, software |-> trigger.software,
                gate |-> trigger.gate]

AnalogInv == AnalogTypeOK /\ AcquiresAsAsked /\ SourcesFit /\ CanBeStopped

LEMMA NewBoardData ==
  ASSUME NEW f
  PROVE  NewPriv(f) \in BoardData
  BY DEF NewPriv, BoardData, SINGLE, DIFFERENTIAL

LEMMA AnalogStart == AnalogInit => AnalogInv
  <1> SUFFICES ASSUME AnalogInit
               PROVE  AnalogInv
    OBVIOUS
  <1>1. acq = Idle /\ asked = NONE /\ scan = [p \in Positions |-> 0] /\ trigger = NoTrigger
    BY DEF AnalogInit
  <1>2. Idle \in Registers /\ ~Idle.start
    BY DEF Idle, Registers
  <1>3. priv \in BoardData
    BY NewBoardData DEF AnalogInit
  <1>4. AnalogTypeOK
    BY <1>1, <1>2, <1>3 DEF AnalogTypeOK, NoTrigger
  <1> QED
    BY <1>1, <1>2, <1>4 DEF AnalogInv, AcquiresAsAsked, SourcesFit, CanBeStopped, Started

-----------------------------------------------------------------------------
(* Steps that end what runs, or do not begin anything: the set-up and what *)
(* was asked stay as they are.                                             *)
SameSetUp ==
  /\ acq'.first = acq.first /\ acq'.last = acq.last
  /\ acq'.continuous = acq.continuous /\ acq'.count = acq.count

LEMMA AskedKept ==
  ASSUME AcquiresAsAsked, SameSetUp, UNCHANGED <<scan, config, asked>>
  PROVE  AcquiresAsAsked'
  BY DEF AcquiresAsAsked, SameSetUp

LEMMA NotRunning ==
  ASSUME AnalogTypeOK', AcquiresAsAsked', ~acq'.start
  PROVE  AnalogInv'
  BY DEF AnalogInv, SourcesFit, CanBeStopped, Started

LEMMA Ends ==
  ASSUME AnalogInv, acq' \in Registers, ~acq'.start, SameSetUp,
         UNCHANGED <<scan, config, trigger, asked>>, priv' \in BoardData
  PROVE  AnalogInv'
  <1>1. AnalogTypeOK'
    BY DEF AnalogInv, AnalogTypeOK
  <1> QED
    BY <1>1, AskedKept, NotRunning DEF AnalogInv

LEMMA StopWrites ==
  ASSUME acq \in Registers,
         \/ acq' = [acq EXCEPT !.dma = FALSE, !.irq = FALSE, !.start = FALSE]
         \/ acq' = [acq EXCEPT !.start = FALSE]
  PROVE  acq' \in Registers /\ ~acq'.start /\ SameSetUp
  BY DEF Registers, SameSetUp

(* Steps that touch none of it.                                            *)
LEMMA Untouched ==
  ASSUME AnalogInv, UNCHANGED <<scan, config, acq, priv, kind, asked>>,
         trigger' = [hardware |-> trigger'.hardware, software |-> trigger'.software,
                     gate |-> trigger'.gate]
  PROVE  AnalogInv'
  BY DEF AnalogInv, AnalogTypeOK, AcquiresAsAsked, SourcesFit, CanBeStopped, Started

LEMMA Errors ==
  ASSUME AnalogInv, NEW code, Returns(code)
  PROVE  AnalogInv'
  BY Untouched DEF Returns, analogVars, AnalogInv, AnalogTypeOK

-----------------------------------------------------------------------------
(* Single readings.                                                        *)
LEMMA SingleKeeps ==
  ASSUME AnalogInv, SingleCommands
  PROVE  AnalogInv'
  <1>0. AnalogTypeOK
    BY DEF AnalogInv
  <1>1. ASSUME NEW s \in Singles, InitAnalogInput(s)
        PROVE  AnalogInv'
    <2>1. CASE Returns(2) \/ Returns(6)
      BY <2>1, Errors
    <2>2. CASE ~(Returns(2) \/ Returns(6))
      <3>1. /\ ValidSingle(s) /\ ~Started
            /\ scan' = [scan EXCEPT ![s.channel] = s.channel]
            /\ priv' = [priv EXCEPT !.diff = s.diff, !.ready = @ \cup {s.channel}]
            /\ asked' = NONE
            /\ UNCHANGED <<acq, trigger>>
        BY <1>1, <2>2 DEF InitAnalogInput
      <3>2. s.channel \in Nat /\ s.diff \in {SINGLE, DIFFERENTIAL}
        BY <3>1, CallersAssumption, PositionsAssumption DEF ValidSingle, ValidDiff
      <3>3. priv' \in BoardData
        BY <1>0, <3>1, <3>2 DEF AnalogTypeOK, BoardData
      <3>4. AnalogTypeOK'
        BY <1>0, <3>1, <3>2, <3>3 DEF AnalogTypeOK
      <3>5. AcquiresAsAsked'
        BY <3>1 DEF AcquiresAsAsked
      <3> QED
        BY <3>1, <3>4, <3>5, NotRunning DEF Started
    <2> QED
      BY <2>1, <2>2
  <1>2. ASSUME NEW s \in Singles, NEW t \in Times, StartAnalogInput(s.channel, t)
        PROVE  AnalogInv'
    <2> DEFINE c == s.channel
    <2>1. CASE Returns(2) \/ Returns(6)
      BY <2>1, Errors
    <2>2. CASE ~(Returns(2) \/ Returns(6))
      <3>1. /\ scan' = [scan EXCEPT ![c] = c]
            /\ acq' = [Idle EXCEPT !.first = c, !.last = c, !.start = TRUE, !.count = 1,
                                   !.time = t, !.transfers = acq.transfers]
            /\ kind' = "single"
            /\ asked' = [at |-> c, list |-> <<c>>, config |-> NONE,
                         continuous |-> FALSE, count |-> 1]
            /\ UNCHANGED <<config, trigger, priv>>
        BY <1>2, <2>2 DEF StartAnalogInput
      <3>2. c \in Nat /\ c \in Positions /\ t \in Nat /\ acq.transfers \in Nat
        BY <1>0, CallersAssumption, PositionsAssumption DEF AnalogTypeOK, Registers
      <3> HIDE DEF c
      <3>3. acq' = [ first |-> c, last |-> c, continuous |-> FALSE, delay |-> 0, start |-> TRUE,
                     irq |-> FALSE, dma |-> FALSE, count |-> 1,
                     transfers |-> acq.transfers, time |-> t ]
        BY <3>1 DEF Idle
      <3>4. acq' \in Registers
        BY <3>2, <3>3 DEF Registers
      <3>5. AnalogTypeOK'
        BY <1>0, <3>1, <3>2, <3>4 DEF AnalogTypeOK
      <3>6. AcquiresAsAsked'
        <4>1. asked'.at = c /\ asked'.list = <<c>> /\ asked'.config = NONE
              /\ asked'.continuous = FALSE /\ asked'.count = 1
          BY <3>1
        <4>2. Len(asked'.list) = 1 /\ asked'.list[1] = c
          BY <4>1
        <4>3. scan'[c] = c
          BY <1>0, <3>1, <3>2 DEF AnalogTypeOK
        <4>4. \A i \in 1 .. 1 : i = 1 /\ c + i - 1 = c
          BY <3>2
        <4>5. c + 1 - 1 = c
          BY <3>2
        <4>6. acq'.first = c /\ acq'.last = c /\ acq'.continuous = FALSE /\ acq'.count = 1
          BY <3>3
        <4> QED
          BY <4>1, <4>2, <4>3, <4>4, <4>5, <4>6 DEF AcquiresAsAsked
      <3>7. SourcesFit' /\ CanBeStopped'
        <4>1. ~acq'.irq /\ ~acq'.dma
          BY <3>3
        <4> QED
          BY <3>1, <4>1 DEF SourcesFit, CanBeStopped
      <3> QED
        BY <3>5, <3>6, <3>7 DEF AnalogInv
    <2> QED
      BY <2>1, <2>2
  <1> QED
    BY <1>1, <1>2 DEF SingleCommands

-----------------------------------------------------------------------------
(* The set-up of auto refresh and sequence.                                *)
LEMMA SetUp ==
  ASSUME AnalogInv, NEW p \in Plans, ValidPlan(p), InitializeChannels(p),
         NEW continuous, NEW count, asked' = Asked(p, continuous, count),
         acq' \in Registers, ~acq'.start,
         acq'.first = 0, acq'.last = Len(p.list) - 1,
         acq'.continuous = continuous, acq'.count = count,
         priv' \in BoardData, UNCHANGED trigger
  PROVE  AnalogInv'
  <1>1. p.list \in Seq(Nat) /\ 0 .. Len(p.list) - 1 \subseteq Positions /\ Len(p.list) \in Nat
    BY CallersAssumption
  <1>2. \A i \in 0 .. Len(p.list) - 1 : p.list[i + 1] \in Nat
    BY <1>1
  <1>3. scan' = Scanned(p) /\ config' = Configured(p)
    BY DEF InitializeChannels
  <1>4. scan' \in [Positions -> Nat]
    <2>1. \A i \in Positions : i < Len(p.list) => i \in 0 .. Len(p.list) - 1
      BY <1>1, PositionsAssumption
    <2> QED
      BY <1>2, <1>3, <2>1 DEF Scanned, AnalogInv, AnalogTypeOK
  <1>5. AnalogTypeOK'
    BY <1>4 DEF AnalogInv, AnalogTypeOK
  <1>6. ASSUME NEW i \in 1 .. Len(p.list)
        PROVE  /\ scan'[i - 1] = p.list[i]
               /\ config'[i - 1] = [range |-> p.ranges[i], diff |-> p.diff]
    <2>1. i - 1 \in Positions /\ i - 1 < Len(p.list) /\ (i - 1) + 1 = i
      BY <1>1
    <2> QED
      BY <1>3, <2>1 DEF Scanned, Configured
  <1>7. AcquiresAsAsked'
    <2>1. /\ asked'.at = 0 /\ asked'.list = p.list
          /\ asked'.continuous = continuous /\ asked'.count = count
          /\ asked'.config = [i \in 1 .. Len(p.list) |-> [range |-> p.ranges[i], diff |-> p.diff]]
      BY DEF Asked
    <2>2. \A i \in 1 .. Len(p.list) : 0 + i - 1 = i - 1
      OBVIOUS
    <2>3. 0 + Len(p.list) - 1 = Len(p.list) - 1
      BY <1>1
    <2> QED
      BY <1>6, <2>1, <2>2, <2>3 DEF AcquiresAsAsked
  <1> QED
    BY <1>5, <1>7, NotRunning

LEMMA PlanFits ==
  ASSUME NEW p \in Plans, ValidPlan(p)
  PROVE  /\ p.number \in Nat /\ Len(p.list) \in Nat /\ Len(p.list) - 1 \in Nat
         /\ p.delay.mode \in {0, 1, 2}
         /\ p.number * Len(p.list) \in Nat
  <1>1. p.number \in Nat /\ Len(p.list) \in Nat
    BY CallersAssumption
  <1>2. Len(p.list) >= 1
    BY <1>1 DEF ValidPlan
  <1>3. p.delay.mode \in {0, 1, 2}
    BY DEF ValidPlan, ValidDelay, DISABLE
  <1>4. \A m, n \in Nat : m * n \in Nat
    OBVIOUS
  <1> QED
    BY <1>1, <1>2, <1>3, <1>4

(* What every set-up leaves in the registers.                              *)
SetUpOf(p, continuous, dma, count, transfers) ==
  [ first |-> 0, last |-> Len(p.list) - 1, continuous |-> continuous,
    delay |-> p.delay.mode, start |-> acq.start, irq |-> acq.irq, dma |-> dma,
    count |-> count, transfers |-> transfers, time |-> acq.time ]

LEMMA SetUpIsTyped ==
  ASSUME AnalogTypeOK, ~Started, NEW p \in Plans, ValidPlan(p), NEW continuous \in BOOLEAN,
         NEW dma \in BOOLEAN, NEW count \in Nat, NEW transfers \in Nat,
         acq' = SetUpOf(p, continuous, dma, count, transfers)
  PROVE  /\ acq' \in Registers /\ ~acq'.start
         /\ acq'.first = 0 /\ acq'.last = Len(p.list) - 1
         /\ acq'.continuous = continuous /\ acq'.count = count
  <1>1. acq.start \in BOOLEAN /\ acq.irq \in BOOLEAN /\ acq.time \in Nat /\ ~acq.start
    BY DEF AnalogTypeOK, Registers, Started
  <1>2. Len(p.list) - 1 \in Nat /\ p.delay.mode \in {0, 1, 2} /\ 0 \in Nat
    BY PlanFits
  <1> QED
    BY <1>1, <1>2 DEF SetUpOf, Registers

LEMMA AutoRefreshSetUp ==
  ASSUME AnalogInv, NEW p \in Plans, InitAutoRefresh(p)
  PROVE  AnalogInv'
  <1>0. AnalogTypeOK
    BY DEF AnalogInv
  <1>1. CASE Returns(3) \/ Returns(10)
    BY <1>1, Errors
  <1>2. CASE ~(Returns(3) \/ Returns(10))
    <2>1. /\ ValidPlan(p) /\ ~Started /\ InitializeChannels(p)
          /\ acq' = [SetCycles(SetPositions(acq, p), p) EXCEPT !.dma = FALSE, !.transfers = 0]
          /\ priv' = [priv EXCEPT !.refresh = TRUE]
          /\ asked' = Asked(p, p.number = 0, p.number)
          /\ UNCHANGED trigger
      BY <1>2 DEF InitAutoRefresh
    <2>2. /\ acq' \in Registers /\ ~acq'.start
          /\ acq'.first = 0 /\ acq'.last = Len(p.list) - 1
          /\ acq'.continuous = (p.number = 0) /\ acq'.count = p.number
      <3>1. acq' = SetUpOf(p, p.number = 0, FALSE, p.number, 0)
        BY <1>0, <2>1 DEF AnalogTypeOK, Registers, SetCycles, SetPositions, SetUpOf
      <3>2. p.number \in Nat /\ 0 \in Nat /\ FALSE \in BOOLEAN /\ (p.number = 0) \in BOOLEAN
        BY <2>1, PlanFits
      <3>3. ValidPlan(p) /\ ~Started
        BY <2>1
      <3> QED
        BY ONLY <1>0, <3>1, <3>2, <3>3, SetUpIsTyped, p \in Plans
    <2>3. priv' \in BoardData
      BY <1>0, <2>1 DEF AnalogTypeOK, BoardData
    <2> QED
      BY <2>1, <2>2, <2>3, SetUp
  <1> QED
    BY <1>1, <1>2

LEMMA SequenceSetUp ==
  ASSUME AnalogInv, NEW p \in Plans, InitSequence(p)
  PROVE  AnalogInv'
  <1>0. AnalogTypeOK
    BY DEF AnalogInv
  <1>1. CASE \E code : Returns(code)
    BY <1>1, Errors
  <1>2. CASE ~\E code : Returns(code)
    <2> DEFINE continuous == UsesDma(p) \/ p.number = 0
               count == IF UsesDma(p) THEN 0 ELSE p.number
    <2>1. /\ ValidPlan(p) /\ ~Started /\ InitializeChannels(p)
          /\ acq' = IF UsesDma(p)
                     THEN [SetPositions(acq, p) EXCEPT !.continuous = TRUE, !.count = 0,
                                                       !.transfers = p.number * Len(p.list)]
                     ELSE [SetCycles(SetPositions(acq, p), p) EXCEPT !.dma = FALSE, !.transfers = 0]
          /\ priv' = [priv EXCEPT !.sequence = TRUE, !.dma = UsesDma(p),
                                  !.finite = IF UsesDma(p) THEN p.number # 0 ELSE @]
          /\ asked' = Asked(p, continuous, count)
          /\ UNCHANGED trigger
      BY <1>2 DEF InitSequence
    <2>2. /\ acq' \in Registers /\ ~acq'.start
          /\ acq'.first = 0 /\ acq'.last = Len(p.list) - 1
          /\ acq'.continuous = continuous /\ acq'.count = count
      <3>1. CASE UsesDma(p)
        <4>1. acq' = SetUpOf(p, TRUE, acq.dma, 0, p.number * Len(p.list))
          BY <1>0, <2>1, <3>1 DEF AnalogTypeOK, Registers, SetPositions, SetUpOf
        <4>2. /\ acq.dma \in BOOLEAN /\ p.number * Len(p.list) \in Nat
              /\ 0 \in Nat /\ TRUE \in BOOLEAN
          BY <1>0, <2>1, PlanFits DEF AnalogTypeOK, Registers
        <4>3. continuous = TRUE /\ count = 0
          BY <3>1
        <4>4. /\ acq' \in Registers /\ ~acq'.start
              /\ acq'.first = 0 /\ acq'.last = Len(p.list) - 1
              /\ acq'.continuous = TRUE /\ acq'.count = 0
          BY ONLY <1>0, <2>1, <4>1, <4>2, SetUpIsTyped, p \in Plans
        <4> QED
          BY <4>3, <4>4
      <3>2. CASE ~UsesDma(p)
        <4>1. acq' = SetUpOf(p, p.number = 0, FALSE, p.number, 0)
          BY <1>0, <2>1, <3>2 DEF AnalogTypeOK, Registers, SetCycles, SetPositions, SetUpOf
        <4>2. continuous = (p.number = 0) /\ count = p.number
          BY <3>2
        <4>3. p.number \in Nat /\ 0 \in Nat /\ FALSE \in BOOLEAN /\ (p.number = 0) \in BOOLEAN
          BY <2>1, PlanFits
        <4>4. /\ acq' \in Registers /\ ~acq'.start
              /\ acq'.first = 0 /\ acq'.last = Len(p.list) - 1
              /\ acq'.continuous = (p.number = 0) /\ acq'.count = p.number
          BY ONLY <1>0, <2>1, <4>1, <4>3, SetUpIsTyped, p \in Plans
        <4> QED
          BY <4>2, <4>4
      <3> QED
        BY <3>1, <3>2
    <2>3. priv' \in BoardData
      BY <1>0, <2>1 DEF AnalogTypeOK, BoardData, UsesDma
    <2> HIDE DEF continuous, count
    <2> QED
      BY <2>1, <2>2, <2>3, SetUp
  <1> QED
    BY <1>1, <1>2

-----------------------------------------------------------------------------
(* A start leaves the set-up as it is and makes the acquisition one of its *)
(* kind.                                                                   *)
LEMMA StartAutoRefreshKeeps ==
  ASSUME AnalogInv, NEW t \in Times, StartAutoRefresh(t)
  PROVE  AnalogInv'
  <1>0. AnalogTypeOK
    BY DEF AnalogInv
  <1>1. CASE Returns(2) \/ Returns(5)
    BY <1>1, Errors
  <1>2. CASE ~(Returns(2) \/ Returns(5))
    <2>1. /\ priv.refresh /\ acq' = Refreshing(acq, t) /\ kind' = "refresh"
          /\ UNCHANGED <<scan, config, trigger, priv, asked>>
      BY <1>2 DEF StartAutoRefresh, arrays
    <2>2. t \in Nat
      BY CallersAssumption
    <2>3. /\ acq' \in Registers /\ SameSetUp
          /\ ~acq'.irq /\ ~acq'.dma
      BY <1>0, <2>1, <2>2 DEF AnalogTypeOK, Registers, Refreshing, SameSetUp
    <2>4. AnalogTypeOK'
      BY <1>0, <2>1, <2>3 DEF AnalogTypeOK
    <2>5. AcquiresAsAsked'
      BY <2>1, <2>3, AskedKept DEF AnalogInv
    <2>6. SourcesFit' /\ CanBeStopped'
      BY <2>1, <2>3 DEF SourcesFit, CanBeStopped
    <2> QED
      BY <2>4, <2>5, <2>6 DEF AnalogInv
  <1> QED
    BY <1>1, <1>2

LEMMA StartSequenceKeeps ==
  ASSUME AnalogInv, NEW t \in Times, StartSequence(t)
  PROVE  AnalogInv'
  <1>0. AnalogTypeOK
    BY DEF AnalogInv
  <1>1. CASE \E code : Returns(code)
    BY <1>1, Errors
  <1>2. CASE ~\E code : Returns(code)
    <2>1. /\ priv.sequence /\ kind' = "sequence"
          /\ acq' = [acq EXCEPT !.dma = priv.dma, !.irq = TRUE, !.start = TRUE, !.time = t]
          /\ priv' = [priv EXCEPT !.started = TRUE]
          /\ UNCHANGED <<scan, config, trigger, asked>>
      BY <1>2 DEF StartSequence, arrays
    <2>2. t \in Nat /\ priv.dma \in BOOLEAN
      BY <1>0, CallersAssumption DEF AnalogTypeOK, BoardData
    <2>3. /\ acq' \in Registers /\ SameSetUp
          /\ acq'.irq /\ acq'.dma = priv.dma
      BY <1>0, <2>1, <2>2 DEF AnalogTypeOK, Registers, SameSetUp
    <2>4. /\ priv' \in BoardData
          /\ priv'.sequence /\ priv'.started /\ priv'.dma = priv.dma
      BY <1>0, <2>1 DEF AnalogTypeOK, BoardData
    <2>5. AnalogTypeOK'
      BY <1>0, <2>1, <2>3, <2>4 DEF AnalogTypeOK
    <2>6. AcquiresAsAsked'
      BY <2>1, <2>3, AskedKept DEF AnalogInv
    <2>7. SourcesFit' /\ CanBeStopped'
      BY <2>1, <2>3, <2>4 DEF SourcesFit, CanBeStopped
    <2> QED
      BY <2>5, <2>6, <2>7 DEF AnalogInv
  <1> QED
    BY <1>1, <1>2

(* Every way an acquisition ends, by a command, the hardware or the        *)
(* interrupt routine.                                                      *)
Finishes ==
  /\ \/ acq' = [acq EXCEPT !.dma = FALSE, !.irq = FALSE, !.start = FALSE]
     \/ acq' = [acq EXCEPT !.start = FALSE]
  /\ priv' \in {priv, [priv EXCEPT !.started = FALSE]}
  /\ UNCHANGED <<scan, config, trigger, asked>>

LEMMA FinishKeeps ==
  ASSUME AnalogInv, Finishes
  PROVE  AnalogInv'
  <1>0. AnalogTypeOK
    BY DEF AnalogInv
  <1>1. acq' \in Registers /\ ~acq'.start /\ SameSetUp
    BY <1>0, StopWrites DEF Finishes, AnalogTypeOK
  <1>2. priv' \in BoardData
    BY <1>0 DEF Finishes, AnalogTypeOK, BoardData
  <1> QED
    BY <1>1, <1>2, Ends DEF Finishes

LEMMA FinishCases ==
  ASSUME StopAutoRefresh \/ ReleaseStops \/ StopSequence
         \/ CyclesDone \/ TransfersDone \/ InterruptEnds
  PROVE  Finishes \/ \E code : Returns(code)
  <1>1. CASE StopAutoRefresh
    BY <1>1 DEF StopAutoRefresh, Finishes, arrays, history
  <1>2. CASE ReleaseStops
    BY <1>2 DEF ReleaseStops, Finishes, arrays, history
  <1>3. CASE StopSequence
    BY <1>3 DEF StopSequence, Finishes, arrays, history
  <1>4. CASE CyclesDone
    BY <1>4 DEF CyclesDone, Finishes, arrays, history
  <1>5. CASE TransfersDone
    BY <1>5 DEF TransfersDone, Finishes, arrays, history
  <1>6. CASE InterruptEnds
    BY <1>6 DEF InterruptEnds, Finishes, arrays, history
  <1> QED
    BY <1>1, <1>2, <1>3, <1>4, <1>5, <1>6

(* A release happens only when nothing runs.                               *)
LEMMA ReleaseKeeps ==
  ASSUME AnalogInv, ReleaseAutoRefreshEnds \/ ReleaseSequence
  PROVE  AnalogInv'
  <1>0. AnalogTypeOK
    BY DEF AnalogInv
  <1>1. CASE \E code : Returns(code)
    BY <1>1, Errors
  <1>2. CASE UNCHANGED <<scan, config, acq, trigger, priv, kind, asked>>
    BY <1>0, <1>2, Untouched DEF AnalogTypeOK
  <1>3. CASE /\ ~Started
             /\ \/ priv' = [priv EXCEPT !.refresh = FALSE]
                \/ priv' = [priv EXCEPT !.sequence = FALSE, !.dma = FALSE]
             /\ UNCHANGED <<scan, config, acq, trigger, asked>>
    <2>1. priv' \in BoardData
      BY <1>0, <1>3 DEF AnalogTypeOK, BoardData
    <2> QED
      BY <1>0, <1>3, <2>1, Ends DEF AnalogTypeOK, Started, SameSetUp
  <1> QED
    BY <1>1, <1>2, <1>3
       DEF ReleaseAutoRefreshEnds, ReleaseAutoRefresh, ReleaseSequence, arrays, history

LEMMA TriggersKeep ==
  ASSUME AnalogInv, TriggerCommands \/ GateCommands
  PROVE  AnalogInv'
  <1>0. AnalogTypeOK
    BY DEF AnalogInv
  <1>1. CASE \E code : Returns(code)
    BY <1>1, Errors
  <1>2. CASE ~\E code : Returns(code)
    <2>1. UNCHANGED <<scan, config, acq, priv, kind, asked>>
      BY <1>2 DEF TriggerCommands, GateCommands, HardwareTrigger, SoftwareTrigger,
                  HardwareGate, arrays, history
    <2>2. \E value : \/ trigger' = [trigger EXCEPT !.hardware = value]
                     \/ trigger' = [trigger EXCEPT !.software = value]
                     \/ trigger' = [trigger EXCEPT !.gate = value]
      BY <1>2 DEF TriggerCommands, GateCommands, HardwareTrigger, SoftwareTrigger, HardwareGate
    <2>3. trigger' = [hardware |-> trigger'.hardware, software |-> trigger'.software,
                      gate |-> trigger'.gate]
      BY <1>0, <2>2 DEF AnalogTypeOK
    <2> QED
      BY <2>1, <2>3, Untouched
  <1> QED
    BY <1>1, <1>2

(* The driver is removed: what it knows how to stop is all that runs with  *)
(* interrupts or DMA.                                                      *)
LEMMA ReloadKeeps ==
  ASSUME AnalogInv, Reload
  PROVE  AnalogInv'
  <1>0. AnalogTypeOK
    BY DEF AnalogInv
  <1>1. priv' \in BoardData
    BY NewBoardData DEF Reload
  <1>2. trigger' = [hardware |-> trigger'.hardware, software |-> trigger'.software,
                    gate |-> trigger'.gate]
    BY <1>0 DEF Reload, AnalogTypeOK
  <1>3. UNCHANGED <<scan, config, kind, asked>>
    BY DEF Reload, arrays
  <1>4. /\ acq' \in Registers /\ SameSetUp
        /\ Started' => ~Stopped /\ acq' = acq
    <2>1. CASE Stopped
      <3>1. acq' = [acq EXCEPT !.dma = FALSE, !.irq = FALSE, !.start = FALSE]
        BY <2>1 DEF Reload
      <3> QED
        BY <1>0, <3>1, StopWrites DEF AnalogTypeOK, Started
    <2>2. CASE ~Stopped
      BY <1>0, <2>2 DEF Reload, AnalogTypeOK, SameSetUp
    <2> QED
      BY <2>1, <2>2
  <1>5. AnalogTypeOK'
    BY <1>0, <1>1, <1>2, <1>3, <1>4 DEF AnalogTypeOK
  <1>6. AcquiresAsAsked'
    BY <1>3, <1>4, AskedKept DEF AnalogInv
  <1>7. SourcesFit' /\ CanBeStopped'
    <2> SUFFICES ASSUME Started'
                 PROVE  SourcesFit' /\ CanBeStopped'
      BY DEF SourcesFit, CanBeStopped
    <2>1. Started /\ ~Stopped /\ acq' = acq
      BY <1>4 DEF Started
    <2>2. kind \notin {"refresh", "sequence"}
      BY <2>1 DEF AnalogInv, CanBeStopped, Stopped
    <2> QED
      BY <1>3, <2>1, <2>2 DEF AnalogInv, SourcesFit, CanBeStopped
  <1> QED
    BY <1>5, <1>6, <1>7 DEF AnalogInv

-----------------------------------------------------------------------------
LEMMA AnalogStep == AnalogInv /\ [AnalogNext]_analogVars => AnalogInv'
  <1> SUFFICES ASSUME AnalogInv, [AnalogNext]_analogVars
               PROVE  AnalogInv'
    OBVIOUS
  <1>1. CASE SingleCommands
    BY <1>1, SingleKeeps
  <1>2. CASE AutoRefreshCommands
    BY <1>2, AutoRefreshSetUp, StartAutoRefreshKeeps, FinishCases, FinishKeeps, Errors,
       ReleaseKeeps DEF AutoRefreshCommands
  <1>3. CASE SequenceCommands
    BY <1>3, SequenceSetUp, StartSequenceKeeps, FinishCases, FinishKeeps, Errors,
       ReleaseKeeps DEF SequenceCommands
  <1>4. CASE TriggerCommands \/ GateCommands
    BY <1>4, TriggersKeep
  <1>5. CASE CyclesDone \/ TransfersDone \/ InterruptEnds
    BY <1>5, FinishCases, FinishKeeps, Errors
  <1>6. CASE Reload
    BY <1>6, ReloadKeeps
  <1>7. CASE UNCHANGED analogVars
    BY <1>7, Untouched DEF analogVars, AnalogInv, AnalogTypeOK
  <1> QED
    BY <1>1, <1>2, <1>3, <1>4, <1>5, <1>6, <1>7 DEF AnalogNext

(* The inductive invariant: types of the registers and of the board        *)
(* information, and the three properties that the run checks.              *)
THEOREM AnalogInvariant == AnalogSpec => []AnalogInv
  <1>1. AnalogInit => AnalogInv
    BY AnalogStart
  <1>2. AnalogInv /\ [AnalogNext]_analogVars => AnalogInv'
    BY AnalogStep
  <1> QED
    BY <1>1, <1>2, PTL DEF AnalogSpec

(* What the board acquires is what the last set-up asked                   *)
(* (i_xpci3xxx_StartAnalogInput, InitAnalogInputAutoRefresh,               *)
(* InitAnalogInputSequence).                                               *)
THEOREM SetUpIsAcquired == AnalogSpec => []AcquiresAsAsked
  <1>1. AnalogInv => AcquiresAsAsked
    BY DEF AnalogInv
  <1> QED
    BY <1>1, AnalogInvariant, PTL

(* A running acquisition interrupts and transfers as its kind does,        *)
(* whatever ran before and however it ended.                               *)
THEOREM SourcesOfKind == AnalogSpec => []SourcesFit
  <1>1. AnalogInv => SourcesFit
    BY DEF AnalogInv
  <1> QED
    BY <1>1, AnalogInvariant, PTL

(* What runs can be stopped by the call of its kind, and by the removal of *)
(* the driver (xpci3xxx_stop_board).                                       *)
THEOREM Stoppable == AnalogSpec => []CanBeStopped
  <1>1. AnalogInv => CanBeStopped
    BY DEF AnalogInv
  <1> QED
    BY <1>1, AnalogInvariant, PTL

-----------------------------------------------------------------------------
(* While an acquisition runs, the one that runs is not disturbed.          *)
Undisturbed ==
  Started /\ acq'.start =>
    /\ UNCHANGED <<arrays, acq>>
    /\ trigger' \in {trigger, [trigger EXCEPT !.hardware = NONE]}

LEMMA StepUndisturbed == AnalogInv /\ AnalogNext => Undisturbed
  <1> SUFFICES ASSUME AnalogInv, AnalogNext, Started, acq'.start
               PROVE  /\ UNCHANGED <<arrays, acq>>
                      /\ trigger' \in {trigger, [trigger EXCEPT !.hardware = NONE]}
    BY DEF Undisturbed
  <1>0. AnalogTypeOK
    BY DEF AnalogInv
  <1>1. CASE \E code : Returns(code)
    BY <1>1 DEF Returns, analogVars, arrays
  <1>2. CASE ~\E code : Returns(code)
    <2>1. CASE SingleCommands
      BY <1>2, <2>1 DEF SingleCommands, InitAnalogInput, StartAnalogInput
    <2>2. ~Finishes
      BY <1>0, StopWrites DEF Finishes, AnalogTypeOK
    <2>3. CASE AutoRefreshCommands
      <3>1. ReleaseAutoRefreshEnds
        BY <1>2, <2>2, <2>3, FinishCases
           DEF AutoRefreshCommands, InitAutoRefresh, StartAutoRefresh
      <3> QED
        BY <3>1 DEF ReleaseAutoRefreshEnds
    <2>4. CASE SequenceCommands
      BY <1>2, <2>2, <2>4, FinishCases
         DEF SequenceCommands, InitSequence, StartSequence, ReleaseSequence
    <2>5. CASE TriggerCommands \/ GateCommands
      <3>1. PICK f, level, a : HardwareTrigger(f, level, a)
        BY <1>2, <2>5 DEF TriggerCommands, GateCommands, SoftwareTrigger, HardwareGate
      <3> QED
        BY <1>2, <3>1 DEF HardwareTrigger
    <2>6. CASE CyclesDone \/ TransfersDone \/ InterruptEnds
      BY <1>2, <2>2, <2>6, FinishCases
    <2>7. CASE Reload
      <3>1. ~Stopped
        <4>1. Stopped => acq' = [acq EXCEPT !.dma = FALSE, !.irq = FALSE, !.start = FALSE]
          BY <2>7 DEF Reload
        <4> QED
          BY <1>0, <4>1, StopWrites DEF AnalogTypeOK
      <3>2. UNCHANGED <<arrays, acq>>
        BY <2>7, <3>1 DEF Reload
      <3>3. NoInputs \/ trigger' = [trigger EXCEPT !.hardware = NONE,
                                                   !.software = @, !.gate = @]
        BY <2>7 DEF Reload
      <3>4. NoInputs => trigger' = trigger
        BY <2>7 DEF Reload
      <3>5. [trigger EXCEPT !.hardware = NONE, !.software = @, !.gate = @]
              = [trigger EXCEPT !.hardware = NONE]
        BY <1>0 DEF AnalogTypeOK
      <3> QED
        BY <3>2, <3>3, <3>4, <3>5
    <2> QED
      BY <2>1, <2>3, <2>4, <2>5, <2>6, <2>7 DEF AnalogNext
  <1> QED
    BY <1>1, <1>2

(* No call changes what a running acquisition acquires, nor what triggers  *)
(* and gates it; the hardware trigger may be disabled.                     *)
THEOREM NothingDisturbs == AnalogSpec => RunningUndisturbed
  <1>1. AnalogInv /\ [AnalogNext]_analogVars => [Undisturbed]_analogVars
    BY StepUndisturbed
  <1> QED
    BY <1>1, AnalogInvariant, PTL DEF AnalogSpec, RunningUndisturbed, Undisturbed

=============================================================================
