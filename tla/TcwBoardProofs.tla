--------------------------- MODULE TcwBoardProofs ---------------------------
(***************************************************************************)
(* Proofs about TcwBoard, for every table of boards, every outcome of the  *)
(* capabilities that no one sets, and every argument of the calls.         *)
(*                                                                         *)
(* The forty commands fall into three classes, which the lemmas on the     *)
(* calls establish one kind of call at a time: a call on units in use      *)
(* keeps their modes, an Init gives a unit the mode of its kind, and a     *)
(* Release leaves a unit quiet.  The theorems are then about the classes.  *)
(***************************************************************************)
EXTENDS TcwBoard, FiniteSetTheorems, TLAPS

-----------------------------------------------------------------------------
(* How many of a set of units come before unit u, and the numbering of the *)
(* units this gives: one number for each unit, without gaps.               *)
Before(S, u) == Cardinality({v \in S : v < u})
One(S, u) == IF u \in S THEN 1 ELSE 0

LEMMA BeforeNext ==
  ASSUME NEW S \in SUBSET Units, NEW u \in Nat, IsFiniteSet({v \in S : v < u})
  PROVE  /\ IsFiniteSet({v \in S : v < u + 1})
         /\ Before(S, u + 1) = Before(S, u) + One(S, u)
         /\ Before(S, u) \in Nat
  <1> DEFINE Lower == {v \in S : v < u}
  <1>0. \A v \in S : v < u + 1 <=> v < u \/ v = u
    BY DEF Units
  <1>1. Cardinality(Lower) \in Nat
    BY FS_CardinalityType
  <1>2. CASE u \in S
    <2>1. {v \in S : v < u + 1} = Lower \cup {u} /\ u \notin Lower
      <3>1. ~(u < u)
        OBVIOUS
      <3> QED
        BY <1>0, <1>2, <3>1
    <2>2. /\ IsFiniteSet(Lower \cup {u})
          /\ Cardinality(Lower \cup {u}) = Cardinality(Lower) + 1
      BY <2>1, FS_AddElement
    <2> QED
      BY <1>1, <1>2, <2>1, <2>2 DEF Before, One
  <1>3. CASE u \notin S
    <2>1. {v \in S : v < u + 1} = Lower
      BY <1>0, <1>3
    <2> QED
      BY <1>1, <1>3, <2>1 DEF Before, One
  <1> QED
    BY <1>2, <1>3

LEMMA Counting ==
  ASSUME NEW S \in SUBSET Units
  PROVE  /\ Before(S, 0) = 0
         /\ Before(S, 1) = One(S, 0)
         /\ Before(S, 2) = One(S, 0) + One(S, 1)
         /\ Cardinality(S) = One(S, 0) + One(S, 1) + One(S, 2)
  <1>0. \A v \in S : ~(v < 0) /\ v < 3
    BY DEF Units
  <1>1. {v \in S : v < 0} = {}
    BY <1>0
  <1>2. IsFiniteSet({v \in S : v < 0}) /\ Before(S, 0) = 0
    BY <1>1, FS_EmptySet DEF Before
  <1>3. IsFiniteSet({v \in S : v < 1}) /\ Before(S, 1) = Before(S, 0) + One(S, 0)
    BY <1>2, BeforeNext, 0 + 1 = 1
  <1>4. IsFiniteSet({v \in S : v < 2}) /\ Before(S, 2) = Before(S, 1) + One(S, 1)
    BY <1>3, BeforeNext, 1 + 1 = 2
  <1>5. Before(S, 3) = Before(S, 2) + One(S, 2)
    BY <1>4, BeforeNext, 2 + 1 = 3
  <1>6. {v \in S : v < 3} = S
    BY <1>0
  <1> QED
    BY <1>2, <1>3, <1>4, <1>5, <1>6 DEF Before, One

LEMMA Numbering ==
  ASSUME NEW S \in SUBSET Units
  PROVE  /\ \A n \in Nat : n < Cardinality(S) => \E u \in S : Before(S, u) = n
         /\ \A u \in S : Before(S, u) \in 0 .. 2 /\ Before(S, u) < Cardinality(S)
         /\ \A u, v \in S : Before(S, u) = Before(S, v) => u = v
  <1>1. \A u \in S : u = 0 \/ u = 1 \/ u = 2
    BY DEF Units
  <1>2. \A u \in {0, 1, 2} : One(S, u) \in {0, 1} /\ (One(S, u) = 1 <=> u \in S)
    BY DEF One
  <1>3. ASSUME NEW n \in Nat, n < Cardinality(S)
        PROVE  \E u \in S : Before(S, u) = n
    BY <1>2, <1>3, Counting
  <1>4. ASSUME NEW u \in S
        PROVE  Before(S, u) \in 0 .. 2 /\ Before(S, u) < Cardinality(S)
    BY <1>1, <1>2, Counting
  <1>5. ASSUME NEW u \in S, NEW v \in S, Before(S, u) = Before(S, v)
        PROVE  u = v
    BY <1>1, <1>2, <1>5, Counting
  <1> QED
    BY <1>3, <1>4, <1>5

(* The search finds a unit of the kind for every known number, and every   *)
(* unit of the kind has one of the numbers 0, 1, 2.                        *)
LEMMA Found0 ==
  ASSUME NEW kind, NEW n \in Nat, Known(kind, n)
  PROVE  UnitOf(kind, n) \in UnitsFor(kind)
  <1> DEFINE S == UnitsFor(kind)
  <1>1. S \in SUBSET Units
    BY DEF UnitsFor
  <1>2. n < Cardinality(S)
    BY DEF Known
  <1> HIDE DEF S
  <1>3. \E u \in S : Before(S, u) = n
    BY <1>1, <1>2, Numbering
  <1> QED
    BY <1>3 DEF UnitOf, Before, S

LEMMA FoundAll ==
  ASSUME NEW kind, NEW u \in UnitsFor(kind)
  PROVE  \E n \in 0 .. 2 : Known(kind, n) /\ UnitOf(kind, n) = u
  <1> DEFINE S == UnitsFor(kind)
  <1>1. S \in SUBSET Units /\ u \in S
    BY DEF UnitsFor
  <1>2. Known(kind, Before(S, u)) /\ Before(S, u) \in 0 .. 2
    BY <1>1, Numbering DEF Known
  <1>3. \A v \in S : Before(S, v) = Before(S, u) => v = u
    <2> HIDE DEF S
    <2> QED
      BY <1>1, Numbering
  <1>4. UnitOf(kind, Before(S, u)) = u
    BY <1>1, <1>3 DEF UnitOf, Before
  <1> QED
    BY <1>2, <1>4

-----------------------------------------------------------------------------
(* What the writes to a control register make of its word: always a word,  *)
(* of the same mode, and without the trigger strobe except where it is the *)
(* purpose of the call or is read from the register.                       *)
SameMode(c, d) == d.timer = c.timer /\ d.counter = c.counter

LEMMA WordWrites ==
  ASSUME NEW c \in Words
  PROVE  /\ Stop(c) \in Words /\ SameMode(c, Stop(c)) /\ ~Stop(c).trigger
         /\ Start(c) \in Words /\ SameMode(c, Start(c)) /\ ~Start(c).trigger
         /\ Trigger(c) \in Words /\ SameMode(c, Trigger(c))
         /\ Clear(c) \in Words /\ SameMode(c, Clear(c)) /\ ~Clear(c).trigger
         /\ StartAll(c) \in Words /\ SameMode(c, StartAll(c))
         /\ StopAll(c) \in Words /\ SameMode(c, StopAll(c))
         /\ \A f : LET d == EnableDisableInterrupt(c, f) IN
              d \in Words /\ SameMode(c, d) /\ ~d.trigger
         /\ \A f : \A level \in {LOW, HIGH} :
              LET d == EnableDisableHardwareOutput(c, f, level) IN
              d \in Words /\ SameMode(c, d) /\ ~d.trigger
  <1> DEFINE w == NoStrobe(c)
  <1>1. w \in Words /\ SameMode(c, w) /\ ~w.trigger
    BY DEF Words, SameMode, NoStrobe
  <1>2. ASSUME NEW v \in Words, NEW x \in BOOLEAN
        PROVE  LET d == [v EXCEPT !.run = x] IN
               d \in Words /\ SameMode(v, d) /\ d.trigger = v.trigger
    BY DEF Words, SameMode
  <1>3. ASSUME NEW x \in BOOLEAN
        PROVE  LET d == [w EXCEPT !.irq = x] IN d \in Words /\ SameMode(w, d) /\ ~d.trigger
    <2> HIDE DEF w
    <2> QED
      BY <1>1 DEF Words, SameMode
  <1>4. ASSUME NEW x \in 0 .. 2
        PROVE  LET d == [w EXCEPT !.output = x] IN d \in Words /\ SameMode(w, d) /\ ~d.trigger
    <2> HIDE DEF w
    <2> QED
      BY <1>1 DEF Words, SameMode
  <1>5. LET d == [w EXCEPT !.trigger = TRUE] IN d \in Words /\ SameMode(w, d)
    <2> HIDE DEF w
    <2> QED
      BY <1>1 DEF Words, SameMode
  <1>6. LET d == [w EXCEPT !.clear = TRUE] IN d \in Words /\ SameMode(w, d) /\ ~d.trigger
    <2> HIDE DEF w
    <2> QED
      BY <1>1 DEF Words, SameMode
  <1>7. \A d : SameMode(w, d) => SameMode(c, d)
    BY <1>1 DEF SameMode
  <1> HIDE DEF w
  <1>8. /\ Stop(c) \in Words /\ SameMode(c, Stop(c)) /\ ~Stop(c).trigger
        /\ Start(c) \in Words /\ SameMode(c, Start(c)) /\ ~Start(c).trigger
    <2>1. Stop(c) = [w EXCEPT !.run = FALSE] /\ Start(c) = [w EXCEPT !.run = TRUE]
      BY DEF Stop, Start, w
    <2> QED
      BY <1>1, <1>2, <1>7, <2>1
  <1>9. Trigger(c) \in Words /\ SameMode(c, Trigger(c))
    BY <1>5, <1>7 DEF Trigger, w
  <1>10. Clear(c) \in Words /\ SameMode(c, Clear(c)) /\ ~Clear(c).trigger
    BY <1>6, <1>7 DEF Clear, w
  <1>11. StartAll(c) \in Words /\ SameMode(c, StartAll(c))
    BY <1>2 DEF StartAll
  <1>12. StopAll(c) \in Words /\ SameMode(c, StopAll(c))
    BY <1>2 DEF StopAll
  <1>13. ASSUME NEW f
         PROVE  LET d == EnableDisableInterrupt(c, f) IN
                d \in Words /\ SameMode(c, d) /\ ~d.trigger
    BY <1>3, <1>7 DEF EnableDisableInterrupt, w
  <1>14. ASSUME NEW f, NEW level \in {LOW, HIGH}
         PROVE  LET d == EnableDisableHardwareOutput(c, f, level) IN
                d \in Words /\ SameMode(c, d) /\ ~d.trigger
    <2>1. (IF f = ENABLE THEN level ELSE 0) \in 0 .. 2
      BY DEF LOW, HIGH
    <2> QED
      BY <1>4, <1>7, <2>1 DEF EnableDisableHardwareOutput, w
  <1> QED
    BY <1>8, <1>9, <1>10, <1>11, <1>12, <1>13, <1>14

LEMMA HardwareTriggerWrites ==
  ASSUME NEW c \in Words, NEW f, NEW level \in Edges
  PROVE  LET d == [c EXCEPT !.hardware = IF f = 0 THEN 0 ELSE Bits(@, level)]
         IN  d \in Words /\ SameMode(c, d)
  BY TimerAssumption DEF Words, SameMode, Bits

(* The mode a unit of a kind is in. *)
ModeFits(kind, c) ==
  /\ kind = TIMER => c.timer /\ ~c.counter
  /\ kind = COUNTER => c.counter /\ ~c.timer
  /\ kind = WATCHDOG => ~c.timer

LEMMA InitWrites ==
  ASSUME NEW c \in Words
  PROVE  /\ \A m \in {2, 3} : LET d == InitAsTimer(c, m) IN
              d \in Words /\ ModeFits(TIMER, d) /\ ~d.trigger
         /\ \A level \in {LOW, HIGH, 3}, up \in {0, 1} : LET d == InitAsCounter(c, level, up) IN
              d \in Words /\ ModeFits(COUNTER, d) /\ ~d.trigger
         /\ LET d == InitAsWatchdog(c) IN
              d \in Words /\ ModeFits(WATCHDOG, d) /\ ~d.trigger
  <1> DEFINE w == Idle(c)
  <1>1. w \in Words /\ ~w.timer /\ ~w.trigger
    BY DEF Words, Idle, NoStrobe
  <1> USE DEF ModeFits, TIMER, COUNTER, WATCHDOG
  <1>2. ASSUME NEW m \in {2, 3}
        PROVE  LET d == InitAsTimer(c, m) IN d \in Words /\ ModeFits(TIMER, d) /\ ~d.trigger
    <2> DEFINE d == [w EXCEPT !.timer = TRUE, !.counter = FALSE, !.mode = m, !.level = 0]
    <2>1. InitAsTimer(c, m) = d
      BY DEF InitAsTimer
    <2> HIDE DEF w
    <2>2. d \in Words
      <3>1. m \in {0, 2, 3} /\ 0 \in 0 .. 3
        OBVIOUS
      <3> QED
        BY <1>1, <3>1 DEF Words
    <2>3. d.timer /\ ~d.counter /\ ~d.trigger
      BY <1>1 DEF Words
    <2> HIDE DEF d
    <2> QED
      BY <2>1, <2>2, <2>3
  <1>3. ASSUME NEW level \in {LOW, HIGH, 3}, NEW up \in {0, 1}
        PROVE  LET d == InitAsCounter(c, level, up) IN
               d \in Words /\ ModeFits(COUNTER, d) /\ ~d.trigger
    <2>1. InitAsCounter(c, level, up) =
            [w EXCEPT !.counter = TRUE, !.mode = 0, !.level = level, !.up = up]
      BY DEF InitAsCounter
    <2>2. level \in 0 .. 3 /\ up \in 0 .. 1
      BY DEF LOW, HIGH
    <2> HIDE DEF w
    <2> QED
      BY <1>1, <2>1, <2>2 DEF Words
  <1>4. LET d == InitAsWatchdog(c) IN d \in Words /\ ModeFits(WATCHDOG, d) /\ ~d.trigger
    <2>1. InitAsWatchdog(c) = [w EXCEPT !.mode = 0, !.level = 0, !.up = 0]
      BY DEF InitAsWatchdog
    <2> DEFINE d == [w EXCEPT !.mode = 0, !.level = 0, !.up = 0]
    <2> HIDE DEF w
    <2>2. d \in Words
      <3>1. 0 \in {0, 2, 3} /\ 0 \in 0 .. 3 /\ 0 \in 0 .. 1
        OBVIOUS
      <3> QED
        BY <1>1, <3>1 DEF Words
    <2>3. ~d.timer /\ ~d.trigger
      BY <1>1 DEF Words
    <2>4. d \in Words /\ ModeFits(WATCHDOG, d) /\ ~d.trigger
      <3> HIDE DEF d
      <3> QED
        BY <2>2, <2>3
    <2> QED
      BY <2>1, <2>4
  <1> QED
    BY <1>2, <1>3, <1>4

-----------------------------------------------------------------------------
(* The classes of steps.                                                   *)

(* A step that changes registers of units in use only, and keeps their     *)
(* modes; a word with the trigger strobe is written only if trig.          *)
InUseStep(trig) ==
  /\ Keep /\ UNCHANGED <<config, flag>>
  /\ control' \in [Blocks -> Words]
  /\ \A b \in Blocks : control'[b] # control[b] =>
       /\ \E u \in Units : Block(u) = b /\ config[u] # NONE
       /\ SameMode(control[b], control'[b])
       /\ control'[b].trigger => trig

(* A step that brings a unit that is not used otherwise into use.          *)
InitStep ==
  \E kind \in Kinds, d \in Words : \E u \in UnitsFor(kind) :
    /\ ModeFits(kind, d) /\ ~d.trigger
    /\ control' = [control EXCEPT ![Block(u)] = d]
    /\ config' = [config EXCEPT ![u] = kind]
    /\ Keep /\ UNCHANGED flag

(* A step that takes a unit out of use and leaves it quiet.                *)
ReleaseStep ==
  \E d \in Words, u \in Units :
    /\ ~d.run /\ ~d.irq /\ ~d.trigger
    /\ control' = [control EXCEPT ![Block(u)] = d]
    /\ config' = [config EXCEPT ![u] = NONE]
    /\ Keep /\ UNCHANGED flag

LEMMA BlockIsBlock ==
  ASSUME TcwTypeOK, NEW u \in Units
  PROVE  Block(u) \in Blocks
  BY DEF TcwTypeOK, Block, Blocks

LEMMA UnitInUse ==
  ASSUME NEW kind \in Kinds, NEW n \in Nat, InUse(kind, n)
  PROVE  /\ UnitOf(kind, n) \in UnitsFor(kind)
         /\ UnitOf(kind, n) \in Units
         /\ config[UnitOf(kind, n)] = kind /\ kind # NONE
  BY Found0 DEF InUse, UnitsFor, Kinds, TIMER, COUNTER, WATCHDOG, NONE

LEMMA NothingDone ==
  ASSUME TcwTypeOK, UNCHANGED tcwVars, NEW trig
  PROVE  InUseStep(trig)
  BY DEF TcwTypeOK, tcwVars, InUseStep, Keep

LEMMA OneWrite ==
  ASSUME TcwTypeOK, NEW u \in Units, config[u] # NONE, NEW d \in Words, NEW trig,
         control' = [control EXCEPT ![Block(u)] = d], Keep, UNCHANGED <<config, flag>>,
         SameMode(control[Block(u)], d), d = control[Block(u)] \/ (d.trigger => trig)
  PROVE  InUseStep(trig)
  <1>1. Block(u) \in Blocks /\ control \in [Blocks -> Words]
    BY BlockIsBlock DEF TcwTypeOK
  <1> QED
    BY <1>1 DEF InUseStep

(* The calls of one unit.                                                  *)
LEMMA UnitCalls ==
  ASSUME TcwTypeOK, NEW kind \in Kinds, NEW n \in Numbers
  PROVE  /\ OnUnit(kind, n, Start) => InUseStep(FALSE)
         /\ OnUnit(kind, n, Stop) => InUseStep(FALSE)
         /\ OnUnit(kind, n, Clear) => InUseStep(FALSE)
         /\ OnUnit(kind, n, Trigger) => InUseStep(TRUE)
         /\ Reads(kind, n) => InUseStep(FALSE)
         /\ \A f : Interrupts(kind, n, f) => InUseStep(FALSE)
         /\ \A f, level : Outputs(kind, n, f, level) => InUseStep(FALSE)
  <1> DEFINE u == UnitOf(kind, n)
             c == control[Block(u)]
  <1>1. n \in Nat
    BY TcwAssumption
  <1>2. Misused(kind, n) => UNCHANGED tcwVars
    BY DEF Misused, Fails
  <1>3. \A code : Fails(code) => UNCHANGED tcwVars
    BY DEF Fails
  <1>4. UNCHANGED tcwVars => InUseStep(TRUE) /\ InUseStep(FALSE)
    BY NothingDone
  <1>5. InUse(kind, n) => u \in Units /\ config[u] # NONE /\ c \in Words
    BY <1>1, UnitInUse, BlockIsBlock DEF TcwTypeOK
  <1>6. ASSUME InUse(kind, n), NEW d \in Words, NEW trig,
               control' = [control EXCEPT ![Block(u)] = d], Keep, UNCHANGED <<config, flag>>,
               SameMode(c, d), d = c \/ (d.trigger => trig)
        PROVE  InUseStep(trig)
    BY <1>5, <1>6, OneWrite
  <1>7. OnUnit(kind, n, Start) => InUseStep(FALSE)
    <2>1. Writes(kind, n, Start) => InUseStep(FALSE)
      <3> SUFFICES ASSUME InUse(kind, n), control' = [control EXCEPT ![Block(u)] = Start(c)],
                          Keep, UNCHANGED <<config, flag>>
                   PROVE  InUseStep(FALSE)
        BY <1>5 DEF Writes, TcwTypeOK
      <3> HIDE DEF u, c
      <3> QED
        BY <1>5, <1>6, WordWrites
    <2> QED
      BY <1>2, <1>4, <2>1 DEF OnUnit
  <1>8. OnUnit(kind, n, Stop) => InUseStep(FALSE)
    <2>1. Writes(kind, n, Stop) => InUseStep(FALSE)
      <3> SUFFICES ASSUME InUse(kind, n), control' = [control EXCEPT ![Block(u)] = Stop(c)],
                          Keep, UNCHANGED <<config, flag>>
                   PROVE  InUseStep(FALSE)
        BY <1>5 DEF Writes, TcwTypeOK
      <3> HIDE DEF u, c
      <3> QED
        BY <1>5, <1>6, WordWrites
    <2> QED
      BY <1>2, <1>4, <2>1 DEF OnUnit
  <1>9. OnUnit(kind, n, Clear) => InUseStep(FALSE)
    <2>1. Writes(kind, n, Clear) => InUseStep(FALSE)
      <3> SUFFICES ASSUME InUse(kind, n), control' = [control EXCEPT ![Block(u)] = Clear(c)],
                          Keep, UNCHANGED <<config, flag>>
                   PROVE  InUseStep(FALSE)
        BY <1>5 DEF Writes, TcwTypeOK
      <3> HIDE DEF u, c
      <3> QED
        BY <1>5, <1>6, WordWrites
    <2> QED
      BY <1>2, <1>4, <2>1 DEF OnUnit
  <1>10. OnUnit(kind, n, Trigger) => InUseStep(TRUE)
    <2>1. Writes(kind, n, Trigger) => InUseStep(TRUE)
      <3> SUFFICES ASSUME InUse(kind, n), control' = [control EXCEPT ![Block(u)] = Trigger(c)],
                          Keep, UNCHANGED <<config, flag>>
                   PROVE  InUseStep(TRUE)
        BY <1>5 DEF Writes, TcwTypeOK
      <3> HIDE DEF u, c
      <3> QED
        BY <1>5, <1>6, WordWrites
    <2> QED
      BY <1>2, <1>4, <2>1 DEF OnUnit
  <1>11. Reads(kind, n) => InUseStep(FALSE)
    <2>1. Writes(kind, n, LAMBDA x : x) => UNCHANGED tcwVars
      BY <1>5 DEF Writes, TcwTypeOK, tcwVars, Keep
    <2> QED
      BY <1>2, <1>4, <2>1 DEF Reads, OnUnit
  <1>12. ASSUME NEW f, Interrupts(kind, n, f)
         PROVE  InUseStep(FALSE)
    <2>1. Writes(kind, n, LAMBDA x : EnableDisableInterrupt(x, f)) => InUseStep(FALSE)
      <3> SUFFICES ASSUME InUse(kind, n), Keep, UNCHANGED <<config, flag>>,
                          control' = [control EXCEPT ![Block(u)] = EnableDisableInterrupt(c, f)]
                   PROVE  InUseStep(FALSE)
        BY <1>5 DEF Writes, TcwTypeOK
      <3> HIDE DEF u, c
      <3> QED
        BY <1>5, <1>6, WordWrites
    <2> QED
      BY <1>2, <1>3, <1>4, <1>12, <2>1 DEF Interrupts
  <1>13. ASSUME NEW f, NEW level, Outputs(kind, n, f, level)
         PROVE  InUseStep(FALSE)
    <2>1. ASSUME level \in {LOW, HIGH},
                 Writes(kind, n, LAMBDA x : EnableDisableHardwareOutput(x, f, level))
          PROVE  InUseStep(FALSE)
      <3> SUFFICES ASSUME InUse(kind, n), Keep, UNCHANGED <<config, flag>>,
                          control' = [control EXCEPT ![Block(u)] =
                                        EnableDisableHardwareOutput(c, f, level)]
                   PROVE  InUseStep(FALSE)
        BY <1>5, <2>1 DEF Writes, TcwTypeOK
      <3> DEFINE d == EnableDisableHardwareOutput(c, f, level)
      <3> HIDE DEF u, c
      <3>1. d \in Words /\ SameMode(c, d) /\ ~d.trigger
        <4>1. \A x \in Words : LET y == EnableDisableHardwareOutput(x, f, level) IN
                 y \in Words /\ SameMode(x, y) /\ ~y.trigger
          BY <2>1, WordWrites
        <4> QED
          BY <1>5, <4>1
      <3> QED
        BY <1>6, <3>1
    <2> QED
      BY <1>2, <1>3, <1>4, <1>13, <2>1 DEF Outputs
  <1> QED
    BY <1>7, <1>8, <1>9, <1>10, <1>11, <1>12, <1>13

(* The hardware trigger call of the timer, which writes back what it reads. *)
LEMMA HardwareTriggerCall ==
  ASSUME TcwTypeOK, NEW n \in Numbers, NEW f, NEW level \in Edges,
         EnableDisableTimerHardwareTrigger(n, f, level)
  PROVE  InUseStep(TRUE)
  <1> DEFINE u == UnitOf(TIMER, n)
             c == control[Block(u)]
             d == [c EXCEPT !.hardware = IF f = 0 THEN 0 ELSE Bits(@, level)]
  <1>1. n \in Nat /\ TIMER \in Kinds
    BY TcwAssumption DEF Kinds
  <1>2. CASE Misused(TIMER, n)
    BY <1>2, NothingDone DEF Misused, Fails
  <1>3. CASE ~Misused(TIMER, n)
    <2>1. InUse(TIMER, n) /\ Keep /\ UNCHANGED <<config, flag>>
          /\ control' = [control EXCEPT ![Block(u)] = d]
      BY <1>3 DEF EnableDisableTimerHardwareTrigger, OnUnit, Writes
    <2>2. u \in Units /\ config[u] # NONE /\ c \in Words
      BY <1>1, <2>1, UnitInUse, BlockIsBlock DEF TcwTypeOK
    <2>3. d \in Words /\ SameMode(c, d)
      <3> HIDE DEF c
      <3> QED
        BY <2>2, HardwareTriggerWrites
    <2> HIDE DEF u, d
    <2> QED
      BY <2>1, <2>2, <2>3, OneWrite
  <1> QED
    BY <1>2, <1>3

(* The calls of all units of a kind.                                       *)
LEMMA AllCalls ==
  ASSUME TcwTypeOK, NEW kind \in Kinds
  PROVE  /\ OnAll(kind, StartAll) => InUseStep(TRUE)
         /\ OnAll(kind, StopAll) => InUseStep(TRUE)
         /\ OnAll(kind, LAMBDA c : c) => InUseStep(FALSE)
  <1>1. control \in [Blocks -> Words]
    BY DEF TcwTypeOK
  <1>2. \A b \in Blocks : b \in {Block(u) : u \in Used(kind)}
                          => \E u \in Units : Block(u) = b /\ config[u] # NONE
    BY DEF Used, UnitsFor, Kinds, TIMER, COUNTER, WATCHDOG, NONE
  <1>3. \A b \in Blocks : /\ StartAll(control[b]) \in Words
                          /\ SameMode(control[b], StartAll(control[b]))
                          /\ StopAll(control[b]) \in Words
                          /\ SameMode(control[b], StopAll(control[b]))
    BY <1>1, WordWrites
  <1>4. OnAll(kind, StartAll) => InUseStep(TRUE)
    BY <1>1, <1>2, <1>3 DEF OnAll, InUseStep
  <1>5. OnAll(kind, StopAll) => InUseStep(TRUE)
    BY <1>1, <1>2, <1>3 DEF OnAll, InUseStep
  <1>6. OnAll(kind, LAMBDA c : c) => InUseStep(FALSE)
    BY <1>1 DEF OnAll, InUseStep
  <1> QED
    BY <1>4, <1>5, <1>6

(* What a release and the removal write: the unit is quiet.                *)
LEMMA Quieted ==
  ASSUME NEW c \in Words
  PROVE  LET d == EnableDisableInterrupt(Stop(c), DISABLE)
         IN  d \in Words /\ ~d.run /\ ~d.irq /\ ~d.trigger
  <1> DEFINE x == Stop(c)
             w == NoStrobe(x)
             d == [w EXCEPT !.irq = FALSE]
  <1>1. x \in Words /\ ~x.run
    BY WordWrites DEF Stop, NoStrobe, Words
  <1>2. EnableDisableInterrupt(x, DISABLE) = d
    <2>1. (DISABLE = ENABLE) = FALSE
      BY DEF DISABLE, ENABLE
    <2> QED
      BY <2>1 DEF EnableDisableInterrupt
  <1>3. w \in Words /\ w.run = x.run
    <2> HIDE DEF x
    <2> QED
      BY <1>1 DEF NoStrobe, Words
  <1>4. ~d.run /\ ~d.irq
    <2> HIDE DEF w
    <2> QED
      BY <1>1, <1>3 DEF Words
  <1> HIDE DEF x, d
  <1>5. LET y == EnableDisableInterrupt(x, DISABLE) IN y \in Words /\ ~y.trigger
    BY <1>1, WordWrites
  <1> QED
    BY <1>2, <1>4, <1>5 DEF x

(* A release.                                                              *)
LEMMA ReleaseCall ==
  ASSUME TcwTypeOK, NEW kind \in Kinds, NEW n \in Numbers, Releases(kind, n)
  PROVE  UNCHANGED tcwVars \/ ReleaseStep
  <1> DEFINE u == UnitOf(kind, n)
             c == control[Block(u)]
             d == EnableDisableInterrupt(Stop(c), DISABLE)
  <1>1. CASE Misused(kind, n)
    BY <1>1 DEF Misused, Fails
  <1>2. CASE ~Misused(kind, n)
    <2>1. /\ InUse(kind, n) /\ Keep /\ UNCHANGED flag
          /\ control' = [control EXCEPT ![Block(u)] = d]
          /\ config' = [config EXCEPT ![u] = NONE]
      BY <1>2 DEF Releases
    <2>2. u \in Units /\ c \in Words
      BY <2>1, TcwAssumption, UnitInUse, BlockIsBlock DEF TcwTypeOK
    <2>3. d \in Words /\ ~d.run /\ ~d.irq /\ ~d.trigger
      <3> HIDE DEF c
      <3> QED
        BY <2>2, Quieted
    <2> HIDE DEF u, d
    <2> QED
      BY <2>1, <2>2, <2>3 DEF ReleaseStep
  <1> QED
    BY <1>1, <1>2

(* The three initialisations.                                              *)
LEMMA OneInit ==
  ASSUME TcwTypeOK, NEW kind \in Kinds, NEW n \in Nat, Known(kind, n),
         NEW u, u = UnitOf(kind, n), NEW d \in Words, ModeFits(kind, d), ~d.trigger,
         control' = [control EXCEPT ![Block(u)] = d], config' = [config EXCEPT ![u] = kind],
         Keep, UNCHANGED flag
  PROVE  InitStep
  BY Found0 DEF InitStep

LEMMA InitCalls ==
  ASSUME TcwTypeOK, NEW n \in Numbers
  PROVE  /\ \A mode, unit, value : InitTimer(n, mode, unit, value) => UNCHANGED tcwVars \/ InitStep
         /\ \A up, level, value : InitCounter(n, up, level, value) => UNCHANGED tcwVars \/ InitStep
         /\ \A unit, value : InitWatchdog(n, unit, value) => UNCHANGED tcwVars \/ InitStep
  <1>1. \A code : Fails(code) => UNCHANGED tcwVars
    BY DEF Fails
  <1>2. n \in Nat /\ TIMER \in Kinds /\ COUNTER \in Kinds /\ WATCHDOG \in Kinds
    BY TcwAssumption DEF Kinds
  <1>3. \A kind \in Kinds : Known(kind, n) => Stop(control[Block(UnitOf(kind, n))]) \in Words
    BY <1>2, Found0, BlockIsBlock, WordWrites DEF TcwTypeOK, UnitsFor
  <1>4. ASSUME NEW mode, NEW unit, NEW value, InitTimer(n, mode, unit, value)
        PROVE  UNCHANGED tcwVars \/ InitStep
    <2> DEFINE u == UnitOf(TIMER, n)
               d == InitAsTimer(Stop(control[Block(u)]), mode)
    <2>1. \/ UNCHANGED tcwVars
          \/ /\ Known(TIMER, n) /\ mode \in {2, 3} /\ Keep /\ UNCHANGED flag
             /\ control' = [control EXCEPT ![Block(u)] = d]
             /\ config' = [config EXCEPT ![u] = TIMER]
      BY <1>1, <1>4 DEF InitTimer, Becomes
    <2>2. Known(TIMER, n) /\ mode \in {2, 3} =>
            d \in Words /\ ModeFits(TIMER, d) /\ ~d.trigger
      BY <1>2, <1>3, InitWrites
    <2> HIDE DEF d
    <2> QED
      BY <1>2, <2>1, <2>2, OneInit
  <1>5. ASSUME NEW up, NEW level, NEW value, InitCounter(n, up, level, value)
        PROVE  UNCHANGED tcwVars \/ InitStep
    <2> DEFINE u == UnitOf(COUNTER, n)
               d == InitAsCounter(Stop(control[Block(u)]), level, up)
               fits == up \in {0, 1} /\ level \in {LOW, HIGH, 3}
    <2>1. \/ UNCHANGED tcwVars
          \/ /\ Known(COUNTER, n) /\ fits /\ Keep /\ UNCHANGED flag
             /\ control' = [control EXCEPT ![Block(u)] = d]
             /\ config' = [config EXCEPT ![u] = COUNTER]
      BY <1>1, <1>5 DEF InitCounter, Becomes
    <2>2. Known(COUNTER, n) /\ fits => d \in Words /\ ModeFits(COUNTER, d) /\ ~d.trigger
      BY <1>2, <1>3, InitWrites
    <2> HIDE DEF d
    <2> QED
      BY <1>2, <2>1, <2>2, OneInit
  <1>6. ASSUME NEW unit, NEW value, InitWatchdog(n, unit, value)
        PROVE  UNCHANGED tcwVars \/ InitStep
    <2> DEFINE u == UnitOf(WATCHDOG, n)
               d == InitAsWatchdog(Stop(control[Block(u)]))
    <2>1. \/ UNCHANGED tcwVars
          \/ /\ Known(WATCHDOG, n) /\ Keep /\ UNCHANGED flag
             /\ control' = [control EXCEPT ![Block(u)] = d]
             /\ config' = [config EXCEPT ![u] = WATCHDOG]
      BY <1>1, <1>6 DEF InitWatchdog, Becomes
    <2>2. Known(WATCHDOG, n) => d \in Words /\ ModeFits(WATCHDOG, d) /\ ~d.trigger
      BY <1>2, <1>3, InitWrites
    <2> HIDE DEF d
    <2> QED
      BY <1>2, <2>1, <2>2, OneInit
  <1> QED
    BY <1>4, <1>5, <1>6

-----------------------------------------------------------------------------
(* Every command is in one of the classes.                                 *)
CommandStep ==
  InUseStep(FALSE) \/ (InUseStep(TRUE) /\ Triggering) \/ InitStep \/ ReleaseStep

LEMMA TimerClass ==
  ASSUME TcwTypeOK, TimerCommands
  PROVE  CommandStep
  <1>1. TIMER \in Kinds /\ (UNCHANGED tcwVars => CommandStep)
    BY NothingDone DEF Kinds, CommandStep
  <1>2. CopyFails => CommandStep
    BY <1>1 DEF CopyFails, Fails
  <1>3. ASSUME NEW n \in Numbers
        PROVE  /\ StartTimer(n) \/ StopTimer(n) \/ ReadTimerValue(n) \/ ReadTimerStatus(n)
                    \/ GetTimerHardwareOutputStatus(n) => CommandStep
               /\ TriggerTimer(n) => CommandStep
               /\ \A f : EnableDisableTimerInterrupt(n, f) => CommandStep
               /\ \A f, level : TimerHardwareOutput(n, f, level) => CommandStep
               /\ ReleaseTimer(n) => CommandStep
    <2>1. StartTimer(n) \/ StopTimer(n) \/ ReadTimerValue(n) \/ ReadTimerStatus(n)
            \/ GetTimerHardwareOutputStatus(n) => InUseStep(FALSE)
      BY <1>1, UnitCalls DEF StartTimer, StopTimer, ReadTimerValue, ReadTimerStatus,
         GetTimerHardwareOutputStatus
    <2>2. TriggerTimer(n) => InUseStep(TRUE) /\ Triggering
      BY <1>1, UnitCalls DEF TriggerTimer, Triggering
    <2>3. \A f : EnableDisableTimerInterrupt(n, f) => InUseStep(FALSE)
      BY <1>1, UnitCalls DEF EnableDisableTimerInterrupt
    <2>4. \A f, level : TimerHardwareOutput(n, f, level) => InUseStep(FALSE)
      BY <1>1, UnitCalls DEF TimerHardwareOutput, EnableDisableTimerHardwareOutput
    <2>5. ReleaseTimer(n) => UNCHANGED tcwVars \/ ReleaseStep
      BY <1>1, ReleaseCall DEF ReleaseTimer
    <2> QED
      BY <1>1, <2>1, <2>2, <2>3, <2>4, <2>5 DEF CommandStep
  <1>4. ASSUME NEW n \in Numbers, NEW f \in Flags, NEW level \in Edges,
               EnableDisableTimerHardwareTrigger(n, f, level)
        PROVE  CommandStep
    <2>1. InUseStep(TRUE) /\ Triggering
      BY <1>4, HardwareTriggerCall DEF Triggering
    <2> QED
      BY <2>1 DEF CommandStep
  <1>5. StartAllTimers \/ StopAllTimers \/ TriggerAllTimers => CommandStep
    <2>1. StartAllTimers \/ StopAllTimers => InUseStep(TRUE) /\ Triggering
      BY <1>1, AllCalls DEF StartAllTimers, StopAllTimers, Triggering
    <2>2. TriggerAllTimers => InUseStep(FALSE)
      BY <1>1, AllCalls DEF TriggerAllTimers
    <2> QED
      BY <2>1, <2>2 DEF CommandStep
  <1>6. CMD_InitTimer => CommandStep
    BY <1>1, <1>2, InitCalls DEF CMD_InitTimer, CommandStep
  <1> QED
    BY <1>2, <1>3, <1>4, <1>5, <1>6 DEF TimerCommands, CMD_ReleaseTimer,
       CMD_StartTimer, CMD_StartAllTimers, CMD_TriggerTimer, CMD_TriggerAllTimers,
       CMD_StopTimer, CMD_StopAllTimers, CMD_ReadTimerValue, CMD_ReadTimerStatus,
       CMD_EnableDisableTimerInterrupt, CMD_EnableDisableTimerHardwareOutput,
       CMD_GetTimerHardwareOutputStatus, CMD_EnableDisableTimerHardwareTrigger

LEMMA CounterClass ==
  ASSUME TcwTypeOK, CounterCommands
  PROVE  CommandStep
  <1>1. COUNTER \in Kinds /\ (UNCHANGED tcwVars => CommandStep)
    BY NothingDone DEF Kinds, CommandStep
  <1>2. CopyFails => CommandStep
    BY <1>1 DEF CopyFails, Fails
  <1>3. ASSUME NEW n \in Numbers
        PROVE  /\ StartCounter(n) \/ StopCounter(n) \/ ClearCounter(n) \/ ReadCounterValue(n)
                    \/ ReadCounterStatus(n) \/ GetCounterHardwareOutputStatus(n) => CommandStep
               /\ TriggerCounter(n) => CommandStep
               /\ \A f : EnableDisableCounterInterrupt(n, f) => CommandStep
               /\ \A f, level : CounterHardwareOutput(n, f, level) => CommandStep
               /\ ReleaseCounter(n) => CommandStep
    <2>1. StartCounter(n) \/ StopCounter(n) \/ ClearCounter(n) \/ ReadCounterValue(n)
            \/ ReadCounterStatus(n) \/ GetCounterHardwareOutputStatus(n) => InUseStep(FALSE)
      BY <1>1, UnitCalls DEF StartCounter, StopCounter, ClearCounter, ReadCounterValue,
         ReadCounterStatus, GetCounterHardwareOutputStatus
    <2>2. TriggerCounter(n) => InUseStep(TRUE) /\ Triggering
      BY <1>1, UnitCalls DEF TriggerCounter, Triggering
    <2>3. \A f : EnableDisableCounterInterrupt(n, f) => InUseStep(FALSE)
      BY <1>1, UnitCalls DEF EnableDisableCounterInterrupt
    <2>4. \A f, level : CounterHardwareOutput(n, f, level) => InUseStep(FALSE)
      BY <1>1, UnitCalls DEF CounterHardwareOutput, EnableDisableCounterHardwareOutput
    <2>5. ReleaseCounter(n) => UNCHANGED tcwVars \/ ReleaseStep
      BY <1>1, ReleaseCall DEF ReleaseCounter
    <2> QED
      BY <1>1, <2>1, <2>2, <2>3, <2>4, <2>5 DEF CommandStep
  <1>4. StartAllCounters \/ StopAllCounters \/ TriggerAllCounters => CommandStep
    <2>1. StartAllCounters \/ StopAllCounters => InUseStep(TRUE) /\ Triggering
      BY <1>1, AllCalls DEF StartAllCounters, StopAllCounters, Triggering
    <2>2. TriggerAllCounters => InUseStep(FALSE)
      BY <1>1, AllCalls DEF TriggerAllCounters
    <2> QED
      BY <2>1, <2>2 DEF CommandStep
  <1>5. CMD_InitCounter => CommandStep
    BY <1>1, <1>2, InitCalls DEF CMD_InitCounter, CommandStep
  <1> QED
    BY <1>2, <1>3, <1>4, <1>5 DEF CounterCommands, CMD_ReleaseCounter,
       CMD_StartCounter, CMD_StartAllCounters, CMD_TriggerCounter, CMD_TriggerAllCounters,
       CMD_StopCounter, CMD_StopAllCounters, CMD_ClearCounter, CMD_ReadCounterValue,
       CMD_ReadCounterStatus, CMD_EnableDisableCounterInterrupt,
       CMD_EnableDisableCounterHardwareOutput, CMD_GetCounterHardwareOutputStatus

LEMMA WatchdogClass ==
  ASSUME TcwTypeOK, WatchdogCommands
  PROVE  CommandStep
  <1>1. WATCHDOG \in Kinds /\ (UNCHANGED tcwVars => CommandStep)
    BY NothingDone DEF Kinds, CommandStep
  <1>2. CopyFails => CommandStep
    BY <1>1 DEF CopyFails, Fails
  <1>3. ASSUME NEW n \in Numbers
        PROVE  /\ StartWatchdog(n) \/ StopWatchdog(n) \/ ReadWatchdogValue(n)
                    \/ ReadWatchdogStatus(n) \/ GetWatchdogHardwareOutputStatus(n) => CommandStep
               /\ TriggerWatchdog(n) => CommandStep
               /\ \A f : EnableDisableWatchdogInterrupt(n, f) => CommandStep
               /\ \A f, level : WatchdogHardwareOutput(n, f, level) => CommandStep
               /\ ReleaseWatchdog(n) => CommandStep
    <2>1. StartWatchdog(n) \/ StopWatchdog(n) \/ ReadWatchdogValue(n)
            \/ ReadWatchdogStatus(n) \/ GetWatchdogHardwareOutputStatus(n) => InUseStep(FALSE)
      BY <1>1, UnitCalls DEF StartWatchdog, StopWatchdog, ReadWatchdogValue,
         ReadWatchdogStatus, GetWatchdogHardwareOutputStatus
    <2>2. TriggerWatchdog(n) => InUseStep(TRUE) /\ Triggering
      BY <1>1, UnitCalls DEF TriggerWatchdog, Triggering
    <2>3. \A f : EnableDisableWatchdogInterrupt(n, f) => InUseStep(FALSE)
      BY <1>1, UnitCalls DEF EnableDisableWatchdogInterrupt
    <2>4. \A f, level : WatchdogHardwareOutput(n, f, level) => InUseStep(FALSE)
      BY <1>1, UnitCalls DEF WatchdogHardwareOutput, EnableDisableWatchdogHardwareOutput
    <2>5. ReleaseWatchdog(n) => UNCHANGED tcwVars \/ ReleaseStep
      BY <1>1, ReleaseCall DEF ReleaseWatchdog
    <2> QED
      BY <1>1, <2>1, <2>2, <2>3, <2>4, <2>5 DEF CommandStep
  <1>4. StartAllWatchdogs \/ StopAllWatchdogs \/ TriggerAllWatchdogs => CommandStep
    <2>1. StartAllWatchdogs \/ StopAllWatchdogs => InUseStep(TRUE) /\ Triggering
      BY <1>1, AllCalls DEF StartAllWatchdogs, StopAllWatchdogs, Triggering
    <2>2. TriggerAllWatchdogs => InUseStep(FALSE)
      BY <1>1, AllCalls DEF TriggerAllWatchdogs
    <2> QED
      BY <2>1, <2>2 DEF CommandStep
  <1>5. CMD_InitWatchdog => CommandStep
    BY <1>1, <1>2, InitCalls DEF CMD_InitWatchdog, CommandStep
  <1> QED
    BY <1>2, <1>3, <1>4, <1>5 DEF WatchdogCommands, CMD_ReleaseWatchdog,
       CMD_StartWatchdog, CMD_StartAllWatchdogs, CMD_TriggerWatchdog, CMD_TriggerAllWatchdogs,
       CMD_StopWatchdog, CMD_StopAllWatchdogs, CMD_ReadWatchdogValue,
       CMD_ReadWatchdogStatus, CMD_EnableDisableWatchdogInterrupt,
       CMD_EnableDisableWatchdogHardwareOutput, CMD_GetWatchdogHardwareOutputStatus

-----------------------------------------------------------------------------
(* The invariant: the types, the quiet units, the modes.                   *)
TcwInv == TcwTypeOK /\ UnusedUnitsQuiet /\ ModeOfUse

LEMMA ModeIsFit ==
  ModeOfUse <=> \A u \in Units : Alone(u) => ModeFits(config[u], control[Block(u)])
  BY DEF ModeOfUse, ModeFits

LEMMA TcwStart == TcwInit => TcwInv
  <1> SUFFICES ASSUME TcwInit
               PROVE  TcwInv
    OBVIOUS
  <1>1. Reset0 \in Words /\ ~Reset0.run /\ ~Reset0.irq
    BY DEF Reset0, Words
  <1>2. TcwTypeOK
    BY <1>1 DEF TcwInit, TcwTypeOK
  <1>3. UnusedUnitsQuiet
    BY <1>1 DEF TcwInit, UnusedUnitsQuiet
  <1>4. ModeOfUse
    BY DEF TcwInit, ModeOfUse, NONE, TIMER, COUNTER, WATCHDOG
  <1> QED
    BY <1>2, <1>3, <1>4 DEF TcwInv

(* Steps that keep the family keep the blocks.                             *)
LEMMA SameBlocks ==
  ASSUME family' = family
  PROVE  /\ \A u \in Units : Block(u)' = Block(u)
         /\ \A u \in Units : Alone(u)' = Alone(u)
  BY DEF Block, Alone

LEMMA InUseKeeps ==
  ASSUME TcwInv, NEW trig, InUseStep(trig)
  PROVE  TcwInv'
  <1>1. TcwTypeOK'
    BY DEF TcwInv, TcwTypeOK, InUseStep, Keep
  <1>2. /\ config' = config
        /\ \A b \in Blocks : control'[b] # control[b] =>
             /\ \E u \in Units : Block(u) = b /\ config[u] # NONE
             /\ SameMode(control[b], control'[b])
        /\ \A u \in Units : Block(u)' = Block(u) /\ Alone(u)' = Alone(u)
    BY SameBlocks DEF InUseStep, Keep
  <1>3. UnusedUnitsQuiet'
    BY <1>2 DEF TcwInv, UnusedUnitsQuiet
  <1>4. ModeOfUse'
    BY <1>2, BlockIsBlock DEF TcwInv, ModeOfUse, SameMode
  <1> QED
    BY <1>1, <1>3, <1>4 DEF TcwInv

LEMMA InitKeeps ==
  ASSUME TcwInv, InitStep
  PROVE  TcwInv'
  <1> USE DEF TcwInv
  <1>1. PICK kind \in Kinds, d \in Words, u \in Units :
          /\ u \in UnitsFor(kind)
          /\ ModeFits(kind, d)
          /\ control' = [control EXCEPT ![Block(u)] = d]
          /\ config' = [config EXCEPT ![u] = kind]
          /\ Keep /\ UNCHANGED flag
    BY DEF InitStep, UnitsFor
  <1>2. u \in Units /\ kind \in can[u] /\ kind # NONE /\ Block(u) \in Blocks
    BY <1>1, BlockIsBlock DEF UnitsFor, Kinds, TIMER, COUNTER, WATCHDOG, NONE
  <1>3. \A v \in Units : Block(v)' = Block(v) /\ Alone(v)' = Alone(v) /\ Block(v) \in Blocks
    BY <1>1, SameBlocks, BlockIsBlock DEF Keep
  <1>4. TcwTypeOK'
    BY <1>1, <1>2 DEF TcwTypeOK, Keep
  <1>5. UnusedUnitsQuiet'
    <2> SUFFICES ASSUME NEW b \in Blocks, \A v \in Units : Block(v) = b => config'[v] = NONE
                 PROVE  ~control'[b].run /\ ~control'[b].irq
      BY <1>3 DEF UnusedUnitsQuiet
    <2>1. b # Block(u) /\ \A v \in Units : Block(v) = b => config[v] = NONE
      BY <1>1, <1>2 DEF TcwTypeOK
    <2> QED
      BY <1>1, <2>1 DEF UnusedUnitsQuiet, TcwTypeOK
  <1>6. ModeOfUse'
    <2> SUFFICES ASSUME NEW v \in Units, Alone(v)
                 PROVE  ModeFits(config'[v], control'[Block(v)])
      BY <1>3 DEF ModeOfUse, ModeFits
    <2>1. CASE v = u
      BY <1>1, <1>2, <2>1 DEF TcwTypeOK
    <2>2. CASE v # u
      <3>1. Block(u) # Block(v)
        BY <1>2, <2>2 DEF Alone
      <3>2. config'[v] = config[v] /\ control'[Block(v)] = control[Block(v)]
        BY <1>1, <1>3, <2>2, <3>1 DEF TcwTypeOK
      <3> QED
        BY <3>2, ModeIsFit
    <2> QED
      BY <2>1, <2>2
  <1> QED
    BY <1>4, <1>5, <1>6

LEMMA ReleaseKeeps ==
  ASSUME TcwInv, ReleaseStep
  PROVE  TcwInv'
  <1> USE DEF TcwInv
  <1>1. PICK d \in Words, u \in Units :
          /\ ~d.run /\ ~d.irq
          /\ control' = [control EXCEPT ![Block(u)] = d]
          /\ config' = [config EXCEPT ![u] = NONE]
          /\ Keep /\ UNCHANGED flag
    BY DEF ReleaseStep
  <1>2. \A v \in Units : Block(v)' = Block(v) /\ Alone(v)' = Alone(v) /\ Block(v) \in Blocks
    BY <1>1, SameBlocks, BlockIsBlock DEF Keep
  <1>3. TcwTypeOK'
    BY <1>1, <1>2 DEF TcwTypeOK, Keep
  <1>4. UnusedUnitsQuiet'
    <2> SUFFICES ASSUME NEW b \in Blocks, \A v \in Units : Block(v) = b => config'[v] = NONE
                 PROVE  ~control'[b].run /\ ~control'[b].irq
      BY <1>2 DEF UnusedUnitsQuiet
    <2>1. CASE b = Block(u)
      BY <1>1, <2>1 DEF TcwTypeOK
    <2>2. CASE b # Block(u)
      <3>1. \A v \in Units : Block(v) = b => config[v] = NONE
        BY <1>1, <2>2 DEF TcwTypeOK
      <3> QED
        BY <1>1, <2>2, <3>1 DEF UnusedUnitsQuiet, TcwTypeOK
    <2> QED
      BY <2>1, <2>2
  <1>5. ModeOfUse'
    <2> SUFFICES ASSUME NEW v \in Units, Alone(v)
                 PROVE  ModeFits(config'[v], control'[Block(v)])
      BY <1>2 DEF ModeOfUse, ModeFits
    <2>1. CASE v = u
      BY <1>1, <2>1 DEF TcwTypeOK, ModeFits, NONE, TIMER, COUNTER, WATCHDOG
    <2>2. CASE v # u
      <3>1. Block(u) # Block(v)
        BY <2>2 DEF Alone
      <3>2. config'[v] = config[v] /\ control'[Block(v)] = control[Block(v)]
        BY <1>1, <1>2, <2>2, <3>1 DEF TcwTypeOK
      <3> QED
        BY <3>2, ModeIsFit
    <2> QED
      BY <2>1, <2>2
  <1> QED
    BY <1>3, <1>4, <1>5

(* The removal finds every unit in use by one of its numbers.              *)
LEMMA ReloadKeeps ==
  ASSUME TcwInv, Reload
  PROVE  TcwInv'
  <1> USE DEF TcwInv
  <1>1. /\ control' = [b \in Blocks |-> StopBoard(b)]
        /\ config' = [u \in Units |-> NONE]
        /\ can' \in [Units -> SUBSET Kinds]
        /\ installed' \in BOOLEAN
        /\ UNCHANGED <<family, flag>>
    BY DEF Reload
  <1>2. \A b \in Blocks : StopBoard(b) \in Words
    BY Quieted DEF TcwTypeOK, StopBoard
  <1>3. TcwTypeOK'
    BY <1>1, <1>2 DEF TcwTypeOK
  <1>4. ASSUME NEW b \in Blocks
        PROVE  ~StopBoard(b).run /\ ~StopBoard(b).irq
    <2>1. CASE b \in Stopped
      BY <2>1, Quieted DEF StopBoard, TcwTypeOK
    <2>2. CASE b \notin Stopped
      <3>1. ASSUME NEW u \in Units, Block(u) = b, config[u] # NONE
            PROVE  FALSE
        <4>1. u \in UnitsFor(config[u]) /\ config[u] \in Kinds
          BY <3>1 DEF TcwTypeOK, UnitsFor
        <4>2. PICK n \in 0 .. 2 : Known(config[u], n) /\ UnitOf(config[u], n) = u
          BY <4>1, FoundAll
        <4>3. InUse(config[u], n)
          BY <4>2 DEF InUse
        <4> QED
          BY <2>2, <3>1, <4>1, <4>2, <4>3 DEF Stopped
      <3> QED
        BY <2>2, <3>1 DEF UnusedUnitsQuiet, StopBoard
    <2> QED
      BY <2>1, <2>2
  <1>5. UnusedUnitsQuiet'
    BY <1>1, <1>4 DEF UnusedUnitsQuiet
  <1>6. ModeOfUse'
    BY <1>1 DEF ModeOfUse, NONE, TIMER, COUNTER, WATCHDOG
  <1> QED
    BY <1>3, <1>5, <1>6

LEMMA FlagsKeep ==
  ASSUME TcwInv, UNCHANGED <<family, can, config, control, installed>>,
         flag' \in [Blocks -> BOOLEAN]
  PROVE  TcwInv'
  <1>1. TcwTypeOK'
    BY DEF TcwInv, TcwTypeOK
  <1>2. UnusedUnitsQuiet' /\ ModeOfUse'
    BY SameBlocks DEF TcwInv, UnusedUnitsQuiet, ModeOfUse
  <1> QED
    BY <1>1, <1>2 DEF TcwInv

LEMMA FlagSteps ==
  ASSUME TcwInv, (\E b \in Blocks : Elapses(b)) \/ Interrupt
  PROVE  UNCHANGED <<family, can, config, control, installed>> /\ flag' \in [Blocks -> BOOLEAN]
  BY DEF TcwInv, TcwTypeOK, Elapses, Interrupt, Keep

LEMMA CommandClass ==
  ASSUME TcwTypeOK, TimerCommands \/ CounterCommands \/ WatchdogCommands
  PROVE  CommandStep
  BY TimerClass, CounterClass, WatchdogClass

LEMMA TcwStep == TcwInv /\ [TcwNext]_tcwVars => TcwInv'
  <1> SUFFICES ASSUME TcwInv, [TcwNext]_tcwVars
               PROVE  TcwInv'
    OBVIOUS
  <1>1. ASSUME TimerCommands \/ CounterCommands \/ WatchdogCommands
        PROVE  TcwInv'
    <2>1. CommandStep
      BY <1>1, CommandClass DEF TcwInv
    <2> QED
      BY <2>1, InUseKeeps, InitKeeps, ReleaseKeeps DEF CommandStep
  <1>2. CASE (\E b \in Blocks : Elapses(b)) \/ Interrupt
    BY <1>2, FlagSteps, FlagsKeep
  <1>3. CASE Reload
    BY <1>3, ReloadKeeps
  <1>4. CASE UNCHANGED tcwVars
    BY <1>4, FlagsKeep DEF tcwVars, TcwInv, TcwTypeOK
  <1> QED
    BY <1>1, <1>2, <1>3, <1>4 DEF TcwNext

(* TcwInv holds in every state of the board.                               *)
THEOREM TcwInvariant == TcwSpec => []TcwInv
  BY TcwStart, TcwStep, PTL DEF TcwSpec

(* Every variable keeps its type, and no unit is ever in use as a kind     *)
(* that the board information does not give it (the searches of k_timer.c, *)
(* k_counter.c and k_watchdog.c).                                          *)
THEOREM TcwTyping == TcwSpec => []TcwTypeOK
  <1>1. TcwInv => TcwTypeOK
    BY DEF TcwInv
  <1> QED
    BY <1>1, TcwInvariant, PTL

(* No release and no removal of the driver leaves a unit behind that runs  *)
(* or interrupts (Release of the three kinds, xpci3xxx_stop_board), on any *)
(* board, also where several units share a register block.                 *)
THEOREM ReleasedIsQuiet == TcwSpec => []UnusedUnitsQuiet
  <1>1. TcwInv => UnusedUnitsQuiet
    BY DEF TcwInv
  <1> QED
    BY <1>1, TcwInvariant, PTL

(* A unit with registers of its own is in the mode of the kind it is in    *)
(* use as, whatever it was used as before                                  *)
(* (v_xpci3xxx_TimerCounterWatchdog_Init).                                 *)
THEOREM UseFixesMode == TcwSpec => []ModeOfUse
  <1>1. TcwInv => ModeOfUse
    BY DEF TcwInv
  <1> QED
    BY <1>1, TcwInvariant, PTL

(* The interrupt routine reports a timer only while its interrupt is       *)
(* enabled: the word it compares with 1 has the timer mode bit set.        *)
THEOREM OnlyEnabledTimers == TcwSpec => []TimerReportsEnabled
  <1>1. TcwInv => TimerReportsEnabled
    <2> SUFFICES ASSUME TcwInv, NEW u \in Units, <<TIMER, u>> \in Found, Alone(u),
                        ~control[Block(u)].irq
                 PROVE  FALSE
      BY DEF TimerReportsEnabled
    <2>1. u \in TimerSource
      BY DEF Found, TIMER, COUNTER, WATCHDOG
    <2>2. control[Block(u)] = [Reset0 EXCEPT !.run = TRUE] /\ config[u] = TIMER
      BY <2>1 DEF TimerSource, Used, WordIsOne
    <2>3. control[Block(u)].timer
      BY <2>2 DEF TcwInv, ModeOfUse
    <2> QED
      BY <2>2, <2>3 DEF Reset0
  <1> QED
    BY <1>1, TcwInvariant, PTL

(* Only a trigger call writes the trigger strobe: no other command, and    *)
(* not the removal, triggers a unit again by writing back what it read.    *)
THEOREM NoStrayTrigger == TcwSpec => TriggeredOnRequest
  <1> DEFINE Step == \A b \in Blocks : control'[b] # control[b] /\ control'[b].trigger => Triggering
  <1>1. TcwInv /\ [TcwNext]_tcwVars => [Step]_tcwVars
    <2> SUFFICES ASSUME TcwInv, TcwNext
                 PROVE  Step
      OBVIOUS
    <2>1. ASSUME TimerCommands \/ CounterCommands \/ WatchdogCommands
          PROVE  Step
      <3>1. CommandStep
        BY <2>1, CommandClass DEF TcwInv
      <3>2. InUseStep(FALSE) => Step
        BY DEF InUseStep
      <3>3. InUseStep(TRUE) /\ Triggering => Step
        OBVIOUS
      <3>4. InitStep => Step
        BY DEF InitStep, TcwInv, TcwTypeOK
      <3>5. ReleaseStep => Step
        BY DEF ReleaseStep, TcwInv, TcwTypeOK
      <3> QED
        BY <3>1, <3>2, <3>3, <3>4, <3>5 DEF CommandStep
    <2>2. CASE (\E b \in Blocks : Elapses(b)) \/ Interrupt
      BY <2>2, FlagSteps
    <2>3. CASE Reload
      <3>1. \A b \in Blocks : control'[b] = control[b] \/ ~control'[b].trigger
        BY <2>3, Quieted DEF Reload, StopBoard, TcwInv, TcwTypeOK
      <3> QED
        BY <3>1
    <2> QED
      BY <2>1, <2>2, <2>3 DEF TcwNext
  <1> QED
    BY <1>1, TcwInvariant, PTL DEF TcwSpec, TriggeredOnRequest

=============================================================================
