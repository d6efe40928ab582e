-------------------------------- MODULE Tcw ---------------------------------
(***************************************************************************)
(* The timer, counter and watchdog units of a board: the register block of *)
(* a unit (primary_tcw.c), the board information that says what a unit is  *)
(* used as, and the search for a unit that every call begins with          *)
(* (k_timer.c, k_counter.c, k_watchdog.c).  Timer, Counter and Watchdog    *)
(* add the calls, TcwBoard the interrupt routine and the board.            *)
(*                                                                         *)
(* The calls run under the board's spin lock from the search to the last   *)
(* register access, and so does the interrupt routine: each is one action. *)
(***************************************************************************)
EXTENDS Boards, FiniteSets, FiniteSetsExt

CONSTANTS
  Families,   \* the families of boards that are considered
  Leftovers,  \* what a capability that no one sets may be read as
  Numbers,    \* the timer, counter and watchdog numbers callers pass
  TimeUnits,  \* the time units callers pass (1: us, 2: ms, 3: s)
  Reloads,    \* the reload values callers pass
  Flags,      \* the control flags callers pass
  Levels      \* the output levels callers pass

VARIABLES
  family,     \* the family of the board
  can,        \* b_TimerCounterWatchdogConfigurableAs*[]: the kinds of every unit
  config,     \* b_TimerCounterWatchdogConfiguration[]
  control,    \* the control register (+12) of every register block
  flag,       \* the interrupt status (+20) of every register block
  installed   \* b_InterruptInstalled

tcwVars == <<family, can, config, control, flag, installed>>

ASSUME TcwAssumption == Numbers \subseteq Nat

NONE == "none"
EFAULT == 14
DISABLE == 0
ENABLE == 1
LOW == 1
HIGH == 2

(***************************************************************************)
(* The control register.  The fields are its bits: 0, 1, 4, 19, 9, 10,     *)
(* 5-6, 11-12, 13-15, 16-17 and 18.                                        *)
(***************************************************************************)
Reset0 == [ run |-> FALSE, irq |-> FALSE, timer |-> FALSE, counter |-> FALSE,
            trigger |-> FALSE, clear |-> FALSE, hardware |-> 0, output |-> 0,
            mode |-> 0, level |-> 0, up |-> 0 ]

(* 0x600: the strobes are not written back as they are read. *)
NoStrobe(c) == [c EXCEPT !.trigger = FALSE, !.clear = FALSE]

Stop(c) == [NoStrobe(c) EXCEPT !.run = FALSE]
Start(c) == [NoStrobe(c) EXCEPT !.run = TRUE]
Trigger(c) == [NoStrobe(c) EXCEPT !.trigger = TRUE]
Clear(c) == [NoStrobe(c) EXCEPT !.clear = TRUE]
(* Variant: the strobes are written back. *)
EnableDisableInterruptRaw(c, f) == [c EXCEPT !.irq = (f = ENABLE)]
EnableDisableInterrupt(c, f) == [NoStrobe(c) EXCEPT !.irq = (f = ENABLE)]

(* 0xFFFFE1FF clears the strobes and the output level; the new level is    *)
(* set only when the output is enabled.                                    *)
EnableDisableHardwareOutput(c, f, level) ==
  [NoStrobe(c) EXCEPT !.output = IF f = ENABLE THEN level ELSE 0]

(* Init of the three kinds: each keeps the interrupt enable, the hardware  *)
(* trigger and the output; the watchdog's mask keeps the counter mode too. *)
Idle(c) == [NoStrobe(c) EXCEPT !.run = FALSE, !.timer = FALSE]
(* Variant: the timer's mask keeps the counter mode. *)
InitAsTimerKeeps(c, m) == [Idle(c) EXCEPT !.timer = TRUE, !.mode = m, !.level = 0]
InitAsTimer(c, m) == [Idle(c) EXCEPT !.timer = TRUE, !.counter = FALSE, !.mode = m, !.level = 0]
InitAsWatchdog(c) == [Idle(c) EXCEPT !.mode = 0, !.level = 0, !.up = 0]
InitAsCounter(c, level, up) ==
  [Idle(c) EXCEPT !.counter = TRUE, !.mode = 0, !.level = level, !.up = up]

(* Commands written to register 0: the board starts, triggers or stops the *)
(* unit as if by its own control register.                                 *)
StartAll(c) == [c EXCEPT !.run = TRUE]
StopAll(c) == [c EXCEPT !.run = FALSE]

-----------------------------------------------------------------------------

(* The values the capability of unit u may have on a board of family f. *)
Outcomes(f, u) == IF CapabilityOf(f, u) = Unset THEN Leftovers ELSE {CapabilityOf(f, u)}

Block(u) == OffsetOf(family, u)
Blocks == {OffsetOf(f, u) : f \in Families, u \in Units}

(* The unit with number n among those that can be of a kind. *)
UnitsFor(kind) == {u \in Units : kind \in can[u]}
Known(kind, n) == n < Cardinality(UnitsFor(kind))
(* Variant: all units are counted. *)
UnitOfAny(kind, n) == n
UnitOf(kind, n) ==
  CHOOSE u \in UnitsFor(kind) : Cardinality({v \in UnitsFor(kind) : v < u}) = n

(* The units in use as a kind. *)
Used(kind) == {u \in UnitsFor(kind) : config[u] = kind}

Keep == UNCHANGED <<family, can, installed>>

(* A call that returns an error changes nothing.  The code says which one  *)
(* it is; what a caller is told is not part of the state.                  *)
Fails(code) == code # 0 /\ UNCHANGED tcwVars

(* copy_from_user fails, or copy_to_user after a call that only reads. *)
CopyFails == Fails(EFAULT)

(* A call for number n of a kind that is in use as that kind.  A unit in   *)
(* use as another kind counts as not initialised: the codes 4 and 5 of the *)
(* header are tested after it, and never returned.                         *)
Misused(kind, n) ==
  \/ ~Known(kind, n) /\ Fails(3)
  \/ Known(kind, n) /\ config[UnitOf(kind, n)] # kind /\ Fails(2)

InUse(kind, n) == Known(kind, n) /\ config[UnitOf(kind, n)] = kind

(* The register block of that unit is changed by Op. *)
Writes(kind, n, Op(_)) ==
  /\ InUse(kind, n)
  /\ control' = [control EXCEPT ![Block(UnitOf(kind, n))] = Op(@)]
  /\ Keep /\ UNCHANGED <<config, flag>>

OnUnit(kind, n, Op(_)) == Misused(kind, n) \/ Writes(kind, n, Op)

(* A call that only reads registers. *)
Reads(kind, n) == OnUnit(kind, n, LAMBDA c : c)

(* The loops over all units in use as a kind. *)
OnAll(kind, Op(_)) ==
  /\ control' = [b \in Blocks |->
       IF b \in {Block(u) : u \in Used(kind)} THEN Op(control[b]) ELSE control[b]]
  /\ Keep /\ UNCHANGED <<config, flag>>

(* The unit is used as another kind it can be of: codes 3 and 4 of Init. *)
Taken(kind, u) == config[u] \in can[u] \ {kind}

(* The unit is stopped, given its mode and marked as used. *)
Becomes(kind, u, Op(_)) ==
  /\ control' = [control EXCEPT ![Block(u)] = Op(Stop(@))]
  /\ config' = [config EXCEPT ![u] = kind]
  /\ Keep /\ UNCHANGED flag

(* Release: stop, interrupt off, not used. *)
Releases(kind, n) ==
  \/ Misused(kind, n)
  \/ /\ InUse(kind, n)
     /\ control' = [control EXCEPT ![Block(UnitOf(kind, n))] =
                      EnableDisableInterrupt(Stop(@), DISABLE)]
     /\ config' = [config EXCEPT ![UnitOf(kind, n)] = NONE]
     /\ Keep /\ UNCHANGED <<flag>>

(* The interrupt of a unit: the flag is 0 or 1 (6 if not), and enabling    *)
(* needs an installed interrupt (7 if not).                                *)
Interrupts(kind, n, f) ==
  \/ Misused(kind, n)
  \/ InUse(kind, n) /\ f \notin {DISABLE, ENABLE} /\ Fails(6)
  \/ InUse(kind, n) /\ f = ENABLE /\ ~installed /\ Fails(7)
  \/ /\ f = DISABLE \/ (f = ENABLE /\ installed)
     /\ Writes(kind, n, LAMBDA c : EnableDisableInterrupt(c, f))

(* The output of a unit: the flag is 0 or 1 (6), the level LOW or HIGH (7), *)
(* also when the output is to be disabled.                                 *)
Outputs(kind, n, f, level) ==
  \/ Misused(kind, n)
  \/ InUse(kind, n) /\ f \notin {DISABLE, ENABLE} /\ Fails(6)
  \/ InUse(kind, n) /\ f \in {DISABLE, ENABLE} /\ level \notin {LOW, HIGH} /\ Fails(7)
  \/ /\ f \in {DISABLE, ENABLE}
     /\ level \in {LOW, HIGH}
     /\ Writes(kind, n, LAMBDA c : EnableDisableHardwareOutput(c, f, level))

-----------------------------------------------------------------------------

(* A board as probe finds it: what the family does not set is arbitrary,   *)
(* nothing is in use and nothing runs.                                     *)
TcwInit ==
  /\ family \in Families
  /\ can \in {c \in [Units -> SUBSET Kinds] : \A u \in Units : c[u] \in Outcomes(family, u)}
  /\ config = [u \in Units |-> NONE]
  /\ control = [b \in Blocks |-> Reset0]
  /\ flag = [b \in Blocks |-> FALSE]
  /\ installed = FALSE

=============================================================================
