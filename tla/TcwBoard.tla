------------------------------ MODULE TcwBoard ------------------------------
(***************************************************************************)
(* The timer, counter and watchdog functions of one board together: the    *)
(* commands of all callers, the part of the interrupt routine that looks   *)
(* at the units (interrupt.c), the hardware, and the removal of the driver *)
(* and its return, which forgets the board information but not the         *)
(* registers.                                                              *)
(***************************************************************************)
EXTENDS Timer, Counter, Watchdog

(***************************************************************************)
(* The hardware.  A unit that runs reaches the end of its time or count    *)
(* and sets its interrupt status, whether its interrupt is enabled or not; *)
(* reading the status register clears it (nothing else in the driver       *)
(* acknowledges it).                                                       *)
(***************************************************************************)
Elapses(b) ==
  /\ control[b].run
  /\ ~flag[b]
  /\ flag' = [flag EXCEPT ![b] = TRUE]
  /\ Keep /\ UNCHANGED <<config, control>>

(***************************************************************************)
(* The sources of an interrupt, for every kind those units in use as it    *)
(* whose status is set.  Only the timer function looks whether the         *)
(* interrupt is enabled; if it is not, it compares the whole control word  *)
(* with 1.                                                                 *)
(***************************************************************************)
WordIsOne(c) == c = [Reset0 EXCEPT !.run = TRUE]

(* Variant: only bit 0 of the word is tested. *)
TimerSourceBit ==
  {u \in Used(TIMER) :
     IF control[Block(u)].irq THEN flag[Block(u)] ELSE control[Block(u)].run}
TimerSource ==
  {u \in Used(TIMER) :
     IF control[Block(u)].irq THEN flag[Block(u)] ELSE WordIsOne(control[Block(u)])}
CounterSource ==
  {u \in Used(COUNTER) : family # xPCI3501 /\ flag[Block(u)]}
WatchdogSource == {u \in Used(WATCHDOG) : flag[Block(u)]}

(* The status registers the three functions read. *)
StatusRead ==
  {Block(u) : u \in {v \in Used(TIMER) : control[Block(v)].irq}
                    \cup (IF family = xPCI3501 THEN {} ELSE Used(COUNTER))
                    \cup Used(WATCHDOG)}

(* The line is shared: the routine may run at any time the interrupt is    *)
(* installed.  Without a source it returns IRQ_NONE; otherwise the source  *)
(* word goes to the queue of events (EventFifo).  When several units share *)
(* a register block only the first read sees the status: which one depends *)
(* on the order of the functions, timers before counters before watchdogs. *)
Found ==
  LET taken == {Block(u) : u \in {v \in TimerSource : control[Block(v)].irq}}
      first(S) == {u \in S : \A v \in S : Block(v) = Block(u) => u <= v}
      timers == {u \in TimerSource : control[Block(u)].irq => u \in first(TimerSource)}
      counters == first({u \in CounterSource : Block(u) \notin taken})
      watchdogs == first({u \in WatchdogSource :
                     Block(u) \notin taken \cup {Block(v) : v \in counters}})
  IN ({TIMER} \X timers) \cup ({COUNTER} \X counters) \cup ({WATCHDOG} \X watchdogs)

Interrupt ==
  /\ installed
  /\ flag' = [b \in Blocks |-> flag[b] /\ b \notin StatusRead]
  /\ Keep /\ UNCHANGED <<config, control>>

(***************************************************************************)
(* Removal (remove_one): every number of every kind is stopped and its     *)
(* interrupt switched off, whatever the calls return; then the board       *)
(* information is freed.  A new probe_one starts with new information over *)
(* the old registers.  The interrupt may not be registered; probe_one goes *)
(* on with the information it has just freed.                              *)
(***************************************************************************)
Stopped ==
  {b \in Blocks : \E kind \in Kinds, n \in 0 .. 2 :
                    InUse(kind, n) /\ Block(UnitOf(kind, n)) = b}

(* Variant: the interrupts are left on. *)
StopBoardKeepsInterrupts(b) == IF b \in Stopped THEN Stop(control[b]) ELSE control[b]
StopBoard(b) ==
  IF b \in Stopped THEN EnableDisableInterrupt(Stop(control[b]), DISABLE) ELSE control[b]

Reload ==
  /\ control' = [b \in Blocks |-> StopBoard(b)]
  /\ config' = [u \in Units |-> NONE]
  /\ can' \in [Units -> SUBSET Kinds]
  /\ \A u \in Units : can'[u] \in Outcomes(family, u)
  /\ installed' \in BOOLEAN
  /\ UNCHANGED <<family, flag>>

TcwNext ==
  \/ TimerCommands
  \/ CounterCommands
  \/ WatchdogCommands
  \/ \E b \in Blocks : Elapses(b)
  \/ Interrupt
  \/ Reload

TcwSpec == TcwInit /\ [][TcwNext]_tcwVars

-----------------------------------------------------------------------------

Words ==
  [ run : BOOLEAN, irq : BOOLEAN, timer : BOOLEAN, counter : BOOLEAN,
    trigger : BOOLEAN, clear : BOOLEAN, hardware : 0 .. 3, output : 0 .. 2,
    mode : {0, 2, 3}, level : 0 .. 3, up : 0 .. 1 ]

(* Types, the units in use among those that can be: a unit is never in use *)
(* as a kind the board information does not give it.                       *)
TcwTypeOK ==
  /\ family \in Families
  /\ can \in [Units -> SUBSET Kinds]
  /\ config \in [Units -> Kinds \cup {NONE}]
  /\ \A u \in Units : config[u] \in can[u] \cup {NONE}
  /\ control \in [Blocks -> Words]
  /\ flag \in [Blocks -> BOOLEAN]
  /\ installed \in BOOLEAN

(* A register block that no unit in use has neither runs nor interrupts:   *)
(* neither a release nor the removal of the driver leaves a unit behind    *)
(* that goes on counting or interrupts a driver that has forgotten it      *)
(* (Release of the three kinds, xpci3xxx_stop_board).                      *)
UnusedUnitsQuiet ==
  \A b \in Blocks :
    (\A u \in Units : Block(u) = b => config[u] = NONE) =>
      ~control[b].run /\ ~control[b].irq

(* A unit that is in use as a timer is in timer mode and not in counter    *)
(* mode, one in use as a counter is the other way round, and a watchdog is *)
(* not in timer mode, however the unit was used before                     *)
(* (v_xpci3xxx_TimerCounterWatchdog_Init); for units with a register block *)
(* of their own.                                                           *)
Alone(u) == \A v \in Units : v # u => Block(v) # Block(u)
ModeOfUse ==
  \A u \in Units : Alone(u) =>
    /\ config[u] = TIMER => control[Block(u)].timer /\ ~control[Block(u)].counter
    /\ config[u] = COUNTER => control[Block(u)].counter /\ ~control[Block(u)].timer
    /\ config[u] = WATCHDOG => ~control[Block(u)].timer

(* The interrupt routine reports a timer only if the interrupt of that     *)
(* timer is enabled, although it tests a register word that it may not     *)
(* have read from the status register (v_xpci3xxx_TimerInterruptFunction). *)
TimerReportsEnabled ==
  \A u \in Units : <<TIMER, u>> \in Found /\ Alone(u) => control[Block(u)].irq

(* A call that writes the control register writes the trigger strobe only  *)
(* if it is a trigger call, or the hardware trigger call of the timer: all *)
(* others read and write the register and take the strobe out, so that a   *)
(* unit is not triggered again by a call that means something else.  The   *)
(* calls for all units write another register.                             *)
Triggering ==
  \/ \E n \in Numbers : TriggerTimer(n) \/ TriggerCounter(n) \/ TriggerWatchdog(n)
  \/ \E n \in Numbers, f \in Flags, level \in Edges : EnableDisableTimerHardwareTrigger(n, f, level)
  \/ StartAllTimers \/ StartAllCounters \/ StartAllWatchdogs
  \/ StopAllTimers \/ StopAllCounters \/ StopAllWatchdogs
TriggeredOnRequest ==
  [][\A b \in Blocks : control'[b] # control[b] /\ control'[b].trigger => Triggering]_tcwVars

=============================================================================
