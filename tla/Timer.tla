------------------------------- MODULE Timer --------------------------------
(***************************************************************************)
(* The timer calls (k_timer.c) and the ioctl commands that make them       *)
(* (timer.c).                                                              *)
(***************************************************************************)
EXTENDS Tcw

CONSTANTS
  Modes,      \* the timer modes callers pass
  Edges       \* the hardware trigger levels callers pass, of which the
              \* driver takes two bits (1: low, 2: high, 3: both)

ASSUME TimerAssumption == Edges \subseteq 0 .. 3

(* The reload value is also saved for the time stamps of the analog inputs, *)
(* which are not modelled.                                                 *)
InitTimer(n, mode, unit, value) ==
  LET u == UnitOf(TIMER, n) IN
  \/ ~Known(TIMER, n) /\ Fails(2)
  \/ Known(TIMER, n) /\ Taken(TIMER, u) /\ Fails(IF config[u] = COUNTER THEN 3 ELSE 4)
  \/ /\ Known(TIMER, n) /\ ~Taken(TIMER, u)
     /\ \/ mode \notin {2, 3} /\ Fails(5)
        \/ mode \in {2, 3} /\ unit \notin 1 .. 3 /\ Fails(6)
        \/ mode \in {2, 3} /\ unit \in 1 .. 3 /\ value > 65535 /\ Fails(7)
        \/ /\ mode \in {2, 3} /\ unit \in 1 .. 3 /\ value <= 65535
           /\ Becomes(TIMER, u, LAMBDA c : InitAsTimer(c, mode))

ReleaseTimer(n) == Releases(TIMER, n)
StartTimer(n) == OnUnit(TIMER, n, Start)
StartAllTimers == OnAll(TIMER, StartAll)
TriggerTimer(n) == OnUnit(TIMER, n, Trigger)
TriggerAllTimers == OnAll(TIMER, LAMBDA c : c)
StopTimer(n) == OnUnit(TIMER, n, Stop)
StopAllTimers == OnAll(TIMER, StopAll)
ReadTimerValue(n) == Reads(TIMER, n)
ReadTimerStatus(n) == Reads(TIMER, n)
EnableDisableTimerInterrupt(n, f) == Interrupts(TIMER, n, f)
EnableDisableTimerHardwareOutput(n, f, level) == Outputs(TIMER, n, f, level)
GetTimerHardwareOutputStatus(n) == Reads(TIMER, n)

(* The register is written as it was read, strobes included, and a new     *)
(* level is added to the old one.                                          *)
Bits(a, b) == IF a = b \/ b = 0 THEN a ELSE IF a = 0 THEN b ELSE 3
EnableDisableTimerHardwareTrigger(n, f, level) ==
  OnUnit(TIMER, n, LAMBDA c : [c EXCEPT !.hardware = IF f = 0 THEN 0 ELSE Bits(@, level)])

-----------------------------------------------------------------------------
(* The ioctl commands. *)

CMD_InitTimer ==
  \/ CopyFails
  \/ \E n \in Numbers, mode \in Modes, unit \in TimeUnits, value \in Reloads :
       InitTimer(n, mode, unit, value)
CMD_ReleaseTimer == CopyFails \/ \E n \in Numbers : ReleaseTimer(n)
CMD_StartTimer == CopyFails \/ \E n \in Numbers : StartTimer(n)
CMD_StartAllTimers == StartAllTimers
CMD_TriggerTimer == CopyFails \/ \E n \in Numbers : TriggerTimer(n)
CMD_TriggerAllTimers == TriggerAllTimers
CMD_StopTimer == CopyFails \/ \E n \in Numbers : StopTimer(n)
CMD_StopAllTimers == StopAllTimers
CMD_ReadTimerValue == CopyFails \/ \E n \in Numbers : ReadTimerValue(n)
CMD_ReadTimerStatus == CopyFails \/ \E n \in Numbers : ReadTimerStatus(n)
CMD_EnableDisableTimerInterrupt ==
  CopyFails \/ \E n \in Numbers, f \in Flags : EnableDisableTimerInterrupt(n, f)
CMD_GetTimerHardwareOutputStatus ==
  CopyFails \/ \E n \in Numbers : GetTimerHardwareOutputStatus(n)
CMD_EnableDisableTimerHardwareTrigger ==
  \/ CopyFails
  \/ \E n \in Numbers, f \in Flags, level \in Edges : EnableDisableTimerHardwareTrigger(n, f, level)

(* The level is taken from the place of the flag: what the caller passes   *)
(* as the level is not read.                                               *)
TimerHardwareOutput(n, f, level) == EnableDisableTimerHardwareOutput(n, f, f)
CMD_EnableDisableTimerHardwareOutput ==
  CopyFails \/ \E n \in Numbers, f \in Flags, level \in Levels : TimerHardwareOutput(n, f, level)

TimerCommands ==
  \/ CMD_InitTimer \/ CMD_ReleaseTimer
  \/ CMD_StartTimer \/ CMD_StartAllTimers
  \/ CMD_TriggerTimer \/ CMD_TriggerAllTimers
  \/ CMD_StopTimer \/ CMD_StopAllTimers
  \/ CMD_ReadTimerValue \/ CMD_ReadTimerStatus
  \/ CMD_EnableDisableTimerInterrupt
  \/ CMD_EnableDisableTimerHardwareOutput \/ CMD_GetTimerHardwareOutputStatus
  \/ CMD_EnableDisableTimerHardwareTrigger

=============================================================================
