------------------------------ MODULE Counter -------------------------------
(***************************************************************************)
(* The counter calls (k_counter.c) and the ioctl commands that make them   *)
(* (counter.c).                                                            *)
(***************************************************************************)
EXTENDS Tcw

CONSTANTS
  Directions,   \* the directions callers pass (1: up, 0: down)
  Inputs       \* the input levels callers pass (LOW, HIGH, both: 3)

InitCounter(n, up, level, value) ==
  LET u == UnitOf(COUNTER, n) IN
  \/ ~Known(COUNTER, n) /\ Fails(2)
  \/ Known(COUNTER, n) /\ Taken(COUNTER, u) /\ Fails(IF config[u] = TIMER THEN 3 ELSE 4)
  \/ /\ Known(COUNTER, n) /\ ~Taken(COUNTER, u)
     /\ \/ up \notin {0, 1} /\ Fails(5)
        \/ up \in {0, 1} /\ level \notin {LOW, HIGH, 3} /\ Fails(6)
        \/ up \in {0, 1} /\ level \in {LOW, HIGH, 3} /\ value >= 65536 /\ Fails(7)
        \/ /\ up \in {0, 1} /\ level \in {LOW, HIGH, 3} /\ value < 65536
           /\ Becomes(COUNTER, u, LAMBDA c : InitAsCounter(c, level, up))

ReleaseCounter(n) == Releases(COUNTER, n)
StartCounter(n) == OnUnit(COUNTER, n, Start)
StartAllCounters == OnAll(COUNTER, StartAll)
TriggerCounter(n) == OnUnit(COUNTER, n, Trigger)
TriggerAllCounters == OnAll(COUNTER, LAMBDA c : c)
StopCounter(n) == OnUnit(COUNTER, n, Stop)
StopAllCounters == OnAll(COUNTER, StopAll)
ClearCounter(n) == OnUnit(COUNTER, n, Clear)
ReadCounterValue(n) == Reads(COUNTER, n)
ReadCounterStatus(n) == Reads(COUNTER, n)
EnableDisableCounterInterrupt(n, f) == Interrupts(COUNTER, n, f)
EnableDisableCounterHardwareOutput(n, f, level) == Outputs(COUNTER, n, f, level)
GetCounterHardwareOutputStatus(n) == Reads(COUNTER, n)

-----------------------------------------------------------------------------
(* The ioctl commands. *)

CMD_InitCounter ==
  \/ CopyFails
  \/ \E n \in Numbers, up \in Directions, level \in Inputs, value \in Reloads :
       InitCounter(n, up, level, value)
CMD_ReleaseCounter == CopyFails \/ \E n \in Numbers : ReleaseCounter(n)
CMD_StartCounter == CopyFails \/ \E n \in Numbers : StartCounter(n)
CMD_StartAllCounters == StartAllCounters
CMD_TriggerCounter == CopyFails \/ \E n \in Numbers : TriggerCounter(n)
CMD_TriggerAllCounters == TriggerAllCounters
CMD_StopCounter == CopyFails \/ \E n \in Numbers : StopCounter(n)
CMD_StopAllCounters == StopAllCounters
CMD_ClearCounter == CopyFails \/ \E n \in Numbers : ClearCounter(n)
CMD_ReadCounterValue == CopyFails \/ \E n \in Numbers : ReadCounterValue(n)
CMD_ReadCounterStatus == CopyFails \/ \E n \in Numbers : ReadCounterStatus(n)
CMD_EnableDisableCounterInterrupt ==
  CopyFails \/ \E n \in Numbers, f \in Flags : EnableDisableCounterInterrupt(n, f)
CMD_GetCounterHardwareOutputStatus ==
  CopyFails \/ \E n \in Numbers : GetCounterHardwareOutputStatus(n)

(* As for the timer: the level is taken from the place of the flag. *)
CounterHardwareOutput(n, f, level) == EnableDisableCounterHardwareOutput(n, f, f)
CMD_EnableDisableCounterHardwareOutput ==
  CopyFails \/ \E n \in Numbers, f \in Flags, level \in Levels : CounterHardwareOutput(n, f, level)

CounterCommands ==
  \/ CMD_InitCounter \/ CMD_ReleaseCounter
  \/ CMD_StartCounter \/ CMD_StartAllCounters
  \/ CMD_TriggerCounter \/ CMD_TriggerAllCounters
  \/ CMD_StopCounter \/ CMD_StopAllCounters
  \/ CMD_ClearCounter
  \/ CMD_ReadCounterValue \/ CMD_ReadCounterStatus
  \/ CMD_EnableDisableCounterInterrupt
  \/ CMD_EnableDisableCounterHardwareOutput \/ CMD_GetCounterHardwareOutputStatus

=============================================================================
