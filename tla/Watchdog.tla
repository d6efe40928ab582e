------------------------------ MODULE Watchdog ------------------------------
(***************************************************************************)
(* The watchdog calls (k_watchdog.c) and the ioctl commands that make them *)
(* (watchdog.c).                                                           *)
(***************************************************************************)
EXTENDS Tcw

InitWatchdog(n, unit, value) ==
  LET u == UnitOf(WATCHDOG, n) IN
  \/ ~Known(WATCHDOG, n) /\ Fails(2)
  \/ Known(WATCHDOG, n) /\ Taken(WATCHDOG, u) /\ Fails(IF config[u] = TIMER THEN 3 ELSE 4)
  \/ /\ Known(WATCHDOG, n) /\ ~Taken(WATCHDOG, u)
     /\ \/ unit \notin 1 .. 3 /\ Fails(5)
        \/ unit \in 1 .. 3 /\ value > 65535 /\ Fails(6)
        \/ /\ unit \in 1 .. 3 /\ value <= 65535
           /\ Becomes(WATCHDOG, u, InitAsWatchdog)

ReleaseWatchdog(n) == Releases(WATCHDOG, n)
StartWatchdog(n) == OnUnit(WATCHDOG, n, Start)
StartAllWatchdogs == OnAll(WATCHDOG, StartAll)
TriggerWatchdog(n) == OnUnit(WATCHDOG, n, Trigger)
TriggerAllWatchdogs == OnAll(WATCHDOG, LAMBDA c : c)
StopWatchdog(n) == OnUnit(WATCHDOG, n, Stop)
StopAllWatchdogs == OnAll(WATCHDOG, StopAll)
ReadWatchdogValue(n) == Reads(WATCHDOG, n)
ReadWatchdogStatus(n) == Reads(WATCHDOG, n)
EnableDisableWatchdogInterrupt(n, f) == Interrupts(WATCHDOG, n, f)
EnableDisableWatchdogHardwareOutput(n, f, level) == Outputs(WATCHDOG, n, f, level)
GetWatchdogHardwareOutputStatus(n) == Reads(WATCHDOG, n)

-----------------------------------------------------------------------------
(* The ioctl commands. *)

CMD_InitWatchdog ==
  \/ CopyFails
  \/ \E n \in Numbers, unit \in TimeUnits, value \in Reloads : InitWatchdog(n, unit, value)
CMD_ReleaseWatchdog == CopyFails \/ \E n \in Numbers : ReleaseWatchdog(n)
CMD_StartWatchdog == CopyFails \/ \E n \in Numbers : StartWatchdog(n)
CMD_StartAllWatchdogs == StartAllWatchdogs
CMD_TriggerWatchdog == CopyFails \/ \E n \in Numbers : TriggerWatchdog(n)
CMD_TriggerAllWatchdogs == TriggerAllWatchdogs
CMD_StopWatchdog == CopyFails \/ \E n \in Numbers : StopWatchdog(n)
CMD_StopAllWatchdogs == StopAllWatchdogs
CMD_ReadWatchdogValue == CopyFails \/ \E n \in Numbers : ReadWatchdogValue(n)
CMD_ReadWatchdogStatus == CopyFails \/ \E n \in Numbers : ReadWatchdogStatus(n)
CMD_EnableDisableWatchdogInterrupt ==
  CopyFails \/ \E n \in Numbers, f \in Flags : EnableDisableWatchdogInterrupt(n, f)
CMD_GetWatchdogHardwareOutputStatus ==
  CopyFails \/ \E n \in Numbers : GetWatchdogHardwareOutputStatus(n)

(* As for the timer: the level is taken from the place of the flag. *)
WatchdogHardwareOutput(n, f, level) == EnableDisableWatchdogHardwareOutput(n, f, f)
CMD_EnableDisableWatchdogHardwareOutput ==
  CopyFails \/ \E n \in Numbers, f \in Flags, level \in Levels : WatchdogHardwareOutput(n, f, level)

WatchdogCommands ==
  \/ CMD_InitWatchdog \/ CMD_ReleaseWatchdog
  \/ CMD_StartWatchdog \/ CMD_StartAllWatchdogs
  \/ CMD_TriggerWatchdog \/ CMD_TriggerAllWatchdogs
  \/ CMD_StopWatchdog \/ CMD_StopAllWatchdogs
  \/ CMD_ReadWatchdogValue \/ CMD_ReadWatchdogStatus
  \/ CMD_EnableDisableWatchdogInterrupt
  \/ CMD_EnableDisableWatchdogHardwareOutput \/ CMD_GetWatchdogHardwareOutputStatus

=============================================================================
