--------------------------- MODULE MeasureService ---------------------------
(***************************************************************************)
(* The service hpcmeasure of one node and the scripts it runs: start cleans*)
(* the directories and starts the converter and the measurement, stop ends *)
(* them through their pid files, waits for the converter and archives the  *)
(* data.  A lock file refuses a second start.  Lock file and pid files lie *)
(* in the directory of the power data: start removes them with it, and the *)
(* archive takes them along.                                               *)
(*                                                                         *)
(* Prologue and epilogue of a job call start and stop, one call at a time; *)
(* a user may call either at any time.  Each call is a process of its own, and a step *)
(* is a command of a script.  A start is known by its number, which stands *)
(* for both process ids as well.                                           *)
(***************************************************************************)
EXTENDS Naturals, FiniteSets

CONSTANTS
  Patience,   \* check_flag: seconds that stop waits for the converter
  MaxStarts,  \* bound: starts that pass the lock
  MaxFiles    \* bound: raw files of one measurement

ASSUME ServiceAssumption == {Patience, MaxStarts, MaxFiles} \subseteq Nat

Callers == {"batch", "user"}
Starts  == 1 .. MaxStarts
Files   == Starts \X (1 .. MaxFiles)
None    == 0

VARIABLES
  call,       \* call[c]: the call of the service that c is in
  lock,       \* LOCK_FILE exists
  pid,        \* PROC_MEASURE_PIDFILE and PROC_CONVERT_PIDFILE
  proc,       \* proc[p][k]: the processes of start k
  place,      \* place[f]: where file f or its data are
  starts,     \* how many starts passed the lock
  clash       \* history: a start passed the lock while another call was at work

control == <<lock, starts, clash>>
vars    == <<call, control, pid, proc, place>>

(* Being written, in RAW_FILE_PATH, in POWER_FILE_PATH, in PWM_TMP_JOB_PATH, *)
(* in the archive; removed by a start, or by a stop that lost its patience. *)
Places == {"none", "temp", "raw", "power", "tmp", "archive", "removed", "expired"}

Idle == [pc |-> "idle"]

ServiceInit ==
  /\ call = [c \in Callers |-> Idle]
  /\ lock = FALSE
  /\ pid = [measure |-> None, convert |-> None]
  /\ proc = [p \in {"measure", "convert"} |-> [k \in Starts |-> "none"]]
  /\ place = [f \in Files |-> "none"]
  /\ starts = 0
  /\ clash = FALSE

Goto(c, pc) == call' = [call EXCEPT ![c].pc = pc]
Return(c)   == call' = [call EXCEPT ![c] = Idle]
In(where)   == {f \in Files : place[f] \in where}
AllTo(from, to) == place' = [f \in Files |-> IF place[f] \in from THEN to ELSE place[f]]
Live(p)     == {k \in Starts : proc[p][k] \notin {"none", "gone"}}

-----------------------------------------------------------------------------
(* The callers *)
Passes(c) ==
  /\ starts < MaxStarts
  /\ starts' = starts + 1
  /\ call' = [call EXCEPT ![c] = [pc |-> "clean", run |-> starts + 1]]
  /\ clash' = (clash \/ \E o \in Callers \ {c} : call[o] # Idle)
  /\ UNCHANGED <<lock, pid, proc, place>>

(* Mutated: the lock is not looked at. *)
CallStart_NoLock(c) == call[c] = Idle /\ Passes(c)

(* start: refused while the lock file exists. *)
CallStart(c) == call[c] = Idle /\ ~lock /\ Passes(c)

(* stop: refused without lock file.  Only the epilogue asks for an archive.*)
CallStop(c) ==
  /\ call[c] = Idle
  /\ lock
  /\ \E save \in {FALSE, c = "batch"} :
       call' = [call EXCEPT ![c] = [pc |-> "pids", save |-> save, waited |-> 0]]
  /\ UNCHANGED <<control, pid, proc, place>>

-----------------------------------------------------------------------------
(* start_hpcmeasure_addi.sh *)

(* rm POWER_FILE_PATH, with the lock file and the pid files. *)
CleanPower(c) ==
  /\ call[c].pc = "clean"
  /\ AllTo({"power"}, "removed")
  /\ lock' = FALSE
  /\ pid' = [measure |-> None, convert |-> None]
  /\ Goto(c, "clean_raw")
  /\ UNCHANGED <<starts, clash, proc>>

CleanRaw(c) ==
  /\ call[c].pc = "clean_raw"
  /\ AllTo({"temp", "raw"}, "removed")
  /\ Goto(c, "convert")
  /\ UNCHANGED <<control, pid, proc>>

(* A program is started in the background and its pid written.             *)
Launch(c, p, next) ==
  /\ call[c].pc = p
  /\ proc' = [proc EXCEPT ![p][call[c].run] = "on"]
  /\ pid' = [pid EXCEPT ![p] = call[c].run]
  /\ Goto(c, next)
  /\ UNCHANGED <<control, place>>

LaunchConverter(c) == Launch(c, "convert", "measure")
LaunchMeasure(c)   == Launch(c, "measure", "touch")

(* Back in the service. *)
TouchLock(c) ==
  /\ call[c].pc = "touch"
  /\ lock' = TRUE
  /\ Return(c)
  /\ UNCHANGED <<starts, clash, pid, proc, place>>

-----------------------------------------------------------------------------
(* stop_hpcmeasure_addi.sh *)

(* Without a pid file the script gives up, with one of the codes 11 to 14. *)
ReadConverterPid(c) ==
  /\ call[c].pc = "pids"
  /\ call' = [call EXCEPT ![c] =
       IF pid.convert = None THEN [pc |-> "unlock"]
       ELSE [pc |-> "pids2", save |-> @.save, waited |-> 0, convert |-> pid.convert]]
  /\ UNCHANGED <<control, pid, proc, place>>

ReadMeasurePid(c) ==
  /\ call[c].pc = "pids2"
  /\ call' = [call EXCEPT ![c] =
       IF pid.measure = None THEN [pc |-> "unlock"]
       ELSE [pc |-> "kill_measure", save |-> @.save, waited |-> 0,
             convert |-> @.convert, measure |-> pid.measure]]
  /\ UNCHANGED <<control, pid, proc, place>>

(* kill -SIGINT.  A program may not heed it: its thread waits for an event *)
(* that was lost (Measure, Stranded), or it has not set its handler yet and*)
(* ignores the signal as all background commands of a script do.           *)
Kill(c, p, pc, next) ==
  /\ call[c].pc = pc
  /\ \E heeds \in {"int", "deaf"} :
       proc' = [proc EXCEPT ![p][call[c][p]] = IF @ \in {"on", "deaf"} THEN heeds ELSE @]
  /\ Goto(c, next)
  /\ UNCHANGED <<control, pid, place>>

KillMeasure(c)   == Kill(c, "measure", "kill_measure", "wait_measure")
KillConverter(c) == Kill(c, "convert", "kill_convert", "wait_convert")

(* Mutated: the end of the measurement is not waited for. *)
WaitMeasure_Not(c) ==
  /\ call[c].pc = "wait_measure"
  /\ Goto(c, "drain")
  /\ UNCHANGED <<control, pid, proc, place>>

(* while [ -e /proc/$MEASURE_PID ], without any limit. *)
WaitMeasure(c) ==
  /\ call[c].pc = "wait_measure"
  /\ proc.measure[call[c].measure] = "gone"
  /\ Goto(c, "drain")
  /\ UNCHANGED <<control, pid, proc, place>>

Drained(c) == call' = [call EXCEPT ![c].pc = "kill_convert", ![c].waited = 0]

(* Mutated: the seconds are not counted. *)
Drain_NoLimit(c) ==
  /\ call[c].pc = "drain"
  /\ In({"temp", "raw"}) = {}
  /\ Drained(c)
  /\ UNCHANGED <<control, pid, proc, place>>

(* One turn of the loop: the raw directory is empty, or a second passes;   *)
(* when too many have passed the files are removed.                        *)
Drain(c) ==
  /\ call[c].pc = "drain"
  /\ \/ /\ In({"temp", "raw"}) = {}
        /\ Drained(c)
        /\ UNCHANGED place
     \/ /\ In({"temp", "raw"}) # {}
        /\ call[c].waited < Patience
        /\ call' = [call EXCEPT ![c].waited = @ + 1]
        /\ UNCHANGED place
     \/ /\ In({"temp", "raw"}) # {}
        /\ call[c].waited = Patience
        /\ AllTo({"temp", "raw"}, "expired")
        /\ Drained(c)
  /\ UNCHANGED <<control, pid, proc>>

WaitConverter(c) ==
  /\ call[c].pc = "wait_convert"
  /\ proc.convert[call[c].convert] = "gone"
  /\ Goto(c, IF call[c].save THEN "copy" ELSE "rm_pids")
  /\ UNCHANGED <<control, pid, proc, place>>

(* copy_hpcmeasure_addi.sh *)
CopyRemovePid(c) ==
  /\ call[c].pc = "copy"
  /\ pid' = [pid EXCEPT !.convert = None]
  /\ Goto(c, "move")
  /\ UNCHANGED <<control, proc, place>>

(* mv POWER_FILE_PATH: the other pid file and the lock go as well. *)
CopyMove(c) ==
  /\ call[c].pc = "move"
  /\ AllTo({"power"}, "tmp")
  /\ lock' = FALSE
  /\ pid' = [measure |-> None, convert |-> None]
  /\ Goto(c, "pack")
  /\ UNCHANGED <<starts, clash, proc>>

(* tar, mv of the archive, rm of the directory of the job. *)
CopyPack(c) ==
  /\ call[c].pc = "pack"
  /\ AllTo({"tmp"}, "archive")
  /\ Goto(c, "rm_pids")
  /\ UNCHANGED <<control, pid, proc>>

(* Who reads one of the two files in between gives up as well. *)
RemovePids(c) ==
  /\ call[c].pc = "rm_pids"
  /\ pid' = [measure |-> None, convert |-> None]
  /\ Goto(c, "unlock")
  /\ UNCHANGED <<control, proc, place>>

(* Back in the service, whatever the script returned. *)
RemoveLock(c) ==
  /\ call[c].pc = "unlock"
  /\ lock' = FALSE
  /\ Return(c)
  /\ UNCHANGED <<starts, clash, pid, proc, place>>

-----------------------------------------------------------------------------
(* hpc_measure and hpc_convert, as Measure and RawSpool describe them *)
Works(p, k) == proc[p][k] \in {"on", "int", "deaf"}
End(p, k)   == proc' = [proc EXCEPT ![p][k] = "gone"]

Put(f, where) == place' = [place EXCEPT ![f] = where]

OpenRaw(k) ==
  /\ Works("measure", k)
  /\ \A f \in In({"temp"}) : f[1] # k
  /\ \E f \in In({"none"}) : f[1] = k /\ Put(f, "temp")
  /\ UNCHANGED <<call, control, pid, proc>>

RenameRaw(k) ==
  /\ Works("measure", k)
  /\ \E f \in In({"temp"}) : f[1] = k /\ Put(f, "raw")
  /\ UNCHANGED <<call, control, pid, proc>>

(* Told to stop, it finishes the file it writes. *)
EndMeasure(k) ==
  /\ proc.measure[k] = "int"
  /\ \A f \in In({"temp"}) : f[1] # k
  /\ End("measure", k)
  /\ UNCHANGED <<call, control, pid, place>>

Die(p, k) ==
  /\ Works(p, k)
  /\ End(p, k)
  /\ UNCHANGED <<call, control, pid, place>>

(* The data are written before the raw file is removed. *)
Convert(k) ==
  /\ Works("convert", k)
  /\ \E f \in In({"raw"}) : Put(f, "power")
  /\ UNCHANGED <<call, control, pid, proc>>

(* Told to stop, it converts what there is. *)
EndConverter(k) ==
  /\ proc.convert[k] = "int"
  /\ In({"raw"}) = {}
  /\ End("convert", k)
  /\ UNCHANGED <<call, control, pid, place>>

-----------------------------------------------------------------------------
Script(c) ==
  \/ CleanPower(c) \/ CleanRaw(c) \/ LaunchConverter(c) \/ LaunchMeasure(c)
  \/ TouchLock(c)
  \/ ReadConverterPid(c) \/ ReadMeasurePid(c) \/ KillMeasure(c) \/ WaitMeasure(c)
  \/ Drain(c) \/ KillConverter(c) \/ WaitConverter(c)
  \/ CopyRemovePid(c) \/ CopyMove(c) \/ CopyPack(c) \/ RemovePids(c) \/ RemoveLock(c)

ServiceNext ==
  \/ \E c \in Callers : CallStart(c) \/ CallStop(c) \/ Script(c)
  \/ \E k \in Starts :
       \/ OpenRaw(k) \/ RenameRaw(k) \/ EndMeasure(k)
       \/ Convert(k) \/ EndConverter(k)
       \/ \E p \in {"measure", "convert"} : Die(p, k)

(* The scripts run on, and both programs do their work and heed SIGINT.    *)
(* Nobody is obliged to call the service.                                  *)
ServiceFairness ==
  /\ \A c \in Callers : WF_vars(Script(c))
  /\ \A k \in Starts :
       /\ WF_vars(RenameRaw(k)) /\ WF_vars(EndMeasure(k))
       /\ WF_vars(Convert(k)) /\ WF_vars(EndConverter(k))

ServiceSpec == ServiceInit /\ [][ServiceNext]_vars /\ ServiceFairness
-----------------------------------------------------------------------------

(* At most one measurement and one converter of a node run at a time       *)
(* (hpcmeasure 59, 79), also when stops overlap and one of them gives up,  *)
(* as long as no start slips past the lock beside another call: that can   *)
(* happen before line 67 and once the archive has taken the lock along.    *)
OneMeasurement ==
  ~clash => Cardinality(Live("measure")) <= 1 /\ Cardinality(Live("convert")) <= 1

(* An epilogue that archives misses no raw file of the measurement it ended*)
(* (stop_hpcmeasure_addi.sh 147-188), except those that the converter did  *)
(* not manage in the time it was given: neither a last file, nor a stop of *)
(* the user at the same time, nor a converter that died makes it incomplete.*)
ArchiveComplete ==
  \A c \in Callers :
    call[c].pc = "rm_pids" /\ call[c].save /\ ~clash =>
      \A f \in Files : f[1] = call[c].measure => place[f] \in {"none", "archive", "expired"}

(* A stop that was accepted comes to its end and removes the lock, even if *)
(* a dead program left a file behind that nobody converts; what it waits   *)
(* for without limit (stop_hpcmeasure_addi.sh 147, 181) is a program that  *)
(* does not heed SIGINT.                                                   *)
StopReturns ==
  \A c \in Callers :
    call[c].pc = "pids" ~>
      \/ call[c] = Idle
      \/ call[c].pc = "wait_measure" /\ proc.measure[call[c].measure] = "deaf"
      \/ call[c].pc = "wait_convert" /\ proc.convert[call[c].convert] = "deaf"

=============================================================================
