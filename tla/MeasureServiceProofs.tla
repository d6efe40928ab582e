------------------------ MODULE MeasureServiceProofs ------------------------
(***************************************************************************)
(* Proofs about the service and its scripts, for every number of starts,   *)
(* files and seconds of patience.                                          *)
(***************************************************************************)
EXTENDS MeasureService, FiniteSetTheorems, TLAPS

Programs == {"measure", "convert"}
Running  == {"on", "int", "deaf"}
Starting == {"clean", "clean_raw", "convert", "measure", "touch"}
Ending   == {"copy", "move", "pack", "rm_pids"}
Stopping == {"kill_measure", "wait_measure", "drain", "kill_convert", "wait_convert"} \cup Ending

(* What a call knows at each of its commands. *)
Call ==
  [pc : {"idle", "unlock"}]
    \cup [pc : Starting, run : Starts]
    \cup [pc : {"pids"}, save : BOOLEAN, waited : Nat]
    \cup [pc : {"pids2"}, save : BOOLEAN, waited : Nat, convert : Starts]
    \cup [pc : Stopping \cup {"unlock"}, save : BOOLEAN, waited : Nat, convert : Starts, measure : Starts]

Types ==
  /\ starts \in 0 .. MaxStarts
  /\ pid \in [measure : 0 .. MaxStarts, convert : 0 .. MaxStarts]
  /\ proc \in [Programs -> [Starts -> {"none", "gone"} \cup Running]]
  /\ place \in [Files -> Places]
  /\ call \in [Callers -> Call]

(* What has not been started yet has no processes and no files. *)
Begun ==
  /\ \A p \in Programs, k \in Starts : k > starts => proc[p][k] = "none"
  /\ \A f \in Files : proc["measure"][f[1]] = "none" => place[f] = "none"
  /\ \A c \in Callers : call[c].pc \in Starting => call[c].run <= starts

(* Only the epilogue archives. *)
Saving ==
  \A c \in Callers :
    /\ call[c].pc \in {"pids", "pids2"} \cup Stopping => (call[c].save => c = "batch")
    /\ call[c].pc \in {"copy", "move", "pack"} => call[c].save

Dead(p) == \A k \in Starts : proc[p][k] \notin Running
Quiet   == Dead("measure") /\ Dead("convert")
NoStart == \A c \in Callers : call[c].pc \notin Starting

(* A start is alone, and has launched what it has launched. *)
StartAlone ==
  \A c \in Callers : call[c].pc \in Starting =>
    /\ \A o \in Callers \ {c} : call[o].pc = "idle"
    /\ ~lock
    /\ call[c].run = starts
    /\ call[c].pc \in {"clean", "clean_raw", "convert"} => Quiet /\ proc["convert"][starts] = "none"
    /\ call[c].pc \in {"clean", "clean_raw", "convert", "measure"} =>
         Dead("measure") /\ proc["measure"][starts] = "none"
    /\ call[c].pc \in {"measure", "touch"} => pid.convert = starts
    /\ call[c].pc = "touch" => pid.measure = starts

(* While no start is at work, what runs is locked and known by its pids. *)
Locked ==
  NoStart =>
    /\ pid.measure \in {None, starts} /\ pid.convert \in {None, starts}
    /\ ~Quiet => lock /\ starts # None /\ pid.measure = starts /\ pid.convert = starts

(* A stop ends the last measurement, and then its converter. *)
StopInOrder ==
  \A c \in Callers :
    /\ call[c].pc \in {"pids2"} \cup Stopping => call[c].convert = starts
    /\ call[c].pc \in Stopping => call[c].measure = starts
    /\ call[c].pc \in {"drain", "kill_convert", "wait_convert"} => Dead("measure")
    /\ call[c].pc \in Ending \cup {"unlock"} => Quiet

LastOnly == \A p \in Programs, k \in Starts : proc[p][k] \in Running => k = starts

Orderly == LastOnly /\ StartAlone /\ Locked /\ StopInOrder
Single  == ~clash => Orderly

(* No file of the last measurement was removed; after the converter was    *)
(* drained they are in the archive or on their way there.                  *)
Moved ==
  /\ \A f \in Files : f[1] = starts => place[f] # "removed"
  /\ \A f \in Files : place[f] = "tmp" => call["batch"].pc = "pack"
  /\ \A c \in Callers, f \in Files : f[1] = starts =>
       /\ call[c].pc \in {"kill_convert", "wait_convert"} \cup Ending => place[f] \notin {"temp", "raw"}
       /\ call[c].pc = "pack" \/ (call[c].pc = "rm_pids" /\ call[c].save) => place[f] # "power"

Archived == ~clash => Moved

-----------------------------------------------------------------------------
(* Calls *)

(* The command tells what a call knows. *)
LEMMA Shapes ==
  ASSUME Types, NEW c \in Callers
  PROVE  /\ call[c].pc = "idle" => call[c] = Idle
         /\ call[c].pc \in Starting => call[c] \in [pc : Starting, run : Starts]
         /\ call[c].pc = "pids" => call[c] \in [pc : {"pids"}, save : BOOLEAN, waited : Nat]
         /\ call[c].pc = "pids2" =>
              call[c] \in [pc : {"pids2"}, save : BOOLEAN, waited : Nat, convert : Starts]
         /\ call[c].pc \in Stopping =>
              call[c] \in [pc : Stopping \cup {"unlock"}, save : BOOLEAN, waited : Nat,
                           convert : Starts, measure : Starts]
<1>1. call[c] \in Call
  BY DEF Types
<1>2. ASSUME NEW r \in Call
      PROVE  /\ r.pc = "idle" => r = Idle
             /\ r.pc \in Starting => r \in [pc : Starting, run : Starts]
             /\ r.pc = "pids" => r \in [pc : {"pids"}, save : BOOLEAN, waited : Nat]
             /\ r.pc = "pids2" => r \in [pc : {"pids2"}, save : BOOLEAN, waited : Nat, convert : Starts]
             /\ r.pc \in Stopping =>
                  r \in [pc : Stopping \cup {"unlock"}, save : BOOLEAN, waited : Nat,
                         convert : Starts, measure : Starts]
  BY DEF Call, Starting, Stopping, Ending, Idle
<1> QED
  BY <1>1, <1>2

LEMMA GoOnStarting ==
  ASSUME Types, NEW c \in Callers, call[c].pc \in Starting, NEW pc \in Starting, Goto(c, pc)
  PROVE  /\ call' \in [Callers -> Call]
         /\ call'[c].pc = pc /\ call'[c].run = call[c].run
         /\ \A o \in Callers \ {c} : call'[o] = call[o]
<1>1. call \in [Callers -> Call] /\ call[c] \in [pc : Starting, run : Starts]
  BY Shapes DEF Types
<1>2. call' = [call EXCEPT ![c] = [call[c] EXCEPT !.pc = pc]]
  BY DEF Goto
<1>3. /\ [call[c] EXCEPT !.pc = pc] \in [pc : Starting, run : Starts]
      /\ [call[c] EXCEPT !.pc = pc].pc = pc
      /\ [call[c] EXCEPT !.pc = pc].run = call[c].run
  BY <1>1
<1> QED
  BY <1>1, <1>2, <1>3 DEF Call

LEMMA GoOnStopping ==
  ASSUME Types, NEW c \in Callers, call[c].pc \in Stopping,
         NEW pc \in Stopping \cup {"unlock"}, Goto(c, pc)
  PROVE  /\ call' \in [Callers -> Call]
         /\ call'[c].pc = pc /\ call'[c].save = call[c].save
         /\ call'[c].convert = call[c].convert /\ call'[c].measure = call[c].measure
         /\ \A o \in Callers \ {c} : call'[o] = call[o]
<1> DEFINE S == [pc : Stopping \cup {"unlock"}, save : BOOLEAN, waited : Nat,
                 convert : Starts, measure : Starts]
<1>1. call \in [Callers -> Call] /\ call[c] \in S
  BY Shapes DEF Types
<1>2. call' = [call EXCEPT ![c] = [call[c] EXCEPT !.pc = pc]]
  BY DEF Goto
<1>3. /\ [call[c] EXCEPT !.pc = pc] \in S
      /\ [call[c] EXCEPT !.pc = pc].pc = pc
      /\ [call[c] EXCEPT !.pc = pc].save = call[c].save
      /\ [call[c] EXCEPT !.pc = pc].convert = call[c].convert
      /\ [call[c] EXCEPT !.pc = pc].measure = call[c].measure
  BY <1>1
<1> QED
  BY <1>1, <1>2, <1>3 DEF Call

LEMMA Returned ==
  ASSUME Types, NEW c \in Callers, Return(c)
  PROVE  /\ call' \in [Callers -> Call] /\ call'[c].pc = "idle"
         /\ \A o \in Callers \ {c} : call'[o] = call[o]
<1>1. Idle \in Call /\ Idle.pc = "idle"
  BY DEF Idle, Call
<1>2. call' = [call EXCEPT ![c] = Idle] /\ call \in [Callers -> Call]
  BY DEF Return, Types
<1> QED
  BY <1>1, <1>2

LEMMA MovedFiles ==
  ASSUME Types, NEW from, NEW to \in Places, AllTo(from, to)
  PROVE  /\ place' \in [Files -> Places]
         /\ \A f \in Files : place'[f] = IF place[f] \in from THEN to ELSE place[f]
BY DEF Types, AllTo

(* Only the call of c changes. *)
Changes(c) == call' \in [Callers -> Call] /\ \A o \in Callers \ {c} : call'[o] = call[o]

StartGoesOn(c, from, to) ==
  /\ Changes(c)
  /\ call[c].pc = from /\ call'[c].pc = to
  /\ call'[c].run = call[c].run

StopGoesOn(c, from, to) ==
  /\ Changes(c)
  /\ call[c].pc = from /\ call'[c].pc = to
  /\ call'[c].save = call[c].save
  /\ call'[c].convert = call[c].convert
  /\ call'[c].measure = call[c].measure

LEMMA StartSteps ==
  ASSUME Types, NEW c \in Callers
  PROVE  /\ CleanPower(c) => StartGoesOn(c, "clean", "clean_raw")
         /\ CleanRaw(c) => StartGoesOn(c, "clean_raw", "convert")
         /\ LaunchConverter(c) => StartGoesOn(c, "convert", "measure")
         /\ LaunchMeasure(c) => StartGoesOn(c, "measure", "touch")
<1>1. ASSUME NEW from \in Starting, NEW to \in Starting, call[c].pc = from, Goto(c, to)
      PROVE  StartGoesOn(c, from, to)
  BY <1>1, GoOnStarting DEF StartGoesOn, Changes
<1>2. CleanPower(c) => StartGoesOn(c, "clean", "clean_raw")
  BY <1>1 DEF CleanPower, Starting
<1>3. CleanRaw(c) => StartGoesOn(c, "clean_raw", "convert")
  BY <1>1 DEF CleanRaw, Starting
<1>4. LaunchConverter(c) => StartGoesOn(c, "convert", "measure")
  BY <1>1 DEF LaunchConverter, Launch, Starting
<1>5. LaunchMeasure(c) => StartGoesOn(c, "measure", "touch")
  BY <1>1 DEF LaunchMeasure, Launch, Starting
<1> QED
  BY <1>2, <1>3, <1>4, <1>5

LEMMA StopSteps ==
  ASSUME Types, NEW c \in Callers
  PROVE  /\ KillMeasure(c) => StopGoesOn(c, "kill_measure", "wait_measure")
         /\ WaitMeasure(c) => StopGoesOn(c, "wait_measure", "drain")
         /\ Drain(c) => StopGoesOn(c, "drain", "drain") \/ StopGoesOn(c, "drain", "kill_convert")
         /\ KillConverter(c) => StopGoesOn(c, "kill_convert", "wait_convert")
         /\ WaitConverter(c) =>
              StopGoesOn(c, "wait_convert", IF call[c].save THEN "copy" ELSE "rm_pids")
         /\ CopyRemovePid(c) => StopGoesOn(c, "copy", "move")
         /\ CopyMove(c) => StopGoesOn(c, "move", "pack")
         /\ CopyPack(c) => StopGoesOn(c, "pack", "rm_pids")
         /\ RemovePids(c) => StopGoesOn(c, "rm_pids", "unlock")
<1>1. ASSUME NEW from \in Stopping, NEW to \in Stopping \cup {"unlock"}, call[c].pc = from, Goto(c, to)
      PROVE  StopGoesOn(c, from, to)
  BY <1>1, GoOnStopping DEF StopGoesOn, Changes
<1>2. KillMeasure(c) => StopGoesOn(c, "kill_measure", "wait_measure")
  BY <1>1 DEF KillMeasure, Kill, Stopping
<1>3. WaitMeasure(c) => StopGoesOn(c, "wait_measure", "drain")
  BY <1>1 DEF WaitMeasure, Stopping
<1>4. KillConverter(c) => StopGoesOn(c, "kill_convert", "wait_convert")
  BY <1>1 DEF KillConverter, Kill, Stopping
<1>5. WaitConverter(c) => StopGoesOn(c, "wait_convert", IF call[c].save THEN "copy" ELSE "rm_pids")
  BY <1>1 DEF WaitConverter, Stopping, Ending
<1>6. CopyRemovePid(c) => StopGoesOn(c, "copy", "move")
  BY <1>1 DEF CopyRemovePid, Stopping, Ending
<1>7. CopyMove(c) => StopGoesOn(c, "move", "pack")
  BY <1>1 DEF CopyMove, Stopping, Ending
<1>8. CopyPack(c) => StopGoesOn(c, "pack", "rm_pids")
  BY <1>1 DEF CopyPack, Stopping, Ending
<1>9. RemovePids(c) => StopGoesOn(c, "rm_pids", "unlock")
  BY <1>1 DEF RemovePids, Stopping, Ending
<1>10. ASSUME Drain(c)
       PROVE  StopGoesOn(c, "drain", "drain") \/ StopGoesOn(c, "drain", "kill_convert")
  <2> DEFINE S == [pc : Stopping \cup {"unlock"}, save : BOOLEAN, waited : Nat,
                   convert : Starts, measure : Starts]
  <2>1. call[c].pc = "drain" /\ call \in [Callers -> Call] /\ call[c] \in S
    <3>1. call[c].pc = "drain" /\ call[c].pc \in Stopping
      BY <1>10 DEF Drain, Stopping
    <3> QED
      BY <3>1, Shapes DEF Types
  <2>2. CASE Drained(c)
    <3>1. call' = [call EXCEPT ![c] = [call[c] EXCEPT !.pc = "kill_convert", !.waited = 0]]
      BY <2>2 DEF Drained
    <3> DEFINE r == [call[c] EXCEPT !.pc = "kill_convert", !.waited = 0]
    <3>2. /\ r \in S /\ r.pc = "kill_convert" /\ r.save = call[c].save
          /\ r.convert = call[c].convert /\ r.measure = call[c].measure
      BY <2>1 DEF Stopping
    <3>3. r \in Call
      BY <3>2 DEF Call
    <3> QED
      BY <2>1, <3>1, <3>2, <3>3 DEF StopGoesOn, Changes
  <2>3. CASE call' = [call EXCEPT ![c].waited = @ + 1]
    <3> DEFINE r == [call[c] EXCEPT !.waited = @ + 1]
    <3>1. call' = [call EXCEPT ![c] = r]
      BY <2>3
    <3>2. /\ r \in S /\ r.pc = "drain" /\ r.save = call[c].save
          /\ r.convert = call[c].convert /\ r.measure = call[c].measure
      BY <2>1
    <3>3. r \in Call
      BY <3>2 DEF Call
    <3> QED
      BY <2>1, <3>1, <3>2, <3>3 DEF StopGoesOn, Changes
  <2> QED
    BY <1>10, <2>2, <2>3 DEF Drain
<1> QED
  BY <1>2, <1>3, <1>4, <1>5, <1>6, <1>7, <1>8, <1>9, <1>10

LEMMA StartPasses ==
  ASSUME Types, NEW c \in Callers, CallStart(c)
  PROVE  /\ Changes(c)
         /\ call[c].pc = "idle" /\ call'[c].pc = "clean" /\ call'[c].run = starts + 1
         /\ starts' = starts + 1 /\ starts' \in Starts
<1>1. /\ call[c] = Idle /\ starts < MaxStarts /\ starts' = starts + 1
      /\ call' = [call EXCEPT ![c] = [pc |-> "clean", run |-> starts + 1]]
  BY DEF CallStart, Passes
<1>2. starts \in Nat /\ starts + 1 \in Starts /\ call \in [Callers -> Call]
  BY <1>1, ServiceAssumption DEF Types, Starts
<1>3. [pc |-> "clean", run |-> starts + 1] \in Call
  BY <1>2 DEF Call, Starting
<1> QED
  BY <1>1, <1>2, <1>3 DEF Changes, Idle

LEMMA StopPasses ==
  ASSUME Types, NEW c \in Callers, CallStop(c)
  PROVE  /\ Changes(c)
         /\ call[c].pc = "idle" /\ call'[c].pc = "pids"
         /\ call'[c].save => c = "batch"
<1>1. call[c] = Idle /\ call \in [Callers -> Call]
  BY DEF CallStop, Types
<1>2. PICK save \in {FALSE, c = "batch"} :
        call' = [call EXCEPT ![c] = [pc |-> "pids", save |-> save, waited |-> 0]]
  BY DEF CallStop
<1>3. save \in BOOLEAN /\ (save => c = "batch")
  BY <1>2
<1>4. [pc |-> "pids", save |-> save, waited |-> 0] \in Call
  BY <1>3 DEF Call
<1> QED
  BY <1>1, <1>2, <1>3, <1>4 DEF Changes, Idle

LEMMA PidRead ==
  ASSUME Types, NEW c \in Callers, ReadConverterPid(c)
  PROVE  /\ Changes(c) /\ call[c].pc = "pids"
         /\ \/ pid.convert = None /\ call'[c].pc = "unlock"
            \/ /\ call'[c].pc = "pids2" /\ call'[c].save = call[c].save
               /\ call'[c].convert = pid.convert /\ pid.convert # None
<1>1. call[c].pc = "pids"
  BY DEF ReadConverterPid
<1>2. /\ call \in [Callers -> Call]
      /\ call[c] \in [pc : {"pids"}, save : BOOLEAN, waited : Nat]
      /\ pid.convert \in 0 .. MaxStarts
  BY <1>1, Shapes DEF Types
<1>3. CASE pid.convert = None
  <2>1. call' = [call EXCEPT ![c] = [pc |-> "unlock"]]
    BY <1>3 DEF ReadConverterPid
  <2>2. [pc |-> "unlock"] \in Call
    BY DEF Call
  <2> QED
    BY <1>1, <1>2, <1>3, <2>1, <2>2 DEF Changes
<1>4. CASE pid.convert # None
  <2> DEFINE r == [pc |-> "pids2", save |-> call[c].save, waited |-> 0, convert |-> pid.convert]
  <2>1. call' = [call EXCEPT ![c] = r]
    BY <1>4 DEF ReadConverterPid
  <2>2. pid.convert \in Starts
    BY <1>2, <1>4, ServiceAssumption DEF Starts, None
  <2>3. r \in [pc : {"pids2"}, save : BOOLEAN, waited : Nat, convert : Starts]
    BY <1>2, <2>2
  <2>4. r \in Call
    BY <2>3 DEF Call
  <2> QED
    BY <1>1, <1>2, <1>4, <2>1, <2>4 DEF Changes
<1> QED
  BY <1>3, <1>4

LEMMA PidsRead ==
  ASSUME Types, NEW c \in Callers, ReadMeasurePid(c)
  PROVE  /\ Changes(c) /\ call[c].pc = "pids2"
         /\ \/ pid.measure = None /\ call'[c].pc = "unlock"
            \/ /\ call'[c].pc = "kill_measure" /\ call'[c].save = call[c].save
               /\ call'[c].convert = call[c].convert
               /\ call'[c].measure = pid.measure /\ pid.measure # None
<1>1. call[c].pc = "pids2"
  BY DEF ReadMeasurePid
<1>2. /\ call \in [Callers -> Call]
      /\ call[c] \in [pc : {"pids2"}, save : BOOLEAN, waited : Nat, convert : Starts]
      /\ pid.measure \in 0 .. MaxStarts
  BY <1>1, Shapes DEF Types
<1>3. CASE pid.measure = None
  <2>1. call' = [call EXCEPT ![c] = [pc |-> "unlock"]]
    BY <1>3 DEF ReadMeasurePid
  <2>2. [pc |-> "unlock"] \in Call
    BY DEF Call
  <2> QED
    BY <1>1, <1>2, <1>3, <2>1, <2>2 DEF Changes
<1>4. CASE pid.measure # None
  <2> DEFINE r == [pc |-> "kill_measure", save |-> call[c].save, waited |-> 0,
                   convert |-> call[c].convert, measure |-> pid.measure]
  <2>1. call' = [call EXCEPT ![c] = r]
    BY <1>4 DEF ReadMeasurePid
  <2>2. pid.measure \in Starts
    BY <1>2, <1>4, ServiceAssumption DEF Starts, None
  <2>3. r \in [pc : Stopping \cup {"unlock"}, save : BOOLEAN, waited : Nat,
               convert : Starts, measure : Starts]
    BY <1>2, <2>2 DEF Stopping
  <2>4. r \in Call
    BY <2>3 DEF Call
  <2> QED
    BY <1>1, <1>2, <1>4, <2>1, <2>4 DEF Changes
<1> QED
  BY <1>3, <1>4

-----------------------------------------------------------------------------
(* Types *)

LEMMA TypesInit == ServiceInit => Types
<1> SUFFICES ASSUME ServiceInit PROVE Types
  OBVIOUS
<1> USE ServiceAssumption DEF ServiceInit
<1>1. starts \in 0 .. MaxStarts /\ pid \in [measure : 0 .. MaxStarts, convert : 0 .. MaxStarts]
  BY DEF None
<1>2. proc \in [Programs -> [Starts -> {"none", "gone"} \cup Running]]
  BY DEF Programs
<1>3. place \in [Files -> Places]
  BY DEF Places
<1>4. call \in [Callers -> Call]
  BY DEF Call, Idle
<1> QED
  BY <1>1, <1>2, <1>3, <1>4 DEF Types

(* One process of a program becomes something else. *)
LEMMA NewState ==
  ASSUME Types, NEW p \in Programs, NEW k \in Starts,
         NEW to \in {"none", "gone"} \cup Running, proc' = [proc EXCEPT ![p][k] = to]
  PROVE  /\ proc' \in [Programs -> [Starts -> {"none", "gone"} \cup Running]]
         /\ proc'[p][k] = to
         /\ \A q \in Programs, l \in Starts : q # p \/ l # k => proc'[q][l] = proc[q][l]
BY DEF Types

LEMMA Launched ==
  ASSUME Types, NEW c \in Callers, NEW p \in Programs, NEW next, Launch(c, p, next)
  PROVE  /\ call[c].run \in Starts /\ call[c].pc = p
         /\ proc' = [proc EXCEPT ![p][call[c].run] = "on"]
         /\ pid' \in [measure : 0 .. MaxStarts, convert : 0 .. MaxStarts]
         /\ p = "measure" => pid'.measure = call[c].run /\ pid'.convert = pid.convert
         /\ p = "convert" => pid'.convert = call[c].run /\ pid'.measure = pid.measure
         /\ UNCHANGED <<control, place>>
<1>1. /\ call[c].pc = p /\ UNCHANGED <<control, place>>
      /\ proc' = [proc EXCEPT ![p][call[c].run] = "on"]
      /\ pid' = [pid EXCEPT ![p] = call[c].run]
  BY DEF Launch
<1>2. call[c].run \in Starts
  BY <1>1, Shapes DEF Programs, Starting
<1>3. pid \in [measure : 0 .. MaxStarts, convert : 0 .. MaxStarts] /\ call[c].run \in 0 .. MaxStarts
  BY <1>2, ServiceAssumption DEF Types, Starts
<1>4. CASE p = "measure"
  BY <1>1, <1>2, <1>3, <1>4
<1>5. CASE p = "convert"
  BY <1>1, <1>2, <1>3, <1>5
<1> QED
  BY <1>4, <1>5 DEF Programs

LEMMA Killed ==
  ASSUME Types, NEW c \in Callers, NEW p \in Programs, NEW pc \in Stopping, NEW next, Kill(c, p, pc, next)
  PROVE  \E to \in {"none", "gone"} \cup Running :
           /\ proc' = [proc EXCEPT ![p][call[c][p]] = to]
           /\ call[c][p] \in Starts
           /\ proc[p][call[c][p]] = "none" <=> to = "none"
           /\ to \in Running => proc[p][call[c][p]] \in Running
           /\ UNCHANGED <<control, pid, place>>
<1>1. PICK heeds \in {"int", "deaf"} :
        proc' = [proc EXCEPT ![p][call[c][p]] = IF @ \in {"on", "deaf"} THEN heeds ELSE @]
  BY DEF Kill
<1>2. call[c].pc \in Stopping
  BY DEF Kill
<1>3. call[c].measure \in Starts /\ call[c].convert \in Starts
  BY <1>2, Shapes
<1>4. call[c][p] \in Starts
  BY <1>3 DEF Programs
<1> DEFINE at == proc[p][call[c][p]]
           to == IF at \in {"on", "deaf"} THEN heeds ELSE at
<1>5. at \in {"none", "gone"} \cup Running
  BY <1>4 DEF Types
<1>6. /\ to \in {"none", "gone"} \cup Running
      /\ at = "none" <=> to = "none"
      /\ to \in Running => at \in Running
  BY <1>5 DEF Running
<1>7. proc' = [proc EXCEPT ![p][call[c][p]] = to]
  BY <1>1
<1>8. UNCHANGED <<control, pid, place>>
  BY DEF Kill
<1> HIDE DEF to, at
<1> QED
  BY <1>4, <1>6, <1>7, <1>8 DEF at

(* One file goes elsewhere. *)
LEMMA FileMoves ==
  ASSUME Types, NEW k \in Starts, OpenRaw(k) \/ RenameRaw(k) \/ Convert(k)
  PROVE  \E f \in Files, from, to \in Places :
           /\ UNCHANGED <<call, control, pid, proc>>
           /\ place[f] = from /\ place' = [place EXCEPT ![f] = to]
           /\ <<from, to>> \in {<<"none", "temp">>, <<"temp", "raw">>, <<"raw", "power">>}
           /\ from # "raw" => f[1] = k /\ proc["measure"][k] \in Running
<1>1. CASE OpenRaw(k)
  <2>1. PICK f \in Files : place[f] = "none" /\ f[1] = k /\ place' = [place EXCEPT ![f] = "temp"]
    BY <1>1 DEF OpenRaw, In, Put
  <2>2. proc["measure"][k] \in Running /\ UNCHANGED <<call, control, pid, proc>>
    BY <1>1 DEF OpenRaw, Works, Running
  <2> QED
    BY <2>1, <2>2 DEF Places
<1>2. CASE RenameRaw(k)
  <2>1. PICK f \in Files : place[f] = "temp" /\ f[1] = k /\ place' = [place EXCEPT ![f] = "raw"]
    BY <1>2 DEF RenameRaw, In, Put
  <2>2. proc["measure"][k] \in Running /\ UNCHANGED <<call, control, pid, proc>>
    BY <1>2 DEF RenameRaw, Works, Running
  <2> QED
    BY <2>1, <2>2 DEF Places
<1>3. CASE Convert(k)
  <2>1. PICK f \in Files : place[f] = "raw" /\ place' = [place EXCEPT ![f] = "power"]
    BY <1>3 DEF Convert, In, Put
  <2>2. UNCHANGED <<call, control, pid, proc>>
    BY <1>3 DEF Convert
  <2> QED
    BY <2>1, <2>2 DEF Places
<1> QED
  BY <1>1, <1>2, <1>3

LEMMA ProcessEnds ==
  ASSUME Types, NEW k \in Starts, EndMeasure(k) \/ EndConverter(k) \/ \E p \in Programs : Die(p, k)
  PROVE  \E p \in Programs :
           /\ UNCHANGED <<call, control, pid, place>>
           /\ proc[p][k] \in Running
           /\ proc' = [proc EXCEPT ![p][k] = "gone"]
<1>1. CASE EndMeasure(k)
  BY <1>1 DEF EndMeasure, End, Programs, Running
<1>2. CASE EndConverter(k)
  BY <1>2 DEF EndConverter, End, Programs, Running
<1>3. CASE \E p \in Programs : Die(p, k)
  BY <1>3 DEF Die, End, Works, Running
<1> QED
  BY <1>1, <1>2, <1>3

LEMMA TypesNext == Types /\ [ServiceNext]_vars => Types'
<1> SUFFICES ASSUME Types, [ServiceNext]_vars PROVE Types'
  OBVIOUS
<1>1. /\ starts \in 0 .. MaxStarts
      /\ pid \in [measure : 0 .. MaxStarts, convert : 0 .. MaxStarts]
      /\ proc \in [Programs -> [Starts -> {"none", "gone"} \cup Running]]
      /\ place \in [Files -> Places]
      /\ call \in [Callers -> Call]
  BY DEF Types
<1>2. ASSUME NEW c \in Callers, CallStart(c) PROVE Types'
  <2>1. Changes(c) /\ starts' \in 0 .. MaxStarts
    BY <1>2, StartPasses, ServiceAssumption DEF Starts
  <2>2. UNCHANGED <<pid, proc, place>>
    BY <1>2 DEF CallStart, Passes
  <2> QED
    BY <1>1, <2>1, <2>2 DEF Types, Changes
<1>3. ASSUME NEW c \in Callers, CallStop(c) PROVE Types'
  <2>1. Changes(c) /\ UNCHANGED <<starts, pid, proc, place>>
    BY <1>3, StopPasses DEF CallStop, control
  <2> QED
    BY <1>1, <2>1 DEF Types, Changes
<1>4. ASSUME NEW c \in Callers, CleanPower(c) PROVE Types'
  <2>1. Changes(c) /\ UNCHANGED <<starts, proc>>
    BY <1>4, StartSteps DEF StartGoesOn, CleanPower
  <2>2. pid' \in [measure : 0 .. MaxStarts, convert : 0 .. MaxStarts]
    BY <1>4, ServiceAssumption DEF CleanPower, None
  <2>3. place' \in [Files -> Places]
    BY <1>4, MovedFiles DEF CleanPower, Places
  <2> QED
    BY <1>1, <2>1, <2>2, <2>3 DEF Types, Changes
<1>5. ASSUME NEW c \in Callers, CleanRaw(c) PROVE Types'
  <2>1. Changes(c) /\ UNCHANGED <<starts, proc, pid>>
    BY <1>5, StartSteps DEF StartGoesOn, CleanRaw, control
  <2>2. place' \in [Files -> Places]
    BY <1>5, MovedFiles DEF CleanRaw, Places
  <2> QED
    BY <1>1, <2>1, <2>2 DEF Types, Changes
<1>6. ASSUME NEW c \in Callers, LaunchConverter(c) \/ LaunchMeasure(c) PROVE Types'
  <2>1. Changes(c)
    BY <1>6, StartSteps DEF StartGoesOn
  <2>2. PICK p \in Programs : \E next : Launch(c, p, next)
    BY <1>6 DEF LaunchConverter, LaunchMeasure, Programs
  <2>3. /\ call[c].run \in Starts
        /\ proc' = [proc EXCEPT ![p][call[c].run] = "on"]
        /\ pid' \in [measure : 0 .. MaxStarts, convert : 0 .. MaxStarts]
        /\ UNCHANGED <<starts, place>>
    BY <2>2, Launched DEF control
  <2>4. proc' \in [Programs -> [Starts -> {"none", "gone"} \cup Running]]
    BY <2>3, NewState DEF Running
  <2> QED
    BY <1>1, <2>1, <2>3, <2>4 DEF Types, Changes
<1>7. ASSUME NEW c \in Callers, TouchLock(c) \/ RemoveLock(c) PROVE Types'
  <2>1. call' \in [Callers -> Call] /\ UNCHANGED <<starts, pid, proc, place>>
    BY <1>7, Returned DEF TouchLock, RemoveLock
  <2> QED
    BY <1>1, <2>1 DEF Types
<1>8. ASSUME NEW c \in Callers, ReadConverterPid(c) \/ ReadMeasurePid(c) PROVE Types'
  <2>1. Changes(c)
    BY <1>8, PidRead, PidsRead
  <2>2. UNCHANGED <<starts, pid, proc, place>>
    BY <1>8 DEF ReadConverterPid, ReadMeasurePid, control
  <2> QED
    BY <1>1, <2>1, <2>2 DEF Types, Changes
<1>9. ASSUME NEW c \in Callers, KillMeasure(c) \/ KillConverter(c) PROVE Types'
  <2>1. Changes(c)
    BY <1>9, StopSteps DEF StopGoesOn
  <2>2. PICK p \in Programs, pc \in Stopping : \E next : Kill(c, p, pc, next)
    BY <1>9 DEF KillMeasure, KillConverter, Programs, Stopping
  <2>3. PICK to \in {"none", "gone"} \cup Running :
          /\ proc' = [proc EXCEPT ![p][call[c][p]] = to]
          /\ call[c][p] \in Starts
          /\ UNCHANGED <<starts, pid, place>>
    BY <2>2, Killed DEF control
  <2>4. proc' \in [Programs -> [Starts -> {"none", "gone"} \cup Running]]
    BY <2>3, NewState
  <2> QED
    BY <1>1, <2>1, <2>3, <2>4 DEF Types, Changes
<1>10. ASSUME NEW c \in Callers, WaitMeasure(c) \/ WaitConverter(c) PROVE Types'
  <2>1. Changes(c) /\ UNCHANGED <<starts, pid, proc, place>>
    BY <1>10, StopSteps DEF StopGoesOn, WaitMeasure, WaitConverter, control
  <2> QED
    BY <1>1, <2>1 DEF Types, Changes
<1>11. ASSUME NEW c \in Callers, Drain(c) PROVE Types'
  <2>1. Changes(c) /\ UNCHANGED <<starts, pid, proc>>
    BY <1>11, StopSteps DEF StopGoesOn, Drain, control
  <2>2. place' \in [Files -> Places]
    BY <1>1, <1>11, MovedFiles DEF Drain, Places
  <2> QED
    BY <1>1, <2>1, <2>2 DEF Types, Changes
<1>12. ASSUME NEW c \in Callers, CopyRemovePid(c) \/ RemovePids(c) PROVE Types'
  <2>1. Changes(c) /\ UNCHANGED <<starts, proc, place>>
    BY <1>12, StopSteps DEF StopGoesOn, CopyRemovePid, RemovePids, control
  <2>2. pid' \in [measure : 0 .. MaxStarts, convert : 0 .. MaxStarts]
    BY <1>1, <1>12, ServiceAssumption DEF CopyRemovePid, RemovePids, None
  <2> QED
    BY <1>1, <2>1, <2>2 DEF Types, Changes
<1>13. ASSUME NEW c \in Callers, CopyMove(c) PROVE Types'
  <2>1. Changes(c) /\ UNCHANGED <<starts, proc>>
    BY <1>13, StopSteps DEF StopGoesOn, CopyMove
  <2>2. pid' \in [measure : 0 .. MaxStarts, convert : 0 .. MaxStarts]
    BY <1>13, ServiceAssumption DEF CopyMove, None
  <2>3. place' \in [Files -> Places]
    BY <1>13, MovedFiles DEF CopyMove, Places
  <2> QED
    BY <1>1, <2>1, <2>2, <2>3 DEF Types, Changes
<1>14. ASSUME NEW c \in Callers, CopyPack(c) PROVE Types'
  <2>1. Changes(c) /\ UNCHANGED <<starts, proc, pid>>
    BY <1>14, StopSteps DEF StopGoesOn, CopyPack, control
  <2>2. place' \in [Files -> Places]
    BY <1>14, MovedFiles DEF CopyPack, Places
  <2> QED
    BY <1>1, <2>1, <2>2 DEF Types, Changes
<1>15. ASSUME NEW k \in Starts, OpenRaw(k) \/ RenameRaw(k) \/ Convert(k) PROVE Types'
  <2>1. PICK f \in Files, to \in Places :
          UNCHANGED <<call, starts, pid, proc>> /\ place' = [place EXCEPT ![f] = to]
    BY <1>15, FileMoves DEF control
  <2> QED
    BY <1>1, <2>1 DEF Types
<1>16. ASSUME NEW k \in Starts, EndMeasure(k) \/ EndConverter(k) \/ \E p \in Programs : Die(p, k)
       PROVE  Types'
  <2>1. PICK p \in Programs :
          UNCHANGED <<call, starts, pid, place>> /\ proc' = [proc EXCEPT ![p][k] = "gone"]
    BY <1>16, ProcessEnds DEF control
  <2>2. proc' \in [Programs -> [Starts -> {"none", "gone"} \cup Running]]
    BY <2>1, NewState
  <2> QED
    BY <1>1, <2>1, <2>2 DEF Types
<1>17. CASE UNCHANGED vars
  BY <1>1, <1>17 DEF Types, vars, control
<1> QED
  BY <1>2, <1>3, <1>4, <1>5, <1>6, <1>7, <1>8, <1>9, <1>10, <1>11, <1>12, <1>13,
     <1>14, <1>15, <1>16, <1>17 DEF ServiceNext, Script, Programs

-----------------------------------------------------------------------------
(* What has begun *)

LEMMA BegunInit == ServiceInit => Begun
BY ServiceAssumption DEF ServiceInit, Begun, Idle, Starting, Programs, Starts, Files

(* A step gives no process and no file to a start that has none, unless    *)
(* it is launched.                                                         *)
LEMMA BegunKept ==
  ASSUME Begun, Types,
         starts' = starts \/ starts' = starts + 1,
         \A p \in Programs, k \in Starts :
           k > starts /\ proc[p][k] = "none" => proc'[p][k] = "none",
         \A k \in Starts : proc'["measure"][k] = "none" => proc["measure"][k] = "none",
         \A f \in Files :
           proc'["measure"][f[1]] = "none" /\ place[f] = "none" => place'[f] = "none",
         \A c \in Callers : call'[c].pc \in Starting => call'[c].run <= starts'
  PROVE  Begun'
<1>1. starts \in Nat /\ \A k \in Starts : k \in Nat
  BY ServiceAssumption DEF Types, Starts
<1>2. \A p \in Programs, k \in Starts : k > starts' => proc'[p][k] = "none"
  BY <1>1 DEF Begun
<1>3. \A f \in Files : proc'["measure"][f[1]] = "none" => place'[f] = "none"
  BY DEF Begun, Files
<1> QED
  BY <1>2, <1>3 DEF Begun

LEMMA BegunNext == Types /\ Begun /\ [ServiceNext]_vars => Begun'
<1> SUFFICES ASSUME Types, Begun, [ServiceNext]_vars PROVE Begun'
  OBVIOUS
<1> DEFINE SameStarts == \A c \in Callers : call'[c].pc \in Starting => call'[c].run <= starts
<1>1. /\ \A c \in Callers : call[c].pc \in Starting => call[c].run <= starts
      /\ \A p \in Programs, k \in Starts : k > starts => proc[p][k] = "none"
      /\ \A f \in Files : proc["measure"][f[1]] = "none" => place[f] = "none"
      /\ starts \in Nat
  BY ServiceAssumption DEF Begun, Types
<1>2. ASSUME NEW c \in Callers, Changes(c), call'[c].pc \in Starting => call'[c].run <= starts
      PROVE  SameStarts
  BY <1>1, <1>2 DEF Changes
<1>3. ASSUME SameStarts, UNCHANGED <<starts, proc, place>> PROVE Begun'
  BY <1>1, <1>3 DEF Begun
<1>4. ASSUME SameStarts, UNCHANGED <<starts, proc>>, NEW from, NEW to, "none" \notin from, AllTo(from, to)
      PROVE  Begun'
  <2>1. \A f \in Files : place[f] = "none" => place'[f] = "none"
    BY <1>4 DEF AllTo
  <2> QED
    BY <1>4, <2>1, BegunKept
<1>5. ASSUME NEW c \in Callers, CallStart(c) PROVE Begun'
  <2>1. /\ Changes(c) /\ starts' = starts + 1 /\ call'[c].run <= starts'
        /\ UNCHANGED <<proc, place>>
    <3>1. Changes(c) /\ starts' = starts + 1 /\ call'[c].run = starts + 1
      BY <1>5, StartPasses
    <3>2. UNCHANGED <<proc, place>>
      BY <1>5 DEF CallStart, Passes
    <3> QED
      BY <1>1, <3>1, <3>2
  <2>2. \A o \in Callers : call'[o].pc \in Starting => call'[o].run <= starts'
    <3> TAKE o \in Callers
    <3>1. CASE o = c
      BY <2>1, <3>1
    <3>2. CASE o # c /\ call[o].pc \in Starting
      <4>1. call[o].run \in Starts /\ call[o].run <= starts
        BY <1>1, <3>2, Shapes
      <4>2. call[o].run <= starts + 1
        BY <1>1, <4>1 DEF Starts
      <4> QED
        BY <2>1, <3>2, <4>2 DEF Changes
    <3>3. CASE o # c /\ call[o].pc \notin Starting
      BY <2>1, <3>3 DEF Changes
    <3> QED
      BY <3>1, <3>2, <3>3
  <2> QED
    BY <2>1, <2>2, BegunKept
<1>6. ASSUME NEW c \in Callers,
             \/ CallStop(c) \/ ReadConverterPid(c) \/ ReadMeasurePid(c) \/ WaitMeasure(c)
             \/ WaitConverter(c) \/ CopyRemovePid(c) \/ RemovePids(c)
      PROVE  Begun'
  <2>1. Changes(c) /\ call'[c].pc \notin Starting
    <3>1. call'[c].pc \in {"pids", "pids2", "unlock", "copy", "move"} \cup Stopping /\ Changes(c)
      BY <1>6, StopPasses, PidRead, PidsRead, StopSteps DEF StopGoesOn, Stopping, Ending
    <3> QED
      BY <3>1 DEF Starting, Stopping, Ending
  <2>2. UNCHANGED <<starts, proc, place>>
    BY <1>6 DEF CallStop, ReadConverterPid, ReadMeasurePid, WaitMeasure, WaitConverter,
                CopyRemovePid, RemovePids, control
  <2> QED
    BY <1>2, <1>3, <2>1, <2>2
<1>7. ASSUME NEW c \in Callers, CleanPower(c) \/ CleanRaw(c) PROVE Begun'
  <2>1. Changes(c) /\ call'[c].run <= starts /\ UNCHANGED <<starts, proc>>
    BY <1>1, <1>7, StartSteps DEF StartGoesOn, CleanPower, CleanRaw, control, Starting
  <2>2. AllTo({"power"}, "removed") \/ AllTo({"temp", "raw"}, "removed")
    BY <1>7 DEF CleanPower, CleanRaw
  <2> QED
    BY <1>2, <1>4, <2>1, <2>2
<1>8. ASSUME NEW c \in Callers, LaunchConverter(c) \/ LaunchMeasure(c) PROVE Begun'
  <2>1. Changes(c) /\ call'[c].run <= starts /\ call[c].run <= starts
    BY <1>1, <1>8, StartSteps DEF StartGoesOn, Starting
  <2>2. PICK p \in Programs : \E next : Launch(c, p, next)
    BY <1>8 DEF LaunchConverter, LaunchMeasure, Programs
  <2>3. /\ call[c].run \in Starts
        /\ proc' = [proc EXCEPT ![p][call[c].run] = "on"]
        /\ UNCHANGED <<starts, place>>
    BY <2>2, Launched DEF control
  <2>4. /\ proc'[p][call[c].run] = "on"
        /\ \A q \in Programs, l \in Starts :
             q # p \/ l # call[c].run => proc'[q][l] = proc[q][l]
    BY <2>3, NewState DEF Running
  <2>5. \A q \in Programs, k \in Starts :
          k > starts /\ proc[q][k] = "none" => proc'[q][k] = "none"
    BY <1>1, <2>1, <2>3, <2>4 DEF Starts
  <2>6. \A k \in Starts : proc'["measure"][k] = "none" => proc["measure"][k] = "none"
    BY <2>4 DEF Programs
  <2> QED
    BY <1>2, <2>1, <2>3, <2>5, <2>6, BegunKept
<1>9. ASSUME NEW c \in Callers, TouchLock(c) \/ RemoveLock(c) PROVE Begun'
  <2>1. Changes(c) /\ call'[c].pc \notin Starting /\ UNCHANGED <<starts, proc, place>>
    BY <1>9, Returned DEF TouchLock, RemoveLock, Changes, Starting
  <2> QED
    BY <1>2, <1>3, <2>1
<1>10. ASSUME NEW c \in Callers, KillMeasure(c) \/ KillConverter(c) PROVE Begun'
  <2>1. Changes(c) /\ call'[c].pc \notin Starting
    BY <1>10, StopSteps DEF StopGoesOn, Starting
  <2>2. PICK p \in Programs, pc \in Stopping : \E next : Kill(c, p, pc, next)
    BY <1>10 DEF KillMeasure, KillConverter, Programs, Stopping
  <2>3. PICK to \in {"none", "gone"} \cup Running :
          /\ proc' = [proc EXCEPT ![p][call[c][p]] = to]
          /\ call[c][p] \in Starts
          /\ proc[p][call[c][p]] = "none" <=> to = "none"
          /\ UNCHANGED <<starts, place>>
    BY <2>2, Killed DEF control
  <2>4. /\ proc'[p][call[c][p]] = to
        /\ \A q \in Programs, l \in Starts : q # p \/ l # call[c][p] => proc'[q][l] = proc[q][l]
    BY <2>3, NewState
  <2>5. /\ \A q \in Programs, k \in Starts : proc[q][k] = "none" => proc'[q][k] = "none"
        /\ \A k \in Starts : proc'["measure"][k] = "none" => proc["measure"][k] = "none"
    BY <2>3, <2>4 DEF Programs
  <2> QED
    BY <1>2, <2>1, <2>3, <2>5, BegunKept
<1>11. ASSUME NEW c \in Callers, Drain(c) PROVE Begun'
  <2>1. Changes(c) /\ call'[c].pc \notin Starting /\ UNCHANGED <<starts, proc>>
    BY <1>11, StopSteps DEF StopGoesOn, Drain, control, Starting
  <2>2. UNCHANGED place \/ AllTo({"temp", "raw"}, "expired")
    BY <1>11 DEF Drain
  <2> QED
    BY <1>2, <1>3, <1>4, <2>1, <2>2
<1>12. ASSUME NEW c \in Callers, CopyMove(c) \/ CopyPack(c) PROVE Begun'
  <2>1. Changes(c) /\ call'[c].pc \notin Starting /\ UNCHANGED <<starts, proc>>
    BY <1>12, StopSteps DEF StopGoesOn, CopyMove, CopyPack, control, Starting
  <2>2. AllTo({"power"}, "tmp") \/ AllTo({"tmp"}, "archive")
    BY <1>12 DEF CopyMove, CopyPack
  <2> QED
    BY <1>2, <1>4, <2>1, <2>2
<1>13. ASSUME NEW k \in Starts, OpenRaw(k) \/ RenameRaw(k) \/ Convert(k) PROVE Begun'
  <2>1. PICK f \in Files, from, to \in Places :
           /\ UNCHANGED <<call, starts, proc>>
           /\ place[f] = from /\ place' = [place EXCEPT ![f] = to]
           /\ <<from, to>> \in {<<"none", "temp">>, <<"temp", "raw">>, <<"raw", "power">>}
           /\ from # "raw" => f[1] = k /\ proc["measure"][k] \in Running
    BY <1>13, FileMoves DEF control
  <2>2. \A g \in Files :
          proc["measure"][g[1]] = "none" /\ place[g] = "none" => place'[g] = "none"
    <3>1. \A g \in Files \ {f} : place'[g] = place[g]
      BY <2>1 DEF Types
    <3>2. from = "none" => proc["measure"][f[1]] # "none"
      BY <2>1 DEF Running
    <3>3. place[f] = "none" => from = "none"
      BY <2>1
    <3> QED
      BY <3>1, <3>2, <3>3
  <2> QED
    BY <1>1, <2>1, <2>2, BegunKept
<1>14. ASSUME NEW k \in Starts, EndMeasure(k) \/ EndConverter(k) \/ \E p \in Programs : Die(p, k)
       PROVE  Begun'
  <2>1. PICK p \in Programs :
           /\ UNCHANGED <<call, starts, place>>
           /\ proc[p][k] \in Running
           /\ proc' = [proc EXCEPT ![p][k] = "gone"]
    BY <1>14, ProcessEnds DEF control
  <2>2. /\ proc'[p][k] = "gone"
        /\ \A q \in Programs, l \in Starts : q # p \/ l # k => proc'[q][l] = proc[q][l]
    BY <2>1, NewState
  <2>3. /\ \A q \in Programs, l \in Starts : proc[q][l] = "none" => proc'[q][l] = "none"
        /\ \A l \in Starts : proc'["measure"][l] = "none" => proc["measure"][l] = "none"
    BY <2>1, <2>2 DEF Programs, Running
  <2> QED
    BY <1>1, <2>1, <2>3, BegunKept
<1>15. CASE UNCHANGED vars
  BY <1>1, <1>3, <1>15 DEF vars, control
<1> QED
  BY <1>5, <1>6, <1>7, <1>8, <1>9, <1>10, <1>11, <1>12, <1>13, <1>14, <1>15
     DEF ServiceNext, Script, Programs

-----------------------------------------------------------------------------
(* Who archives *)

LEMMA SavingInit == ServiceInit => Saving
BY DEF ServiceInit, Saving, Idle, Stopping, Ending

LEMMA SavingNext == Types /\ Saving /\ [ServiceNext]_vars => Saving'
<1> SUFFICES ASSUME Types, Saving, [ServiceNext]_vars PROVE Saving'
  OBVIOUS
<1>1. ASSUME NEW c \in Callers, Changes(c),
             call'[c].pc \in {"pids", "pids2"} \cup Stopping => (call'[c].save => c = "batch"),
             call'[c].pc \in {"copy", "move", "pack"} => call'[c].save
      PROVE  Saving'
  BY <1>1 DEF Saving, Changes
<1>2. ASSUME NEW c \in Callers, CallStart(c) PROVE Saving'
  BY <1>1, <1>2, StartPasses DEF Stopping, Ending
<1>3. ASSUME NEW c \in Callers, CallStop(c) PROVE Saving'
  BY <1>1, <1>3, StopPasses
<1>4. ASSUME NEW c \in Callers,
             CleanPower(c) \/ CleanRaw(c) \/ LaunchConverter(c) \/ LaunchMeasure(c)
      PROVE  Saving'
  <2>1. Changes(c) /\ call'[c].pc \in {"clean_raw", "convert", "measure", "touch"}
    BY <1>4, StartSteps DEF StartGoesOn
  <2> QED
    BY <1>1, <2>1 DEF Stopping, Ending
<1>5. ASSUME NEW c \in Callers, TouchLock(c) \/ RemoveLock(c) PROVE Saving'
  <2>1. Changes(c) /\ call'[c].pc = "idle"
    BY <1>5, Returned DEF TouchLock, RemoveLock, Changes
  <2> QED
    BY <1>1, <2>1 DEF Stopping, Ending
<1>6. ASSUME NEW c \in Callers, ReadConverterPid(c) \/ ReadMeasurePid(c) PROVE Saving'
  <2>1. /\ Changes(c) /\ call[c].pc \in {"pids", "pids2"}
        /\ \/ call'[c].pc = "unlock"
           \/ call'[c].pc \in {"pids2", "kill_measure"} /\ call'[c].save = call[c].save
    BY <1>6, PidRead, PidsRead
  <2> QED
    BY <1>1, <2>1 DEF Saving, Stopping, Ending
<1>7. ASSUME NEW c \in Callers,
             \/ KillMeasure(c) \/ WaitMeasure(c) \/ Drain(c) \/ KillConverter(c) \/ WaitConverter(c)
             \/ CopyRemovePid(c) \/ CopyMove(c) \/ CopyPack(c) \/ RemovePids(c)
      PROVE  Saving'
  <2>1. PICK from \in Stopping, to \in Stopping \cup {"unlock"} :
          /\ StopGoesOn(c, from, to)
          /\ to = "copy" => call[c].save
          /\ to = "move" => from = "copy"
          /\ to = "pack" => from = "move"
    BY <1>7, StopSteps DEF Stopping, Ending
  <2>2. call'[c].pc \in {"copy", "move", "pack"} => call'[c].save
    BY <2>1 DEF StopGoesOn, Saving
  <2>3. call[c].save => c = "batch"
    BY <2>1 DEF StopGoesOn, Saving
  <2> QED
    BY <1>1, <2>1, <2>2, <2>3 DEF StopGoesOn
<1>8. ASSUME UNCHANGED call PROVE Saving'
  BY <1>8 DEF Saving
<1>9. ASSUME NEW k \in Starts,
             \/ OpenRaw(k) \/ RenameRaw(k) \/ EndMeasure(k) \/ Convert(k) \/ EndConverter(k)
             \/ \E p \in Programs : Die(p, k)
      PROVE  Saving'
  BY <1>8, <1>9 DEF OpenRaw, RenameRaw, EndMeasure, Convert, EndConverter, Die
<1>10. CASE UNCHANGED vars
  BY <1>8, <1>10 DEF vars
<1> QED
  BY <1>2, <1>3, <1>4, <1>5, <1>6, <1>7, <1>9, <1>10 DEF ServiceNext, Script, Programs

-----------------------------------------------------------------------------
(* One measurement at a time *)

LEMMA SingleInit == ServiceInit => Single
<1> SUFFICES ASSUME ServiceInit PROVE Single
  OBVIOUS
<1>1. /\ \A c \in Callers : call[c].pc = "idle"
      /\ \A p \in Programs, k \in Starts : proc[p][k] = "none"
      /\ pid.measure = None /\ pid.convert = None
  BY DEF ServiceInit, Idle, Programs
<1>2. Quiet /\ LastOnly
  BY <1>1 DEF Quiet, Dead, LastOnly, Running, Programs
<1> QED
  BY <1>1, <1>2 DEF Single, Orderly, StartAlone, Locked, StopInOrder, Starting, Stopping, Ending

(* A step after which no process runs that did not run before. *)
LEMMA StillDead ==
  ASSUME LastOnly, starts' = starts,
         \A p \in Programs, k \in Starts : proc'[p][k] \in Running => proc[p][k] \in Running
  PROVE  /\ LastOnly'
         /\ Dead("measure") => Dead("measure")'
         /\ Dead("convert") => Dead("convert")'
         /\ Quiet => Quiet'
BY DEF LastOnly, Dead, Quiet, Programs

LEMMA NobodyStarts ==
  ASSUME StartAlone, NEW c \in Callers, call[c].pc \notin {"idle"} \cup Starting
  PROVE  NoStart
BY DEF StartAlone, NoStart

LEMMA SingleStart ==
  ASSUME Types, Begun, Orderly, ~clash', NEW c \in Callers, CallStart(c)
  PROVE  Orderly'
<1>1. /\ Changes(c) /\ call[c].pc = "idle" /\ call'[c].pc = "clean" /\ call'[c].run = starts'
      /\ starts' = starts + 1 /\ starts' \in Starts
  BY StartPasses
<1>2. /\ \A o \in Callers \ {c} : call[o] = Idle
      /\ ~lock /\ UNCHANGED <<lock, pid, proc>>
  BY DEF CallStart, Passes
<1>3. \A o \in Callers : call[o].pc = "idle"
  BY <1>1, <1>2 DEF Idle
<1>4. Quiet
  BY <1>2, <1>3 DEF Orderly, Locked, NoStart, Starting
<1>5. Quiet' /\ Dead("measure")' /\ LastOnly'
  BY <1>2, <1>4 DEF Quiet, Dead, LastOnly, Programs
<1>6. proc'["measure"][starts'] = "none" /\ proc'["convert"][starts'] = "none"
  <2>1. starts' > starts
    BY <1>1, ServiceAssumption DEF Types
  <2> QED
    BY <1>1, <1>2, <2>1 DEF Begun, Programs
<1>7. \A o \in Callers \ {c} : call'[o].pc = "idle"
  BY <1>1, <1>3 DEF Changes
<1>8. StartAlone'
  BY <1>1, <1>2, <1>5, <1>6, <1>7 DEF StartAlone, Starting
<1>9. Locked' /\ StopInOrder'
  BY <1>1, <1>7 DEF Locked, NoStart, StopInOrder, Starting, Stopping, Ending
<1> QED
  BY <1>5, <1>8, <1>9 DEF Orderly

(* What the call of c has to show when it is not a start. *)
InOrder(c) ==
  /\ call[c].pc \in {"pids2"} \cup Stopping => call[c].convert = starts
  /\ call[c].pc \in Stopping => call[c].measure = starts
  /\ call[c].pc \in {"drain", "kill_convert", "wait_convert"} => Dead("measure")
  /\ call[c].pc \in Ending \cup {"unlock"} => Quiet

LEMMA StopKept ==
  ASSUME Orderly, NoStart, NEW c \in Callers, Changes(c), call'[c].pc \notin Starting,
         starts' = starts,
         \A p \in Programs, k \in Starts : proc'[p][k] \in Running => proc[p][k] \in Running,
         InOrder(c)',
         \/ UNCHANGED <<lock, pid>>
         \/ Quiet /\ pid'.measure \in {None, starts} /\ pid'.convert \in {None, starts}
  PROVE  Orderly'
<1>1. /\ LastOnly'
      /\ Dead("measure") => Dead("measure")'
      /\ Dead("convert") => Dead("convert")'
      /\ Quiet => Quiet'
  BY StillDead DEF Orderly
<1>2. NoStart'
  BY DEF NoStart, Changes
<1>3. StartAlone'
  BY <1>2 DEF StartAlone, NoStart
<1>4. Locked'
  <2>1. CASE UNCHANGED <<lock, pid>>
    BY <1>1, <2>1 DEF Orderly, Locked
  <2>2. CASE Quiet /\ pid'.measure \in {None, starts} /\ pid'.convert \in {None, starts}
    BY <1>1, <2>2 DEF Locked
  <2> QED
    BY <2>1, <2>2
<1>5. StopInOrder'
  <2>1. \A o \in Callers \ {c} : InOrder(o) => InOrder(o)'
    BY <1>1 DEF InOrder, Changes
  <2>2. \A o \in Callers : InOrder(o)
    BY DEF Orderly, StopInOrder, InOrder
  <2>3. \A o \in Callers : InOrder(o)'
    BY <2>1, <2>2
  <2> QED
    BY <2>3 DEF StopInOrder, InOrder
<1> QED
  BY <1>1, <1>3, <1>4, <1>5 DEF Orderly

LEMMA SingleAsk ==
  ASSUME Types, Orderly, NEW c \in Callers,
         CallStop(c) \/ ReadConverterPid(c) \/ ReadMeasurePid(c)
  PROVE  Orderly'
<1>1. UNCHANGED <<lock, pid, proc, starts>>
  BY DEF CallStop, ReadConverterPid, ReadMeasurePid, control
<1>2. Quiet <=> Quiet'
  BY <1>1 DEF Quiet, Dead
<1>3. CASE CallStop(c)
  <2>1. Changes(c) /\ call'[c].pc = "pids"
    BY <1>3, StopPasses
  <2>2. NoStart
    BY <1>3 DEF CallStop, Orderly, StartAlone, NoStart
  <2>3. InOrder(c)'
    BY <2>1 DEF InOrder, Stopping, Ending
  <2> QED
    BY <1>1, <2>1, <2>2, <2>3, StopKept DEF Starting
<1>4. CASE ReadConverterPid(c)
  <2>1. /\ Changes(c) /\ call[c].pc = "pids"
        /\ \/ pid.convert = None /\ call'[c].pc = "unlock"
           \/ call'[c].pc = "pids2" /\ call'[c].convert = pid.convert /\ pid.convert # None
    BY <1>4, PidRead
  <2>2. NoStart
    BY <2>1, NobodyStarts DEF Orderly, Starting
  <2>3. pid.convert \in {None, starts} /\ (pid.convert = None => Quiet)
    BY <2>2 DEF Orderly, Locked
  <2>4. InOrder(c)'
    BY <1>1, <1>2, <2>1, <2>3 DEF InOrder, Stopping, Ending
  <2> QED
    BY <1>1, <2>1, <2>2, <2>4, StopKept DEF Starting
<1>5. CASE ReadMeasurePid(c)
  <2>1. /\ Changes(c) /\ call[c].pc = "pids2"
        /\ \/ pid.measure = None /\ call'[c].pc = "unlock"
           \/ /\ call'[c].pc = "kill_measure" /\ call'[c].convert = call[c].convert
              /\ call'[c].measure = pid.measure /\ pid.measure # None
    BY <1>5, PidsRead
  <2>2. NoStart
    BY <2>1, NobodyStarts DEF Orderly, Starting
  <2>3. pid.measure \in {None, starts} /\ (pid.measure = None => Quiet) /\ call[c].convert = starts
    BY <2>1, <2>2 DEF Orderly, Locked, StopInOrder
  <2>4. InOrder(c)'
    BY <1>1, <1>2, <2>1, <2>3 DEF InOrder, Stopping, Ending
  <2> QED
    BY <1>1, <2>1, <2>2, <2>4, StopKept DEF Starting
<1> QED
  BY <1>3, <1>4, <1>5

LEMMA SingleKill ==
  ASSUME Types, Orderly, NEW c \in Callers, KillMeasure(c) \/ KillConverter(c)
  PROVE  Orderly'
<1>1. \/ StopGoesOn(c, "kill_measure", "wait_measure")
      \/ StopGoesOn(c, "kill_convert", "wait_convert")
  BY StopSteps
<1>2. NoStart /\ InOrder(c)
  BY <1>1, NobodyStarts DEF StopGoesOn, Orderly, StopInOrder, InOrder, Starting
<1>3. PICK p \in Programs, pc \in Stopping : \E next : Kill(c, p, pc, next)
  BY DEF KillMeasure, KillConverter, Programs, Stopping
<1>4. PICK to \in {"none", "gone"} \cup Running :
        /\ proc' = [proc EXCEPT ![p][call[c][p]] = to]
        /\ call[c][p] \in Starts
        /\ to \in Running => proc[p][call[c][p]] \in Running
        /\ UNCHANGED <<starts, lock, pid>>
  BY <1>3, Killed DEF control
<1>5. \A q \in Programs, k \in Starts : proc'[q][k] \in Running => proc[q][k] \in Running
  <2>1. /\ proc'[p][call[c][p]] = to
        /\ \A q \in Programs, l \in Starts : q # p \/ l # call[c][p] => proc'[q][l] = proc[q][l]
    BY <1>4, NewState
  <2> QED
    BY <1>4, <2>1
<1>6. Dead("measure") => Dead("measure")'
  BY <1>4, <1>5, StillDead DEF Orderly
<1>7. InOrder(c)'
  BY <1>1, <1>2, <1>4, <1>6 DEF InOrder, StopGoesOn, Stopping, Ending
<1>8. Changes(c) /\ call'[c].pc \notin Starting
  BY <1>1 DEF StopGoesOn, Starting
<1> QED
  BY <1>2, <1>4, <1>5, <1>7, <1>8, StopKept

LEMMA SingleWait ==
  ASSUME Types, Orderly, NEW c \in Callers, WaitMeasure(c) \/ Drain(c) \/ WaitConverter(c)
  PROVE  Orderly'
<1>1. UNCHANGED <<starts, lock, pid, proc>>
  BY DEF WaitMeasure, Drain, WaitConverter, control
<1>2. \/ StopGoesOn(c, "wait_measure", "drain")
      \/ StopGoesOn(c, "drain", "drain") \/ StopGoesOn(c, "drain", "kill_convert")
      \/ StopGoesOn(c, "wait_convert", "copy") \/ StopGoesOn(c, "wait_convert", "rm_pids")
  BY StopSteps
<1>3. NoStart /\ InOrder(c)
  BY <1>2, NobodyStarts DEF StopGoesOn, Orderly, StopInOrder, InOrder, Starting
<1>4. /\ call[c].convert = starts /\ call[c].measure = starts
      /\ call[c].pc \in {"wait_measure", "drain", "wait_convert"}
  BY <1>2, <1>3 DEF InOrder, StopGoesOn, Stopping
<1>5. Dead("measure")
  <2>1. CASE WaitMeasure(c)
    <3>1. proc["measure"][starts] = "gone"
      BY <1>4, <2>1 DEF WaitMeasure
    <3> QED
      BY <3>1 DEF Dead, Orderly, LastOnly, Programs, Running
  <2>2. CASE Drain(c) \/ WaitConverter(c)
    BY <1>3, <2>2 DEF InOrder, Drain, WaitConverter
  <2> QED
    BY <2>1, <2>2
<1>6. WaitConverter(c) => Quiet
  <2> SUFFICES ASSUME WaitConverter(c) PROVE Quiet
    OBVIOUS
  <2>1. proc["convert"][starts] = "gone"
    BY <1>4 DEF WaitConverter
  <2> QED
    BY <1>5, <2>1 DEF Quiet, Dead, Orderly, LastOnly, Programs, Running
<1>7. Dead("measure")' /\ (Quiet => Quiet')
  BY <1>1, <1>5 DEF Dead, Quiet
<1>8. call'[c].pc \in Ending \cup {"unlock"} => Quiet
  BY <1>2, <1>6, StopSteps DEF StopGoesOn, WaitMeasure, Drain, WaitConverter, Ending
<1>9. InOrder(c)'
  BY <1>1, <1>2, <1>4, <1>7, <1>8 DEF InOrder, StopGoesOn
<1>10. Changes(c) /\ call'[c].pc \notin Starting
  BY <1>2 DEF StopGoesOn, Starting
<1> QED
  BY <1>1, <1>3, <1>9, <1>10, StopKept

LEMMA SingleCopy ==
  ASSUME Types, Orderly, NEW c \in Callers,
         CopyRemovePid(c) \/ CopyMove(c) \/ CopyPack(c) \/ RemovePids(c)
  PROVE  Orderly'
<1>1. UNCHANGED <<starts, proc>>
  BY DEF CopyRemovePid, CopyMove, CopyPack, RemovePids, control
<1>2. PICK from \in Ending, to \in Ending \cup {"unlock"} : StopGoesOn(c, from, to)
  BY StopSteps DEF Ending
<1>3. NoStart /\ InOrder(c)
  BY <1>2, NobodyStarts DEF StopGoesOn, Orderly, StopInOrder, InOrder, Starting, Ending
<1>4. Quiet
  BY <1>2, <1>3 DEF InOrder, StopGoesOn
<1>5. Quiet' /\ Dead("measure")'
  BY <1>1, <1>4 DEF Dead, Quiet
<1>6. InOrder(c)'
  BY <1>1, <1>2, <1>3, <1>5 DEF InOrder, StopGoesOn, Stopping, Ending
<1>7. pid'.measure \in {None, starts} /\ pid'.convert \in {None, starts}
  <2>1. pid.measure \in {None, starts} /\ pid.convert \in {None, starts}
    BY <1>3 DEF Orderly, Locked
  <2>2. CASE CopyRemovePid(c)
    <3>1. pid' = [pid EXCEPT !.convert = None] /\ pid \in [measure : 0 .. MaxStarts, convert : 0 .. MaxStarts]
      BY <2>2 DEF CopyRemovePid, Types
    <3> QED
      BY <2>1, <3>1
  <2>3. CASE CopyMove(c) \/ CopyPack(c) \/ RemovePids(c)
    BY <2>1, <2>3 DEF CopyMove, CopyPack, RemovePids
  <2> QED
    BY <2>2, <2>3
<1>8. Changes(c) /\ call'[c].pc \notin Starting
  BY <1>2 DEF StopGoesOn, Starting, Ending
<1> QED
  BY <1>1, <1>3, <1>4, <1>6, <1>7, <1>8, StopKept

LEMMA SingleUnlock ==
  ASSUME Types, Orderly, NEW c \in Callers, RemoveLock(c)
  PROVE  Orderly'
<1>1. /\ Changes(c) /\ call[c].pc = "unlock" /\ call'[c].pc = "idle"
      /\ UNCHANGED <<starts, proc, pid>>
  BY Returned DEF RemoveLock, Changes
<1>2. NoStart /\ Quiet
  BY <1>1, NobodyStarts DEF Orderly, StopInOrder, Starting
<1>3. pid'.measure \in {None, starts} /\ pid'.convert \in {None, starts}
  BY <1>1, <1>2 DEF Orderly, Locked
<1>4. InOrder(c)'
  BY <1>1 DEF InOrder, Stopping, Ending
<1> QED
  BY <1>1, <1>2, <1>3, <1>4, StopKept DEF Starting

(* The commands of a start. *)
LEMMA SingleClean ==
  ASSUME Types, Orderly, NEW c \in Callers, CleanPower(c) \/ CleanRaw(c)
  PROVE  Orderly'
<1>1. /\ Changes(c) /\ call'[c].run = call[c].run
      /\ call[c].pc \in {"clean", "clean_raw"} /\ call'[c].pc \in {"clean_raw", "convert"}
      /\ UNCHANGED <<starts, proc>> /\ lock' \in {lock, FALSE}
  BY StartSteps DEF StartGoesOn, CleanPower, CleanRaw, control
<1>2. /\ \A o \in Callers \ {c} : call[o].pc = "idle"
      /\ ~lock /\ call[c].run = starts
      /\ Quiet /\ Dead("measure")
      /\ proc["convert"][starts] = "none" /\ proc["measure"][starts] = "none"
  BY <1>1 DEF Orderly, StartAlone, Starting
<1>3. Quiet' /\ Dead("measure")' /\ LastOnly'
  BY <1>1, <1>2 DEF Quiet, Dead, Orderly, LastOnly
<1>4. \A o \in Callers \ {c} : call'[o].pc = "idle"
  BY <1>1, <1>2 DEF Changes
<1>5. StartAlone'
  BY <1>1, <1>2, <1>3, <1>4 DEF StartAlone, Starting
<1>6. Locked' /\ StopInOrder'
  BY <1>1, <1>4 DEF Locked, NoStart, StopInOrder, Starting, Stopping, Ending
<1> QED
  BY <1>3, <1>5, <1>6 DEF Orderly

LEMMA SingleLaunch ==
  ASSUME Types, Orderly, NEW c \in Callers, LaunchConverter(c) \/ LaunchMeasure(c)
  PROVE  Orderly'
<1>1. PICK p \in Programs : \E next : Launch(c, p, next)
  BY DEF LaunchConverter, LaunchMeasure, Programs
<1>2. /\ call[c].run \in Starts /\ call[c].pc = p
      /\ proc' = [proc EXCEPT ![p][call[c].run] = "on"]
      /\ p = "measure" => pid'.measure = call[c].run /\ pid'.convert = pid.convert
      /\ p = "convert" => pid'.convert = call[c].run /\ pid'.measure = pid.measure
      /\ UNCHANGED <<starts, lock>>
  BY <1>1, Launched DEF control
<1>3. /\ Changes(c) /\ call'[c].run = call[c].run
      /\ p = "convert" => call'[c].pc = "measure"
      /\ p = "measure" => call'[c].pc = "touch"
  BY <1>2, StartSteps DEF StartGoesOn, LaunchConverter, LaunchMeasure, Launch
<1>4. /\ \A o \in Callers \ {c} : call[o].pc = "idle"
      /\ ~lock /\ call[c].run = starts
      /\ Dead("measure") /\ proc["measure"][starts] = "none"
      /\ p = "convert" => Quiet
      /\ p = "measure" => pid.convert = starts
  BY <1>2 DEF Orderly, StartAlone, Starting, Programs
<1>5. /\ proc'[p][starts] = "on"
      /\ \A q \in Programs, l \in Starts : q # p \/ l # starts => proc'[q][l] = proc[q][l]
      /\ starts \in Starts
  <2>1. starts \in Starts /\ proc' = [proc EXCEPT ![p][starts] = "on"]
    BY <1>2, <1>4
  <2> QED
    BY <2>1, NewState DEF Running
<1>6. LastOnly'
  BY <1>2, <1>5 DEF Orderly, LastOnly
<1>7. \A o \in Callers \ {c} : call'[o].pc = "idle"
  BY <1>3, <1>4 DEF Changes
<1>8. p = "convert" => Dead("measure")' /\ proc'["measure"][starts] = "none"
  BY <1>4, <1>5 DEF Dead, Programs
<1>9. StartAlone'
  <2>1. CASE p = "convert"
    BY <1>2, <1>3, <1>4, <1>7, <1>8, <2>1 DEF StartAlone, Starting
  <2>2. CASE p = "measure"
    BY <1>2, <1>3, <1>4, <1>7, <2>2 DEF StartAlone, Starting
  <2> QED
    BY <2>1, <2>2 DEF Programs
<1>10. Locked' /\ StopInOrder'
  BY <1>3, <1>7 DEF Locked, NoStart, StopInOrder, Starting, Stopping, Ending, Programs
<1> QED
  BY <1>6, <1>9, <1>10 DEF Orderly

LEMMA SingleTouch ==
  ASSUME Types, Orderly, NEW c \in Callers, TouchLock(c)
  PROVE  Orderly'
<1>1. /\ Changes(c) /\ call[c].pc = "touch" /\ call'[c].pc = "idle"
      /\ lock' = TRUE /\ UNCHANGED <<starts, proc, pid>>
  BY Returned DEF TouchLock, Changes
<1>2. /\ \A o \in Callers \ {c} : call[o].pc = "idle"
      /\ pid.convert = starts /\ pid.measure = starts
      /\ call[c].run = starts
  BY <1>1 DEF Orderly, StartAlone, Starting
<1>3. \A o \in Callers : call'[o].pc = "idle"
  BY <1>1, <1>2 DEF Changes
<1>4. starts # None
  <2>1. call[c].run \in Starts
    BY <1>1, Shapes DEF Starting
  <2> QED
    BY <1>2, <2>1, ServiceAssumption DEF Starts, None
<1>5. LastOnly'
  BY <1>1 DEF Orderly, LastOnly
<1>6. StartAlone' /\ StopInOrder'
  BY <1>3 DEF StartAlone, StopInOrder, Starting, Stopping, Ending
<1>7. Locked'
  BY <1>1, <1>2, <1>4 DEF Locked
<1> QED
  BY <1>5, <1>6, <1>7 DEF Orderly

LEMMA SingleEnd ==
  ASSUME Types, Orderly, NEW k \in Starts,
         EndMeasure(k) \/ EndConverter(k) \/ \E p \in Programs : Die(p, k)
  PROVE  Orderly'
<1>1. PICK p \in Programs :
        /\ UNCHANGED <<call, lock, starts, pid>>
        /\ proc[p][k] \in Running
        /\ proc' = [proc EXCEPT ![p][k] = "gone"]
  BY ProcessEnds DEF control
<1>2. /\ proc'[p][k] = "gone"
      /\ \A q \in Programs, l \in Starts : q # p \/ l # k => proc'[q][l] = proc[q][l]
  BY <1>1, NewState
<1>3. \A q \in Programs, l \in Starts :
        /\ proc'[q][l] \in Running => proc[q][l] \in Running
        /\ proc[q][l] = "none" => proc'[q][l] = "none"
  BY <1>1, <1>2 DEF Running
<1>4. /\ LastOnly'
      /\ Dead("measure") => Dead("measure")'
      /\ Quiet => Quiet'
  BY <1>1, <1>3, StillDead DEF Orderly
<1>5. StartAlone'
  <2> SUFFICES ASSUME NEW c \in Callers, call[c].pc \in Starting
               PROVE  /\ \A o \in Callers \ {c} : call[o].pc = "idle"
                      /\ ~lock
                      /\ call[c].run = starts
                      /\ call[c].pc \in {"clean", "clean_raw", "convert"} =>
                           Quiet' /\ proc'["convert"][starts] = "none"
                      /\ call[c].pc \in {"clean", "clean_raw", "convert", "measure"} =>
                           Dead("measure")' /\ proc'["measure"][starts] = "none"
                      /\ call[c].pc \in {"measure", "touch"} => pid.convert = starts
                      /\ call[c].pc = "touch" => pid.measure = starts
    BY <1>1 DEF StartAlone
  <2>1. starts \in Starts
    BY Shapes DEF Orderly, StartAlone
  <2> QED
    BY <1>3, <1>4, <2>1 DEF Orderly, StartAlone, Programs
<1>6. Locked' /\ StopInOrder'
  BY <1>1, <1>4 DEF Orderly, Locked, NoStart, StopInOrder
<1> QED
  BY <1>4, <1>5, <1>6 DEF Orderly

LEMMA SingleNext == Types /\ Begun /\ Single /\ [ServiceNext]_vars => Single'
<1> SUFFICES ASSUME Types, Begun, Single, [ServiceNext]_vars, ~clash' PROVE Orderly'
  BY DEF Single
<1>1. ASSUME NEW c \in Callers, CallStart(c) PROVE Orderly'
  <2>1. ~clash
    BY <1>1 DEF CallStart, Passes
  <2> QED
    BY <1>1, <2>1, SingleStart DEF Single
<1>2. ASSUME NEW c \in Callers, CallStop(c) \/ Script(c) PROVE Orderly'
  <2>1. ~clash
    BY <1>2 DEF CallStop, Script, CleanPower, CleanRaw, LaunchConverter, LaunchMeasure, Launch,
                TouchLock, ReadConverterPid, ReadMeasurePid, KillMeasure, WaitMeasure, Kill, Drain,
                KillConverter, WaitConverter, CopyRemovePid, CopyMove, CopyPack, RemovePids,
                RemoveLock, control
  <2>2. Orderly
    BY <2>1 DEF Single
  <2> QED
    BY <1>2, <2>2, SingleAsk, SingleKill, SingleWait, SingleCopy, SingleUnlock, SingleClean,
       SingleLaunch, SingleTouch DEF Script
<1>3. ASSUME NEW k \in Starts, OpenRaw(k) \/ RenameRaw(k) \/ Convert(k) PROVE Orderly'
  <2>1. UNCHANGED <<call, lock, starts, clash, pid, proc>>
    BY <1>3 DEF OpenRaw, RenameRaw, Convert, control
  <2> QED
    BY <2>1 DEF Single, Orderly, LastOnly, StartAlone, Locked, NoStart, StopInOrder, Quiet, Dead
<1>4. ASSUME NEW k \in Starts, EndMeasure(k) \/ EndConverter(k) \/ \E p \in Programs : Die(p, k)
      PROVE  Orderly'
  <2>1. ~clash
    BY <1>4 DEF EndMeasure, EndConverter, Die, control
  <2> QED
    BY <1>4, <2>1, SingleEnd DEF Single
<1>5. CASE UNCHANGED vars
  BY <1>5 DEF vars, control, Single, Orderly, LastOnly, StartAlone, Locked, NoStart, StopInOrder,
              Quiet, Dead
<1> QED
  BY <1>1, <1>2, <1>3, <1>4, <1>5 DEF ServiceNext, Programs

LEMMA OneAtATime == Types /\ Single => OneMeasurement
<1> SUFFICES ASSUME Types, Orderly, NEW p \in Programs
             PROVE  Cardinality(Live(p)) <= 1
  BY DEF Single, OneMeasurement, Programs
<1>1. Live(p) \in SUBSET {starts}
  BY DEF Live, Types, Orderly, LastOnly, Running
<1>2. IsFiniteSet({starts}) /\ Cardinality({starts}) = 1
  BY FS_Singleton
<1> QED
  BY <1>1, <1>2, FS_Subset

(* For every number of starts and files, one measurement and one converter *)
(* of a node run at a time, however calls and stops overlap, unless a start*)
(* slips past the lock beside another call (hpcmeasure 59-97).             *)
THEOREM OneAtOnce == ServiceSpec => []OneMeasurement
<1>1. ServiceSpec => [](Types /\ Begun /\ Single)
  BY TypesInit, TypesNext, BegunInit, BegunNext, SingleInit, SingleNext, PTL DEF ServiceSpec
<1> QED
  BY <1>1, OneAtATime, PTL

-----------------------------------------------------------------------------
(* The archive is complete *)

LEMMA ArchivedInit == ServiceInit => Archived
BY DEF ServiceInit, Archived, Moved, Idle, Ending

(* What holds of a call while the files are on their way. *)
OnTheWay(c) ==
  \A f \in Files : f[1] = starts =>
    /\ call[c].pc \in {"kill_convert", "wait_convert"} \cup Ending => place[f] \notin {"temp", "raw"}
    /\ call[c].pc = "pack" \/ (call[c].pc = "rm_pids" /\ call[c].save) => place[f] # "power"

LEMMA MovedKept ==
  ASSUME Moved, NEW c \in Callers, Changes(c), call[c].pc # "pack",
         UNCHANGED <<starts, place>>, OnTheWay(c)'
  PROVE  Moved'
<1>1. \A o \in Callers : OnTheWay(o)'
  <2> TAKE o \in Callers
  <2>1. CASE o = c
    BY <2>1
  <2>2. CASE o # c
    BY <2>2 DEF Moved, OnTheWay, Changes
  <2> QED
    BY <2>1, <2>2
<1>2. \A f \in Files : place'[f] = "tmp" => call'["batch"].pc = "pack"
  BY DEF Moved, Changes, Callers
<1>3. \A f \in Files : f[1] = starts' => place'[f] # "removed"
  BY DEF Moved
<1> QED
  BY <1>1, <1>2, <1>3 DEF Moved, OnTheWay

LEMMA MovedStart ==
  ASSUME Types, Begun, Moved, NEW c \in Callers, CallStart(c)
  PROVE  Moved'
<1>1. /\ Changes(c) /\ call[c].pc = "idle" /\ starts' = starts + 1 /\ starts' \in Starts
      /\ UNCHANGED <<proc, place>>
  BY StartPasses DEF CallStart, Passes
<1>2. \A f \in Files : f[1] = starts' => place'[f] = "none"
  <2>1. starts' > starts
    BY <1>1, ServiceAssumption DEF Types
  <2>2. proc["measure"][starts'] = "none"
    BY <1>1, <2>1 DEF Begun, Programs
  <2> QED
    BY <1>1, <2>2 DEF Begun
<1>3. \A f \in Files : place'[f] = "tmp" => call'["batch"].pc = "pack"
  BY <1>1 DEF Moved, Changes, Callers
<1> QED
  BY <1>2, <1>3 DEF Moved

LEMMA MovedClean ==
  ASSUME Types, Begun, Orderly, Moved, NEW c \in Callers, CleanPower(c) \/ CleanRaw(c)
  PROVE  Moved'
<1>1. /\ Changes(c) /\ call[c].pc \in {"clean", "clean_raw"}
      /\ call'[c].pc \in {"clean_raw", "convert"} /\ UNCHANGED starts
  BY StartSteps DEF StartGoesOn, CleanPower, CleanRaw, control
<1>2. \A o \in Callers \ {c} : call[o].pc = "idle"
  BY <1>1 DEF Orderly, StartAlone, Starting
<1>3. \A f \in Files : f[1] = starts => place[f] = "none"
  BY <1>1 DEF Orderly, StartAlone, Starting, Begun
<1>4. \A f \in Files : place'[f] = place[f] \/ (place[f] # "none" /\ place'[f] = "removed")
  <2>1. AllTo({"power"}, "removed") \/ AllTo({"temp", "raw"}, "removed")
    BY DEF CleanPower, CleanRaw
  <2> QED
    BY <2>1, MovedFiles DEF Places
<1>5. \A f \in Files : place[f] # "tmp"
  <2>1. call["batch"].pc # "pack"
    BY <1>1, <1>2 DEF Callers
  <2> QED
    BY <2>1 DEF Moved
<1>6. \A o \in Callers : call'[o].pc \in {"idle", "clean_raw", "convert"}
  BY <1>1, <1>2 DEF Changes
<1> QED
  BY <1>1, <1>3, <1>4, <1>5, <1>6 DEF Moved, Ending

LEMMA MovedScript ==
  ASSUME Types, Moved, NEW c \in Callers,
         \/ CallStop(c) \/ LaunchConverter(c) \/ LaunchMeasure(c) \/ TouchLock(c)
         \/ ReadConverterPid(c) \/ ReadMeasurePid(c) \/ KillMeasure(c) \/ WaitMeasure(c)
         \/ KillConverter(c) \/ WaitConverter(c) \/ CopyRemovePid(c) \/ RemovePids(c) \/ RemoveLock(c)
  PROVE  Moved'
<1>1. UNCHANGED <<starts, place>>
  BY DEF CallStop, LaunchConverter, LaunchMeasure, Launch, TouchLock, ReadConverterPid,
         ReadMeasurePid, KillMeasure, WaitMeasure, KillConverter, Kill, WaitConverter,
         CopyRemovePid, RemovePids, RemoveLock, control
<1>2. CASE KillConverter(c) \/ WaitConverter(c) \/ CopyRemovePid(c)
  <2>1. /\ Changes(c) /\ call[c].pc \in {"kill_convert", "wait_convert", "copy"}
        /\ call'[c].pc \in {"wait_convert", "copy", "rm_pids", "move"}
        /\ call'[c].save = call[c].save
        /\ call'[c].pc = "rm_pids" => ~call[c].save
    BY <1>2, StopSteps DEF StopGoesOn
  <2>2. \A f \in Files : f[1] = starts => place[f] \notin {"temp", "raw"}
    BY <2>1 DEF Moved, Ending
  <2>3. OnTheWay(c)'
    BY <1>1, <2>1, <2>2 DEF OnTheWay
  <2> QED
    BY <1>1, <2>1, <2>3, MovedKept
<1>3. CASE \/ CallStop(c) \/ LaunchConverter(c) \/ LaunchMeasure(c) \/ TouchLock(c)
           \/ ReadConverterPid(c) \/ ReadMeasurePid(c) \/ KillMeasure(c) \/ WaitMeasure(c)
           \/ RemovePids(c) \/ RemoveLock(c)
  <2>1. /\ Changes(c) /\ call[c].pc # "pack"
        /\ call'[c].pc \in {"pids", "measure", "touch", "idle", "unlock", "pids2", "kill_measure",
                            "wait_measure", "drain"}
    <3>1. CASE TouchLock(c) \/ RemoveLock(c)
      BY <3>1, Returned DEF TouchLock, RemoveLock, Changes
    <3>2. CASE CallStop(c) \/ ReadConverterPid(c) \/ ReadMeasurePid(c)
      BY <3>2, StopPasses, PidRead, PidsRead
    <3>3. CASE LaunchConverter(c) \/ LaunchMeasure(c)
      BY <3>3, StartSteps DEF StartGoesOn
    <3>4. CASE KillMeasure(c) \/ WaitMeasure(c) \/ RemovePids(c)
      BY <3>4, StopSteps DEF StopGoesOn
    <3> QED
      BY <1>3, <3>1, <3>2, <3>3, <3>4
  <2>2. OnTheWay(c)'
    BY <2>1 DEF OnTheWay, Ending
  <2> QED
    BY <1>1, <2>1, <2>2, MovedKept
<1> QED
  BY <1>2, <1>3

LEMMA MovedDrain ==
  ASSUME Types, Moved, NEW c \in Callers, Drain(c)
  PROVE  Moved'
<1>1. /\ Changes(c) /\ call[c].pc = "drain" /\ call'[c].pc \in {"drain", "kill_convert"}
      /\ UNCHANGED starts
  BY StopSteps DEF StopGoesOn, Drain, control
<1>2. CASE UNCHANGED place /\ In({"temp", "raw"}) = {}
  <2>1. OnTheWay(c)'
    BY <1>1, <1>2 DEF OnTheWay, In
  <2> QED
    BY <1>1, <1>2, <2>1, MovedKept
<1>3. CASE UNCHANGED place /\ call' = [call EXCEPT ![c].waited = @ + 1]
  <2>1. call'[c].pc = "drain"
    <3>1. call[c] \in [pc : Stopping \cup {"unlock"}, save : BOOLEAN, waited : Nat,
                       convert : Starts, measure : Starts]
      BY <1>1, Shapes DEF Stopping
    <3>2. call' = [call EXCEPT ![c] = [call[c] EXCEPT !.waited = @ + 1]] /\ call \in [Callers -> Call]
      BY <1>3 DEF Types
    <3> QED
      BY <1>1, <3>1, <3>2
  <2>2. OnTheWay(c)'
    BY <2>1 DEF OnTheWay, Ending
  <2> QED
    BY <1>1, <1>3, <2>2, MovedKept
<1>4. CASE AllTo({"temp", "raw"}, "expired")
  <2>1. \A f \in Files : place'[f] = IF place[f] \in {"temp", "raw"} THEN "expired" ELSE place[f]
    BY <1>4, MovedFiles DEF Places
  <2>2. \A f \in Files : place'[f] \notin {"temp", "raw"}
    BY <2>1
  <2>3. \A f \in Files : f[1] = starts' => place'[f] # "removed"
    BY <1>1, <2>1 DEF Moved
  <2>4. \A f \in Files : place'[f] = "tmp" => call'["batch"].pc = "pack"
    BY <1>1, <2>1 DEF Moved, Changes, Callers
  <2>5. \A o \in Callers, f \in Files : f[1] = starts' =>
          (call'[o].pc = "pack" \/ (call'[o].pc = "rm_pids" /\ call'[o].save) => place'[f] # "power")
    BY <1>1, <2>1 DEF Moved, Changes
  <2> QED
    BY <2>2, <2>3, <2>4, <2>5 DEF Moved
<1> QED
  BY <1>2, <1>3, <1>4 DEF Drain

LEMMA MovedCopy ==
  ASSUME Types, Saving, Moved, NEW c \in Callers, CopyMove(c) \/ CopyPack(c)
  PROVE  Moved'
<1>1. /\ Changes(c) /\ UNCHANGED starts
      /\ CopyMove(c) => call[c].pc = "move" /\ call'[c].pc = "pack"
      /\ CopyPack(c) => call[c].pc = "pack" /\ call'[c].pc = "rm_pids"
  BY StopSteps DEF StopGoesOn, CopyMove, CopyPack, control
<1>2. c = "batch"
  BY <1>1 DEF Saving, Stopping, Ending
<1>3. \A f \in Files : f[1] = starts => place[f] \notin {"temp", "raw", "removed"}
  BY <1>1 DEF Moved, Ending
<1>4. CASE CopyMove(c)
  <2>1. \A f \in Files : place'[f] = IF place[f] \in {"power"} THEN "tmp" ELSE place[f]
    BY <1>4, MovedFiles DEF CopyMove, Places
  <2>2. \A f \in Files : f[1] = starts' => place'[f] \notin {"temp", "raw", "removed", "power"}
    BY <1>1, <1>3, <2>1
  <2> QED
    BY <1>1, <1>2, <1>4, <2>2 DEF Moved
<1>5. CASE CopyPack(c)
  <2>1. \A f \in Files : place'[f] = IF place[f] \in {"tmp"} THEN "archive" ELSE place[f]
    BY <1>5, MovedFiles DEF CopyPack, Places
  <2>2. \A f \in Files : f[1] = starts => place[f] # "power"
    BY <1>1, <1>5 DEF Moved
  <2>3. \A f \in Files : f[1] = starts' => place'[f] \notin {"temp", "raw", "removed", "power"}
    BY <1>1, <1>3, <2>1, <2>2
  <2>4. \A f \in Files : place'[f] # "tmp"
    BY <2>1
  <2> QED
    BY <2>3, <2>4 DEF Moved
<1> QED
  BY <1>4, <1>5

LEMMA MovedFile ==
  ASSUME Types, Orderly, Moved, NEW k \in Starts, OpenRaw(k) \/ RenameRaw(k) \/ Convert(k)
  PROVE  Moved'
<1>1. PICK f \in Files, from, to \in Places :
        /\ UNCHANGED <<call, starts, proc>>
        /\ place[f] = from /\ place' = [place EXCEPT ![f] = to]
        /\ <<from, to>> \in {<<"none", "temp">>, <<"temp", "raw">>, <<"raw", "power">>}
        /\ from # "raw" => f[1] = k /\ proc["measure"][k] \in Running
  BY FileMoves DEF control
<1>2. place'[f] = to /\ \A g \in Files \ {f} : place'[g] = place[g]
  BY <1>1 DEF Types
<1>3. to \in {"temp", "raw", "power"}
  BY <1>1
<1>4. \A g \in Files : g[1] = starts' => place'[g] # "removed"
  BY <1>1, <1>2, <1>3 DEF Moved
<1>5. \A g \in Files : place'[g] = "tmp" => call'["batch"].pc = "pack"
  BY <1>1, <1>2, <1>3 DEF Moved
<1>6. ASSUME NEW c \in Callers PROVE OnTheWay(c)'
  <2>1. OnTheWay(c)
    BY DEF OnTheWay, Moved
  <2>2. CASE from # "raw"
    <3>1. ~Dead("measure")
      BY <1>1, <2>2 DEF Dead
    <3>2. call[c].pc \notin {"kill_convert", "wait_convert"} \cup Ending
      BY <3>1 DEF Orderly, StopInOrder, Quiet
    <3> QED
      BY <1>1, <3>2 DEF OnTheWay, Ending
  <2>3. CASE from = "raw"
    <3>1. to = "power"
      BY <1>1, <2>3
    <3>2. call[c].pc \in {"kill_convert", "wait_convert"} \cup Ending => f[1] # starts
      BY <1>1, <2>1, <2>3 DEF OnTheWay
    <3> QED
      BY <1>1, <1>2, <2>1, <3>1, <3>2 DEF OnTheWay, Ending
  <2> QED
    BY <2>2, <2>3
<1> QED
  BY <1>4, <1>5, <1>6 DEF Moved, OnTheWay

LEMMA ArchivedNext ==
  Types /\ Begun /\ Saving /\ Single /\ Archived /\ [ServiceNext]_vars => Archived'
<1> SUFFICES ASSUME Types, Begun, Saving, Single, Archived, [ServiceNext]_vars, ~clash' PROVE Moved'
  BY DEF Archived
<1>1. Orderly /\ Moved
  <2>1. ~clash
    BY DEF ServiceNext, CallStart, Passes, CallStop, Script, CleanPower, CleanRaw, LaunchConverter,
           LaunchMeasure, Launch, TouchLock, ReadConverterPid, ReadMeasurePid, KillMeasure,
           WaitMeasure, Kill, Drain, KillConverter, WaitConverter, CopyRemovePid, CopyMove, CopyPack,
           RemovePids, RemoveLock, OpenRaw, RenameRaw, Convert, EndMeasure, EndConverter, Die,
           control, vars
  <2> QED
    BY <2>1 DEF Single, Archived
<1>2. ASSUME NEW c \in Callers, CallStart(c) PROVE Moved'
  BY <1>1, <1>2, MovedStart
<1>3. ASSUME NEW c \in Callers, CallStop(c) \/ Script(c) PROVE Moved'
  BY <1>1, <1>3, MovedClean, MovedScript, MovedDrain, MovedCopy DEF Script
<1>4. ASSUME NEW k \in Starts, OpenRaw(k) \/ RenameRaw(k) \/ Convert(k) PROVE Moved'
  BY <1>1, <1>4, MovedFile
<1>5. ASSUME NEW k \in Starts, EndMeasure(k) \/ EndConverter(k) \/ \E p \in Programs : Die(p, k)
      PROVE  Moved'
  <2>1. UNCHANGED <<call, starts, place>>
    BY <1>5 DEF EndMeasure, EndConverter, Die, control
  <2> QED
    BY <1>1, <2>1 DEF Moved
<1>6. CASE UNCHANGED vars
  BY <1>1, <1>6 DEF vars, control, Moved
<1> QED
  BY <1>2, <1>3, <1>4, <1>5, <1>6 DEF ServiceNext, Programs

LEMMA NothingMissing == Types /\ Saving /\ Single /\ Archived => ArchiveComplete
<1> SUFFICES ASSUME Types, Saving, Orderly, Moved,
                    NEW c \in Callers, call[c].pc = "rm_pids", call[c].save,
                    NEW f \in Files, f[1] = call[c].measure
             PROVE  place[f] \in {"none", "archive", "expired"}
  BY DEF Single, Archived, ArchiveComplete
<1>1. f[1] = starts /\ c = "batch"
  BY DEF Orderly, StopInOrder, Saving, Stopping, Ending
<1>2. place[f] \notin {"temp", "raw", "power", "tmp", "removed"}
  BY <1>1 DEF Moved, Ending
<1>3. place[f] \in Places
  BY DEF Types
<1> QED
  BY <1>2, <1>3 DEF Places

(* For every number of starts and files and every patience, an epilogue    *)
(* that archives misses no raw file of the measurement it ended but those  *)
(* the converter did not manage in time (stop_hpcmeasure_addi.sh 147-188). *)
THEOREM ArchiveMissesNothing == ServiceSpec => []ArchiveComplete
<1>1. ServiceSpec => [](Types /\ Begun /\ Saving /\ Single /\ Archived)
  BY TypesInit, TypesNext, BegunInit, BegunNext, SavingInit, SavingNext, SingleInit, SingleNext,
     ArchivedInit, ArchivedNext, PTL DEF ServiceSpec
<1> QED
  BY <1>1, NothingMissing, PTL

=============================================================================
