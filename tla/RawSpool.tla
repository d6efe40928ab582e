------------------------------ MODULE RawSpool ------------------------------
(***************************************************************************)
(* The directory of raw files between the measuring program, whose threads *)
(* write "<board>_<counter>.raw.tmp" and rename it to ".raw" when it is    *)
(* complete (hpc_threads.c), and the conversion program, which takes the   *)
(* files one at a time and removes them (hpc_convert.c).  The programs     *)
(* share nothing but the directory; either may end, fail or be killed, and *)
(* be started again.  A measuring program counts its files from 0.         *)
(***************************************************************************)
EXTENDS Naturals, Sequences, FiniteSets

CONSTANTS
  NBoards,    \* boards, numbered from 0: the first number of a file name
  MaxFiles,   \* bound: files that one run of the measurement writes per board
  MaxSaved,   \* bound: files that are written in all
  MaxRuns,    \* bound: starts of the measuring program
  MaxConverts \* bound: starts of the conversion program

ASSUME SpoolAssumption == {NBoards, MaxFiles, MaxSaved, MaxRuns, MaxConverts} \subseteq Nat \ {0}

Boards   == 0 .. NBoards - 1
Counters == 0 .. MaxFiles - 1
Names    == Boards \X Counters

VARIABLES
  measuring,  \* the measuring program runs
  run,        \* starts of the measuring program
  tmp,        \* tmp[b]: its thread b has written the temporary file
  counter,    \* counter[b]: the number of that thread's next file
  raw,        \* the files in the directory: their names and what they hold
  conv,       \* where the conversion program is
  stop,       \* its flag stop
  starts,     \* starts of the conversion program
  failed,     \* history: its last run ended by an error or was killed
  saved,      \* history: every file that was ever renamed to .raw, in order
  converted   \* history: the files it has put out, in order

measure == <<measuring, run, tmp, counter>>
vars    == <<measure, raw, conv, stop, starts, failed, saved, converted>>

Files == DOMAIN raw
Off   == [pc |-> "off"]
Loop(stop_local, any) == [pc |-> "loop", stop |-> stop_local, any |-> any]
At(pc, name, file)    == [pc |-> pc, name |-> name, file |-> file]
Elements(s) == {s[i] : i \in DOMAIN s}

SpoolInit ==
  /\ measuring = FALSE
  /\ run = 0
  /\ tmp = [b \in Boards |-> FALSE]
  /\ counter = [b \in Boards |-> 0]
  /\ raw = [n \in {} |-> 0]
  /\ conv = Off
  /\ stop = "quit"
  /\ starts = 0
  /\ failed = FALSE
  /\ saved = <<>>
  /\ converted = <<>>

-----------------------------------------------------------------------------
(* The measuring program. *)
MeasureStarts ==
  /\ ~measuring
  /\ run < MaxRuns
  /\ measuring' = TRUE
  /\ run' = run + 1
  /\ tmp' = [b \in Boards |-> FALSE]
  /\ counter' = [b \in Boards |-> 0]
  /\ UNCHANGED <<raw, conv, stop, starts, failed, saved, converted>>

(* It ends, or is killed; a temporary file stays behind and is overwritten *)
(* by the next run.                                                        *)
MeasureEnds ==
  /\ measuring
  /\ measuring' = FALSE
  /\ UNCHANGED <<run, tmp, counter, raw, conv, stop, starts, failed, saved, converted>>

WriteTmp(b) ==
  /\ measuring
  /\ ~tmp[b]
  /\ counter[b] < MaxFiles
  /\ tmp' = [tmp EXCEPT ![b] = TRUE]
  /\ UNCHANGED <<measuring, run, counter, raw, conv, stop, starts, failed, saved, converted>>

Name(b) == <<b, counter[b]>>
File(b) == [name |-> Name(b), run |-> run]



(* rename replaces a file of that name; then the counter advances.         *)
RenameTmp(b) ==
  /\ measuring
  /\ tmp[b]
  /\ Len(saved) < MaxSaved
  /\ tmp' = [tmp EXCEPT ![b] = FALSE]
  /\ raw' = [n \in Files \cup {Name(b)} |-> IF n = Name(b) THEN File(b) ELSE raw[n]]
  /\ saved' = Append(saved, File(b))
  /\ counter' = [counter EXCEPT ![b] = @ + 1]
  /\ UNCHANGED <<measuring, run, conv, stop, starts, failed, converted>>

-----------------------------------------------------------------------------
(* The conversion program. *)
ConvertStarts ==
  /\ conv = Off
  /\ starts < MaxConverts
  /\ starts' = starts + 1
  /\ stop' = "run"
  /\ conv' = Loop("run", FALSE)
  /\ failed' = FALSE
  /\ UNCHANGED <<measure, raw, saved, converted>>

(* SIGINT *)
Signal ==
  /\ conv # Off
  /\ stop' = "quit"
  /\ UNCHANGED <<measure, raw, conv, starts, failed, saved, converted>>

(* Mutated: the names are sorted the wrong way round.                      *)
Before_Reverse(m, n) == m[1] < n[1] \/ (m[1] = n[1] /\ m[2] > n[2])

(* versionsort: by board, then by counter. *)
Before(m, n) == m[1] < n[1] \/ (m[1] = n[1] /\ m[2] < n[2])
First(names) == CHOOSE n \in names : \A m \in names \ {n} : Before(n, m)

(* Mutated: a stop ends the loop at once.                                  *)
Looping_UntilStop == conv.pc = "loop" /\ conv.stop = "run"

Looping == conv.pc = "loop" /\ (conv.stop = "run" \/ conv.any)

Scan ==
  /\ Looping
  /\ conv' = IF Files = {} THEN [pc |-> "empty"]
                           ELSE [pc |-> "open", name |-> First(Files)]
  /\ UNCHANGED <<measure, raw, stop, starts, failed, saved, converted>>

(* Nothing to convert: stop is read, and the loop goes round. *)
ReadStop ==
  /\ conv.pc = "empty"
  /\ conv' = Loop(stop, FALSE)
  /\ UNCHANGED <<measure, raw, stop, starts, failed, saved, converted>>

Leave ==
  /\ conv.pc = "loop"
  /\ ~Looping
  /\ conv' = Off
  /\ UNCHANGED <<measure, raw, stop, starts, failed, saved, converted>>

(* Mutated: the file is removed as soon as it is open.                     *)
Open_Removes ==
  /\ conv.pc = "open"
  /\ raw' = [n \in Files \ {conv.name} |-> raw[n]]
  /\ conv' = At("convert", conv.name, raw[conv.name])
  /\ UNCHANGED <<measure, stop, starts, failed, saved, converted>>

(* fopen: from now on the program reads this file, whatever the name means.*)
Open ==
  /\ conv.pc = "open"
  /\ conv' = At("convert", conv.name, raw[conv.name])
  /\ UNCHANGED <<measure, raw, stop, starts, failed, saved, converted>>

Convert ==
  /\ conv.pc = "convert"
  /\ conv' = At("remove", conv.name, conv.file)
  /\ converted' = Append(converted, conv.file)
  /\ UNCHANGED <<measure, raw, stop, starts, failed, saved>>

(* Mutated: the file stays.                                                *)
Remove_KeepsFile ==
  /\ conv.pc = "remove"
  /\ conv' = IF stop = "run" THEN Loop("run", TRUE) ELSE [pc |-> "rescan"]
  /\ UNCHANGED <<measure, raw, stop, starts, failed, saved, converted>>

(* remove takes the name away, then stop is read.                          *)
Remove ==
  /\ conv.pc = "remove"
  /\ raw' = [n \in Files \ {conv.name} |-> raw[n]]
  /\ conv' = IF stop = "run" THEN Loop("run", TRUE) ELSE [pc |-> "rescan"]
  /\ UNCHANGED <<measure, stop, starts, failed, saved, converted>>

(* After a stop the loop goes on while there are files. *)
Rescan ==
  /\ conv.pc = "rescan"
  /\ conv' = Loop("quit", Files # {})
  /\ UNCHANGED <<measure, raw, stop, starts, failed, saved, converted>>

(* goto error from any call that fails, or the program is killed. *)
ConvertFails ==
  /\ conv # Off
  /\ starts < MaxConverts
  /\ conv' = Off
  /\ failed' = TRUE
  /\ UNCHANGED <<measure, raw, stop, starts, saved, converted>>

ConvertSteps == Scan \/ ReadStop \/ Leave \/ Open \/ Convert \/ Remove \/ Rescan

SpoolNext ==
  \/ MeasureStarts \/ MeasureEnds
  \/ (\E b \in Boards : WriteTmp(b) \/ RenameTmp(b))
  \/ ConvertStarts \/ Signal \/ ConvertSteps \/ ConvertFails

(* The conversion program is scheduled. *)
SpoolSpec == SpoolInit /\ [][SpoolNext]_vars /\ WF_vars(ConvertSteps)

-----------------------------------------------------------------------------


(* A file that was saved is in the directory or was converted, whatever    *)
(* fails: the removal (hpc_convert.c 614) comes after the conversion.  The *)
(* exception: two runs of the measurement used the same name, then one     *)
(* file replaces the other, or is removed in its place.                    *)
NothingVanishes ==
  \A f \in Elements(saved) :
    \/ f.name \in Files /\ raw[f.name] = f
    \/ f \in Elements(converted)
    \/ \E g \in Elements(saved) : g.name = f.name /\ g.run # f.run

(* A conversion program that was not killed and had no error puts no file  *)
(* out twice; a file comes twice only if an earlier one failed.            *)
OnceUnlessFailed ==
  starts = 1 => \A i, j \in DOMAIN converted : converted[i] = converted[j] => i = j

(* The files of one board and run are converted in the order in which they *)
(* were written: version sort orders the counters as numbers, and a file   *)
(* appears under its final name only by rename (hpc_threads.c 262).  The   *)
(* exception: the name was chosen when it still stood for a file of an     *)
(* earlier run.                                                            *)
BoardOrder ==
  \A i, j \in DOMAIN converted :
    LET f == converted[i]  g == converted[j] IN
    i < j /\ f.run = g.run /\ f.name[1] = g.name[1] =>
      \/ f.name[2] <= g.name[2]
      \/ \E h \in Elements(saved) : h.name = f.name /\ h.run < f.run

(* A stop while a file is in work leaves no file behind: the loop goes on  *)
(* until the directory is empty (hpc_convert.c 397, 622-628), if the       *)
(* measurement is over and no error comes between.                         *)
StopDrains ==
  (stop = "quit" /\ conv.pc \in {"open", "convert", "remove"} /\ ~measuring)
    ~> (Files = {} \/ failed \/ measuring)

=============================================================================
