---------------------------- MODULE MeasureProofs ----------------------------
(***************************************************************************)
(* Proofs about Measure, for any number of boards, capacity of the driver's*)
(* FIFO, length of an acquisition and number of starts.  The invariants of *)
(* the runs are not inductive; what makes them so is what holds at each    *)
(* place of main, and it is stated below in one part for each concern.     *)
(***************************************************************************)
EXTENDS Measure, TLAPS

ThreadStates ==
  [pc : {"none"}]
    \cup [pc : {"read", "ioctl", "rename", "quit", "ended"}, counter : Nat]
    \cup [pc : {"copy"}, counter : Nat, event : Nat]

MainStates ==
  [pc : {"off", "enter", "exit"}]
    \cup [pc : {"init", "start", "create", "release"}, board : Boards]
    \cup [pc : {"wait"}, joined : SUBSET Boards]

MeasureTypeOK ==
  /\ seq \in [Boards -> {"free", "ready", "running", "ended"}]
  /\ fifo \in [Boards -> Seq(Nat)]
  /\ total \in Nat
  /\ main \in MainStates
  /\ stop \in {"run", "quit"}
  /\ thread \in [Boards -> ThreadStates]
  /\ mapped \in [Boards -> BOOLEAN]
  /\ run \in Nat
  /\ hasty \in BOOLEAN
  /\ inherited \in SUBSET Boards

(* A board has a thread only while its memory is mapped, unless main is    *)
(* hasty; main has waited for the threads it counts, and for all when it   *)
(* releases the boards in an orderly way.                                  *)
Joined ==
  /\ main.pc = "off" => \A b \in Boards : thread[b].pc = "none"
  /\ main.pc = "create" => mapped[main.board]
  /\ main.pc = "wait" => \A b \in main.joined : Ended(b)
  /\ main.pc \in {"release", "exit"} => hasty \/ \A b \in Boards : Ended(b)
  /\ \A b \in Boards : Ended(b) \/ mapped[b] \/ hasty

(* A free acquisition has no events, and main leaves nothing behind it on  *)
(* its way through the boards.                                             *)
Clean(b) == seq[b] = "free" /\ fifo[b] = <<>>
Released ==
  /\ \A b \in Boards : seq[b] = "free" => fifo[b] = <<>>
  /\ main.pc = "release" => \A b \in Boards : b < main.board => Clean(b)
  /\ main.pc = "exit" => \A b \in Boards : Clean(b)

(* A board that main works on, or that has a thread, holds only events of  *)
(* this run, unless it was initialised over an older acquisition.          *)
Fresh(b) == b \in inherited \/ \A i \in 1 .. Len(fifo[b]) : fifo[b][i] = run
OwnEvents ==
  /\ \A b \in Boards : thread[b].pc = "none" \/ Fresh(b)
  /\ main.pc \in {"start", "create"} => Fresh(main.board)
  /\ FreshEvents

Orderly == MeasureTypeOK /\ Joined /\ Released /\ OwnEvents

-----------------------------------------------------------------------------
(* The places of main and of a thread, and what main knows at them. *)
LEMMA Places ==
  /\ \A b \in Boards : \A pc \in {"init", "start", "create", "release"} :
       MainAt(pc, b) \in MainStates
  /\ \A joined \in SUBSET Boards : [pc |-> "wait", joined |-> joined] \in MainStates
  /\ \A pc \in {"off", "enter", "exit"} : [pc |-> pc] \in MainStates
  /\ \A m \in MainStates :
       /\ m.pc \in {"init", "start", "create", "release"} => m.board \in Boards
       /\ m.pc = "wait" => m = [pc |-> "wait", joined |-> m.joined] /\ m.joined \in SUBSET Boards
  BY DEF MainStates, MainAt

LEMMA ThreadPlaces ==
  /\ NoThread \in ThreadStates
  /\ \A n \in Nat : \A pc \in {"read", "ioctl", "rename", "quit", "ended"} :
       At(pc, n) \in ThreadStates
  /\ \A n, e \in Nat : [pc |-> "copy", counter |-> n, event |-> e] \in ThreadStates
  /\ \A t \in ThreadStates :
       /\ t.pc # "none" => t.counter \in Nat
       /\ t.pc = "copy" => t.event \in Nat
       /\ \A pc \in {"read", "ioctl", "rename", "quit", "ended"} :
            t.pc \notin {"none", "copy"} => [t EXCEPT !.pc = pc] = At(pc, t.counter)
  BY DEF ThreadStates, NoThread, At

LEMMA MoveTyped ==
  ASSUME MeasureTypeOK, NEW b \in Boards,
         NEW pc \in {"read", "ioctl", "rename", "quit", "ended"},
         thread[b].pc \notin {"none", "copy"}, Move(b, pc)
  PROVE  /\ thread' \in [Boards -> ThreadStates]
         /\ thread' = [thread EXCEPT ![b] = At(pc, thread[b].counter)]
  <1>1. thread \in [Boards -> ThreadStates] /\ thread[b] \in ThreadStates
    BY DEF MeasureTypeOK
  <1>2. thread' = [thread EXCEPT ![b] = At(pc, thread[b].counter)]
    BY <1>1, ThreadPlaces DEF Move
  <1>3. At(pc, thread[b].counter) \in ThreadStates
    BY <1>1, ThreadPlaces
  <1> QED
    BY <1>1, <1>2, <1>3

LEMMA NextTyped == MeasureTypeOK /\ [MeasureNext]_vars => MeasureTypeOK'
  <1> SUFFICES ASSUME MeasureTypeOK, [MeasureNext]_vars
               PROVE  MeasureTypeOK'
    OBVIOUS
  <1> USE DEF MeasureTypeOK, driver
  <1>0. /\ main.pc \in {"init", "start", "create", "release"} => main.board \in Boards
        /\ main.pc = "wait" => main.joined \in SUBSET Boards
        /\ \A b \in Boards : b < NBoards => b + 1 \in Boards
        /\ 1 \in Boards
    BY Places, MeasureAssumption DEF Boards
  <1> USE <1>0
  <1>1. CASE ProgramStart
    <2>1. main' \in MainStates
      BY <1>1, Places DEF ProgramStart
    <2>2. run' \in Nat /\ inherited' \in SUBSET Boards
      BY <1>1 DEF ProgramStart
    <2>3. UNCHANGED <<seq, fifo, total, thread, mapped>> /\ hasty' = FALSE /\ stop' \in {"run", "quit"}
      BY <1>1 DEF ProgramStart
    <2> QED
      BY <2>1, <2>2, <2>3
  <1>2. CASE InitBoard
    <2>0. main' \in {MainAt("start", main.board), MainAt("release", 1)} /\ hasty' \in BOOLEAN
      BY <1>2 DEF InitBoard, Leave
    <2>1. main' \in MainStates
      BY <1>2, <2>0, Places DEF InitBoard
    <2>2. /\ seq' \in [Boards -> {"free", "ready", "running", "ended"}]
          /\ inherited' \in SUBSET Boards
      BY <1>2 DEF InitBoard
    <2>3. UNCHANGED <<fifo, total, stop, thread, mapped, run>>
      BY <1>2 DEF InitBoard
    <2> QED
      BY <2>0, <2>1, <2>2, <2>3
  <1>3. CASE StartBoard
    BY <1>3, Places DEF StartBoard, Leave
  <1>4. CASE CreateThread
    <2>0. main' \in {MainAt("init", main.board + 1), [pc |-> "enter"], MainAt("release", 1)}
      BY <1>4 DEF CreateThread, Leave
    <2>1. main' \in MainStates /\ hasty' \in BOOLEAN
      <3>1. CASE main' = MainAt("init", main.board + 1)
        <4>1. main.board < NBoards
          BY <1>4, <3>1 DEF CreateThread, Leave, MainAt
        <4> QED
          BY <1>4, <3>1, <4>1, Places DEF CreateThread, Leave
      <3>2. CASE main' \in {[pc |-> "enter"], MainAt("release", 1)}
        BY <1>4, <3>2, Places DEF CreateThread, Leave
      <3> QED
        BY <2>0, <3>1, <3>2
    <2>2. thread' \in [Boards -> ThreadStates]
      <3>1. At("read", 0) \in ThreadStates
        BY ThreadPlaces
      <3> QED
        BY <1>4, <3>1 DEF CreateThread
    <2>3. UNCHANGED <<seq, fifo, total, stop, mapped, run, inherited>>
      BY <1>4 DEF CreateThread
    <2> QED
      BY <2>1, <2>2, <2>3
  <1>5. CASE EnterWait
    BY <1>5, Places DEF EnterWait, Leave
  <1>6. ASSUME NEW b \in Boards, JoinThread(b)
        PROVE  MeasureTypeOK'
    <2>1. main' \in MainStates
      <3>1. CASE main.joined \cup {b} = Boards
        BY <1>6, <3>1, Places DEF JoinThread
      <3>2. CASE main.joined \cup {b} # Boards
        <4>1. main' = [pc |-> "wait", joined |-> main.joined \cup {b}]
          BY <1>6, <3>2, Places DEF JoinThread
        <4> QED
          BY <1>6, <4>1, Places DEF JoinThread
      <3> QED
        BY <3>1, <3>2
    <2>2. stop' \in {"run", "quit"}
      BY <1>6 DEF JoinThread
    <2> QED
      BY <1>6, <2>1, <2>2 DEF JoinThread
  <1>7. CASE ReleaseBoard
    BY <1>7, Places DEF ReleaseBoard
  <1>8. CASE Gone
    BY <1>8, Places, ThreadPlaces DEF Gone, Off
  <1>9. CASE Signal
    <2>1. thread' \in [Boards -> ThreadStates]
      <3>1. ASSUME NEW b \in Boards, thread[b].pc = "ioctl", Move(b, "quit")
            PROVE  thread' \in [Boards -> ThreadStates]
        BY <3>1, MoveTyped
      <3> QED
        BY <1>9, <3>1 DEF Signal, Move
    <2> QED
      BY <1>9, <2>1 DEF Signal
  <1>10. ASSUME NEW b \in Boards, MakeEvent(b)
        PROVE  MeasureTypeOK'
    <2>1. fifo' \in [Boards -> Seq(Nat)]
      <3>1. Append(fifo[b], run) \in Seq(Nat)
        OBVIOUS
      <3> QED
        BY <1>10, <3>1 DEF MakeEvent
    <2>2. seq' \in [Boards -> {"free", "ready", "running", "ended"}]
      BY <1>10 DEF MakeEvent
    <2> QED
      BY <1>10, <2>1, <2>2 DEF MakeEvent
  <1>11. ASSUME NEW b \in Boards, ForgetTail(b)
        PROVE  MeasureTypeOK'
    BY <1>11 DEF ForgetTail
  <1>12. ASSUME NEW b \in Boards, ReadStop(b)
        PROVE  MeasureTypeOK'
    <2>1. thread' \in [Boards -> ThreadStates]
      BY <1>12, MoveTyped DEF ReadStop
    <2> QED
      BY <1>12, <2>1 DEF ReadStop
  <1>13. ASSUME NEW b \in Boards, TakeEvent(b)
        PROVE  MeasureTypeOK'
    <2>1. thread' \in [Boards -> ThreadStates]
      <3>1. thread[b].counter \in Nat /\ Head(fifo[b]) \in Nat
        <4>1. fifo[b] \in Seq(Nat) /\ fifo[b] # <<>> /\ thread[b] \in ThreadStates
          BY <1>13 DEF TakeEvent
        <4>2. Head(fifo[b]) \in Nat
          BY <4>1
        <4>3. thread[b].counter \in Nat
          BY <1>13, <4>1, ThreadPlaces DEF TakeEvent
        <4> QED
          BY <4>2, <4>3
      <3>2. [pc |-> "copy", counter |-> thread[b].counter, event |-> Head(fifo[b])]
              \in ThreadStates
        BY <3>1, ThreadPlaces
      <3> QED
        BY <1>13, <3>2 DEF TakeEvent
    <2>2. fifo' \in [Boards -> Seq(Nat)]
      BY <1>13 DEF TakeEvent
    <2> QED
      BY <1>13, <2>1, <2>2 DEF TakeEvent
  <1>14. ASSUME NEW b \in Boards, CopyData(b)
        PROVE  MeasureTypeOK'
    <2>1. thread' \in [Boards -> ThreadStates]
      <3>1. At("rename", thread[b].counter) \in ThreadStates
            /\ At("quit", thread[b].counter) \in ThreadStates
        BY <1>14, ThreadPlaces DEF CopyData
      <3> QED
        BY <1>14, <3>1 DEF CopyData
    <2> QED
      BY <1>14, <2>1 DEF CopyData
  <1>15. ASSUME NEW b \in Boards, RenameFile(b)
        PROVE  MeasureTypeOK'
    <2>1. thread' \in [Boards -> ThreadStates]
      <3> DEFINE n == IF total = 0 THEN 0 ELSE thread[b].counter + 1
                 pc == IF (total # 0 /\ n >= total) \/ stop = "quit" THEN "quit" ELSE "ioctl"
      <3>1. n \in Nat
        <4>1. thread[b].counter \in Nat
          BY <1>15, ThreadPlaces DEF RenameFile
        <4> QED
          BY <4>1
      <3>2. At(pc, n) \in ThreadStates
        BY <3>1, ThreadPlaces
      <3>3. thread' = [thread EXCEPT ![b] = At(pc, n)]
        BY <1>15 DEF RenameFile
      <3> QED
        BY <3>2, <3>3
    <2> QED
      BY <1>15, <2>1 DEF RenameFile
  <1>16. ASSUME NEW b \in Boards, QuitThread(b)
        PROVE  MeasureTypeOK'
    <2>1. thread' \in [Boards -> ThreadStates]
      BY <1>16, MoveTyped DEF QuitThread
    <2> QED
      BY <1>16, <2>1 DEF QuitThread
  <1>17. ASSUME NEW b \in Boards, TakeOther(b)
        PROVE  MeasureTypeOK'
    <2>1. thread' \in [Boards -> ThreadStates]
      BY <1>17, MoveTyped DEF TakeOther
    <2> QED
      BY <1>17, <2>1 DEF TakeOther
  <1>18. CASE UNCHANGED vars
    BY <1>18 DEF vars
  <1> QED
    BY <1>1, <1>2, <1>3, <1>4, <1>5, <1>6, <1>7, <1>8, <1>9, <1>10, <1>11,
       <1>12, <1>13, <1>14, <1>15, <1>16, <1>17, <1>18
       DEF MeasureNext, MainSteps, Thread, Exit, Crash

-----------------------------------------------------------------------------
(* What every step of a thread has in common. *)
LEMMA ThreadStep ==
  ASSUME MeasureTypeOK, NEW b \in Boards, Thread(b) \/ TakeOther(b)
  PROVE  /\ ~Ended(b)
         /\ \A c \in Boards \ {b} : thread'[c] = thread[c]
         /\ thread'[b].pc # "none"
         /\ UNCHANGED <<seq, total, main, mapped, run, hasty, inherited>>
  <1>0. thread \in [Boards -> ThreadStates]
    BY DEF MeasureTypeOK
  <1> USE <1>0 DEF driver, Ended
  <1>1. CASE ReadStop(b)
    BY <1>1, MoveTyped DEF ReadStop, At
  <1>2. CASE TakeEvent(b)
    BY <1>2 DEF TakeEvent
  <1>3. CASE CopyData(b)
    BY <1>3 DEF CopyData, At
  <1>4. CASE RenameFile(b)
    BY <1>4 DEF RenameFile, At
  <1>5. CASE QuitThread(b)
    BY <1>5, MoveTyped DEF QuitThread, At
  <1>6. CASE TakeOther(b)
    BY <1>6, MoveTyped DEF TakeOther, At
  <1> QED
    BY <1>1, <1>2, <1>3, <1>4, <1>5, <1>6 DEF Thread

LEMMA NextJoined == MeasureTypeOK /\ Joined /\ [MeasureNext]_vars => Joined'
  <1> SUFFICES ASSUME MeasureTypeOK, Joined, [MeasureNext]_vars
               PROVE  Joined'
    OBVIOUS
  <1> USE DEF Joined, driver, Ended, MainAt
  <1>0. /\ main.pc \in {"init", "start", "create", "release"} => main.board \in Boards
        /\ main.pc = "wait" => main.joined \in SUBSET Boards
        /\ thread \in [Boards -> ThreadStates] /\ mapped \in [Boards -> BOOLEAN]
    BY Places DEF MeasureTypeOK
  <1> USE <1>0
  <1>1. CASE ProgramStart
    BY <1>1 DEF ProgramStart, Off
  <1>2. CASE InitBoard
    BY <1>2 DEF InitBoard, Leave
  <1>3. CASE StartBoard
    BY <1>3 DEF StartBoard, Leave
  <1>4. CASE CreateThread
    BY <1>4 DEF CreateThread, Leave, At
  <1>5. CASE EnterWait
    BY <1>5 DEF EnterWait, Leave
  <1>6. ASSUME NEW b \in Boards, JoinThread(b)
        PROVE  Joined'
    <2>1. \A c \in main.joined \cup {b} : Ended(c)
      BY <1>6 DEF JoinThread
    <2>2. UNCHANGED <<thread, mapped, hasty>>
      BY <1>6 DEF JoinThread
    <2>3. CASE main.joined \cup {b} = Boards
      BY <1>6, <2>1, <2>2, <2>3 DEF JoinThread
    <2>4. CASE main.joined \cup {b} # Boards
      <3>1. main' = [pc |-> "wait", joined |-> main.joined \cup {b}]
        BY <1>6, <2>4, Places DEF JoinThread, MeasureTypeOK
      <3> QED
        BY <2>1, <2>2, <3>1
    <2> QED
      BY <2>3, <2>4
  <1>7. CASE ReleaseBoard
    BY <1>7 DEF ReleaseBoard
  <1>8. CASE Gone
    BY <1>8 DEF Gone, Off, NoThread
  <1>9. CASE Signal
    BY <1>9 DEF Signal
  <1>10. ASSUME NEW b \in Boards, MakeEvent(b) \/ ForgetTail(b)
         PROVE  Joined'
    BY <1>10 DEF MakeEvent, ForgetTail
  <1>11. ASSUME NEW b \in Boards, Thread(b) \/ TakeOther(b)
         PROVE  Joined'
    BY <1>11, ThreadStep
  <1>12. CASE UNCHANGED vars
    BY <1>12 DEF vars
  <1> QED
    BY <1>1, <1>2, <1>3, <1>4, <1>5, <1>6, <1>7, <1>8, <1>9, <1>10, <1>11, <1>12
       DEF MeasureNext, MainSteps, Exit, Crash

LEMMA NextReleased == MeasureTypeOK /\ Released /\ [MeasureNext]_vars => Released'
  <1> SUFFICES ASSUME MeasureTypeOK, Released, [MeasureNext]_vars
               PROVE  Released'
    OBVIOUS
  <1> USE DEF Released, Clean, driver, MainAt
  <1>0. /\ main.pc \in {"init", "start", "create", "release"} => main.board \in Boards
        /\ seq \in [Boards -> {"free", "ready", "running", "ended"}]
        /\ fifo \in [Boards -> Seq(Nat)]
    BY Places DEF MeasureTypeOK
  <1> USE <1>0
  <1>1. CASE ProgramStart
    BY <1>1 DEF ProgramStart
  <1>2. CASE InitBoard
    BY <1>2, MeasureAssumption DEF InitBoard, Leave, Boards
  <1>3. CASE StartBoard
    BY <1>3, MeasureAssumption DEF StartBoard, Leave, Boards
  <1>4. CASE CreateThread
    BY <1>4, MeasureAssumption DEF CreateThread, Leave, Boards
  <1>5. CASE EnterWait
    BY <1>5, MeasureAssumption DEF EnterWait, Leave, Boards
  <1>6. ASSUME NEW b \in Boards, JoinThread(b)
        PROVE  Released'
    <2>1. UNCHANGED <<seq, fifo>>
      BY <1>6 DEF JoinThread
    <2>2. main' = MainAt("release", 1) \/ main'.pc = "wait"
      BY <1>6, Places DEF JoinThread, MeasureTypeOK
    <2> QED
      BY <2>1, <2>2, MeasureAssumption DEF Boards
  <1>7. CASE ReleaseBoard
    BY <1>7, MeasureAssumption DEF ReleaseBoard, Boards
  <1>8. CASE Gone
    BY <1>8 DEF Gone, Off
  <1>9. CASE Signal
    BY <1>9 DEF Signal
  <1>10. ASSUME NEW b \in Boards, MakeEvent(b) \/ ForgetTail(b)
         PROVE  Released'
    BY <1>10 DEF MakeEvent, ForgetTail
  <1>11. ASSUME NEW b \in Boards, TakeEvent(b)
         PROVE  Released'
    BY <1>11 DEF TakeEvent
  <1>12. ASSUME NEW b \in Boards, Thread(b) \/ TakeOther(b), ~TakeEvent(b)
         PROVE  Released'
    <2>1. UNCHANGED <<seq, fifo, main>>
      BY <1>12 DEF Thread, ReadStop, CopyData, RenameFile, QuitThread, TakeOther
    <2> QED
      BY <2>1
  <1>13. CASE UNCHANGED vars
    BY <1>13 DEF vars
  <1> QED
    BY <1>1, <1>2, <1>3, <1>4, <1>5, <1>6, <1>7, <1>8, <1>9, <1>10, <1>11, <1>12, <1>13
       DEF MeasureNext, MainSteps, Exit, Crash

(* A queue of events of one run stays one when an event of that run joins  *)
(* it and when its oldest event leaves.                                    *)
LEMMA OneRun ==
  ASSUME NEW s \in Seq(Nat), NEW r \in Nat, \A i \in 1 .. Len(s) : s[i] = r
  PROVE  /\ \A i \in 1 .. Len(Append(s, r)) : Append(s, r)[i] = r
         /\ s # <<>> => Head(s) = r /\ \A i \in 1 .. Len(Tail(s)) : Tail(s)[i] = r
  OBVIOUS

LEMMA NextOwnEvents ==
  MeasureTypeOK /\ Joined /\ Released /\ OwnEvents /\ [MeasureNext]_vars => OwnEvents'
  <1> SUFFICES ASSUME MeasureTypeOK, Joined, Released, OwnEvents, [MeasureNext]_vars
               PROVE  OwnEvents'
    OBVIOUS
  <1> USE DEF OwnEvents, FreshEvents, Fresh, driver, MainAt
  <1>0. /\ main.pc \in {"init", "start", "create", "release"} => main.board \in Boards
        /\ seq \in [Boards -> {"free", "ready", "running", "ended"}]
        /\ fifo \in [Boards -> Seq(Nat)]
        /\ thread \in [Boards -> ThreadStates]
        /\ inherited \in SUBSET Boards
        /\ run \in Nat
    BY Places DEF MeasureTypeOK
  <1> USE <1>0
  <1>1. CASE ProgramStart
    BY <1>1 DEF ProgramStart, Joined, Off
  <1>2. CASE InitBoard
    BY <1>2 DEF InitBoard, Leave, Released
  <1>3. CASE StartBoard
    BY <1>3 DEF StartBoard, Leave
  <1>4. CASE CreateThread
    <2>1. UNCHANGED <<fifo, inherited, run>> /\ main'.pc \in {"init", "enter", "release"}
      BY <1>4 DEF CreateThread, Leave
    <2>2. UNCHANGED thread
            \/ /\ main.pc = "create" /\ thread'[main.board].pc = "read"
               /\ \A b \in Boards \ {main.board} : thread'[b] = thread[b]
      BY <1>4 DEF CreateThread, At
    <2> QED
      BY <2>1, <2>2
  <1>5. CASE EnterWait
    BY <1>5 DEF EnterWait, Leave
  <1>6. ASSUME NEW b \in Boards, JoinThread(b)
        PROVE  OwnEvents'
    <2>1. UNCHANGED <<fifo, thread, inherited, run>>
      BY <1>6 DEF JoinThread
    <2>2. main'.pc \in {"release", "wait"}
      BY <1>6, Places DEF JoinThread, MeasureTypeOK
    <2> QED
      BY <2>1, <2>2
  <1>7. CASE ReleaseBoard
    BY <1>7 DEF ReleaseBoard
  <1>8. CASE Gone
    BY <1>8 DEF Gone, Off, NoThread
  <1>9. CASE Signal
    <2>1. UNCHANGED <<fifo, main, inherited, run>>
      BY <1>9 DEF Signal
    <2>2. \A b \in Boards :
            thread'[b] = thread[b] \/ (thread[b].pc = "ioctl" /\ thread'[b].pc = "quit")
      <3>1. ASSUME NEW b \in Boards, thread[b].pc = "ioctl", Move(b, "quit")
            PROVE  <2>2
        <4>1. thread' = [thread EXCEPT ![b] = At("quit", thread[b].counter)]
          BY <3>1, MoveTyped
        <4> QED
          BY <3>1, <4>1 DEF At
      <3>2. CASE UNCHANGED thread
        BY <3>2
      <3> QED
        BY <1>9, <3>1, <3>2 DEF Signal, Move
    <2> QED
      BY <2>1, <2>2
  <1>10. ASSUME NEW b \in Boards, MakeEvent(b) \/ ForgetTail(b)
         PROVE  OwnEvents'
    <2>1. UNCHANGED <<main, thread, inherited, run>>
      BY <1>10 DEF MakeEvent, ForgetTail
    <2>2. fifo' = fifo \/ fifo' = [fifo EXCEPT ![b] = Append(@, run)]
      BY <1>10 DEF MakeEvent, ForgetTail
    <2>3. ASSUME NEW c \in Boards, Fresh(c)
          PROVE  Fresh(c)'
      <3>1. fifo'[c] \in {fifo[c], Append(fifo[c], run)} /\ fifo[c] \in Seq(Nat)
        BY <2>2
      <3>2. CASE c \in inherited
        BY <2>1, <3>2
      <3>3. CASE \A i \in 1 .. Len(fifo[c]) : fifo[c][i] = run
        <4>1. \A i \in 1 .. Len(Append(fifo[c], run)) : Append(fifo[c], run)[i] = run
          BY <3>1, <3>3, OneRun
        <4> QED
          BY <2>1, <3>1, <3>3, <4>1
      <3> QED
        BY <2>3, <3>2, <3>3
    <2> QED
      BY <2>1, <2>3
  <1>11. ASSUME NEW b \in Boards, TakeEvent(b)
         PROVE  OwnEvents'
    <2>1. UNCHANGED <<main, inherited, run>> /\ thread[b].pc = "ioctl" /\ fifo[b] # <<>>
      BY <1>11 DEF TakeEvent
    <2>2. /\ fifo' = [fifo EXCEPT ![b] = Tail(@)]
          /\ thread'[b].event = Head(fifo[b])
          /\ \A c \in Boards \ {b} : thread'[c] = thread[c]
      BY <1>11 DEF TakeEvent
    <2>3. ASSUME NEW c \in Boards, Fresh(c)
          PROVE  Fresh(c)'
      <3>1. fifo'[c] = fifo[c] \/ (c = b /\ fifo'[c] = Tail(fifo[c]))
        BY <2>2
      <3>2. CASE c \in inherited
        BY <2>1, <3>2
      <3>3. CASE \A i \in 1 .. Len(fifo[c]) : fifo[c][i] = run
        <4>1. fifo[b] # <<>> => \A i \in 1 .. Len(Tail(fifo[b])) : c = b => Tail(fifo[b])[i] = run
          BY <3>3, OneRun
        <4> QED
          BY <2>1, <3>1, <3>3, <4>1
      <3> QED
        BY <2>3, <3>2, <3>3
    <2>4. b \in inherited \/ thread'[b].event = run
      <3>1. Fresh(b)
        BY <2>1
      <3> QED
        BY <2>1, <2>2, <3>1, OneRun
    <2>5. ASSUME NEW c \in Boards
          PROVE  thread'[c].pc = "none" \/ Fresh(c)'
      <3>1. thread[c].pc = "none" => thread'[c] = thread[c]
        BY <2>1, <2>2
      <3>2. thread[c].pc = "none" \/ Fresh(c)
        OBVIOUS
      <3> HIDE DEF Fresh
      <3> QED
        BY <2>3, <3>1, <3>2
    <2>6. main'.pc \in {"start", "create"} => Fresh(main.board)'
      BY <2>1, <2>3
    <2>7. FreshEvents'
      BY <2>1, <2>2, <2>4
    <2> QED
      BY <2>1, <2>5, <2>6, <2>7
  <1>12. ASSUME NEW b \in Boards, Thread(b) \/ TakeOther(b), ~TakeEvent(b)
         PROVE  OwnEvents'
    <2>1. UNCHANGED <<fifo, main, inherited, run>> /\ thread[b].pc # "none"
      BY <1>12 DEF Thread, ReadStop, CopyData, RenameFile, QuitThread, TakeOther
    <2>2. thread'[b].pc # "copy" /\ \A c \in Boards \ {b} : thread'[c] = thread[c]
      <3>1. CASE ReadStop(b)
        BY <3>1, MoveTyped DEF ReadStop, At
      <3>2. CASE CopyData(b) \/ RenameFile(b)
        BY <3>2 DEF CopyData, RenameFile, At
      <3>3. CASE QuitThread(b)
        BY <3>3, MoveTyped DEF QuitThread, At
      <3>4. CASE TakeOther(b)
        BY <3>4, MoveTyped DEF TakeOther, At
      <3> QED
        BY <1>12, <3>1, <3>2, <3>3, <3>4 DEF Thread
    <2> QED
      BY <2>1, <2>2
  <1>13. CASE UNCHANGED vars
    BY <1>13 DEF vars
  <1> QED
    BY <1>1, <1>2, <1>3, <1>4, <1>5, <1>6, <1>7, <1>8, <1>9, <1>10, <1>11, <1>12, <1>13
       DEF MeasureNext, MainSteps, Exit, Crash

LEMMA InitOrderly == MeasureInit => Orderly
  <1> SUFFICES ASSUME MeasureInit
               PROVE  Orderly
    OBVIOUS
  <1>1. MeasureTypeOK
    <2>1. Off \in MainStates /\ NoThread \in ThreadStates /\ <<>> \in Seq(Nat)
      BY Places, ThreadPlaces DEF Off
    <2> QED
      BY <2>1, MeasureAssumption DEF MeasureInit, MeasureTypeOK
  <1>2. Joined /\ Released /\ OwnEvents
    BY DEF MeasureInit, Joined, Released, OwnEvents, FreshEvents, Fresh, Off, NoThread, Ended
  <1> QED
    BY <1>1, <1>2 DEF Orderly

LEMMA NextOrderly == Orderly /\ [MeasureNext]_vars => Orderly'
  BY NextTyped, NextJoined, NextReleased, NextOwnEvents DEF Orderly

(* Every place of main and of the threads keeps its type, and main keeps   *)
(* its order: Orderly is the inductive invariant of the program.           *)
THEOREM Order == MeasureSpec => []Orderly
  BY InitOrderly, NextOrderly, PTL DEF MeasureSpec

(* Unless main skipped its wait loop, no thread copies from memory that is *)
(* unmapped (hpc_threads.c 207, hpc_measure.c 405), for any number of      *)
(* boards and any number of kills and restarts.                            *)
THEOREM NoCopyFromUnmapped == MeasureSpec => []UnmapAfterJoin
  <1>1. Orderly => UnmapAfterJoin
    BY DEF Orderly, Joined, UnmapAfterJoin, Ended
  <1> QED
    BY <1>1, Order, PTL

(* A run that comes to its end leaves all boards released and their FIFOs  *)
(* empty, whatever failed in it and whatever an earlier run left behind    *)
(* (hpc_measure.c 384-411).                                                *)
THEOREM ExitIsClean == MeasureSpec => []CleanExit
  <1>1. Orderly => CleanExit
    BY DEF Orderly, Released, Clean, CleanExit
  <1> QED
    BY <1>1, Order, PTL

(* Events of a killed run reach a thread only on a board that was          *)
(* initialised over the acquisition of that run (primary_ai.c 1476).       *)
THEOREM EventsAreFresh == MeasureSpec => []FreshEvents
  <1>1. Orderly => FreshEvents
    BY DEF Orderly, OwnEvents
  <1> QED
    BY <1>1, Order, PTL
=============================================================================
