----------------------------- MODULE LossyQueue -----------------------------
(***************************************************************************)
(* What the interrupt event FIFO of the xpci3xxx driver promises to the    *)
(* callers of CMD_xpci3xxx_TestInterrupt: a bounded first-in first-out     *)
(* queue of events.  An event that arrives while Capacity events are       *)
(* waiting is lost; every event that was accepted is handed to exactly one *)
(* caller, in the order of acceptance, unless the queue is cleared first.  *)
(***************************************************************************)
EXTENDS Naturals, Sequences

CONSTANTS
  Readers,    \* threads that may call TestInterrupt
  Event,      \* what one event carries
  Capacity    \* the largest number of events that wait at once

VARIABLES
  queue,      \* the waiting events, oldest first
  call        \* call[r]: where the call of reader r stands

queueVars == <<queue, call>>

Outside   == [at |-> "outside"]
Waiting   == [at |-> "waiting"]
Returned(status) == [at |-> "returned", status |-> status]
Got(e)    == [at |-> "returned", status |-> "event", event |-> e]

Init ==
  /\ queue = <<>>
  /\ call = [r \in Readers |-> Outside]

(* An event is accepted only if there is room for it. *)
Accept(e) ==
  /\ queue' = IF Len(queue) < Capacity THEN Append(queue, e) ELSE queue
  /\ UNCHANGED call

Clear ==
  /\ queue' = <<>>
  /\ UNCHANGED call

Call(r) ==
  /\ call[r] = Outside
  /\ call' = [call EXCEPT ![r] = Waiting]
  /\ UNCHANGED queue

(* The oldest event leaves the queue with the caller. *)
Deliver(r) ==
  /\ call[r] = Waiting
  /\ queue # <<>>
  /\ call' = [call EXCEPT ![r] = Got(Head(queue))]
  /\ queue' = Tail(queue)

(* A caller may come back with nothing: another caller was faster, the     *)
(* queue was cleared, or a signal interrupted the wait.                    *)
Nothing(r) ==
  /\ call[r] = Waiting
  /\ \/ queue = <<>> /\ call' = [call EXCEPT ![r] = Returned("empty")]
     \/ call' = [call EXCEPT ![r] = Returned("interrupted")]
  /\ UNCHANGED queue

Return(r) ==
  /\ call[r].at = "returned"
  /\ call' = [call EXCEPT ![r] = Outside]
  /\ UNCHANGED queue

Next ==
  \/ \E e \in Event : Accept(e)
  \/ Clear
  \/ \E r \in Readers : Call(r) \/ Deliver(r) \/ Nothing(r) \/ Return(r)

Spec == Init /\ [][Next]_queueVars
=============================================================================
