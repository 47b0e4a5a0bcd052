------------------------------ MODULE LossyQueue ------------------------------
(***************************************************************************)
(* What an AsyncObserver promises those who notify it: a queue that never  *)
(* makes them wait.  It takes an event or loses it, loses one only when it *)
(* is full or shut, gives what it took in the order it took it, one at a   *)
(* time and each once, and counts what it lost.                            *)
(***************************************************************************)
EXTENDS Naturals, Sequences

VARIABLES
  capacity,
  taken,   \* the events taken, in order
  given,   \* how many of them have been given
  lost,    \* number of events lost
  shut

queueVars == <<capacity, taken, given, lost, shut>>

waiting == Len(taken) - given

QueueInit == capacity \in Nat /\ taken = <<>> /\ given = 0 /\ lost = 0 /\ shut = FALSE

(* One event more than the capacity may be waiting: the one being given.   *)
TakeEvent ==
  /\ ~shut
  /\ waiting <= capacity
  /\ Len(taken') = Len(taken) + 1
  /\ SubSeq(taken', 1, Len(taken)) = taken
  /\ UNCHANGED <<capacity, given, lost, shut>>

LoseEvent ==
  /\ shut \/ waiting >= capacity
  /\ lost' = lost + 1
  /\ UNCHANGED <<capacity, taken, given, shut>>

GiveEvent ==
  /\ waiting > 0
  /\ given' = given + 1
  /\ UNCHANGED <<capacity, taken, lost, shut>>

Shut == ~shut /\ shut' = TRUE /\ UNCHANGED <<capacity, taken, given, lost>>

QueueSpec == QueueInit /\ [][TakeEvent \/ LoseEvent \/ GiveEvent \/ Shut]_queueVars
=============================================================================
