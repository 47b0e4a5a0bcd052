--------------------------- MODULE MCObservedManager ---------------------------
(***************************************************************************)
(* Instance of ObservedManager for model checking: an application caller,  *)
(* the worker's follow-up and a nested call, over a queue of one place.    *)
(* Finish stutters where the system may stop: every call has returned, or  *)
(* waits in vain because of a nested call.                                 *)
(***************************************************************************)
EXTENDS ObservedManager, TLC

CONSTANTS s1, r1, k1

Good  == SucceededResult(s1, r1, k1)
Ended == FailedResult("context", s1, r1, "canceled")

MCEndings == {"canceled"}

MCLoadResults     == {Good, Ended}
MCExternalResults == {Good, [Good EXCEPT !.attempt.checksum = ""]}

Finish ==
  /\ \A c \in Callers : phase[c] = "idle" \/ HeldByNested
  /\ UNCHANGED observedVars

(* The limit of the history is of no consequence here.                     *)
MCInit == ObservedInit /\ attemptHistoryLimit = DefaultAttemptHistoryLimit

MCSpec == MCInit /\ [][ObservedNext \/ Finish]_observedVars
          /\ ObservedFairness
=============================================================================
