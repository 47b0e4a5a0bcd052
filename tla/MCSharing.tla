------------------------------ MODULE MCSharing ------------------------------
(***************************************************************************)
(* Instance of Sharing for model checking: loads that publish or fail, and *)
(* results applied from outside, one of them without the failure it should *)
(* tell.  Finish stutters when every call has been made and has returned.  *)
(***************************************************************************)
EXTENDS Sharing, TLC

CONSTANTS s1, r1, k1

Good    == SucceededResult(s1, r1, k1)
Bad     == FailedResult("decode", s1, r1, "other")
Unclear == [Bad EXCEPT !.attempt.failure = Nil]

MCLoadResults     == {Good, Bad}
MCExternalResults == {Good, Unclear}

Finish ==
  /\ calls = MaxCalls
  /\ \A c \in Callers : phase[c] = "idle"
  /\ UNCHANGED sharedVars

(* The two ends of a context differ in nothing here.                       *)
OneDeadContext == \A c \in Callers : ctx[c] # "deadline_exceeded"

MCInit == SharingInit /\ attemptHistoryLimit = 0

MCSpec == MCInit /\ [][SharingNext \/ Finish]_sharedVars

=============================================================================
