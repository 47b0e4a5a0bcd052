------------------------------ MODULE MCManager ------------------------------
(***************************************************************************)
(* Instance of Manager for model checking: loads that publish one of two   *)
(* configurations, fail in a step, or are stopped by their context, and    *)
(* external results that are good, failed, or malformed.  When the bound   *)
(* on calls is reached and every call has returned, Finish stutters, so    *)
(* that any other stop is reported as a deadlock.                          *)
(***************************************************************************)
EXTENDS ManagerProperties, TLC

CONSTANTS s1, r1, k1, k2

Good(k) == SucceededResult(s1, r1, k)
Bad     == FailedResult("decode", s1, r1, "other")

MCLoadResults == {Good(k1), Good(k2), Bad,
                  FailedResult("context", s1, r1, "canceled"),
                  FailedResult("context", s1, r1, "deadline_exceeded")}

Malformed == [Good(k2) EXCEPT !.attempt.checksum = k1]

MCExternalResults == {Good(k2), Bad, Malformed}

Finish == /\ calls = MaxCalls
          /\ \A c \in Callers : phase[c] = "idle"
          /\ UNCHANGED vars

MCSpec == ManagerInit /\ [][ManagerNext \/ Finish]_vars

Symmetry == Permutations(Callers)
=============================================================================
