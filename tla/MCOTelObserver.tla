---------------------------- MODULE MCOTelObserver ----------------------------
(***************************************************************************)
(* Instance of SlogObserver for model checking: both observers, loads that *)
(* publish one of two configurations or fail in two ways, and external     *)
(* results that are good, failed or malformed.                             *)
(***************************************************************************)
EXTENDS SlogObserver

CONSTANTS s1, r1, k1, k2

Good(k) == SucceededResult(s1, r1, k)
Bad     == FailedResult("decode", s1, r1, "other")

MCLoadResults == {Good(k1), Good(k2), Bad, FailedResult("context", s1, r1, "canceled")}

MCExternalResults == {Good(k2), Bad, [Good(k2) EXCEPT !.attempt.checksum = k1]}

Finish == /\ calls = MaxCalls
          /\ \A c \in Callers : phase[c] = "idle"
          /\ UNCHANGED <<vars, otelVars, records>>

MCSpec == SlogInit /\ [][SlogNext \/ Finish]_<<vars, otelVars, records>>

Symmetry == Permutations(Callers)
=============================================================================
