--------------------------- MODULE MCReloadCommand ---------------------------
(***************************************************************************)
(* Instance of ReloadCommand for model checking: two callers that run the  *)
(* reload command, load and apply.  A decode step may fail, also with a    *)
(* context error of its own.                                               *)
(***************************************************************************)
EXTENDS ReloadCommand, TLC

CONSTANTS s1, r1, k1, k2

Good(k) == SucceededResult(s1, r1, k)

MCLoadResults == {Good(k1),
                  FailedResult("decode", s1, r1, "other"),
                  FailedResult("decode", s1, r1, "canceled"),
                  FailedResult("context", s1, r1, "canceled")}

MCExternalResults == {Good(k2), [Good(k2) EXCEPT !.attempt.checksum = k1]}

MCHandlerFaults == {Nil, "missing_manager", "missing_source"}

Symmetry == Permutations(Callers)
=============================================================================
