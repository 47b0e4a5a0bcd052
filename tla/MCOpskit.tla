------------------------------- MODULE MCOpskit -------------------------------
(***************************************************************************)
(* Instance of Opskit for model checking: two callers that load and apply  *)
(* from two sources, and a prober.  The external result names no source,   *)
(* as one made by hand may.                                                *)
(***************************************************************************)
EXTENDS Opskit, TLC

CONSTANTS s1, s2, r1, k1, k2

Good(s, k) == SucceededResult(s, r1, k)
Bad(s)     == FailedResult("decode", s, r1, "other")

MCLoadResults == {Good(s1, k1), Bad(s2), FailedResult("context", s1, r1, "canceled")}

MCExternalResults == {Good("", k2)}

Symmetry == Permutations(Callers)
=============================================================================
