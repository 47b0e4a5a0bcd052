----------------------------- MODULE LoadContract -----------------------------
(***************************************************************************)
(* What one stateless load promises its caller, whatever its pipeline: it  *)
(* runs while its context may end at any moment, and returns once, with a  *)
(* result that Outcome allows for the context at that moment.              *)
(***************************************************************************)
EXTENDS Lifecycle

VARIABLES ctx, returned, result

contractVars == <<ctx, returned, result>>

ContractInit == ctx \in Contexts /\ returned = FALSE /\ result = Nil

Ends == ctx = "live" /\ ctx' \in Dead /\ UNCHANGED <<returned, result>>

Returns ==
  /\ ~returned
  /\ returned' = TRUE
  /\ result' \in LoadResult
  /\ Outcome(result', ctx)
  /\ UNCHANGED ctx

ContractSpec == ContractInit /\ [][Ends \/ Returns]_contractVars
=============================================================================
