---------------------------- MODULE LastKnownGood ----------------------------
(***************************************************************************)
(* What a Manager promises to everyone who reads it: a configuration that  *)
(* was once good stays in effect until a better one replaces it.  An       *)
(* accepted attempt either publishes a snapshot and makes the manager      *)
(* healthy, or fails, keeps the snapshot and shows in the reported state.  *)
(***************************************************************************)
EXTENDS Lifecycle

VARIABLES
  good,    \* metadata of the snapshot in effect, or Nil
  health   \* the lifecycle state reported

goodVars == <<good, health>>

GoodInit == good = Nil /\ health = "unloaded"

Publish ==
  /\ good' \in Metadata
  /\ good'.checksum # ""
  /\ health' = "loaded"

Fail ==
  /\ health' = IF good = Nil THEN "failed" ELSE "degraded"
  /\ UNCHANGED good

GoodSpec == GoodInit /\ [][Publish \/ Fail]_goodVars
=============================================================================
