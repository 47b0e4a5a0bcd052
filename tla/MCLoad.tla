-------------------------------- MODULE MCLoad -------------------------------
(***************************************************************************)
(* Instance of Load for model checking.  A load that has returned does     *)
(* nothing more: Returned lets TLC tell that from a deadlock.              *)
(***************************************************************************)
EXTENDS Load

Returned == pc = "returned" /\ UNCHANGED loadVars

MCFairSpec == LoadInit /\ [][LoadNext \/ Returned]_loadVars /\ WF_loadVars(Advance)
=============================================================================
