---------------------------- MODULE MCAsyncObserver ----------------------------
(***************************************************************************)
(* Instance of AsyncObserver for model checking: a goroutine and the       *)
(* observer itself notify, two goroutines close.  When nothing is left to  *)
(* do Finish stutters, so that any other stop is reported as a deadlock: a *)
(* Close may be left waiting only by an observer that is stuck or waits in *)
(* a Close of its own.                                                     *)
(***************************************************************************)
EXTENDS AsyncObserver, TLC

MCBuffers == {-1, 1}

Finish ==
  /\ \A n \in Notifiers : notify[n] = "out"
  /\ \A k \in Closers : CloseReturned(k) \/ (Blocked /\ closing[k] = "waiting")
  /\ run = "done" \/ Blocked
  /\ UNCHANGED asyncVars

Symmetry == Permutations(Closers) \cup Permutations(Notifiers \ {Worker})

MCSpec     == AsyncInit /\ [][AsyncNext \/ Finish]_asyncVars
MCFairSpec == MCSpec /\ AsyncFairness
=============================================================================
