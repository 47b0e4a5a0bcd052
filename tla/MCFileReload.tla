----------------------------- MODULE MCFileReload -----------------------------
(***************************************************************************)
(* Instance of FileReload for model checking: a write of two blocks over   *)
(* an older one races loads from the file, loads of what was read before   *)
(* and results loaded outside.  A load publishes a whole content, fails to *)
(* decode one cut short, or is stopped.  Finish stutters when every call   *)
(* has been made and has returned.                                         *)
(***************************************************************************)
EXTENDS FileReload, TLC

CONSTANTS s1, k1, h0, h1, h2, h11, h12, h21, h22

MCHash == (<<>> :> h0) @@ (<<1>> :> h1) @@ (<<2>> :> h2) @@ (<<1, 1>> :> h11)
            @@ (<<1, 2>> :> h12) @@ (<<2, 1>> :> h21) @@ (<<2, 2>> :> h22)

Loaded(b)  == SucceededResult(s1, MCHash[b], k1)
Refused(b) == FailedResult("decode", s1, MCHash[b], "other")
Stopped(b) == FailedResult("context", s1, MCHash[b], "canceled")

WholeContents == {b \in Contents : Whole(b)}

MCLoadResults ==
  {Loaded(b) : b \in WholeContents} \cup {Refused(b) : b \in Contents \ WholeContents}
    \cup {Stopped(b) : b \in Contents}
    \cup {FailedResult("source_read", s1, "", cause) : cause \in Dead \cup {"other"}}

(* The application also passes on a failure without its detail, which is   *)
(* rejected.                                                               *)
MCExternalResults ==
  {Loaded(b) : b \in WholeContents}
    \cup {[Refused(<<>>) EXCEPT !.attempt.failure = Nil]}

Finish ==
  /\ calls = MaxCalls
  /\ \A c \in Callers : phase[c] = "idle"
  /\ UNCHANGED reloadVars

(* The two ends of a context differ in nothing here.                       *)
OneDeadContext == \A c \in Callers : ctx[c] # "deadline_exceeded"

(* The history of attempts takes no part: one of its limits is enough.     *)
MCInit == ReloadInit /\ attemptHistoryLimit = 0

MCSpec == MCInit /\ [][ReloadNext \/ Finish]_reloadVars

Symmetry == Permutations(Callers)
=============================================================================
