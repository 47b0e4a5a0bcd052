------------------------------ MODULE Lifecycle ------------------------------
(***************************************************************************)
(* The records that the load lifecycle and the manager exchange, and the   *)
(* pure functions the code computes on them: failure codes (attempt.go),   *)
(* acceptance of a load result (apply.go), the derived lifecycle state     *)
(* (manager.go) and the apply result (apply.go, manager.go).               *)
(*                                                                         *)
(* Strings that are only compared are members of small sets, and "" is the *)
(* zero value of all of them: the stage and checksum of a result that has  *)
(* none, and the zero SourceMetadata.  Nil is the nil pointer.  A snapshot *)
(* is represented by its metadata.  Attempt kinds, timestamps and messages *)
(* take part in no decision and are left out.                              *)
(***************************************************************************)
EXTENDS Naturals, Contexts

CONSTANTS Sources, Revisions, Checksums, Nil

ASSUME BlankAssumption ==
  /\ "" \notin Sources
  /\ "" \notin Checksums

Stages == {"context", "source_read", "pipeline_validate", "decode", "defaults",
           "validate_config", "copy", "redact", "checksum"}

(* Why a step failed, as errors.Is can tell: the two context errors, a     *)
(* missing source, and every other error, a recovered panic included.      *)
Causes == Dead \cup {"missing_source", "other"}

(* A context error keeps its own code in every stage, and so does a nil    *)
(* source, which the load reports itself; any other error gets its stage's *)
(* code, <stage>_failed in the source, which is named here by the stage.   *)
AttemptFailure(stage, cause) == IF cause = "other" THEN stage ELSE cause

FailureCodes == Causes \cup Stages

(* The Failure of an attempt: nil, a blank record, or a code.              *)
Failures == FailureCodes \cup {"", Nil}

Metadata == [source   : Sources \cup {""},
             revision : Revisions \cup {""},
             checksum : Checksums \cup {""}]

AttemptRecord == [id       : Nat,
                  status   : {"succeeded", "failed", "unknown"},
                  stage    : Stages \cup {""},
                  source   : Sources \cup {""},
                  revision : Revisions \cup {""},
                  checksum : Checksums \cup {""},
                  failure  : Failures]

LoadResult == [snapshot : Metadata \cup {Nil}, attempt : AttemptRecord]

ASSUME NilAssumption ==
  /\ Nil \notin FailureCodes \cup {""}
  /\ Nil \notin Metadata
  /\ Nil \notin AttemptRecord

(***************************************************************************)
(* validateLoadResult: which results a manager accepts.                    *)
(***************************************************************************)
ValidSucceeded(r) ==
  /\ r.snapshot # Nil
  /\ r.attempt.stage = ""
  /\ r.attempt.failure = Nil
  /\ r.snapshot.checksum # ""
  /\ r.attempt.checksum = r.snapshot.checksum
  /\ r.attempt.source   = r.snapshot.source
  /\ r.attempt.revision = r.snapshot.revision

ValidFailed(r) ==
  /\ r.snapshot = Nil
  /\ r.attempt.stage # ""
  /\ r.attempt.failure \notin {Nil, ""}
  /\ r.attempt.checksum = ""

ValidLoadResult(r) ==
  \/ r.attempt.status = "succeeded" /\ ValidSucceeded(r)
  \/ r.attempt.status = "failed"    /\ ValidFailed(r)

(* The result of a load that got through every step.                       *)
SucceededResult(source, revision, checksum) ==
  [snapshot |-> [source |-> source, revision |-> revision, checksum |-> checksum],
   attempt  |-> [id |-> 0, status |-> "succeeded", stage |-> "",
                 source |-> source, revision |-> revision,
                 checksum |-> checksum, failure |-> Nil]]

(* The result of a load that stopped in a stage.                           *)
FailedResult(stage, source, revision, cause) ==
  [snapshot |-> Nil,
   attempt  |-> [id |-> 0, status |-> "failed", stage |-> stage,
                 source |-> source, revision |-> revision,
                 checksum |-> "", failure |-> AttemptFailure(stage, cause)]]

(***************************************************************************)
(* What a load may return at a moment when its context is in state ctx:    *)
(* the promise Load implements (LoadContract) and Manager relies on.       *)
(***************************************************************************)
Outcome(r, ctx) ==
  /\ ValidLoadResult(r)
  /\ r.attempt.status = "succeeded" => ctx = "live"
  /\ r.attempt.stage = "context" => ctx \in Dead /\ r.attempt.failure = ctx

(***************************************************************************)
(* lifecycleStateLocked: the state a manager reports is derived from the   *)
(* current snapshot and the last attempt.                                  *)
(***************************************************************************)
LifecycleStates == {"unloaded", "loaded", "degraded", "failed"}

LifecycleState(current, lastAttempt) ==
  IF lastAttempt # Nil /\ lastAttempt.status = "failed"
  THEN IF current = Nil THEN "failed"   ELSE "degraded"
  ELSE IF current = Nil THEN "unloaded" ELSE "loaded"

(***************************************************************************)
(* ApplyResult of apply: what applying an accepted result r does to a      *)
(* manager whose current snapshot is current.                              *)
(***************************************************************************)
ApplyResult == [published : BOOLEAN,
                changed   : BOOLEAN,
                previous  : Metadata \cup {Nil},
                current   : Metadata \cup {Nil},
                state     : LifecycleStates]

Applied(current, r) ==
  LET published == r.attempt.status = "succeeded" /\ r.snapshot # Nil
      after     == IF published THEN r.snapshot ELSE current
  IN  [published |-> published,
       changed   |-> /\ published
                     /\ current # Nil => current.checksum # r.snapshot.checksum,
       previous  |-> current,
       current   |-> after,
       state     |-> LifecycleState(after, r.attempt)]
=============================================================================
