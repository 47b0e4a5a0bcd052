-------------------------------- MODULE Load --------------------------------
(***************************************************************************)
(* One stateless load (load.go): LoadFromSource reads a source and goes on *)
(* as Load does, running the pipeline's steps over the data it read.       *)
(*                                                                         *)
(* A step is a callback of the application.  It succeeds, or it fails with *)
(* an error that wraps a context error or not; a panic is recovered into   *)
(* an error of the second sort, and so is an empty checksum.  The context  *)
(* is looked at between steps only, and may end at any moment.  A          *)
(* configuration value is the sequence of the steps that produced it.      *)
(***************************************************************************)
EXTENDS Lifecycle, SequencesExt

VARIABLES
  entry,    \* which function was called, on what: see Entries
  steps,    \* the callbacks the pipeline has
  srcMeta,  \* SourceMetadata of the source, "" while unknown
  data,     \* SourceData: its metadata and revision
  ctx,      \* the caller's context
  pc,       \* what the load does next
  pending,  \* the set of steps still to run
  value,    \* the value built so far
  saw,      \* the value that each inspecting step was given
  sum,      \* what the checksum step returned
  ran,      \* history: the steps begun
  late,     \* history: how many of them began after ctx had ended
  why,      \* history: the cause of the failure, "" if there was none
  result

loadVars == <<entry, steps, srcMeta, data, ctx, pc, pending, value, saw, sum,
              ran, late, why, result>>

Entries    == {"data", "source", "nil_source"}
Callbacks  == {"decode", "defaults", "validate_config", "copy", "redact", "checksum"}
Required   == {"decode", "redact", "checksum"}
Building   == {"decode", "defaults", "copy"}
Inspecting == {"validate_config", "redact", "checksum"}

(* The steps of the pipeline, its own validation included.                 *)
Planned == steps \cup {"pipeline_validate"}

(* The order of the lifecycle.                                             *)
Order == <<"pipeline_validate", "decode", "defaults", "validate_config", "copy",
           "redact", "checksum">>

(* Faulty variants, here and before MissingSource and StepSucceeds, are no *)
(* part of the specification: each property is shown to fail with one of   *)
(* them in the place of the definition it varies.                          *)
PositionCopyLast ==  \* the protective copy is made after the inspection
  [s \in Callbacks \cup {"pipeline_validate"} |->
     IF s = "copy" THEN Len(Order) + 1 ELSE CHOOSE i \in DOMAIN Order : Order[i] = s]

Position == [s \in Callbacks \cup {"pipeline_validate"} |->
               CHOOSE i \in DOMAIN Order : Order[i] = s]

SourceDatas == [source : Sources \cup {""}, revision : Revisions]

LoadInit ==
  /\ entry \in Entries
  /\ steps \in SUBSET Callbacks
  /\ srcMeta = ""
  /\ IF entry = "data" THEN data \in SourceDatas ELSE data = [source |-> "", revision |-> ""]
  /\ ctx \in Contexts
  /\ pc = IF entry = "data" THEN "check" ELSE "metadata"
  /\ pending = Planned
  /\ value = <<>>
  /\ saw = [s \in Inspecting |-> <<>>]
  /\ sum = ""
  /\ ran = <<>>
  /\ late = 0
  /\ why = ""
  /\ result = Nil

Return(r) ==
  /\ pc' = "returned"
  /\ result' = r

Fail(stage, source, revision, cause) ==
  /\ Return(FailedResult(stage, source, revision, cause))
  /\ why' = cause

unchangedInput == UNCHANGED <<entry, steps, ctx>>
unchangedRun   == UNCHANGED <<pending, value, saw, sum, ran, late>>

GoOnUnchecked ==  \* no look at the context between steps
  /\ pc = "check"
  /\ pending # {}
  /\ pc' = "step"
  /\ UNCHANGED <<srcMeta, data, why, result>> /\ unchangedInput /\ unchangedRun

(* A nil source is reported after the (skipped) metadata read.             *)
MissingSource ==
  /\ pc = "metadata"
  /\ entry = "nil_source"
  /\ Fail("source_read", "", "", "missing_source")
  /\ UNCHANGED <<srcMeta, data>> /\ unchangedInput /\ unchangedRun

ReadMetadata ==
  /\ pc = "metadata"
  /\ entry = "source"
  /\ srcMeta' \in Sources \cup {""}
  /\ pc' = "read"
  /\ UNCHANGED <<data, why, result>> /\ unchangedInput /\ unchangedRun

MetadataPanics ==
  /\ pc = "metadata"
  /\ entry = "source"
  /\ Fail("source_read", "", "", "other")
  /\ UNCHANGED <<srcMeta, data>> /\ unchangedInput /\ unchangedRun

(* Data that does not say where it is from gets the source's metadata.     *)
ReadSource ==
  /\ pc = "read"
  /\ \E d \in SourceDatas :
       data' = [d EXCEPT !.source = IF d.source = "" THEN srcMeta ELSE d.source]
  /\ pc' = "check"
  /\ UNCHANGED <<srcMeta, why, result>> /\ unchangedInput /\ unchangedRun

ReadFails ==
  /\ pc = "read"
  /\ \E cause \in Dead \cup {"other"} :
       Fail("source_read", srcMeta, "", cause)
  /\ UNCHANGED <<srcMeta, data>> /\ unchangedInput /\ unchangedRun

(* checkContext, between steps and twice after the last one, where the     *)
(* second look sees what the first saw or a later end of the context.      *)
ContextStops ==
  /\ pc = "check"
  /\ ctx \in Dead
  /\ Fail("context", data.source, data.revision, ctx)
  /\ UNCHANGED <<srcMeta, data>> /\ unchangedInput /\ unchangedRun

GoOn ==
  /\ pc = "check"
  /\ ctx = "live"
  /\ pending # {}
  /\ pc' = "step"
  /\ UNCHANGED <<srcMeta, data, why, result>> /\ unchangedInput /\ unchangedRun

Succeed ==
  /\ pc = "check"
  /\ ctx = "live"
  /\ pending = {}
  /\ Return(SucceededResult(data.source, data.revision, sum))
  /\ UNCHANGED <<srcMeta, data, why>> /\ unchangedInput /\ unchangedRun

(* The step that runs next is the first of those still to run.             *)
IsNext(s) == s \in pending /\ \A t \in pending : Position[s] <= Position[t]

Begin(s) ==
  /\ ran'  = Append(ran, s)
  /\ late' = IF ctx \in Dead THEN late + 1 ELSE late
  /\ saw'  = IF s \in Inspecting THEN [saw EXCEPT ![s] = value] ELSE saw

StepSucceedsAnySum(s) ==  \* an empty checksum is taken for a checksum
  /\ pc = "step"
  /\ IsNext(s)
  /\ s = "pipeline_validate" => Required \subseteq steps
  /\ Begin(s)
  /\ value' = IF s \in Building THEN Append(value, s) ELSE value
  /\ IF s = "checksum" THEN sum' \in Checksums \cup {""} ELSE UNCHANGED sum
  /\ pending' = pending \ {s}
  /\ pc' = "check"
  /\ UNCHANGED <<srcMeta, data, why, result>> /\ unchangedInput

StepFailsAsDecode(s) ==  \* the failure of any step is one of decode
  /\ pc = "step"
  /\ IsNext(s)
  /\ s = "pipeline_validate" => ~(Required \subseteq steps)
  /\ Begin(s)
  /\ Fail("decode", data.source, data.revision, "other")
  /\ UNCHANGED <<srcMeta, data, pending, value, sum>> /\ unchangedInput

StepFailsAndRetries(s) ==  \* a failed step is run again, without end
  /\ pc = "step"
  /\ IsNext(s)
  /\ s = "pipeline_validate" => ~(Required \subseteq steps)
  /\ pc' = "check"
  /\ UNCHANGED <<srcMeta, data, why, result>> /\ unchangedInput /\ unchangedRun

StepSucceeds(s) ==
  /\ pc = "step"
  /\ IsNext(s)
  /\ s = "pipeline_validate" => Required \subseteq steps
  /\ Begin(s)
  /\ value' = IF s \in Building THEN Append(value, s) ELSE value
  /\ IF s = "checksum" THEN sum' \in Checksums ELSE UNCHANGED sum
  /\ pending' = pending \ {s}
  /\ pc' = "check"
  /\ UNCHANGED <<srcMeta, data, why, result>> /\ unchangedInput

StepFails(s) ==
  /\ pc = "step"
  /\ IsNext(s)
  /\ s = "pipeline_validate" => ~(Required \subseteq steps)
  /\ Begin(s)
  /\ \E cause \in IF s = "pipeline_validate" THEN {"other"} ELSE Dead \cup {"other"} :
       Fail(s, data.source, data.revision, cause)
  /\ UNCHANGED <<srcMeta, data, pending, value, sum>> /\ unchangedInput

ContextEnds ==
  /\ pc # "returned"
  /\ ctx = "live"
  /\ ctx' \in Dead
  /\ UNCHANGED <<entry, steps, srcMeta, data, pc, why, result>> /\ unchangedRun

Advance ==
  \/ MissingSource \/ ReadMetadata \/ MetadataPanics \/ ReadSource \/ ReadFails
  \/ ContextStops \/ GoOn \/ Succeed
  \/ \E s \in Stages : StepSucceeds(s) \/ StepFails(s)

LoadNext == Advance \/ ContextEnds

LoadSpec == LoadInit /\ [][LoadNext]_loadVars

(* Every callback returns or panics.                                       *)
FairLoadSpec == LoadSpec /\ WF_loadVars(Advance)

(***************************************************************************)
(* Properties.                                                             *)
(***************************************************************************)
LoadTypeOK ==
  /\ entry   \in Entries
  /\ steps   \in SUBSET Callbacks
  /\ srcMeta \in Sources \cup {""}
  /\ data    \in [source : Sources \cup {""}, revision : Revisions \cup {""}]
  /\ ctx     \in Contexts
  /\ pc      \in {"metadata", "read", "check", "step", "returned"}
  /\ pending \in SUBSET (Callbacks \cup {"pipeline_validate"})
  /\ value   \in Seq(Callbacks)
  /\ saw     \in [Inspecting -> Seq(Callbacks)]
  /\ sum     \in Checksums \cup {""}
  /\ ran     \in Seq(Stages)
  /\ late    \in Nat
  /\ why     \in Causes \cup {""}
  /\ result  \in LoadResult \cup {Nil}

succeeded == pc = "returned" /\ result.attempt.status = "succeeded"
failed    == pc = "returned" /\ result.attempt.status = "failed"

(* Whatever the callbacks do, the result is one that Manager accepts: a    *)
(* managed load never falls into the branch where applyValidated rejects   *)
(* its own result and the attempt goes unrecorded.                         *)
ResultAccepted == pc = "returned" => ValidLoadResult(result)

Precedes(s, t) == \E i, j \in DOMAIN Order : i < j /\ Order[i] = s /\ Order[j] = t

(* A sequence lists a set of steps: just these, in the lifecycle's order.  *)
Lists(list, S) ==
  /\ ToSet(list) = S
  /\ \A i, j \in DOMAIN list : i < j => Precedes(list[i], list[j])

(* A published snapshot is what its inspectors inspected: the redacted     *)
(* view and the checksum are of the very value published, and the value    *)
(* validated is that value but for its last, protective copy.              *)
SnapshotIsWhatWasInspected ==
  succeeded =>
    /\ Lists(value, steps \cap Building)
    /\ saw["redact"] = value
    /\ saw["checksum"] = value
    /\ "validate_config" \in steps =>
         Lists(saw["validate_config"], steps \cap {"decode", "defaults"})

(* Cancellation is cooperative but prompt: at most one step begins after   *)
(* the context has ended, and such a load never succeeds, not even when    *)
(* the context ends during the last step.                                  *)
CancellationHonoured ==
  /\ late <= 1
  /\ late = 1 => ~succeeded

(* What a result tells is what happened: steps run in the order of the     *)
(* lifecycle, a failure names the place where it stopped (no step runs     *)
(* after a failure, a read failure runs no step), and success means that   *)
(* every step of the pipeline ran.  The code of a failure is that of the   *)
(* context error it was, be the context ended or live, or else that of its *)
(* stage; where the context stopped the load it is the context's own.      *)
(* And a result tells all that was known when it returned: the revision of *)
(* the data, and a source once the data or their source has named one.     *)
ResultTellsWhatHappened ==
  /\ Lists(ran, Planned \cap ToSet(ran))
  /\ \A s \in ToSet(ran), t \in Planned \ ToSet(ran) : Precedes(s, t)
  /\ succeeded => ToSet(ran) = Planned
  /\ failed =>
       LET a == result.attempt
       IN  /\ \/ a.stage = "source_read" /\ ran = <<>>
              \/ a.stage = "context" /\ ToSet(ran) \cap pending = {} /\ a.failure = ctx
              \/ ran # <<>> /\ a.stage = Last(ran)
           /\ a.failure = IF why \in Dead THEN why
                          ELSE IF entry = "nil_source" THEN "missing_source" ELSE a.stage
  /\ pc = "returned" =>
       /\ result.attempt.revision = data.revision
       /\ result.attempt.source = IF data.source = "" THEN srcMeta ELSE data.source

(* If the callbacks return, the load returns.                              *)
LoadReturns == <>(pc = "returned")

(* The load keeps its contract.                                            *)
Contract == INSTANCE LoadContract WITH returned <- (pc = "returned")

KeepsContract == Contract!ContractSpec
=============================================================================
