------------------------------ MODULE LoadProofs ------------------------------
(***************************************************************************)
(* Proofs about one stateless load, for any sources, revisions and         *)
(* checksums and for every pipeline.                                       *)
(***************************************************************************)
EXTENDS Load, TLAPS

(***************************************************************************)
(* The results that the code builds.                                       *)
(***************************************************************************)

(* A failed result of any stage but context is accepted whatever its       *)
(* cause, and one of stage context when it carries the context's error.    *)
LEMMA FailedResultOutcome ==
  ASSUME NEW stage \in Stages, NEW cause \in Causes, NEW k \in Contexts,
         NEW source \in Sources \cup {""}, NEW revision \in Revisions \cup {""},
         stage = "context" => k \in Dead /\ cause = k
  PROVE  LET r == FailedResult(stage, source, revision, cause)
         IN  r \in LoadResult /\ Outcome(r, k) /\ r.attempt.status = "failed"
<1> DEFINE r == FailedResult(stage, source, revision, cause)
<1>1. AttemptFailure(stage, cause) \in FailureCodes /\ AttemptFailure(stage, cause) # ""
  BY DEF AttemptFailure, FailureCodes, Causes, Stages, Dead, Contexts
<1>2. AttemptFailure(stage, cause) # Nil
  BY <1>1, NilAssumption
<1>3. r \in LoadResult
  BY <1>1 DEF FailedResult, LoadResult, AttemptRecord, Failures
<1>4. r.attempt.stage = "context" => k \in Dead /\ r.attempt.failure = k
  BY DEF FailedResult, AttemptFailure, Dead, Contexts
<1>5. stage # ""
  BY DEF Stages
<1> QED
  BY <1>1, <1>2, <1>3, <1>4, <1>5
  DEF FailedResult, Outcome, ValidLoadResult, ValidSucceeded, ValidFailed

(* The result of a load that got to its end is one the contract allows.    *)
LEMMA SucceededResultOutcome ==
  ASSUME NEW source \in Sources \cup {""}, NEW revision \in Revisions \cup {""},
         NEW checksum \in Checksums
  PROVE  LET r == SucceededResult(source, revision, checksum)
         IN  r \in LoadResult /\ Outcome(r, "live") /\ r.attempt.status = "succeeded"
<1> DEFINE r == SucceededResult(source, revision, checksum)
<1>1. r \in LoadResult
  BY DEF SucceededResult, LoadResult, AttemptRecord, Metadata, Failures
<1>2. r.snapshot \in Metadata
  BY DEF SucceededResult, Metadata
<1>3. r.snapshot # Nil
  BY <1>2, NilAssumption
<1> QED
  BY <1>1, <1>3, BlankAssumption
  DEF SucceededResult, Outcome, ValidLoadResult, ValidSucceeded

(***************************************************************************)
(* The inductive invariant.  A load succeeds when no step is pending, so   *)
(* its validity needs to know what the steps that are no longer pending    *)
(* have established; and a late step is one that began after the check     *)
(* that let it, so none is late where the next check has still to come.    *)
(***************************************************************************)
Established ==
  /\ "pipeline_validate" \notin pending => Required \subseteq steps
  /\ "checksum" \in steps \ pending => sum \in Checksums

LateInv ==
  /\ late \in {0, 1}
  /\ late = 1 => ctx \in Dead /\ pc \in {"check", "returned"} /\ ~succeeded

ResultInv ==
  IF pc = "returned"
  THEN result \in LoadResult /\ ValidLoadResult(result)
  ELSE result = Nil

LoadInv == LoadTypeOK /\ Established /\ LateInv /\ ResultInv

(* The invariant holds when the load begins.                               *)
LEMMA LoadInitial == LoadInit => LoadInv
<1> SUFFICES ASSUME LoadInit PROVE LoadInv
  OBVIOUS
<1>1. LoadTypeOK
  <2>1. data \in [source : Sources \cup {""}, revision : Revisions \cup {""}]
    <3>1. data \in SourceDatas \/ data = [source |-> "", revision |-> ""]
      BY Zenon DEF LoadInit
    <3>2. [source |-> "", revision |-> ""]
            \in [source : Sources \cup {""}, revision : Revisions \cup {""}]
      OBVIOUS
    <3>3. \A d \in SourceDatas : d \in [source : Sources \cup {""}, revision : Revisions \cup {""}]
      BY DEF SourceDatas
    <3> QED BY <3>1, <3>2, <3>3, Zenon
  <2>2. saw \in [Inspecting -> Seq(Callbacks)]
    <3>1. saw = [s \in Inspecting |-> <<>>]
      BY Zenon DEF LoadInit
    <3> QED BY <3>1
  <2>3. pending \in SUBSET (Callbacks \cup {"pipeline_validate"})
    BY DEF LoadInit, Planned
  <2>4. ctx \in Contexts /\ entry \in Entries /\ steps \in SUBSET Callbacks
    BY DEF LoadInit
  <2>5. value \in Seq(Callbacks) /\ ran \in Seq(Stages) /\ srcMeta = "" /\ sum = ""
    <3>1. value = <<>> /\ ran = <<>> /\ srcMeta = "" /\ sum = ""
      BY Zenon DEF LoadInit
    <3>2. <<>> \in Seq(Callbacks) /\ <<>> \in Seq(Stages)
      OBVIOUS
    <3> QED BY <3>1, <3>2, Zenon
  <2>6. pc \in {"metadata", "read", "check", "step", "returned"}
    BY DEF LoadInit
  <2>7. late \in Nat /\ result = Nil /\ why = ""
    BY DEF LoadInit
  <2> QED BY <2>1, <2>2, <2>3, <2>4, <2>5, <2>6, <2>7 DEF LoadTypeOK
<1> QED
  <2>1. Established /\ LateInv
    <3>1. pending = Planned /\ late = 0
      BY DEF LoadInit
    <3> QED BY <3>1 DEF Established, LateInv, Planned
  <2>2. ResultInv
    BY DEF LoadInit, ResultInv
  <2> QED BY <1>1, <2>1, <2>2 DEF LoadInv

(***************************************************************************)
(* Returning a result that the code built keeps every part that concerns   *)
(* the result.                                                             *)
(***************************************************************************)
LEMMA ReturnFailed ==
  ASSUME LoadInv, pc # "returned",
         NEW stage \in Stages, NEW cause \in Causes,
         NEW source \in Sources \cup {""}, NEW revision \in Revisions \cup {""},
         stage = "context" => ctx \in Dead /\ cause = ctx,
         Return(FailedResult(stage, source, revision, cause))
  PROVE  /\ ResultInv'
         /\ pc' = "returned" /\ ~succeeded'
         /\ result' \in LoadResult /\ Outcome(result', ctx)
<1> DEFINE r == FailedResult(stage, source, revision, cause)
<1>1. ctx \in Contexts
  BY DEF LoadInv, LoadTypeOK
<1>2. r \in LoadResult /\ Outcome(r, ctx) /\ r.attempt.status = "failed"
  BY <1>1, FailedResultOutcome
<1>3. pc' = "returned" /\ result' = r
  BY DEF Return
<1> QED BY <1>2, <1>3, Zenon DEF ResultInv, Outcome, succeeded

(* The failures that happen outside a step leave all else as it is.        *)
LEMMA StoppedOutsideStep ==
  ASSUME LoadInv, pc # "returned",
         NEW stage \in Stages, NEW cause \in Causes,
         NEW source \in Sources \cup {""}, NEW revision \in Revisions \cup {""},
         stage = "context" => ctx \in Dead /\ cause = ctx,
         Fail(stage, source, revision, cause),
         UNCHANGED <<srcMeta, data>>, unchangedInput, unchangedRun
  PROVE  LoadInv' /\ Outcome(result', ctx)
<1>1. ResultInv' /\ pc' = "returned" /\ ~succeeded' /\ result' \in LoadResult /\ Outcome(result', ctx)
  BY ReturnFailed DEF Fail
<1>2. LoadTypeOK' /\ Established' /\ LateInv'
  BY <1>1 DEF LoadInv, LoadTypeOK, Established, LateInv, unchangedInput, unchangedRun, Fail
<1> QED BY <1>1, <1>2 DEF LoadInv

(* Each way of stopping before a step returns what the contract allows.    *)
LEMMA StopsAreFailures ==
  ASSUME LoadInv, MissingSource \/ MetadataPanics \/ ReadFails \/ ContextStops
  PROVE  LoadInv' /\ pc # "returned" /\ pc' = "returned" /\ Outcome(result', ctx)
<1>1. /\ {"source_read", "context"} \subseteq Stages
      /\ Dead \cup {"missing_source", "other"} \subseteq Causes
  BY DEF Stages, Causes
<1>2. srcMeta \in Sources \cup {""} /\ data.source \in Sources \cup {""} /\ data.revision \in Revisions \cup {""}
  BY DEF LoadInv, LoadTypeOK
<1>3. CASE MissingSource
  BY <1>1, <1>3, StoppedOutsideStep DEF MissingSource, Fail, Return
<1>4. CASE MetadataPanics
  BY <1>1, <1>4, StoppedOutsideStep DEF MetadataPanics, Fail, Return
<1>5. CASE ReadFails
  BY <1>1, <1>2, <1>5, StoppedOutsideStep DEF ReadFails, Fail, Return
<1>6. CASE ContextStops
  BY <1>1, <1>2, <1>6, StoppedOutsideStep DEF ContextStops, Fail, Return
<1> QED BY <1>3, <1>4, <1>5, <1>6

(* A load that succeeds has run its checksum step, and nothing was late.   *)
LEMMA SucceedSucceeds ==
  ASSUME LoadInv, Succeed
  PROVE  LoadInv' /\ pc # "returned" /\ pc' = "returned" /\ Outcome(result', ctx)
<1> DEFINE r == SucceededResult(data.source, data.revision, sum)
<1>1. sum \in Checksums
  BY DEF LoadInv, Established, Succeed, Required
<1>2. data.source \in Sources \cup {""} /\ data.revision \in Revisions \cup {""}
  BY DEF LoadInv, LoadTypeOK
<1>3. r \in LoadResult /\ Outcome(r, "live")
  BY <1>1, <1>2, SucceededResultOutcome
<1>4. pc = "check" /\ ctx = "live" /\ pc' = "returned" /\ result' = r
  BY DEF Succeed, Return
<1>5. ResultInv' /\ result' \in LoadResult /\ Outcome(result', ctx)
  BY <1>3, <1>4, Zenon DEF ResultInv, Outcome
<1>6. late = 0
  BY <1>4 DEF LoadInv, LateInv, Dead
<1>7. LoadTypeOK'
  BY <1>4, <1>5 DEF LoadInv, LoadTypeOK, Succeed, unchangedInput, unchangedRun
<1>8. Established' /\ LateInv'
  <2>1. UNCHANGED <<steps, pending, sum, late>>
    BY DEF Succeed, unchangedInput, unchangedRun
  <2> QED BY <1>6, <2>1 DEF LoadInv, Established, LateInv
<1> QED BY <1>4, <1>5, <1>7, <1>8 DEF LoadInv

(* A step of the pipeline that succeeds keeps the invariant.               *)
LEMMA StepsKeepInv ==
  ASSUME LoadInv, NEW s \in Stages, StepSucceeds(s)
  PROVE  LoadInv' /\ pc # "returned" /\ pc' # "returned" /\ UNCHANGED <<result, ctx>>
<1>1. pc = "step" /\ pc' = "check" /\ UNCHANGED <<srcMeta, data, why, result, entry, steps, ctx>>
  BY DEF StepSucceeds, unchangedInput
<1>2. s \in pending /\ pending' = pending \ {s} /\ (s = "pipeline_validate" => Required \subseteq steps)
  BY DEF StepSucceeds, IsNext
<1>3. late = 0 /\ late' \in {0, 1} /\ (late' = 1 => ctx \in Dead)
  BY <1>1 DEF LoadInv, LateInv, StepSucceeds, Begin
<1>4. value' \in Seq(Callbacks)
  <2>1. value \in Seq(Callbacks)
    BY DEF LoadInv, LoadTypeOK
  <2>2. CASE s \in {"decode", "defaults", "copy"}
    <3>1. value' = Append(value, s) /\ s \in Callbacks
      BY <2>2 DEF StepSucceeds, Callbacks, Building
    <3> QED BY <2>1, <3>1
  <2>3. CASE s \notin {"decode", "defaults", "copy"}
    BY <2>1, <2>3 DEF StepSucceeds, Building
  <2> QED BY <2>2, <2>3
<1>5. ran' \in Seq(Stages)
  <2>1. ran \in Seq(Stages) /\ ran' = Append(ran, s)
    BY DEF StepSucceeds, Begin, LoadInv, LoadTypeOK
  <2> QED BY <2>1
<1>6. saw' \in [Inspecting -> Seq(Callbacks)]
  BY DEF StepSucceeds, Begin, LoadInv, LoadTypeOK
<1>7. IF s = "checksum" THEN sum' \in Checksums ELSE sum' = sum
  BY DEF StepSucceeds
<1>8. LoadTypeOK'
  <2>1. /\ entry' \in Entries /\ steps' \in SUBSET Callbacks /\ srcMeta' \in Sources \cup {""}
        /\ data' \in [source : Sources \cup {""}, revision : Revisions \cup {""}]
        /\ ctx' \in Contexts /\ result' \in LoadResult \cup {Nil} /\ why' \in Causes \cup {""}
    BY <1>1 DEF LoadInv, LoadTypeOK
  <2>2. pending' \in SUBSET (Callbacks \cup {"pipeline_validate"}) /\ sum' \in Checksums \cup {""}
    BY <1>2, <1>7 DEF LoadInv, LoadTypeOK
  <2>3. late' \in Nat /\ pc' \in {"metadata", "read", "check", "step", "returned"}
    BY <1>1, <1>3
  <2> QED BY <1>4, <1>5, <1>6, <2>1, <2>2, <2>3, Zenon DEF LoadTypeOK
<1>9. Established'
  BY <1>1, <1>2, <1>7 DEF LoadInv, Established
<1>10. LateInv' /\ ResultInv'
  BY <1>1, <1>3 DEF LoadInv, LateInv, ResultInv, succeeded
<1> QED BY <1>1, <1>8, <1>9, <1>10 DEF LoadInv

(* A step that fails returns a failed result the contract allows.          *)
LEMMA StepFailures ==
  ASSUME LoadInv, NEW s \in Stages, StepFails(s)
  PROVE  LoadInv' /\ pc # "returned" /\ pc' = "returned" /\ Outcome(result', ctx)
<1>1. pc = "step" /\ UNCHANGED <<srcMeta, data, pending, value, sum, entry, steps, ctx>>
  BY DEF StepFails, unchangedInput
<1>2. s # "context" /\ Dead \cup {"other"} \subseteq Causes
  BY DEF StepFails, IsNext, LoadInv, LoadTypeOK, Causes, Callbacks
<1>3. PICK cause \in Causes : Fail(s, data.source, data.revision, cause)
  BY <1>2 DEF StepFails
<1>4. data.source \in Sources \cup {""} /\ data.revision \in Revisions \cup {""}
  BY DEF LoadInv, LoadTypeOK
<1>5. ResultInv' /\ pc' = "returned" /\ ~succeeded' /\ result' \in LoadResult /\ Outcome(result', ctx)
  BY <1>1, <1>2, <1>3, <1>4, ReturnFailed DEF Fail
<1>6. late = 0 /\ late' \in {0, 1} /\ (late' = 1 => ctx \in Dead)
  BY <1>1 DEF LoadInv, LateInv, StepFails, Begin
<1>7. ran' \in Seq(Stages)
  <2>1. ran \in Seq(Stages) /\ ran' = Append(ran, s)
    BY DEF StepFails, Begin, LoadInv, LoadTypeOK
  <2> QED BY <2>1
<1>8. saw' \in [Inspecting -> Seq(Callbacks)]
  BY DEF StepFails, Begin, LoadInv, LoadTypeOK
<1>9. LoadTypeOK'
  <2>1. /\ entry' \in Entries /\ steps' \in SUBSET Callbacks /\ srcMeta' \in Sources \cup {""}
        /\ data' \in [source : Sources \cup {""}, revision : Revisions \cup {""}]
        /\ ctx' \in Contexts /\ result' \in LoadResult \cup {Nil} /\ why' \in Causes \cup {""}
    BY <1>1, <1>3, <1>5 DEF LoadInv, LoadTypeOK, Fail
  <2>2. /\ pending' \in SUBSET (Callbacks \cup {"pipeline_validate"})
        /\ sum' \in Checksums \cup {""} /\ value' \in Seq(Callbacks)
    BY <1>1 DEF LoadInv, LoadTypeOK
  <2>3. late' \in Nat /\ pc' \in {"metadata", "read", "check", "step", "returned"}
    BY <1>5, <1>6
  <2> QED BY <1>7, <1>8, <2>1, <2>2, <2>3, Zenon DEF LoadTypeOK
<1>10. Established' /\ LateInv'
  BY <1>1, <1>5, <1>6 DEF LoadInv, Established, LateInv
<1> QED BY <1>1, <1>5, <1>9, <1>10 DEF LoadInv

(* The steps that only read, go on or end the context do not return.       *)
LEMMA QuietSteps ==
  ASSUME LoadInv, ReadMetadata \/ ReadSource \/ GoOn \/ ContextEnds
  PROVE  LoadInv' /\ pc # "returned" /\ pc' # "returned" /\ UNCHANGED result
<1> USE DEF unchangedInput, unchangedRun, LoadInv, LoadTypeOK, Established, LateInv, ResultInv, succeeded
<1>1. CASE ReadMetadata
  BY <1>1 DEF ReadMetadata
<1>2. CASE ReadSource
  <2>1. PICK d \in SourceDatas : data' = [d EXCEPT !.source = IF d.source = "" THEN srcMeta ELSE d.source]
    BY <1>2 DEF ReadSource
  <2>2. data' \in [source : Sources \cup {""}, revision : Revisions \cup {""}]
    BY <2>1 DEF SourceDatas
  <2> QED BY <1>2, <2>2 DEF ReadSource
<1>3. CASE GoOn
  BY <1>3 DEF GoOn, Dead
<1>4. CASE ContextEnds
  <2>1. /\ pc # "returned" /\ pc' = pc /\ result' = result /\ ctx' \in Dead
        /\ UNCHANGED <<entry, steps, srcMeta, data, pending, value, saw, sum, ran, late, why>>
    BY <1>4, Zenon DEF ContextEnds
  <2>2. ctx' \in Contexts
    BY <2>1 DEF Dead
  <2>3. LoadTypeOK'
    BY <2>1, <2>2, Zenon
  <2>4. Established' /\ ResultInv'
    BY <2>1, Zenon
  <2>5. LateInv'
    BY <2>1, Zenon
  <2> QED BY <2>1, <2>3, <2>4, <2>5, Zenon
<1> QED BY <1>1, <1>2, <1>3, <1>4

(* The invariant is kept by every step.                                    *)
LEMMA LoadInductive == LoadInv /\ [LoadNext]_loadVars => LoadInv'
<1> SUFFICES ASSUME LoadInv, [LoadNext]_loadVars
             PROVE  LoadInv'
  OBVIOUS
<1>1. CASE UNCHANGED loadVars
  <2>1. LoadTypeOK'
    BY <1>1 DEF loadVars, LoadInv, LoadTypeOK
  <2>2. Established'
    BY <1>1 DEF loadVars, LoadInv, Established
  <2>3. LateInv'
    BY <1>1 DEF loadVars, LoadInv, LateInv, succeeded
  <2>4. ResultInv'
    BY <1>1 DEF loadVars, LoadInv, ResultInv
  <2> QED BY <2>1, <2>2, <2>3, <2>4 DEF LoadInv
<1> QED
  BY <1>1, StopsAreFailures, SucceedSucceeds, StepsKeepInv, StepFailures, QuietSteps
  DEF LoadNext, Advance

(* A load, whatever its callbacks do and whenever its context ends, returns *)
(* a result that validateLoadResult accepts.                               *)
THEOREM LoadResultAccepted == LoadSpec => []ResultAccepted
<1>1. LoadInv => ResultAccepted
  BY DEF LoadInv, ResultInv, ResultAccepted
<1> QED BY LoadInitial, LoadInductive, <1>1, PTL DEF LoadSpec

(* At most one step begins after the context has ended, and a load in      *)
(* which one did fails.                                                    *)
THEOREM LoadHonoursCancellation == LoadSpec => []CancellationHonoured
<1>1. LoadInv => CancellationHonoured
  BY DEF LoadInv, LateInv, CancellationHonoured
<1> QED BY LoadInitial, LoadInductive, <1>1, PTL DEF LoadSpec

(***************************************************************************)
(* What a run did.  The position of a step is its place in Order, so that  *)
(* to precede is to have a lower position.                                 *)
(***************************************************************************)
LEMMA Positions ==
  /\ Position["pipeline_validate"] = 1 /\ Position["decode"] = 2
  /\ Position["defaults"] = 3 /\ Position["validate_config"] = 4
  /\ Position["copy"] = 5 /\ Position["redact"] = 6 /\ Position["checksum"] = 7
<1>1. /\ DOMAIN Order = 1 .. 7
      /\ Order[1] = "pipeline_validate" /\ Order[2] = "decode" /\ Order[3] = "defaults"
      /\ Order[4] = "validate_config" /\ Order[5] = "copy" /\ Order[6] = "redact"
      /\ Order[7] = "checksum"
  BY DEF Order
<1> DEFINE steps7 == Callbacks \cup {"pipeline_validate"}
<1>2. ASSUME NEW n \in 1 .. 7
      PROVE  /\ Order[n] \in steps7
             /\ (CHOOSE i \in DOMAIN Order : Order[i] = Order[n]) = n
  <2>1. Order[n] \in steps7
    BY <1>1 DEF Callbacks
  <2>2. \A i \in DOMAIN Order : Order[i] = Order[n] => i = n
    BY <1>1
  <2>3. n \in DOMAIN Order
    BY <1>1
  <2> QED BY <2>1, <2>2, <2>3
<1>3. \A n \in 1 .. 7 : Position[Order[n]] = n
  BY <1>2 DEF Position
<1> QED BY <1>1, <1>3

(* Distinct steps have distinct positions.                                 *)
LEMMA PrecedesIsPosition ==
  ASSUME NEW s \in Callbacks \cup {"pipeline_validate"},
         NEW t \in Callbacks \cup {"pipeline_validate"}
  PROVE  /\ Position[s] \in 1 .. 7
         /\ Position[s] = Position[t] => s = t
         /\ Position[s] < Position[t] => Precedes(s, t)
<1>1. Position[s] \in 1 .. 7 /\ Position[t] \in 1 .. 7
  BY Positions DEF Callbacks
<1>2. DOMAIN Order = 1 .. 7
  BY DEF Order
<1>3. Order[Position[s]] = s /\ Order[Position[t]] = t
  BY Positions DEF Callbacks, Order
<1> QED BY <1>1, <1>2, <1>3, Zenon DEF Precedes

(* A sequence of steps in the lifecycle's order, and one more after it.    *)
Sorted(list) == \A i, j \in 1 .. Len(list) : i < j => Position[list[i]] < Position[list[j]]

(* Appending a step that is after all of the sequence keeps it sorted.     *)
LEMMA SortedAppend ==
  ASSUME NEW S, NEW list \in Seq(S), NEW s \in S, Sorted(list),
         \A t \in ToSet(list) : Position[t] < Position[s]
  PROVE  /\ Append(list, s) \in Seq(S) /\ Sorted(Append(list, s))
         /\ ToSet(Append(list, s)) = ToSet(list) \cup {s}
         /\ Append(list, s) # <<>> /\ Last(Append(list, s)) = s
<1>1. PICK n \in Nat : n = Len(list) /\ DOMAIN list = 1 .. n
  OBVIOUS
<1>2. PICK longer \in Seq(S) : longer = Append(list, s)
  <2>1. Append(list, s) \in Seq(S)
    OBVIOUS
  <2> QED BY <2>1, Zenon
<1>3. /\ Len(longer) = n + 1 /\ DOMAIN longer = 1 .. n + 1
      /\ longer[n + 1] = s /\ \A i \in 1 .. n : longer[i] = list[i]
  BY <1>1, <1>2
<1>4. \A i \in 1 .. n : Position[list[i]] < Position[s]
  BY <1>1 DEF ToSet
<1>5. Sorted(longer)
  BY <1>1, <1>3, <1>4 DEF Sorted
<1>6. ToSet(longer) = ToSet(list) \cup {s}
  <2>1. ASSUME NEW x \in ToSet(longer) PROVE x \in ToSet(list) \cup {s}
    BY <1>1, <1>3 DEF ToSet
  <2>2. ASSUME NEW x \in ToSet(list) PROVE x \in ToSet(longer)
    BY <1>1, <1>3 DEF ToSet
  <2>3. s \in ToSet(longer)
    BY <1>3 DEF ToSet
  <2> QED BY <2>1, <2>2, <2>3
<1>7. longer # <<>> /\ Last(longer) = s
  BY <1>3 DEF Last
<1> QED BY <1>2, <1>5, <1>6, <1>7

(***************************************************************************)
(* The steps that are done are those that are planned and not pending, and *)
(* they come before those that are.  ran lists them, and the step that     *)
(* failed if one did.                                                      *)
(***************************************************************************)
Done == Planned \ pending

FailedInStep == failed /\ result.attempt.stage \notin {"source_read", "context"}

RanInv ==
  /\ pending \subseteq Planned
  /\ \A s \in Done, t \in pending : Position[s] < Position[t]
  /\ Sorted(ran)
  /\ IF FailedInStep
     THEN /\ ran # <<>> /\ Last(ran) = result.attempt.stage /\ IsNext(Last(ran))
          /\ ToSet(ran) = Done \cup {Last(ran)}
     ELSE ToSet(ran) = Done
  /\ succeeded => pending = {}
  /\ failed /\ result.attempt.stage = "source_read" => ran = <<>>
  /\ pc \in {"metadata", "read"} => pending = Planned /\ ran = <<>>

(* The value is made by the building steps that are done, an inspecting    *)
(* step that is done saw those before it, and none comes after the last    *)
(* two of them.                                                            *)
ValueInv ==
  /\ Sorted(value) /\ ToSet(value) = Done \cap Building
  /\ \A s \in {"redact", "checksum"} \cap Done : saw[s] = value
  /\ "validate_config" \in Done =>
       /\ Sorted(saw["validate_config"])
       /\ ToSet(saw["validate_config"]) = steps \cap {"decode", "defaults"}

(* Nothing is known of the data before they are read, then they name a     *)
(* source if theirs did; and a result tells what was known, and why it     *)
(* failed.                                                                 *)
TellInv ==
  /\ pc = "metadata" => srcMeta = ""
  /\ pc = "read" => entry = "source"
  /\ pc \in {"metadata", "read"} => data.source = "" /\ data.revision = ""
  /\ pc \in {"check", "step"} =>
       entry # "nil_source" /\ (srcMeta # "" => data.source # "")
  /\ pc = "returned" =>
       /\ result.attempt.revision = data.revision
       /\ result.attempt.source = IF data.source = "" THEN srcMeta ELSE data.source
  /\ failed =>
       /\ why \in Causes /\ (why = "missing_source" <=> entry = "nil_source")
       /\ result.attempt.failure = AttemptFailure(result.attempt.stage, why)
       /\ result.attempt.stage = "context" => why \in Dead /\ why = ctx

RunInv == RanInv /\ ValueInv /\ TellInv

(* The invariant holds before anything ran.                                *)
LEMMA RunInitial == LoadInit => RunInv
<1> SUFFICES ASSUME LoadInit PROVE RunInv
  OBVIOUS
<1>1. pending = Planned /\ value = <<>> /\ ran = <<>> /\ result = Nil /\ srcMeta = ""
  BY DEF LoadInit
<1>2. /\ pc \in {"metadata", "check"} /\ (pc = "check" => entry = "data")
      /\ pc = "metadata" => data = [source |-> "", revision |-> ""]
  BY DEF LoadInit
<1>3. Sorted(<<>>) /\ ToSet(<<>>) = {}
  BY DEF Sorted, ToSet
<1>4. ~failed /\ ~succeeded /\ Done = {}
  BY <1>1, <1>2 DEF failed, succeeded, Done
<1>5. TellInv
  <2>1. ASSUME pc = "metadata" PROVE data.source = "" /\ data.revision = ""
    <3>1. data = [source |-> "", revision |-> ""]
      BY <1>2, <2>1
    <3> QED BY <3>1
  <2>2. pc # "read" /\ pc # "step" /\ pc # "returned"
    BY <1>2
  <2> QED BY <1>1, <1>2, <1>4, <2>1, <2>2 DEF TellInv
<1> QED BY <1>1, <1>2, <1>3, <1>4, <1>5 DEF RunInv, RanInv, ValueInv, FailedInStep

(* A failure tells why, and what was known.                                *)
LEMMA StopTells ==
  ASSUME NEW stage, NEW source, NEW cause \in Causes,
         Fail(stage, source, data.revision, cause), UNCHANGED <<entry, ctx, srcMeta, data>>,
         source = IF data.source = "" THEN srcMeta ELSE data.source,
         cause = "missing_source" <=> entry = "nil_source",
         stage = "context" => cause \in Dead /\ cause = ctx
  PROVE  TellInv'
BY DEF Fail, Return, FailedResult, TellInv, failed

(* A load that stops outside a step has run what is done.                  *)
LEMMA StopsTellRun ==
  ASSUME LoadInv, RunInv, MissingSource \/ MetadataPanics \/ ReadFails \/ ContextStops \/ Succeed
  PROVE  RunInv'
<1>1. /\ result = Nil /\ pc # "returned" /\ pc' = "returned"
      /\ UNCHANGED <<steps, pending, value, saw, ran, srcMeta>>
  BY DEF LoadInv, ResultInv, MissingSource, MetadataPanics, ReadFails, ContextStops, Succeed,
         unchangedInput, unchangedRun, Fail, Return
<1>2. ~FailedInStep /\ Done' = Done
  BY <1>1 DEF FailedInStep, failed, Done, Planned
<1>3. \/ /\ result'.attempt.status = "failed"
         /\ \/ result'.attempt.stage = "source_read" /\ pc \in {"metadata", "read"}
            \/ result'.attempt.stage = "context"
      \/ result'.attempt.status = "succeeded" /\ pending = {}
  <2> USE DEF Fail, Return, FailedResult, SucceededResult
  <2>1. CASE MissingSource
    BY <2>1 DEF MissingSource
  <2>2. CASE MetadataPanics
    BY <2>2 DEF MetadataPanics
  <2>3. CASE ReadFails
    <3>1. PICK cause : result' = FailedResult("source_read", srcMeta, "", cause)
      BY <2>3, Zenon DEF ReadFails, Fail, Return
    <3> QED BY <2>3, <3>1 DEF ReadFails
  <2>4. CASE ContextStops
    BY <2>4 DEF ContextStops
  <2>5. CASE Succeed
    BY <2>5 DEF Succeed
  <2> QED BY <2>1, <2>2, <2>3, <2>4, <2>5
<1>4. RanInv'
  <2>1. ~FailedInStep'
    BY <1>3 DEF FailedInStep, failed
  <2>2. pending \subseteq Planned /\ (\A s \in Done, t \in pending : Position[s] < Position[t])
        /\ Sorted(ran) /\ ToSet(ran) = Done
    BY <1>2 DEF RunInv, RanInv
  <2>3. Planned' = Planned /\ Sorted(ran)'
    BY <1>1, <2>2 DEF Planned, Sorted
  <2>4. result'.attempt.stage = "source_read" /\ failed' => ran = <<>>
    BY <1>3 DEF RunInv, RanInv, failed
  <2>5. succeeded' => pending = {}
    BY <1>3 DEF succeeded
  <2> QED BY <1>1, <1>2, <2>1, <2>2, <2>3, <2>4, <2>5 DEF RanInv
<1>5. ValueInv'
  BY <1>1, <1>2 DEF RunInv, ValueInv, Sorted
<1>6. TellInv'
  <2>1. CASE MissingSource \/ MetadataPanics
    <3>1. PICK cause \in {"missing_source", "other"} :
            /\ Fail("source_read", "", "", cause) /\ (cause = "missing_source" <=> entry = "nil_source")
            /\ srcMeta = "" /\ data.source = "" /\ data.revision = ""
      BY <2>1 DEF MissingSource, MetadataPanics, RunInv, TellInv
    <3> QED BY <1>1, <2>1, <3>1, StopTells
              DEF MissingSource, MetadataPanics, unchangedInput, Causes
  <2>2. CASE ReadFails
    <3>1. PICK cause \in Dead \cup {"other"} : Fail("source_read", srcMeta, "", cause)
      BY <2>2 DEF ReadFails
    <3>2. entry = "source" /\ data.source = "" /\ data.revision = ""
      BY <2>2 DEF ReadFails, RunInv, TellInv
    <3> QED BY <1>1, <2>2, <3>1, <3>2, StopTells
              DEF ReadFails, unchangedInput, Causes, Dead, Contexts
  <2>3. CASE ContextStops
    <3>1. /\ Fail("context", data.source, data.revision, ctx) /\ ctx \in Dead /\ entry # "nil_source"
          /\ srcMeta # "" => data.source # ""
      BY <2>3 DEF ContextStops, RunInv, TellInv
    <3> QED BY <1>1, <2>3, <3>1, StopTells
              DEF ContextStops, unchangedInput, Causes, Dead, Contexts
  <2>4. CASE Succeed
    <3>1. result' = SucceededResult(data.source, data.revision, sum) /\ (srcMeta # "" => data.source # "")
      BY <2>4 DEF Succeed, Return, RunInv, TellInv
    <3> QED BY <1>1, <2>4, <3>1 DEF Succeed, SucceededResult, TellInv, failed
  <2> QED BY <2>1, <2>2, <2>3, <2>4
<1> QED BY <1>4, <1>5, <1>6 DEF RunInv

(* Nothing is run by the steps that only read, go on or end the context.   *)
LEMMA QuietTellsRun ==
  ASSUME LoadInv, RunInv, ReadMetadata \/ ReadSource \/ GoOn \/ ContextEnds \/ UNCHANGED loadVars
  PROVE  RunInv'
<1>1. UNCHANGED <<result, steps, pending, value, saw, ran>>
  BY DEF ReadMetadata, ReadSource, GoOn, ContextEnds, loadVars, unchangedInput, unchangedRun
<1>2. pc' = pc \/ (pc \in {"metadata", "read"} /\ pc' = "read") \/ pc' \in {"check", "step"}
  BY DEF ReadMetadata, ReadSource, GoOn, ContextEnds, loadVars
<1>3. pc' = "returned" <=> pc = "returned"
  BY DEF ReadMetadata, ReadSource, GoOn, ContextEnds, loadVars
<1>4. Done' = Done /\ FailedInStep' = FailedInStep /\ succeeded' = succeeded /\ failed' = failed
      /\ Planned' = Planned /\ (IsNext(Last(ran)) <=> IsNext(Last(ran))')
  BY <1>1, <1>3 DEF Done, Planned, FailedInStep, succeeded, failed, IsNext
<1>5. RanInv'
  BY <1>1, <1>2, <1>4 DEF RunInv, RanInv, Sorted
<1>6. ValueInv'
  BY <1>1, <1>4 DEF RunInv, ValueInv, Sorted
<1>7. TellInv'
  <2>1. CASE ReadMetadata
    BY <2>1 DEF ReadMetadata, unchangedInput, RunInv, TellInv, failed
  <2>2. CASE ReadSource
    <3>1. pc' = "check" /\ srcMeta' = srcMeta /\ (srcMeta # "" => data'.source # "")
      BY <2>2 DEF ReadSource, SourceDatas
    <3>2. entry' = entry /\ entry = "source"
      BY <2>2 DEF ReadSource, unchangedInput, RunInv, TellInv
    <3> QED BY <3>1, <3>2 DEF TellInv, failed
  <2>3. CASE GoOn \/ ContextEnds
    <3>1. /\ UNCHANGED <<entry, srcMeta, data>> /\ pc' # "returned"
          /\ pc' = pc \/ (pc = "check" /\ pc' = "step")
      BY <2>3 DEF GoOn, ContextEnds, unchangedInput
    <3> QED BY <3>1 DEF RunInv, TellInv, failed
  <2>4. CASE UNCHANGED loadVars
    BY <2>4 DEF loadVars, RunInv, TellInv, failed
  <2> QED BY <2>1, <2>2, <2>3, <2>4
<1> QED BY <1>5, <1>6, <1>7 DEF RunInv

(* A step that begins is listed after those that are done, in its place.   *)
LEMMA BeginTellsRun ==
  ASSUME LoadInv, RunInv, pc = "step", NEW s \in Stages, IsNext(s), Begin(s)
  PROVE  /\ s \in Planned /\ s \in Stages \ {"source_read", "context"}
         /\ \A t \in Done : Position[t] < Position[s]
         /\ \A t \in pending \ {s} : Position[s] < Position[t]
         /\ Sorted(ran') /\ ToSet(ran') = Done \cup {s}
         /\ ran' # <<>> /\ Last(ran') = s
<1>1. s \in pending /\ pending \subseteq Planned /\ Planned \subseteq Callbacks \cup {"pipeline_validate"}
  BY DEF IsNext, RunInv, RanInv, Planned, LoadInv, LoadTypeOK
<1>2. s \in Stages \ {"source_read", "context"}
  BY <1>1 DEF Callbacks
<1>3. \A t \in Done : Position[t] < Position[s]
  BY <1>1 DEF RunInv, RanInv
<1>4. \A t \in pending \ {s} : Position[s] < Position[t]
  <2> SUFFICES ASSUME NEW t \in pending \ {s} PROVE Position[s] < Position[t]
    OBVIOUS
  <2>1. Position[s] <= Position[t] /\ Position[s] # Position[t]
    BY <1>1, PrecedesIsPosition DEF IsNext
  <2>2. Position[s] \in 1 .. 7 /\ Position[t] \in 1 .. 7
    BY <1>1, PrecedesIsPosition
  <2> QED BY <2>1, <2>2
<1>5. ran \in Seq(Stages) /\ Sorted(ran) /\ ToSet(ran) = Done /\ ran' = Append(ran, s)
  BY DEF LoadInv, LoadTypeOK, ResultInv, RunInv, RanInv, FailedInStep, failed, Begin
<1> QED BY <1>1, <1>2, <1>3, <1>4, <1>5, SortedAppend

(* A step that fails is the last of those that ran.                        *)
LEMMA FailureTellsRun ==
  ASSUME LoadInv, RunInv, NEW s \in Stages, StepFails(s)
  PROVE  RunInv'
<1>1. /\ pc = "step" /\ IsNext(s) /\ Begin(s)
      /\ pc' = "returned" /\ UNCHANGED <<srcMeta, data, pending, value, steps>>
  BY DEF StepFails, unchangedInput, Fail, Return
<1>2. PICK cause \in Dead \cup {"other"} : Fail(s, data.source, data.revision, cause)
  BY DEF StepFails
<1>3. /\ s \in Planned /\ s \notin {"source_read", "context"}
      /\ Sorted(ran') /\ ToSet(ran') = Done \cup {s} /\ ran' # <<>> /\ Last(ran') = s
  BY <1>1, BeginTellsRun
<1>4. result'.attempt.status = "failed" /\ result'.attempt.stage = s
  BY <1>2 DEF Fail, Return, FailedResult
<1>5. Done' = Done /\ Planned' = Planned /\ IsNext(s)'
  BY <1>1 DEF Done, Planned, IsNext
<1>6. failed' /\ ~succeeded' /\ FailedInStep' /\ result'.attempt.stage # "source_read"
  BY <1>1, <1>3, <1>4 DEF failed, succeeded, FailedInStep
<1>7. pending \subseteq Planned /\ \A t \in Done, u \in pending : Position[t] < Position[u]
  BY DEF RunInv, RanInv
<1>8. RanInv'
  <2>1. Sorted(ran)'
    BY <1>3 DEF Sorted
  <2>2. IsNext(Last(ran))'
    BY <1>3, <1>5 DEF IsNext
  <2> QED BY <1>1, <1>2, <1>3, <1>4, <1>5, <1>6, <1>7, <2>1, <2>2 DEF RanInv
<1>9. ValueInv'
  <2>1. \A t \in Inspecting \cap Done : saw'[t] = saw[t]
    BY <1>1 DEF Begin, IsNext, Done, LoadInv, LoadTypeOK
  <2> QED BY <1>1, <1>5, <2>1 DEF RunInv, ValueInv, Sorted, Inspecting
<1>10. TellInv'
  <2>1. entry # "nil_source" /\ (srcMeta # "" => data.source # "")
    BY <1>1 DEF RunInv, TellInv
  <2> QED BY <1>1, <1>2, <1>3, <2>1, StopTells
            DEF StepFails, unchangedInput, Causes, Dead, Contexts
<1> QED BY <1>8, <1>9, <1>10 DEF RunInv

(* A step that succeeds is done, and what it saw or made is the value.     *)
LEMMA SuccessTellsRun ==
  ASSUME LoadInv, RunInv, NEW s \in Stages, StepSucceeds(s)
  PROVE  RunInv'
<1>1. /\ pc = "step" /\ IsNext(s) /\ Begin(s) /\ pending' = pending \ {s}
      /\ pc' = "check" /\ UNCHANGED <<srcMeta, data, result, steps>>
      /\ value' = IF s \in Building THEN Append(value, s) ELSE value
  BY DEF StepSucceeds, unchangedInput
<1>2. /\ s \in Planned /\ s \notin {"source_read", "context"}
      /\ \A t \in Done : Position[t] < Position[s]
      /\ \A t \in pending \ {s} : Position[s] < Position[t]
      /\ Sorted(ran') /\ ToSet(ran') = Done \cup {s} /\ ran' # <<>> /\ Last(ran') = s
  BY <1>1, BeginTellsRun
<1>3. Done' = Done \cup {s} /\ Planned' = Planned
  BY <1>1, <1>2 DEF Done, Planned
<1>4. ~failed' /\ ~succeeded' /\ ~FailedInStep'
  BY <1>1 DEF failed, succeeded, FailedInStep
<1>5. pending \subseteq Planned /\ \A t \in Done, u \in pending : Position[t] < Position[u]
  BY DEF RunInv, RanInv
<1>6. RanInv'
  <2>1. Sorted(ran)'
    BY <1>2 DEF Sorted
  <2> QED BY <1>1, <1>2, <1>3, <1>4, <1>5, <2>1 DEF RanInv
<1>7. Sorted(value) /\ ToSet(value) = Done \cap Building /\ value \in Seq(Callbacks)
  BY DEF RunInv, ValueInv, LoadInv, LoadTypeOK
<1>8. Sorted(value)' /\ ToSet(value)' = Done' \cap Building
  <2>1. CASE s \in Building
    <3>1. s \in Callbacks /\ value' = Append(value, s)
      BY <1>1, <2>1 DEF Building, Callbacks
    <3>2. \A t \in ToSet(value) : Position[t] < Position[s]
      BY <1>2, <1>7
    <3>3. Sorted(value') /\ ToSet(value') = ToSet(value) \cup {s}
      BY <1>7, <3>1, <3>2, SortedAppend
    <3> QED BY <1>3, <1>7, <2>1, <3>3 DEF Sorted
  <2>2. CASE s \notin Building
    BY <1>1, <1>3, <1>7, <2>2 DEF Sorted
  <2> QED BY <2>1, <2>2
<1>9. \A t \in Inspecting : saw'[t] = IF t = s THEN value ELSE saw[t]
  BY <1>1 DEF Begin, LoadInv, LoadTypeOK
<1>10. \A t \in {"redact", "checksum"} \cap Done' : saw'[t] = value'
  <2> SUFFICES ASSUME NEW t \in {"redact", "checksum"} \cap Done' PROVE saw'[t] = value'
    OBVIOUS
  <2>1. CASE t = s
    BY <1>1, <1>9, <2>1 DEF Inspecting, Building
  <2>2. CASE t # s
    <3>1. t \in Done /\ saw[t] = value
      BY <1>3, <2>2 DEF RunInv, ValueInv
    <3>2. s \notin Building
      BY <1>2, <3>1, Positions DEF Building
    <3> QED BY <1>1, <1>9, <2>2, <3>1, <3>2 DEF Inspecting
  <2> QED BY <2>1, <2>2
<1>11. "validate_config" \in Done' =>
         /\ Sorted(saw'["validate_config"])
         /\ ToSet(saw'["validate_config"]) = steps \cap {"decode", "defaults"}
  <2>1. CASE s = "validate_config"
    <3>1. saw'["validate_config"] = value
      BY <1>9, <2>1 DEF Inspecting
    <3>2. Done \cap Building = steps \cap {"decode", "defaults"}
      <4>1. \A t \in {"decode", "defaults"} : t \notin pending \ {s}
        BY <1>2, <2>1, Positions
      <4>2. "copy" \notin Done
        BY <1>2, <2>1, Positions
      <4> QED BY <2>1, <4>1, <4>2 DEF Done, Planned, Building
    <3> QED BY <1>7, <3>1, <3>2
  <2>2. CASE s # "validate_config"
    BY <1>3, <1>9, <2>2 DEF RunInv, ValueInv, Inspecting
  <2> QED BY <2>1, <2>2
<1>12. ValueInv'
  BY <1>1, <1>8, <1>10, <1>11 DEF ValueInv, Sorted
<1>13. TellInv'
  BY <1>1 DEF StepSucceeds, unchangedInput, RunInv, TellInv, failed
<1> QED BY <1>6, <1>12, <1>13 DEF RunInv

(* The invariant is kept by every step.                                    *)
LEMMA RunInductive == LoadInv /\ RunInv /\ [LoadNext]_loadVars => RunInv'
BY StopsTellRun, QuietTellsRun, FailureTellsRun, SuccessTellsRun DEF LoadNext, Advance

(* What is sorted and has a set of steps for its elements lists them.      *)
LEMMA SortedLists ==
  ASSUME NEW T, NEW list \in Seq(T), Sorted(list),
         NEW S \in SUBSET (Callbacks \cup {"pipeline_validate"}), ToSet(list) = S
  PROVE  Lists(list, S)
<1>1. \A i \in DOMAIN list : list[i] \in Callbacks \cup {"pipeline_validate"}
  BY DEF ToSet
<1> QED BY <1>1, PrecedesIsPosition DEF Lists, Sorted

(* The redacted view and the checksum of a published snapshot are of the   *)
(* value published, and what was validated is that value but for its copy  *)
(* (the order of the steps in load.go).                                    *)
THEOREM LoadPublishesWhatItInspected == LoadSpec => []SnapshotIsWhatWasInspected
<1>1. LoadInv /\ RunInv => SnapshotIsWhatWasInspected
  <2> SUFFICES ASSUME LoadInv, RunInv, succeeded PROVE SnapshotIsWhatWasInspected
    BY DEF SnapshotIsWhatWasInspected
  <2>1. pending = {} /\ Done = Planned /\ Required \subseteq steps
    BY DEF RunInv, RanInv, Done, LoadInv, Established
  <2>2. /\ Sorted(value) /\ ToSet(value) = steps \cap Building
        /\ saw["redact"] = value /\ saw["checksum"] = value
    BY <2>1 DEF RunInv, ValueInv, Planned, Building, Required
  <2>3. "validate_config" \in steps =>
          /\ Sorted(saw["validate_config"])
          /\ ToSet(saw["validate_config"]) = steps \cap {"decode", "defaults"}
    BY <2>1 DEF RunInv, ValueInv, Planned
  <2>4. value \in Seq(Callbacks) /\ saw["validate_config"] \in Seq(Callbacks)
        /\ steps \in SUBSET Callbacks
    BY DEF LoadInv, LoadTypeOK, Inspecting
  <2> QED BY <2>2, <2>3, <2>4, SortedLists DEF SnapshotIsWhatWasInspected
<1> QED BY LoadInitial, LoadInductive, RunInitial, RunInductive, <1>1, PTL DEF LoadSpec

(* The result of a load tells what ran: the steps in order, up to the one  *)
(* it names if it failed in one, all of them if it succeeded; the code of  *)
(* the failure (attemptFailure); and the source and revision of the data   *)
(* as far as they were known.                                              *)
THEOREM LoadTellsWhatHappened == LoadSpec => []ResultTellsWhatHappened
<1>1. LoadInv /\ RunInv => ResultTellsWhatHappened
  <2> SUFFICES ASSUME LoadInv, RunInv PROVE ResultTellsWhatHappened
    OBVIOUS
  <2> DEFINE all == Callbacks \cup {"pipeline_validate"}
  <2>1. pending \subseteq Planned /\ Planned \subseteq all /\ Done = Planned \ pending
    BY DEF RunInv, RanInv, Planned, LoadInv, LoadTypeOK, Done
  <2>2. ToSet(ran) \subseteq Planned /\ Sorted(ran)
    BY <2>1 DEF RunInv, RanInv, IsNext
  <2>3. Lists(ran, Planned \cap ToSet(ran))
    <3>1. ran \in Seq(Stages) /\ Planned \cap ToSet(ran) = ToSet(ran)
      BY <2>2 DEF LoadInv, LoadTypeOK
    <3> QED BY <2>1, <2>2, <3>1, SortedLists
  <2>4. \A s \in ToSet(ran), t \in Planned \ ToSet(ran) : Precedes(s, t)
    <3> SUFFICES ASSUME NEW s \in ToSet(ran), NEW t \in Planned \ ToSet(ran)
                 PROVE  Position[s] < Position[t]
      BY <2>1, <2>2, PrecedesIsPosition
    <3>1. \/ ToSet(ran) = Done
          \/ ToSet(ran) = Done \cup {Last(ran)} /\ IsNext(Last(ran))
      BY DEF RunInv, RanInv
    <3>2. t \in pending /\ (s \in Done \/ IsNext(s))
      BY <2>1, <3>1
    <3>3. CASE s \in Done
      BY <3>2, <3>3 DEF RunInv, RanInv
    <3>4. CASE IsNext(s)
      <4>1. Position[s] <= Position[t] /\ Position[s] # Position[t]
        BY <2>1, <2>2, <3>2, <3>4, PrecedesIsPosition DEF IsNext
      <4>2. Position[s] \in 1 .. 7 /\ Position[t] \in 1 .. 7
        BY <2>1, <2>2, PrecedesIsPosition
      <4> QED BY <4>1, <4>2
    <3> QED BY <3>2, <3>3, <3>4
  <2>5. succeeded => ToSet(ran) = Planned
    BY <2>1 DEF RunInv, RanInv, FailedInStep, failed, succeeded
  <2>6. ASSUME failed
        PROVE  LET a == result.attempt
               IN  /\ \/ a.stage = "source_read" /\ ran = <<>>
                      \/ a.stage = "context" /\ ToSet(ran) \cap pending = {} /\ a.failure = ctx
                      \/ ran # <<>> /\ a.stage = Last(ran)
                   /\ a.failure = IF why \in Dead THEN why
                                  ELSE IF entry = "nil_source" THEN "missing_source" ELSE a.stage
    <3>1. \/ result.attempt.stage = "source_read" /\ ran = <<>>
          \/ result.attempt.stage = "context" /\ ToSet(ran) \cap pending = {}
          \/ ran # <<>> /\ result.attempt.stage = Last(ran)
      BY <2>1, <2>6 DEF RunInv, RanInv, FailedInStep
    <3>2. /\ why \in Causes /\ (why = "missing_source" <=> entry = "nil_source")
          /\ result.attempt.failure = AttemptFailure(result.attempt.stage, why)
          /\ result.attempt.stage = "context" => why \in Dead /\ why = ctx
      BY <2>6 DEF RunInv, TellInv
    <3>3. result.attempt.stage = "context" => result.attempt.failure = ctx
      BY <3>2 DEF AttemptFailure, Dead, Contexts
    <3>4. result.attempt.failure = IF why \in Dead THEN why
             ELSE IF entry = "nil_source" THEN "missing_source" ELSE result.attempt.stage
      BY <3>2 DEF AttemptFailure, Causes, Dead, Contexts
    <3> QED BY <3>1, <3>3, <3>4
  <2>7. pc = "returned" =>
          /\ result.attempt.revision = data.revision
          /\ result.attempt.source = IF data.source = "" THEN srcMeta ELSE data.source
    BY DEF RunInv, TellInv
  <2> QED BY <2>3, <2>4, <2>5, <2>6, <2>7 DEF ResultTellsWhatHappened
<1> QED BY LoadInitial, LoadInductive, RunInitial, RunInductive, <1>1, PTL DEF LoadSpec

(* The contract speaks of the same contexts, results and outcomes.         *)
LEMMA ContractVocabulary ==
  /\ Contract!Contexts = Contexts
  /\ Contract!Dead = Dead
  /\ Contract!LoadResult = LoadResult
  /\ \A r, k : Contract!Outcome(r, k) <=> Outcome(r, k)
<1>1. Contract!Contexts = Contexts /\ Contract!Dead = Dead
  BY Zenon DEF Contract!Contexts, Contract!Dead, Contexts, Dead
<1>2. Contract!LoadResult = LoadResult
  <2>1. Contract!Stages = Stages
    BY Zenon DEF Contract!Stages, Stages
  <2>2. Contract!Failures = Failures
    BY <1>1, <2>1, Zenon DEF Contract!Failures, Failures, Contract!FailureCodes, FailureCodes,
                             Contract!Causes, Causes
  <2>3. Contract!Metadata = Metadata
    BY Zenon DEF Contract!Metadata, Metadata
  <2> QED
    BY <2>1, <2>2, <2>3, Zenon DEF Contract!LoadResult, LoadResult,
                                   Contract!AttemptRecord, AttemptRecord
<1>3. \A r, k : Contract!Outcome(r, k) <=> Outcome(r, k)
  BY <1>1, Zenon
  DEF Contract!Outcome, Outcome, Contract!ValidLoadResult, ValidLoadResult,
      Contract!ValidSucceeded, ValidSucceeded, Contract!ValidFailed, ValidFailed
<1> QED BY <1>1, <1>2, <1>3

(* Load implements the contract that Manager relies on.                    *)
THEOREM LoadKeepsContract == LoadSpec => KeepsContract
<1>1. LoadInit => Contract!ContractInit
  <2> SUFFICES ASSUME LoadInit PROVE Contract!ContractInit
    OBVIOUS
  <2>1. ctx \in Contexts /\ result = Nil
    BY Zenon DEF LoadInit
  <2>2. pc # "returned"
    BY DEF LoadInit
  <2> QED BY <2>1, <2>2, ContractVocabulary DEF Contract!ContractInit
<1>2. LoadInv /\ LoadInv' /\ [LoadNext]_loadVars
        => [Contract!Ends \/ Contract!Returns]_(Contract!contractVars)
  <2> SUFFICES ASSUME LoadInv, LoadInv', [LoadNext]_loadVars
               PROVE  [Contract!Ends \/ Contract!Returns]_(Contract!contractVars)
    OBVIOUS
  <2> USE DEF Contract!Ends, Contract!Returns, Contract!contractVars
  <2>1. CASE UNCHANGED loadVars
    BY <2>1 DEF loadVars
  <2>2. ASSUME pc # "returned", pc' = "returned", Outcome(result', ctx), UNCHANGED ctx
        PROVE  Contract!Returns
    <3>1. result' \in LoadResult
      BY <2>2 DEF LoadInv, ResultInv
    <3> QED BY <2>2, <3>1, ContractVocabulary
  <2>3. CASE MissingSource \/ MetadataPanics \/ ReadFails \/ ContextStops \/ Succeed
    <3>1. UNCHANGED ctx
      BY <2>3 DEF MissingSource, MetadataPanics, ReadFails, ContextStops, Succeed, unchangedInput
    <3> QED BY <2>2, <2>3, <3>1, StopsAreFailures, SucceedSucceeds
  <2>4. CASE ReadMetadata \/ ReadSource \/ GoOn
    <3>1. UNCHANGED ctx
      BY <2>4 DEF ReadMetadata, ReadSource, GoOn, unchangedInput
    <3> QED BY <2>4, <3>1, QuietSteps
  <2>5. ASSUME NEW s \in Stages, StepSucceeds(s)
        PROVE  UNCHANGED Contract!contractVars
    BY <2>5, StepsKeepInv
  <2>6. ASSUME NEW s \in Stages, StepFails(s)
        PROVE  Contract!Returns
    <3>1. UNCHANGED ctx
      BY <2>6 DEF StepFails, unchangedInput
    <3> QED BY <2>2, <2>6, <3>1, StepFailures
  <2>7. CASE ContextEnds
    <3>1. ctx = "live" /\ ctx' \in Dead
      BY <2>7 DEF ContextEnds
    <3>2. pc # "returned" /\ pc' # "returned" /\ UNCHANGED result
      BY <2>7, QuietSteps
    <3> QED BY <3>1, <3>2, ContractVocabulary
  <2> QED BY <2>1, <2>3, <2>4, <2>5, <2>6, <2>7 DEF LoadNext, Advance
<1> QED
  BY <1>1, <1>2, LoadInitial, LoadInductive, PTL DEF LoadSpec, KeepsContract, Contract!ContractSpec
=============================================================================
