---------------------------- MODULE ManagerProofs ----------------------------
(***************************************************************************)
(* Proofs about Admission and Manager, for any callers, results, observers *)
(* and limits.                                                             *)
(***************************************************************************)
EXTENDS ManagerProperties, SequenceTheorems, TLAPS

(***************************************************************************)
(* The admission admits one caller at a time, and neither loses nor        *)
(* invents its token.                                                      *)
(***************************************************************************)
(* The inductive invariant.  Mutual exclusion alone is not inductive: a    *)
(* state with an empty channel and a holder would let a second caller in.  *)
AdmInv == AdmTypeOK /\ MutualExclusion /\ TokenHasOwner

(* Every step of the algorithm keeps the invariant.  The steps that can    *)
(* disturb it are those that fill or empty the channel.                    *)
LEMMA AdmInductive == AdmInv /\ [AdmNext]_admVars => AdmInv'
<1> SUFFICES ASSUME AdmInv, [AdmNext]_admVars
             PROVE  AdmInv'
  OBVIOUS
<1> USE DEF AdmInv, AdmTypeOK, AdmStates, Contexts, Dead, MutualExclusion, TokenHasOwner, Holds
<1>1. CASE UNCHANGED admVars
  BY <1>1 DEF admVars
<1>2. ASSUME NEW c \in Callers, NEW k \in Contexts, Enter(c, k)
      PROVE  AdmInv'
  BY <1>2 DEF Enter
<1>3. ASSUME NEW c \in Callers, EntryCheck(c)
      PROVE  AdmInv'
  BY <1>3 DEF EntryCheck
<1>4. ASSUME NEW c \in Callers, Take(c)
      PROVE  AdmInv'
  <2>1. \A d \in Callers : ~Holds(d)
    BY <1>4 DEF Take
  <2>2. \A d \in Callers : Holds(d)' <=> d = c
    BY <2>1, <1>4 DEF Take
  <2> QED BY <2>2, <1>4 DEF Take
<1>5. ASSUME NEW c \in Callers, GiveUp(c)
      PROVE  AdmInv'
  BY <1>5 DEF GiveUp
<1>6. ASSUME NEW c \in Callers, RecheckLive(c)
      PROVE  AdmInv'
  BY <1>6 DEF RecheckLive
<1>7. ASSUME NEW c \in Callers, RecheckDead(c)
      PROVE  AdmInv'
  <2>1. \A d \in Callers : ~Holds(d)'
    BY <1>7 DEF RecheckDead
  <2> QED BY <2>1, <1>7 DEF RecheckDead
<1>8. ASSUME NEW c \in Callers, Release(c)
      PROVE  AdmInv'
  <2>1. \A d \in Callers : ~Holds(d)'
    BY <1>8 DEF Release
  <2> QED BY <2>1, <1>8 DEF Release
<1>9. ASSUME NEW c \in Callers, Leave(c)
      PROVE  AdmInv'
  BY <1>9 DEF Leave
<1>10. ASSUME NEW c \in Callers, NEW k \in Dead, Cancel(c, k)
       PROVE  AdmInv'
  BY <1>10 DEF Cancel
<1> QED
  BY <1>1, <1>2, <1>3, <1>4, <1>5, <1>6, <1>7, <1>8, <1>9, <1>10 DEF AdmNext, Acquiring

(* The invariant holds before the first caller enters.                     *)
LEMMA AdmInitial == AdmInit => AdmInv
  BY DEF AdmInit, AdmInv, AdmTypeOK, AdmStates, Contexts, MutualExclusion, TokenHasOwner, Holds

(* acquire and release admit at most one caller at any time.               *)
THEOREM AdmissionMutualExclusion == AdmSpec => []MutualExclusion
<1>1. AdmInv => MutualExclusion
  BY DEF AdmInv
<1> QED BY AdmInitial, AdmInductive, <1>1, PTL DEF AdmSpec

(* The channel holds a token exactly while a caller owns it.               *)
THEOREM AdmissionKeepsToken == AdmSpec => []TokenHasOwner
<1>1. AdmInv => TokenHasOwner
  BY DEF AdmInv
<1> QED BY AdmInitial, AdmInductive, <1>1, PTL DEF AdmSpec

(***************************************************************************)
(* Manager uses the admission as the admission is meant to be used, so     *)
(* what is proved of Admission holds of Manager.                           *)
(***************************************************************************)
LEMMA ManagerStepIsAdmissionStep == [ManagerNext]_vars => [AdmNext]_admVars
<1> SUFFICES ASSUME [ManagerNext]_vars PROVE [AdmNext]_admVars
  OBVIOUS
<1> USE DEF AdmNext
<1>1. CASE UNCHANGED vars
  BY <1>1 DEF vars
<1>2. ASSUME NEW c \in Callers, NEW k \in Contexts, CallLoad(c, k)
      PROVE  AdmNext
  BY <1>2 DEF CallLoad
<1>3. ASSUME NEW c \in Callers, NEW k \in Contexts, NEW r \in ExternalResults, CallApply(c, k, r)
      PROVE  AdmNext
  BY <1>3 DEF CallApply
<1>4. ASSUME NEW c \in Callers, Acquire(c)
      PROVE  AdmNext
  BY <1>4 DEF Acquire
<1>5. ASSUME NEW c \in Callers, NEW k \in Dead, CancelCall(c, k)
      PROVE  AdmNext
  BY <1>5 DEF CancelCall
<1>6. ASSUME NEW c \in Callers, ReturnRefused(c) \/ Return(c)
      PROVE  AdmNext
  BY <1>6 DEF ReturnRefused, Return
<1>7. ASSUME NEW c \in Callers,
             \/ StartLoad(c) \/ RunLoad(c) \/ CommitLoad(c)
             \/ AcceptExternal(c) \/ RejectExternal(c) \/ Deliver(c)
      PROVE  UNCHANGED admVars
  BY <1>7 DEF StartLoad, RunLoad, CommitLoad, AcceptExternal, RejectExternal, Deliver
<1> QED
  BY <1>1, <1>2, <1>3, <1>4, <1>5, <1>6, <1>7 DEF ManagerNext, Work

(* Every behaviour of Manager is one of Admission.                         *)
THEOREM ManagerImplementsAdmission == ManagerSpec => AdmSpec
<1>1. ManagerInit => AdmInit
  BY DEF ManagerInit
<1> QED BY <1>1, ManagerStepIsAdmissionStep, PTL DEF ManagerSpec, AdmSpec

(***************************************************************************)
(* The operators on results.                                               *)
(***************************************************************************)
LEMMA WithIDProperties ==
  ASSUME NEW r \in LoadResult, NEW n \in Nat
  PROVE  /\ WithID(r, n) \in LoadResult
         /\ WithID(r, n).attempt.id = n
         /\ WithID(r, n).attempt.status = r.attempt.status
         /\ WithID(r, n).snapshot = r.snapshot
         /\ ValidLoadResult(WithID(r, n)) <=> ValidLoadResult(r)
<1> DEFINE a == [r.attempt EXCEPT !.id = n]
<1>1. r.attempt \in AttemptRecord /\ r.snapshot \in Metadata \cup {Nil}
  BY DEF LoadResult
<1>2. a \in AttemptRecord
  BY <1>1 DEF AttemptRecord
<1>3. /\ a.id = n /\ a.status = r.attempt.status /\ a.stage = r.attempt.stage
      /\ a.source = r.attempt.source /\ a.revision = r.attempt.revision
      /\ a.checksum = r.attempt.checksum /\ a.failure = r.attempt.failure
  BY <1>1 DEF AttemptRecord
<1> HIDE DEF a
<1>4. WithID(r, n) = [snapshot |-> r.snapshot, attempt |-> a]
  BY DEF WithID, a
<1>5. WithID(r, n) \in LoadResult
  BY <1>1, <1>2, <1>4 DEF LoadResult
<1>6. WithID(r, n).attempt = a /\ WithID(r, n).snapshot = r.snapshot
  BY <1>4
<1> QED
  BY <1>3, <1>5, <1>6 DEF ValidLoadResult, ValidSucceeded, ValidFailed

(* The state derived from a snapshot and an attempt is a lifecycle state.  *)
LEMMA LifecycleStateType ==
  ASSUME NEW s, NEW a
  PROVE  LifecycleState(s, a) \in LifecycleStates
BY DEF LifecycleState, LifecycleStates

(* The apply result computed for a valid load result has its type.         *)
LEMMA AppliedType ==
  ASSUME NEW s \in Metadata \cup {Nil}, NEW r \in LoadResult
  PROVE  Applied(s, r) \in ApplyResult
<1> DEFINE published == r.attempt.status = "succeeded" /\ r.snapshot # Nil
           after     == IF published THEN r.snapshot ELSE s
           changed   == published /\ (s # Nil => s.checksum # r.snapshot.checksum)
<1>1. after \in Metadata \cup {Nil}
  BY DEF LoadResult
<1>2. LifecycleState(after, r.attempt) \in LifecycleStates
  BY LifecycleStateType
<1>3. published \in BOOLEAN /\ changed \in BOOLEAN
  OBVIOUS
<1>4. Applied(s, r) = [published |-> published, changed |-> changed, previous |-> s,
                       current |-> after, state |-> LifecycleState(after, r.attempt)]
  BY Zenon DEF Applied
<1> HIDE DEF published, after, changed
<1> QED
  BY <1>1, <1>2, <1>3, <1>4 DEF ApplyResult

(* The history stays a sequence of attempt records.                        *)
LEMMA RecordAttemptType ==
  ASSUME ManagerTypeOK, NEW a \in AttemptRecord
  PROVE  RecordAttempt(a) \in Seq(AttemptRecord)
<1> DEFINE limit  == historyLimit
           longer == Append(attemptHistory, a)
<1>1. limit \in Int
  BY ManagerAssumption DEF historyLimit, ManagerTypeOK
<1>2. attemptHistory \in Seq(AttemptRecord) /\ longer \in Seq(AttemptRecord)
  BY DEF ManagerTypeOK
<1>3. ASSUME limit >= 0, Len(longer) > limit
      PROVE  SubSeq(longer, Len(longer) - limit + 1, Len(longer)) \in Seq(AttemptRecord)
  <2> HIDE DEF longer, limit
  <2> QED BY <1>1, <1>2, <1>3
<1>4. RecordAttempt(a) = IF limit < 0 THEN attemptHistory
                         ELSE IF Len(longer) <= limit THEN longer
                         ELSE SubSeq(longer, Len(longer) - limit + 1, Len(longer))
  BY Zenon DEF RecordAttempt
<1> HIDE DEF limit, longer
<1> QED BY <1>1, <1>2, <1>3, <1>4

(* A commit of a valid result keeps the types of the manager's state.      *)
LEMMA CommitType ==
  ASSUME ManagerTypeOK, NEW r \in LoadResult, Commit(r)
  PROVE  /\ current' \in Metadata \cup {Nil}
         /\ lastAttempt' \in AttemptRecord \cup {Nil}
         /\ lastSuccess' \in AttemptRecord \cup {Nil}
         /\ lastFailure' \in AttemptRecord \cup {Nil}
         /\ lastApply' \in ApplyResult \cup {Nil}
         /\ attemptHistory' \in Seq(AttemptRecord)
         /\ accepted' \in Seq(LoadResult)
<1>1. r.attempt \in AttemptRecord /\ r.snapshot \in Metadata \cup {Nil}
  BY DEF LoadResult
<1>2. lastAttempt' \in AttemptRecord \cup {Nil}
  BY <1>1 DEF Commit
<1>3. /\ current' \in Metadata \cup {Nil}
      /\ lastSuccess' \in AttemptRecord \cup {Nil}
      /\ lastFailure' \in AttemptRecord \cup {Nil}
  BY <1>1 DEF Commit, ManagerTypeOK
<1>4. lastApply' \in ApplyResult \cup {Nil}
  BY AppliedType DEF Commit, ManagerTypeOK
<1>5. attemptHistory' \in Seq(AttemptRecord)
  BY <1>1, RecordAttemptType DEF Commit
<1>6. accepted' \in Seq(LoadResult)
  <2>1. accepted \in Seq(LoadResult) /\ accepted' = Append(accepted, r)
    BY DEF Commit, ManagerTypeOK
  <2> QED BY <2>1
<1> QED BY <1>2, <1>3, <1>4, <1>5, <1>6

(***************************************************************************)
(* Where a call is.  The invariant ties a call's phase to its place in the *)
(* admission, which is what makes its steps exclusive, and says what each  *)
(* phase may rely on: a load that is under way has the number assigned     *)
(* last, and a loaded result is one that the manager accepts.              *)
(***************************************************************************)
CallInv ==
  \A c \in Callers :
    /\ phase[c] = "idle" => adm[c] = "out"
    /\ phase[c] \in {"started", "loaded", "finishing"} => adm[c] = "admitted"
    /\ events[c] # <<>> => phase[c] \in {"started", "finishing"}
    /\ phase[c] = "apply" => job[c] \in LoadResult
    /\ phase[c] = "started" => attemptID[c] = nextAttemptID
    /\ phase[c] = "loaded" => /\ job[c] \in LoadResult
                              /\ ValidLoadResult(job[c])
                              /\ job[c].attempt.id = nextAttemptID

BaseInv == AdmInv /\ ManagerTypeOK /\ CallInv

(* The base invariant holds of a new manager.                              *)
LEMMA BaseInitial == ManagerInit => BaseInv
<1> SUFFICES ASSUME ManagerInit PROVE BaseInv
  OBVIOUS
<1>1. AdmInv
  BY AdmInitial DEF ManagerInit
<1>2. ManagerTypeOK
  <2>1. /\ current = Nil /\ lastAttempt = Nil /\ lastSuccess = Nil /\ lastFailure = Nil
        /\ lastApply = Nil /\ attemptHistory = <<>> /\ accepted = <<>>
        /\ nextAttemptID = 0 /\ calls = 0
    BY Zenon DEF ManagerInit
  <2>2. /\ phase = [c \in Callers |-> "idle"] /\ job = [c \in Callers |-> Nil]
        /\ attemptID = [c \in Callers |-> 0] /\ events = [c \in Callers |-> <<>>]
        /\ turn = [c \in Callers |-> 1] /\ delivered = [o \in Observers |-> <<>>]
    BY Zenon DEF ManagerInit
  <2>3. attemptHistoryLimit \in Int
    BY ManagerAssumption DEF ManagerInit, NewManagerLimit
  <2>4. phase \in [Callers -> Phases] /\ job \in [Callers -> LoadResult \cup {Nil}]
    BY <2>2 DEF Phases
  <2>5. attemptID \in [Callers -> Nat] /\ turn \in [Callers -> Observers]
    BY <2>2, ManagerAssumption DEF Observers
  <2>6. events \in [Callers -> Seq(Event)] /\ delivered \in [Observers -> Seq(Event)]
    <3>1. <<>> \in Seq(Event)
      OBVIOUS
    <3> QED BY <2>2, <3>1
  <2>7. attemptHistory \in Seq(AttemptRecord) /\ accepted \in Seq(LoadResult)
    <3>1. <<>> \in Seq(AttemptRecord) /\ <<>> \in Seq(LoadResult)
      OBVIOUS
    <3> QED BY <2>1, <3>1, Zenon
  <2> QED
    BY <1>1, <2>1, <2>3, <2>4, <2>5, <2>6, <2>7 DEF ManagerTypeOK, AdmInv
<1>3. CallInv
  BY Zenon DEF ManagerInit, AdmInit, CallInv
<1> QED BY <1>1, <1>2, <1>3 DEF BaseInv

(* A working caller is the only one.                                       *)
LEMMA OneWorks ==
  ASSUME BaseInv, NEW c \in Callers, NEW d \in Callers,
         adm[c] = "admitted", adm[d] = "admitted" \/ phase[d] \in {"started", "loaded", "finishing"}
  PROVE  c = d
BY DEF BaseInv, AdmInv, CallInv, MutualExclusion, Holds

(* Calling Load or Apply keeps the base invariant.                         *)
LEMMA BaseCall ==
  ASSUME BaseInv, NEW c \in Callers, NEW k \in Contexts,
         CallLoad(c, k) \/ \E r \in ExternalResults : CallApply(c, k, r)
  PROVE  ManagerTypeOK' /\ CallInv'
<1>1. AdmTypeOK'
  BY ManagerStepIsAdmissionStep, AdmInductive DEF BaseInv, AdmInv, ManagerNext
<1>2. /\ adm[c] = "out" /\ adm' = [adm EXCEPT ![c] = "entering"]
      /\ phase' \in {[phase EXCEPT ![c] = "load"], [phase EXCEPT ![c] = "apply"]}
      /\ UNCHANGED <<nextAttemptID, state, attemptHistoryLimit, attemptID, events, turn, delivered>>
      /\ calls' = calls + 1
  BY DEF CallLoad, CallApply, Enter
<1>3. job' \in [Callers -> LoadResult \cup {Nil}] /\ (phase'[c] = "apply" => job'[c] \in LoadResult)
  BY ManagerAssumption DEF CallLoad, CallApply, BaseInv, ManagerTypeOK
<1>4. \A d \in Callers \ {c} : job'[d] = job[d]
  BY DEF CallLoad, CallApply, BaseInv, ManagerTypeOK
<1>5. ManagerTypeOK'
  <2>1. phase' \in [Callers -> Phases]
    BY <1>2 DEF BaseInv, ManagerTypeOK, Phases
  <2>2. calls' \in Nat
    BY <1>2 DEF BaseInv, ManagerTypeOK
  <2> QED BY <1>1, <1>2, <1>3, <2>1, <2>2 DEF BaseInv, ManagerTypeOK, state
<1>6. CallInv'
  BY <1>2, <1>3, <1>4 DEF BaseInv, CallInv, ManagerTypeOK, AdmTypeOK
<1> QED BY <1>5, <1>6

(* So do the steps in acquire, a cancellation and a refused return.        *)
LEMMA BaseAcquire ==
  ASSUME BaseInv, NEW c \in Callers,
         Acquire(c) \/ (\E k \in Dead : CancelCall(c, k)) \/ ReturnRefused(c)
  PROVE  ManagerTypeOK' /\ CallInv'
<1>1. AdmTypeOK'
  BY ManagerStepIsAdmissionStep, AdmInductive DEF BaseInv, AdmInv, ManagerNext, Work
<1>2. CASE Acquire(c) \/ (\E k \in Dead : CancelCall(c, k))
  <2>1. UNCHANGED <<nextAttemptID, state, attemptHistoryLimit, callVars, delivered, calls>>
    BY <1>2 DEF Acquire, CancelCall
  <2>2. \A d \in Callers : /\ adm[d] = "out" => adm'[d] = "out"
                           /\ adm[d] = "admitted" => adm'[d] = "admitted"
    BY <1>2 DEF Acquire, Acquiring, EntryCheck, Take, GiveUp, RecheckLive, RecheckDead,
                CancelCall, Cancel, BaseInv, ManagerTypeOK, AdmTypeOK
  <2>3. ManagerTypeOK'
    BY <1>1, <2>1 DEF BaseInv, ManagerTypeOK, state, callVars
  <2>4. CallInv'
    <3>1. /\ phase' = phase /\ job' = job /\ attemptID' = attemptID
          /\ events' = events /\ nextAttemptID' = nextAttemptID
      BY <2>1 DEF callVars
    <3> QED BY <2>2, <3>1 DEF BaseInv, CallInv
  <2> QED BY <2>3, <2>4
<1>3. CASE ReturnRefused(c)
  <2>1. /\ adm[c] = "refused" /\ adm' = [adm EXCEPT ![c] = "out"]
        /\ phase' = [phase EXCEPT ![c] = "idle"] /\ job' = [job EXCEPT ![c] = Nil]
        /\ UNCHANGED <<nextAttemptID, state, attemptHistoryLimit, attemptID, events, turn,
                       delivered, calls>>
    BY <1>3 DEF ReturnRefused, Leave
  <2>2. ManagerTypeOK'
    BY <1>1, <2>1 DEF BaseInv, ManagerTypeOK, state, Phases
  <2>3. CallInv'
    BY <2>1 DEF BaseInv, CallInv, ManagerTypeOK, AdmTypeOK
  <2> QED BY <2>2, <2>3
<1> QED BY <1>2, <1>3

(* So does the start of a load, which numbers it.                          *)
LEMMA BaseStart ==
  ASSUME BaseInv, NEW c \in Callers, StartLoad(c)
  PROVE  ManagerTypeOK' /\ CallInv'
<1>1. /\ phase[c] = "load" /\ adm[c] = "admitted" /\ nextAttemptID' = nextAttemptID + 1
      /\ attemptID' = [attemptID EXCEPT ![c] = nextAttemptID']
      /\ phase' = [phase EXCEPT ![c] = "started"]
      /\ UNCHANGED <<admVars, state, attemptHistoryLimit, job, turn, delivered, calls>>
  BY DEF StartLoad
<1>2. PICK e : /\ events' = [events EXCEPT ![c] = <<e>>]
               /\ e = [kind |-> "load_started", id |-> nextAttemptID', state |-> managerState]
  BY DEF StartLoad
<1>3. nextAttemptID \in Nat /\ nextAttemptID' \in Nat
  BY <1>1 DEF BaseInv, ManagerTypeOK
<1>4. e \in Event
  BY <1>2, <1>3, LifecycleStateType DEF Event, EventKinds, managerState
<1>5. events' \in [Callers -> Seq(Event)]
  BY <1>2, <1>4 DEF BaseInv, ManagerTypeOK
<1>6. ManagerTypeOK'
  BY <1>1, <1>3, <1>5 DEF BaseInv, ManagerTypeOK, AdmTypeOK, state, admVars, Phases
<1>7. \A d \in Callers \ {c} : phase[d] \notin {"started", "loaded", "finishing"}
  BY <1>1, OneWorks
<1>8. \A d \in Callers \ {c} : /\ phase'[d] = phase[d] /\ events'[d] = events[d]
                               /\ attemptID'[d] = attemptID[d]
  BY <1>1, <1>2 DEF BaseInv, ManagerTypeOK
<1>9. phase'[c] = "started" /\ attemptID'[c] = nextAttemptID'
  BY <1>1 DEF BaseInv, ManagerTypeOK
<1>10. CallInv'
  BY <1>1, <1>7, <1>8, <1>9 DEF BaseInv, CallInv, admVars
<1> QED BY <1>6, <1>10

(* So does the load itself.                                                *)
LEMMA BaseRun ==
  ASSUME BaseInv, NEW c \in Callers, RunLoad(c)
  PROVE  ManagerTypeOK' /\ CallInv'
<1>1. /\ phase[c] = "started" /\ events[c] = <<>>
      /\ phase' = [phase EXCEPT ![c] = "loaded"]
      /\ UNCHANGED <<admVars, nextAttemptID, state, attemptHistoryLimit, attemptID, events,
                     turn, delivered, calls>>
  BY DEF RunLoad
<1>2. PICK r \in LoadResults : /\ Outcome(r, ctx[c])
                               /\ job' = [job EXCEPT ![c] = WithID(r, attemptID[c])]
  BY DEF RunLoad
<1>3. attemptID[c] = nextAttemptID /\ nextAttemptID \in Nat
  BY <1>1 DEF BaseInv, CallInv, ManagerTypeOK
<1>4. /\ WithID(r, nextAttemptID) \in LoadResult
      /\ ValidLoadResult(WithID(r, nextAttemptID))
      /\ WithID(r, nextAttemptID).attempt.id = nextAttemptID
  BY <1>2, <1>3, WithIDProperties, ManagerAssumption DEF Outcome
<1>5. ManagerTypeOK'
  BY <1>1, <1>2, <1>3, <1>4 DEF BaseInv, ManagerTypeOK, AdmTypeOK, state, admVars, Phases
<1>6. job'[c] = WithID(r, nextAttemptID)
  BY <1>2, <1>3 DEF BaseInv, ManagerTypeOK
<1>7. \A d \in Callers \ {c} : phase'[d] = phase[d] /\ job'[d] = job[d]
  BY <1>1, <1>2 DEF BaseInv, ManagerTypeOK
<1>8. phase'[c] = "loaded"
  BY <1>1 DEF BaseInv, ManagerTypeOK
<1>9. adm[c] = "admitted"
  BY <1>1 DEF BaseInv, CallInv
<1>10. CallInv'
  BY <1>1, <1>4, <1>6, <1>7, <1>8, <1>9 DEF BaseInv, CallInv, admVars
<1> QED BY <1>5, <1>10

(* The events that follow a result are typed.                              *)
LEMMA CompletionEventsType ==
  ASSUME BaseInv, NEW r \in LoadResult
  PROVE  Finished(r) \in Seq(Event) /\ SnapshotApplied(r) \in Seq(Event)
<1>1. current \in Metadata \cup {Nil} /\ r.attempt.id \in Nat
  BY DEF BaseInv, ManagerTypeOK, LoadResult, AttemptRecord
<1>2. Applied(current, r).state \in LifecycleStates
  BY <1>1, AppliedType DEF ApplyResult
<1>3. \A k \in EventKinds :
        [kind |-> k, id |-> r.attempt.id, state |-> Applied(current, r).state] \in Event
  BY <1>1, <1>2 DEF Event
<1>4. \A e \in Event : <<e>> \in Seq(Event)
  OBVIOUS
<1>5. <<>> \in Seq(Event)
  OBVIOUS
<1>6. Finished(r) \in Seq(Event)
  BY <1>3, <1>4 DEF Finished, EventKinds
<1>7. SnapshotApplied(r) \in Seq(Event)
  <2>1. <<[kind |-> "snapshot_applied", id |-> r.attempt.id,
           state |-> Applied(current, r).state]>> \in Seq(Event)
    BY <1>3, <1>4 DEF EventKinds
  <2> QED BY <1>5, <2>1, Zenon DEF SnapshotApplied
<1> QED BY <1>6, <1>7

(* So does the commit of a load's result.                                  *)
LEMMA BaseCommit ==
  ASSUME BaseInv, NEW c \in Callers, CommitLoad(c)
  PROVE  ManagerTypeOK' /\ CallInv'
<1>1. /\ phase[c] = "loaded" /\ phase' = [phase EXCEPT ![c] = "finishing"]
      /\ Commit(job[c])
      /\ events' = [events EXCEPT ![c] = Finished(job[c]) \o SnapshotApplied(job[c])]
      /\ UNCHANGED <<admVars, nextAttemptID, attemptHistoryLimit, job, attemptID, turn,
                     delivered, calls>>
  BY DEF CommitLoad
<1>2. job[c] \in LoadResult /\ adm[c] = "admitted"
  BY <1>1 DEF BaseInv, CallInv
<1>3. Finished(job[c]) \o SnapshotApplied(job[c]) \in Seq(Event)
  <2>1. Finished(job[c]) \in Seq(Event) /\ SnapshotApplied(job[c]) \in Seq(Event)
    BY <1>2, CompletionEventsType
  <2> QED BY <2>1
<1>4. events' \in [Callers -> Seq(Event)] /\ phase' \in [Callers -> Phases]
  BY <1>1, <1>3 DEF BaseInv, ManagerTypeOK, Phases
<1>5. ManagerTypeOK'
  BY <1>1, <1>2, <1>4, CommitType DEF BaseInv, ManagerTypeOK, AdmTypeOK, admVars
<1>6. /\ phase'[c] = "finishing"
      /\ \A d \in Callers \ {c} : phase'[d] = phase[d] /\ events'[d] = events[d]
  BY <1>1 DEF BaseInv, ManagerTypeOK
<1>7. CallInv'
  BY <1>1, <1>2, <1>6 DEF BaseInv, CallInv, admVars
<1> QED BY <1>5, <1>7

(* So does applying, or refusing, an external result.                      *)
LEMMA BaseExternal ==
  ASSUME BaseInv, NEW c \in Callers, AcceptExternal(c) \/ RejectExternal(c)
  PROVE  ManagerTypeOK' /\ CallInv'
<1>1. /\ phase[c] = "apply" /\ adm[c] = "admitted" /\ job[c] \in LoadResult
      /\ phase' = [phase EXCEPT ![c] = "finishing"]
      /\ UNCHANGED <<admVars, attemptHistoryLimit, job, attemptID, turn, delivered, calls>>
  BY DEF AcceptExternal, RejectExternal, BaseInv, CallInv
<1>2. \A d \in Callers \ {c} : phase[d] \notin {"started", "loaded", "finishing"}
  BY <1>1, OneWorks
<1>3. events[c] = <<>> /\ \A d \in Callers : events[d] # <<>> => d = c
  BY <1>1, <1>2 DEF BaseInv, CallInv
<1>4. phase' \in [Callers -> Phases] /\ phase'[c] = "finishing"
      /\ \A d \in Callers \ {c} : phase'[d] = phase[d]
  BY <1>1 DEF BaseInv, ManagerTypeOK, Phases
<1>5. CASE RejectExternal(c)
  <2>1. UNCHANGED <<nextAttemptID, state, events>>
    BY <1>5 DEF RejectExternal
  <2>2. ManagerTypeOK'
    BY <1>1, <1>4, <2>1 DEF BaseInv, ManagerTypeOK, AdmTypeOK, admVars, state
  <2>3. CallInv'
    BY <1>1, <1>2, <1>4, <2>1 DEF BaseInv, CallInv, admVars
  <2> QED BY <2>2, <2>3
<1>6. CASE AcceptExternal(c)
  <2> DEFINE r == WithID(job[c], nextAttemptID + 1)
  <2>1. nextAttemptID \in Nat /\ nextAttemptID' = nextAttemptID + 1 /\ nextAttemptID' \in Nat
    BY <1>6 DEF AcceptExternal, BaseInv, ManagerTypeOK
  <2>2. Commit(r) /\ events' = [events EXCEPT ![c] = SnapshotApplied(r)]
    BY <1>6, <2>1 DEF AcceptExternal
  <2>3. r \in LoadResult
    BY <1>1, <2>1, WithIDProperties
  <2> HIDE DEF r
  <2>4. events' \in [Callers -> Seq(Event)]
    BY <2>2, <2>3, CompletionEventsType DEF BaseInv, ManagerTypeOK
  <2>5. ManagerTypeOK'
    BY <1>1, <1>4, <2>1, <2>2, <2>3, <2>4, CommitType DEF BaseInv, ManagerTypeOK, AdmTypeOK, admVars
  <2>6. \A d \in Callers \ {c} : events'[d] = events[d]
    BY <2>2 DEF BaseInv, ManagerTypeOK
  <2>7. CallInv'
    BY <1>1, <1>2, <1>4, <2>6 DEF BaseInv, CallInv, admVars
  <2> QED BY <2>5, <2>7
<1> QED BY <1>5, <1>6

(* So does the delivery of an event to an observer.                        *)
LEMMA BaseDeliver ==
  ASSUME BaseInv, NEW c \in Callers, Deliver(c)
  PROVE  ManagerTypeOK' /\ CallInv'
<1>1. /\ events[c] # <<>> /\ phase[c] \in {"started", "finishing"}
      /\ delivered' = [delivered EXCEPT ![turn[c]] = Append(@, Head(events[c]))]
      /\ UNCHANGED <<admVars, nextAttemptID, state, attemptHistoryLimit, phase, job, attemptID, calls>>
  BY DEF Deliver, BaseInv, CallInv
<1>2. events[c] \in Seq(Event) /\ Head(events[c]) \in Event /\ Tail(events[c]) \in Seq(Event)
  BY <1>1 DEF BaseInv, ManagerTypeOK
<1>3. events' \in [Callers -> Seq(Event)] /\ \A d \in Callers \ {c} : events'[d] = events[d]
  BY <1>2 DEF Deliver, BaseInv, ManagerTypeOK
<1>4. turn' \in [Callers -> Observers]
  <2>1. turn \in [Callers -> Observers] /\ NumObservers \in Nat \ {0}
    BY ManagerAssumption DEF BaseInv, ManagerTypeOK
  <2>2. 1 \in Observers /\ (turn[c] < NumObservers => turn[c] + 1 \in Observers)
    BY <2>1 DEF Observers
  <2>3. turn' = [turn EXCEPT ![c] = 1] \/ (turn[c] < NumObservers /\ turn' = [turn EXCEPT ![c] = turn[c] + 1])
    BY DEF Deliver
  <2> QED BY <2>1, <2>2, <2>3
<1>5. delivered' \in [Observers -> Seq(Event)]
  <2>1. \A o \in Observers : Append(delivered[o], Head(events[c])) \in Seq(Event)
    BY <1>2 DEF BaseInv, ManagerTypeOK
  <2> QED BY <1>1, <2>1 DEF BaseInv, ManagerTypeOK
<1>6. ManagerTypeOK'
  BY <1>1, <1>3, <1>4, <1>5 DEF BaseInv, ManagerTypeOK, AdmTypeOK, admVars, state
<1>7. CallInv'
  BY <1>1, <1>3 DEF BaseInv, CallInv, admVars
<1> QED BY <1>6, <1>7

(* So does the return of a call, which releases the admission.             *)
LEMMA BaseReturn ==
  ASSUME BaseInv, NEW c \in Callers, Return(c)
  PROVE  ManagerTypeOK' /\ CallInv'
<1>1. /\ phase[c] = "finishing" /\ events[c] = <<>>
      /\ adm[c] = "admitted" /\ adm' = [adm EXCEPT ![c] = "out"] /\ held' = 0 /\ UNCHANGED ctx
      /\ phase' = [phase EXCEPT ![c] = "idle"] /\ job' = [job EXCEPT ![c] = Nil]
      /\ UNCHANGED <<nextAttemptID, state, attemptHistoryLimit, attemptID, events, turn,
                     delivered, calls>>
  BY DEF Return, Release
<1>2. ManagerTypeOK'
  BY <1>1 DEF BaseInv, ManagerTypeOK, AdmTypeOK, AdmStates, state, Phases
<1>3. CallInv'
  BY <1>1 DEF BaseInv, CallInv, ManagerTypeOK, AdmTypeOK
<1> QED BY <1>2, <1>3

(* The base invariant is kept by every step.                               *)
LEMMA BaseInductive == BaseInv /\ [ManagerNext]_vars => BaseInv'
<1> SUFFICES ASSUME BaseInv, [ManagerNext]_vars PROVE BaseInv'
  OBVIOUS
<1>1. AdmInv'
  BY ManagerStepIsAdmissionStep, AdmInductive DEF BaseInv
<1>2. CASE UNCHANGED vars
  BY <1>1, <1>2 DEF vars, admVars, state, callVars, BaseInv, ManagerTypeOK, AdmInv, CallInv
<1>3. CASE ManagerNext
  BY <1>1, <1>3, BaseCall, BaseAcquire, BaseStart, BaseRun, BaseCommit, BaseExternal,
     BaseDeliver, BaseReturn
  DEF ManagerNext, Work, BaseInv
<1> QED BY <1>2, <1>3

(* Manager keeps its types; in particular every event it delivers and      *)
(* every record it stores is well formed.                                  *)
THEOREM ManagerTypeCorrect == ManagerSpec => []ManagerTypeOK
<1>1. BaseInv => ManagerTypeOK
  BY DEF BaseInv
<1> QED BY BaseInitial, BaseInductive, <1>1, PTL DEF ManagerSpec

(***************************************************************************)
(* The steps that change what readers see, and all the others.             *)
(***************************************************************************)
Quiet(c) ==
  \/ \E k \in Contexts : CallLoad(c, k) \/ \E r \in ExternalResults : CallApply(c, k, r)
  \/ Acquire(c) \/ (\E k \in Dead : CancelCall(c, k)) \/ ReturnRefused(c)
  \/ RunLoad(c) \/ RejectExternal(c) \/ Deliver(c) \/ Return(c)

(* A step starts or commits a load, accepts a result, or is quiet.         *)
LEMMA StepKinds ==
  ASSUME ManagerNext
  PROVE  \E c \in Callers : StartLoad(c) \/ CommitLoad(c) \/ AcceptExternal(c) \/ Quiet(c)
BY DEF ManagerNext, Work, Quiet

(* A quiet step changes neither the manager nor whether a load is under    *)
(* way, and adds no event.                                                 *)
LEMMA QuietKeeps ==
  ASSUME BaseInv, NEW c \in Callers, Quiet(c)
  PROVE  /\ UNCHANGED <<nextAttemptID, state, attemptHistoryLimit>>
         /\ \A d \in Callers : phase'[d] \in {"started", "loaded"} <=> phase[d] \in {"started", "loaded"}
         /\ \A d \in Callers : events'[d] = events[d] \/ (events[d] # <<>> /\ events'[d] = Tail(events[d]))
<1>1. UNCHANGED <<nextAttemptID, state, attemptHistoryLimit>>
  BY DEF Quiet, CallLoad, CallApply, Acquire, CancelCall, ReturnRefused, RunLoad, RejectExternal,
         Deliver, Return
<1>2. ASSUME NEW d \in Callers
      PROVE  phase'[d] \in {"started", "loaded"} <=> phase[d] \in {"started", "loaded"}
  <2>1. adm[c] = "refused" => phase[c] \notin {"started", "loaded"}
    BY DEF BaseInv, CallInv
  <2>2. CASE ReturnRefused(c)
    BY <2>1, <2>2 DEF ReturnRefused, Leave, BaseInv, ManagerTypeOK
  <2>3. CASE ~ReturnRefused(c)
    BY <2>3 DEF Quiet, CallLoad, CallApply, Acquire, CancelCall, callVars, RunLoad,
                RejectExternal, Deliver, Return, BaseInv, ManagerTypeOK
  <2> QED BY <2>2, <2>3
<1>3. ASSUME NEW d \in Callers
      PROVE  events'[d] = events[d] \/ (events[d] # <<>> /\ events'[d] = Tail(events[d]))
  <2>1. CASE Deliver(c)
    <3>1. events[c] # <<>> /\ (events' = events \/ events' = [events EXCEPT ![c] = Tail(events[c])])
      BY <2>1, Zenon DEF Deliver
    <3>2. DOMAIN events = Callers
      BY DEF BaseInv, ManagerTypeOK
    <3> QED BY <3>1, <3>2, Zenon
  <2>2. CASE ~Deliver(c)
    <3>1. events' = events
      BY <2>2, Zenon DEF Quiet, CallLoad, CallApply, Acquire, CancelCall, callVars, ReturnRefused,
                         RunLoad, RejectExternal, Return
    <3> QED BY <3>1
  <2> QED BY <2>1, <2>2
<1> QED BY <1>1, <1>2, <1>3

(* What a commit does to what readers see.                                 *)
LEMMA CommitEffect ==
  ASSUME NEW r \in LoadResult, ValidLoadResult(r), Commit(r)
  PROVE  /\ lastAttempt' = r.attempt
         /\ r.attempt # Nil
         /\ lastApply' = Applied(current, r)
         /\ lastApply'.current = current'
         /\ lastApply'.state = managerState'
         /\ \/ /\ r.attempt.status = "succeeded" /\ Applied(current, r).published
               /\ r.snapshot \in Metadata /\ r.snapshot.checksum # ""
               /\ current' = r.snapshot /\ lastSuccess' = r.attempt /\ lastFailure' = lastFailure
            \/ /\ r.attempt.status = "failed" /\ ~Applied(current, r).published
               /\ current' = current /\ lastSuccess' = lastSuccess /\ lastFailure' = r.attempt
<1>1. r.attempt \in AttemptRecord /\ r.snapshot \in Metadata \cup {Nil}
  BY DEF LoadResult
<1>2. r.attempt # Nil
  BY <1>1, NilAssumption
<1>3. lastAttempt' = r.attempt /\ lastApply' = Applied(current, r)
  BY DEF Commit
<1>4. CASE r.attempt.status = "succeeded"
  <2>1. r.snapshot # Nil /\ r.snapshot.checksum # "" /\ r.snapshot \in Metadata
    BY <1>1, <1>4 DEF ValidLoadResult, ValidSucceeded
  <2>2. current' = r.snapshot /\ lastSuccess' = r.attempt /\ lastFailure' = lastFailure
    BY <1>4, <2>1 DEF Commit
  <2>3. /\ Applied(current, r).published
        /\ Applied(current, r).current = current'
        /\ Applied(current, r).state = LifecycleState(current', r.attempt)
    BY <1>4, <2>1, <2>2 DEF Applied
  <2> QED BY <1>2, <1>3, <1>4, <2>1, <2>2, <2>3 DEF managerState
<1>5. CASE r.attempt.status = "failed"
  <2>1. current' = current /\ lastSuccess' = lastSuccess /\ lastFailure' = r.attempt
    BY <1>5 DEF Commit
  <2>2. /\ ~Applied(current, r).published
        /\ Applied(current, r).current = current'
        /\ Applied(current, r).state = LifecycleState(current', r.attempt)
    BY <1>5, <2>1 DEF Applied
  <2> QED BY <1>2, <1>3, <1>5, <2>1, <2>2 DEF managerState
<1> QED BY <1>4, <1>5 DEF ValidLoadResult

(* Both commits are commits of a valid result with a fresh ID.             *)
LEMMA CommitLoadCommits ==
  ASSUME BaseInv, NEW c \in Callers, CommitLoad(c)
  PROVE  /\ job[c] \in LoadResult /\ ValidLoadResult(job[c]) /\ Commit(job[c])
         /\ job[c].attempt.id = nextAttemptID /\ nextAttemptID' = nextAttemptID
BY DEF CommitLoad, BaseInv, CallInv

(* Accepting an external result is a commit under the next number.         *)
LEMMA AcceptExternalCommits ==
  ASSUME BaseInv, NEW c \in Callers, AcceptExternal(c)
  PROVE  LET r == WithID(job[c], nextAttemptID + 1)
         IN  /\ r \in LoadResult /\ ValidLoadResult(r) /\ Commit(r)
             /\ r.attempt.id = nextAttemptID' /\ nextAttemptID' = nextAttemptID + 1
             /\ events' = [events EXCEPT ![c] = SnapshotApplied(r)]
<1>1. /\ job[c] \in LoadResult /\ ValidLoadResult(job[c])
      /\ nextAttemptID \in Nat /\ nextAttemptID + 1 \in Nat /\ nextAttemptID' = nextAttemptID + 1
  BY DEF AcceptExternal, BaseInv, CallInv, ManagerTypeOK
<1>2. LET r == WithID(job[c], nextAttemptID + 1)
      IN  Commit(r) /\ events' = [events EXCEPT ![c] = SnapshotApplied(r)]
  BY <1>1 DEF AcceptExternal
<1> QED BY <1>1, <1>2, WithIDProperties

(***************************************************************************)
(* Attempt IDs.                                                            *)
(***************************************************************************)
LEMMA AppendedLog ==
  ASSUME BaseInv, NEW r \in LoadResult, Commit(r)
  PROVE  /\ accepted \in Seq(LoadResult) /\ accepted' = Append(accepted, r)
         /\ Len(accepted') = Len(accepted) + 1
         /\ DOMAIN accepted = 1 .. Len(accepted) /\ DOMAIN accepted' = 1 .. Len(accepted) + 1
         /\ accepted'[Len(accepted) + 1] = r
         /\ \A i \in DOMAIN accepted : accepted'[i] = accepted[i]
<1>1. accepted \in Seq(LoadResult) /\ accepted' = Append(accepted, r)
  BY DEF BaseInv, ManagerTypeOK, Commit
<1> QED BY <1>1

(* The numbering is kept by every step.                                    *)
LEMMA IDsDenseInductive ==
  ASSUME BaseInv, IDsDense, [ManagerNext]_vars
  PROVE  IDsDense'
<1>1. nextAttemptID \in Nat /\ accepted \in Seq(LoadResult) /\ Len(accepted) \in Nat
  BY DEF BaseInv, ManagerTypeOK
<1>2. CASE UNCHANGED vars
  BY <1>2 DEF vars, state, callVars, IDsDense, LoadInProgress
<1>3. ASSUME NEW c \in Callers, StartLoad(c)
      PROVE  IDsDense'
  <2>1. ~LoadInProgress
    <3>1. phase[c] = "load" /\ adm[c] = "admitted"
      BY <1>3 DEF StartLoad
    <3> QED BY <3>1, OneWorks DEF LoadInProgress
  <2>2. LoadInProgress'
    BY <1>3 DEF StartLoad, LoadInProgress, BaseInv, ManagerTypeOK
  <2>3. accepted' = accepted /\ nextAttemptID' = nextAttemptID + 1
    BY <1>3 DEF StartLoad, state
  <2> QED BY <1>1, <2>1, <2>2, <2>3 DEF IDsDense
<1>4. ASSUME NEW c \in Callers, CommitLoad(c)
      PROVE  IDsDense'
  <2>1. phase[c] = "loaded" /\ adm[c] = "admitted" /\ phase' = [phase EXCEPT ![c] = "finishing"]
    BY <1>4 DEF CommitLoad, BaseInv, CallInv
  <2>2. LoadInProgress /\ ~LoadInProgress'
    BY <2>1, OneWorks DEF LoadInProgress, BaseInv, ManagerTypeOK
  <2>3. /\ job[c] \in LoadResult /\ Commit(job[c])
        /\ job[c].attempt.id = nextAttemptID /\ nextAttemptID' = nextAttemptID
    BY <1>4, CommitLoadCommits
  <2>4. nextAttemptID = Len(accepted) + 1
    BY <2>2 DEF IDsDense
  <2> QED BY <1>1, <2>2, <2>3, <2>4, AppendedLog DEF IDsDense
<1>5. ASSUME NEW c \in Callers, AcceptExternal(c)
      PROVE  IDsDense'
  <2> DEFINE r == WithID(job[c], nextAttemptID + 1)
  <2>1. /\ r \in LoadResult /\ Commit(r)
        /\ r.attempt.id = nextAttemptID' /\ nextAttemptID' = nextAttemptID + 1
    BY <1>5, AcceptExternalCommits
  <2> HIDE DEF r
  <2>2. phase[c] = "apply" /\ adm[c] = "admitted" /\ phase' = [phase EXCEPT ![c] = "finishing"]
    BY <1>5 DEF AcceptExternal
  <2>3. ~LoadInProgress /\ ~LoadInProgress'
    BY <2>2, OneWorks DEF LoadInProgress, BaseInv, ManagerTypeOK
  <2> QED BY <1>1, <2>1, <2>3, AppendedLog DEF IDsDense
<1>6. ASSUME NEW c \in Callers, Quiet(c)
      PROVE  IDsDense'
  <2>1. nextAttemptID' = nextAttemptID /\ accepted' = accepted
    BY <1>6, QuietKeeps DEF state
  <2>2. LoadInProgress' <=> LoadInProgress
    BY <1>6, QuietKeeps DEF LoadInProgress
  <2> QED BY <2>1, <2>2 DEF IDsDense
<1> QED
  BY <1>2, <1>3, <1>4, <1>5, <1>6, StepKinds

(* It holds of a new manager.                                              *)
LEMMA IDsDenseInitial == ManagerInit => IDsDense
<1> SUFFICES ASSUME ManagerInit PROVE IDsDense
  OBVIOUS
<1>1. accepted = <<>> /\ nextAttemptID = 0 /\ phase = [c \in Callers |-> "idle"]
  BY Zenon DEF ManagerInit
<1> QED BY <1>1 DEF IDsDense, LoadInProgress

(* Attempt IDs number the accepted results without gaps or repeats.        *)
THEOREM ManagerIDsDense == ManagerSpec => []IDsDense
BY IDsDenseInitial, BaseInitial, BaseInductive, IDsDenseInductive, PTL DEF ManagerSpec

(***************************************************************************)
(* Events.                                                                 *)
(***************************************************************************)
LEMMA CompletionEvents ==
  ASSUME BaseInv, NEW r \in LoadResult
  PROVE  LET more == Finished(r) \o SnapshotApplied(r)
         IN  /\ \A i \in DOMAIN more : /\ more[i].id = r.attempt.id
                                       /\ more[i].state = Applied(current, r).state
             /\ \A i \in DOMAIN SnapshotApplied(r) :
                  /\ SnapshotApplied(r)[i].id = r.attempt.id
                  /\ SnapshotApplied(r)[i].state = Applied(current, r).state
<1> DEFINE f == [kind |-> IF r.attempt.status = "succeeded" THEN "load_succeeded" ELSE "load_failed",
                 id |-> r.attempt.id, state |-> Applied(current, r).state]
           a == [kind |-> "snapshot_applied", id |-> r.attempt.id,
                 state |-> Applied(current, r).state]
<1>1. /\ f.id = r.attempt.id /\ f.state = Applied(current, r).state
      /\ a.id = r.attempt.id /\ a.state = Applied(current, r).state
  OBVIOUS
<1>2. Finished(r) = <<f>> /\ SnapshotApplied(r) \in {<<a>>, <<>>}
  BY Zenon DEF Finished, SnapshotApplied
<1> HIDE DEF f, a
<1>3. CASE SnapshotApplied(r) = <<a>>
  <2>1. \A x, y : \A i \in DOMAIN (<<x>> \o <<y>>) : (<<x>> \o <<y>>)[i] \in {x, y}
    <3>1. ASSUME NEW x, NEW y, NEW i \in DOMAIN (<<x>> \o <<y>>)
          PROVE  (<<x>> \o <<y>>)[i] \in {x, y}
      <4>1. <<x>> \in Seq({x, y}) /\ <<y>> \in Seq({x, y})
        OBVIOUS
      <4> QED BY <3>1, <4>1
    <3> QED BY <3>1
  <2> QED BY <1>1, <1>2, <1>3, <2>1
<1>4. CASE SnapshotApplied(r) = <<>>
  <2>1. Finished(r) \o SnapshotApplied(r) = <<f>>
    BY <1>2, <1>4
  <2> QED BY <1>1, <1>4, <2>1
<1> QED BY <1>2, <1>3, <1>4

(* The agreement of events and manager is kept by every step.              *)
LEMMA EventsInductive ==
  ASSUME BaseInv, EventsMatchManager, [ManagerNext]_vars
  PROVE  EventsMatchManager'
<1>1. \A d \in Callers : events[d] \in Seq(Event)
  BY DEF BaseInv, ManagerTypeOK
<1>2. ASSUME NEW c \in Callers, adm[c] = "admitted"
      PROVE  \A d \in Callers \ {c} : events[d] = <<>>
  BY <1>2, OneWorks DEF BaseInv, CallInv
<1>3. CASE UNCHANGED vars
  BY <1>3 DEF vars, state, callVars, EventsMatchManager, managerState
<1>4. ASSUME NEW c \in Callers, StartLoad(c)
      PROVE  EventsMatchManager'
  <2> DEFINE e == [kind |-> "load_started", id |-> nextAttemptID', state |-> managerState]
  <2>1. events' = [events EXCEPT ![c] = <<e>>] /\ adm[c] = "admitted" /\ UNCHANGED state
    BY <1>4 DEF StartLoad
  <2>2. e.id = nextAttemptID' /\ e.state = managerState
    OBVIOUS
  <2>3. managerState' = managerState
    BY <2>1 DEF state, managerState
  <2> HIDE DEF e
  <2>4. events'[c] = <<e>> /\ \A d \in Callers \ {c} : events'[d] = <<>>
    BY <1>2, <2>1 DEF BaseInv, ManagerTypeOK
  <2> QED BY <2>2, <2>3, <2>4 DEF EventsMatchManager
<1>5. ASSUME NEW c \in Callers, CommitLoad(c)
      PROVE  EventsMatchManager'
  <2> DEFINE more == Finished(job[c]) \o SnapshotApplied(job[c])
  <2>1. /\ job[c] \in LoadResult /\ ValidLoadResult(job[c]) /\ Commit(job[c])
        /\ job[c].attempt.id = nextAttemptID /\ nextAttemptID' = nextAttemptID
    BY <1>5, CommitLoadCommits
  <2>2. managerState' = Applied(current, job[c]).state
    BY <2>1, CommitEffect
  <2>3. \A i \in DOMAIN more : more[i].id = nextAttemptID' /\ more[i].state = managerState'
    BY <2>1, <2>2, CompletionEvents
  <2>4. events' = [events EXCEPT ![c] = more] /\ adm[c] = "admitted"
    BY <1>5 DEF CommitLoad, BaseInv, CallInv
  <2> HIDE DEF more
  <2>5. events'[c] = more /\ \A d \in Callers \ {c} : events'[d] = <<>>
    BY <1>2, <2>4 DEF BaseInv, ManagerTypeOK
  <2> QED BY <2>3, <2>5 DEF EventsMatchManager
<1>6. ASSUME NEW c \in Callers, AcceptExternal(c)
      PROVE  EventsMatchManager'
  <2> DEFINE r == WithID(job[c], nextAttemptID + 1)
  <2>1. /\ r \in LoadResult /\ ValidLoadResult(r) /\ Commit(r)
        /\ r.attempt.id = nextAttemptID'
        /\ events' = [events EXCEPT ![c] = SnapshotApplied(r)]
    BY <1>6, AcceptExternalCommits
  <2> HIDE DEF r
  <2>2. managerState' = Applied(current, r).state
    BY <2>1, CommitEffect
  <2>3. \A i \in DOMAIN SnapshotApplied(r) : /\ SnapshotApplied(r)[i].id = nextAttemptID'
                                            /\ SnapshotApplied(r)[i].state = managerState'
    BY <2>1, <2>2, CompletionEvents
  <2>4. adm[c] = "admitted"
    BY <1>6 DEF AcceptExternal
  <2>5. events'[c] = SnapshotApplied(r) /\ \A d \in Callers \ {c} : events'[d] = <<>>
    BY <1>2, <2>1, <2>4 DEF BaseInv, ManagerTypeOK
  <2> QED BY <2>3, <2>5 DEF EventsMatchManager
<1>7. ASSUME NEW c \in Callers, Quiet(c)
      PROVE  EventsMatchManager'
  <2>1. managerState' = managerState /\ nextAttemptID' = nextAttemptID
    BY <1>7, QuietKeeps DEF state, managerState
  <2>2. ASSUME NEW d \in Callers, NEW i \in DOMAIN events'[d]
        PROVE  \E j \in DOMAIN events[d] : events'[d][i] = events[d][j]
    <3>1. CASE events'[d] = events[d]
      BY <2>2, <3>1
    <3>2. CASE events[d] # <<>> /\ events'[d] = Tail(events[d])
      <4>1. i + 1 \in DOMAIN events[d] /\ Tail(events[d])[i] = events[d][i + 1]
        BY <1>1, <2>2, <3>2
      <4> QED BY <3>2, <4>1
    <3> QED BY <1>7, <3>1, <3>2, QuietKeeps
  <2> QED BY <2>1, <2>2 DEF EventsMatchManager
<1> QED
  BY <1>3, <1>4, <1>5, <1>6, <1>7, StepKinds

(* An observer that reads the manager while it is being called finds the   *)
(* state that its event names.                                             *)
THEOREM ManagerEventsMatch == ManagerSpec => []EventsMatchManager
<1>1. ManagerInit => EventsMatchManager
  BY DEF ManagerInit, EventsMatchManager
<1> QED
  BY <1>1, BaseInitial, BaseInductive, EventsInductive, PTL DEF ManagerSpec

(***************************************************************************)
(* The refinement of LastKnownGood.                                        *)
(***************************************************************************)
LEMMA CommitPublishesOrFails ==
  ASSUME NEW r \in LoadResult, ValidLoadResult(r), Commit(r)
  PROVE  Readers!Publish \/ Readers!Fail
<1> USE DEF Readers!Publish, Readers!Fail
<1>1. Readers!Metadata = Metadata
  BY Zenon DEF Readers!Metadata, Metadata
<1>2. lastAttempt' = r.attempt /\ r.attempt # Nil
  BY CommitEffect
<1>3. CASE r.attempt.status = "succeeded"
  <2>1. current' = r.snapshot /\ r.snapshot \in Metadata /\ r.snapshot.checksum # ""
    BY <1>3, CommitEffect
  <2>2. current' # Nil
    BY <2>1, NilAssumption
  <2>3. managerState' = "loaded"
    BY <1>2, <1>3, <2>2 DEF managerState, LifecycleState
  <2> QED BY <1>1, <2>1, <2>3
<1>4. CASE r.attempt.status = "failed"
  <2>1. current' = current
    BY <1>4, CommitEffect
  <2>2. managerState' = IF current = Nil THEN "failed" ELSE "degraded"
    BY <1>2, <1>4, <2>1 DEF managerState, LifecycleState
  <2> QED BY <2>1, <2>2
<1> QED BY <1>3, <1>4 DEF ValidLoadResult

(* A step publishes, fails, or leaves alone what readers see.              *)
LEMMA StepKeepsLastKnownGood ==
  ASSUME BaseInv, [ManagerNext]_vars
  PROVE  [Readers!Publish \/ Readers!Fail]_(Readers!goodVars)
<1>1. ASSUME UNCHANGED state
      PROVE  UNCHANGED Readers!goodVars
  BY <1>1 DEF state, managerState, Readers!goodVars
<1>2. CASE UNCHANGED vars
  BY <1>1, <1>2 DEF vars
<1>3. ASSUME NEW c \in Callers, StartLoad(c) \/ Quiet(c)
      PROVE  UNCHANGED Readers!goodVars
  BY <1>1, <1>3, QuietKeeps DEF StartLoad
<1>4. ASSUME NEW c \in Callers, CommitLoad(c)
      PROVE  Readers!Publish \/ Readers!Fail
  BY <1>4, CommitLoadCommits, CommitPublishesOrFails
<1>5. ASSUME NEW c \in Callers, AcceptExternal(c)
      PROVE  Readers!Publish \/ Readers!Fail
  BY <1>5, AcceptExternalCommits, CommitPublishesOrFails
<1> QED
  BY <1>2, <1>3, <1>4, <1>5, StepKinds

(* What readers see is a last known good configuration: it changes only by *)
(* a publication, and a failed attempt shows as degraded or failed.        *)
THEOREM ManagerKeepsLastKnownGood == ManagerSpec => KeepsLastKnownGood
<1>1. ManagerInit => Readers!GoodInit
  <2> SUFFICES ASSUME ManagerInit PROVE Readers!GoodInit
    OBVIOUS
  <2>1. current = Nil /\ lastAttempt = Nil
    BY Zenon DEF ManagerInit
  <2>2. managerState = "unloaded"
    BY <2>1 DEF managerState, LifecycleState
  <2> QED BY <2>1, <2>2 DEF Readers!GoodInit
<1> QED
  BY <1>1, BaseInitial, BaseInductive, StepKeepsLastKnownGood, PTL
  DEF ManagerSpec, KeepsLastKnownGood, Readers!GoodSpec

(***************************************************************************)
(* The status and the log.                                                 *)
(***************************************************************************)
LEMMA CommitFollowsLog ==
  ASSUME BaseInv, StatusFollowsLog, NEW r \in LoadResult, ValidLoadResult(r), Commit(r)
  PROVE  StatusFollowsLog'
<1>1. PICK n \in Nat :
           /\ DOMAIN accepted = 1 .. n /\ DOMAIN accepted' = 1 .. n + 1
           /\ Len(accepted') = n + 1 /\ accepted'[n + 1] = r
           /\ \A i \in 1 .. n : accepted'[i] = accepted[i]
  <2>1. Len(accepted) \in Nat
    BY AppendedLog
  <2> QED BY <2>1, AppendedLog
<1>2. /\ accepted' # <<>>
      /\ lastAttempt' = accepted'[Len(accepted')].attempt
      /\ lastApply'.current = current' /\ lastApply'.state = managerState'
  <2>1. accepted' # <<>>
    BY <1>1
  <2>2. lastAttempt' = r.attempt
    BY CommitEffect
  <2>3. lastApply'.current = current' /\ lastApply'.state = managerState'
    BY CommitEffect
  <2> QED BY <1>1, <2>1, <2>2, <2>3
<1>3. ASSUME NEW status, r.attempt.status = status
      PROVE  LatestWith(n + 1, status)'
  BY <1>1, <1>3 DEF LatestWith
<1>4. ASSUME NEW status, r.attempt.status # status
      PROVE  /\ NoneWith(status) => NoneWith(status)'
             /\ \A i \in DOMAIN accepted : LatestWith(i, status) => LatestWith(i, status)'
  BY <1>1, <1>4 DEF LatestWith, NoneWith
<1>5. n + 1 \in DOMAIN accepted'
  BY <1>1
<1>6. DOMAIN accepted \subseteq DOMAIN accepted'
  BY <1>1
<1>7. CASE r.attempt.status = "succeeded"
  <2>1. current' = r.snapshot /\ lastSuccess' = r.attempt /\ lastFailure' = lastFailure
    BY <1>7, CommitEffect
  <2>2. \E i \in DOMAIN accepted' : /\ LatestWith(i, "succeeded")'
                                    /\ current' = accepted'[i].snapshot
                                    /\ lastSuccess' = accepted'[i].attempt
    BY <1>1, <1>3, <1>5, <1>7, <2>1
  <2>3. \/ NoneWith("failed")' /\ lastFailure' = Nil
        \/ \E i \in DOMAIN accepted' : LatestWith(i, "failed")' /\ lastFailure' = accepted'[i].attempt
    BY <1>1, <1>4, <1>6, <1>7, <2>1 DEF StatusFollowsLog
  <2> QED BY <1>2, <2>2, <2>3 DEF StatusFollowsLog
<1>8. CASE r.attempt.status = "failed"
  <2>1. current' = current /\ lastSuccess' = lastSuccess /\ lastFailure' = r.attempt
    BY <1>8, CommitEffect
  <2>2. \/ NoneWith("succeeded")' /\ current' = Nil /\ lastSuccess' = Nil
        \/ \E i \in DOMAIN accepted' : /\ LatestWith(i, "succeeded")'
                                       /\ current' = accepted'[i].snapshot
                                       /\ lastSuccess' = accepted'[i].attempt
    BY <1>1, <1>4, <1>6, <1>8, <2>1 DEF StatusFollowsLog
  <2>3. \E i \in DOMAIN accepted' : LatestWith(i, "failed")' /\ lastFailure' = accepted'[i].attempt
    BY <1>1, <1>3, <1>5, <1>8, <2>1
  <2> QED BY <1>2, <2>2, <2>3 DEF StatusFollowsLog
<1> QED BY <1>7, <1>8 DEF ValidLoadResult

(* The agreement of status and log is kept by every step.                  *)
LEMMA StatusInductive ==
  ASSUME BaseInv, StatusFollowsLog, [ManagerNext]_vars
  PROVE  StatusFollowsLog'
<1>1. ASSUME UNCHANGED state
      PROVE  StatusFollowsLog'
  BY <1>1 DEF state, StatusFollowsLog, LatestWith, NoneWith, managerState
<1>2. CASE UNCHANGED vars
  BY <1>1, <1>2 DEF vars
<1>3. ASSUME NEW c \in Callers, StartLoad(c) \/ Quiet(c)
      PROVE  StatusFollowsLog'
  BY <1>1, <1>3, QuietKeeps DEF StartLoad
<1>4. ASSUME NEW c \in Callers, CommitLoad(c)
      PROVE  StatusFollowsLog'
  BY <1>4, CommitLoadCommits, CommitFollowsLog
<1>5. ASSUME NEW c \in Callers, AcceptExternal(c)
      PROVE  StatusFollowsLog'
  BY <1>5, AcceptExternalCommits, CommitFollowsLog
<1> QED
  BY <1>2, <1>3, <1>4, <1>5, StepKinds

(* It holds of a new manager.                                              *)
LEMMA StatusInitial == ManagerInit => StatusFollowsLog
<1> SUFFICES ASSUME ManagerInit PROVE StatusFollowsLog
  OBVIOUS
<1>1. /\ accepted = <<>> /\ lastAttempt = Nil /\ lastApply = Nil /\ current = Nil
      /\ lastSuccess = Nil /\ lastFailure = Nil
  BY Zenon DEF ManagerInit
<1> QED BY <1>1 DEF StatusFollowsLog, NoneWith

(* Everything LifecycleStatus reports is of one prefix of the log.         *)
THEOREM ManagerStatusFollowsLog == ManagerSpec => []StatusFollowsLog
BY StatusInitial, BaseInitial, BaseInductive, StatusInductive, PTL DEF ManagerSpec

(***************************************************************************)
(* The attempt history.                                                    *)
(***************************************************************************)

(* Appending to a sequence and keeping at most its last m elements keeps   *)
(* the last elements of the longer log.                                    *)
LastElements(h, a, m) == SubSeq(Append(h, a), Len(Append(h, a)) - m + 1, Len(Append(h, a)))

IsTail(t, h, a, m) ==
  /\ Len(t) = m
  /\ \A i \in 1 .. m : t[i] = IF i = m THEN a ELSE h[Len(h) - m + 1 + i]

(* What is kept of a sequence cut to its last n elements.                  *)
LEMMA LastElementsAreTail ==
  ASSUME NEW S, NEW h \in Seq(S), NEW a \in S, NEW m \in Nat, Len(h) >= m
  PROVE  IsTail(LastElements(h, a, m), h, a, m)
<1> DEFINE longer == Append(h, a)
<1>1. PICK l \in Nat : l = Len(h)
  OBVIOUS
<1>2. longer \in Seq(S) /\ Len(longer) = l + 1
  BY <1>1
<1>3. \A j \in 1 .. l + 1 : longer[j] = IF j = l + 1 THEN a ELSE h[j]
  BY <1>1
<1> HIDE DEF longer
<1> DEFINE tail == SubSeq(longer, l + 1 - m + 1, l + 1)
<1>4. Len(tail) = m /\ \A i \in 1 .. m : tail[i] = longer[l + 1 - m + i]
  BY <1>1, <1>2, SubSeqProperties
<1>5. \A i \in 1 .. m : l + 1 - m + i \in 1 .. l + 1 /\ (l + 1 - m + i = l + 1 <=> i = m)
  BY <1>1
<1> QED BY <1>1, <1>2, <1>3, <1>4, <1>5 DEF longer, LastElements, IsTail

(* A commit keeps the history the latest part of the log.                  *)
LEMMA CommitKeepsHistory ==
  ASSUME BaseInv, HistoryIsRecentLog, NEW r \in LoadResult, Commit(r), UNCHANGED attemptHistoryLimit
  PROVE  HistoryIsRecentLog'
<1>1. PICK n \in Nat :
           /\ n = Len(accepted)
           /\ Len(accepted') = n + 1 /\ accepted'[n + 1] = r
           /\ \A i \in 1 .. n : accepted'[i] = accepted[i]
  <2>1. Len(accepted) \in Nat
    BY AppendedLog
  <2> QED BY <2>1, AppendedLog
<1>2. PICK limit \in Int : limit = historyLimit /\ limit # 0
  BY ManagerAssumption DEF historyLimit, BaseInv, ManagerTypeOK
<1>3. historyLimit' = limit
  BY Zenon, <1>2 DEF historyLimit
<1>4. PICK h \in Seq(AttemptRecord) : h = attemptHistory
  BY DEF BaseInv, ManagerTypeOK
<1>5. r.attempt \in AttemptRecord
  BY DEF LoadResult
<1>6. attemptHistory' = IF limit < 0 THEN h
                        ELSE IF Len(Append(h, r.attempt)) <= limit THEN Append(h, r.attempt)
                        ELSE SubSeq(Append(h, r.attempt), Len(Append(h, r.attempt)) - limit + 1,
                                    Len(Append(h, r.attempt)))
  BY <1>2, <1>4, Zenon DEF Commit, RecordAttempt
<1>7. PICK k \in Int :
           /\ k = retained
           /\ k = IF limit < 0 THEN 0 ELSE IF n < limit THEN n ELSE limit
  BY <1>1, <1>2 DEF retained
<1>8. PICK kept \in Int :
           /\ kept = retained'
           /\ kept = IF limit < 0 THEN 0 ELSE IF n + 1 < limit THEN n + 1 ELSE limit
  BY <1>1, <1>3 DEF retained
<1>9. Len(h) = k /\ \A i \in 1 .. k : h[i] = accepted[n - k + i].attempt
  BY Zenon, <1>1, <1>4, <1>7 DEF HistoryIsRecentLog
<1>10. /\ Len(attemptHistory') = kept
       /\ \A i \in 1 .. kept : attemptHistory'[i] = accepted'[n + 1 - kept + i].attempt
  <2>1. CASE limit < 0
    <3>1. kept = 0 /\ Len(h) = 0 /\ attemptHistory' = h
      BY <1>6, <1>7, <1>8, <1>9, <2>1
    <3> QED BY <3>1
  <2>2. CASE limit > 0 /\ n < limit
    <3>0. k = n /\ kept = n + 1
      BY <1>7, <1>8, <2>2
    <3>1. Len(h) = n /\ \A i \in 1 .. n : h[i] = accepted[i].attempt
      BY <1>9, <3>0
    <3>2. Len(Append(h, r.attempt)) = n + 1
      BY <1>4, <3>1
    <3>3. attemptHistory' = Append(h, r.attempt)
      BY <1>6, <2>2, <3>2
    <3>4. \A i \in 1 .. n + 1 : attemptHistory'[i] = accepted'[i].attempt
      BY <1>1, <1>5, <3>1, <3>3
    <3> QED BY <3>0, <3>2, <3>3, <3>4
  <2>3. CASE limit > 0 /\ n >= limit
    <3>0. k = limit /\ kept = limit
      BY <1>7, <1>8, <2>3
    <3>1. Len(h) = limit /\ \A i \in 1 .. limit : h[i] = accepted[n - limit + i].attempt
      BY Zenon, <1>9, <3>0
    <3>2. Len(Append(h, r.attempt)) = limit + 1
      BY <1>4, <3>1
    <3>3. attemptHistory' = SubSeq(Append(h, r.attempt), Len(Append(h, r.attempt)) - limit + 1,
                                   Len(Append(h, r.attempt)))
      BY <1>6, <2>3, <3>2
    <3>4. limit \in Nat /\ Len(h) >= limit
      BY <2>3, <3>1
    <3>5. /\ Len(attemptHistory') = limit
          /\ \A i \in 1 .. limit : attemptHistory'[i] = IF i = limit THEN r.attempt
                                                        ELSE h[Len(h) - limit + 1 + i]
      <4>1. IsTail(LastElements(h, r.attempt, limit), h, r.attempt, limit)
        BY Zenon, <1>4, <1>5, <3>4, LastElementsAreTail
      <4>2. attemptHistory' = LastElements(h, r.attempt, limit)
        BY Zenon, <3>3 DEF LastElements
      <4> QED BY Zenon, <4>1, <4>2 DEF IsTail
    <3>6. ASSUME NEW i \in 1 .. limit
          PROVE  attemptHistory'[i] = accepted'[n + 1 - limit + i].attempt
      <4>1. CASE i = limit
        BY <1>1, <2>3, <3>5, <4>1
      <4>2. CASE i # limit
        <5>1. attemptHistory'[i] = h[1 + i] /\ 1 + i \in 1 .. limit
          BY <3>1, <3>4, <3>5, <4>2
        <5>2. h[1 + i] = accepted[n - limit + (1 + i)].attempt
          BY <3>1, <5>1
        <5>3. n - limit + (1 + i) = n + 1 - limit + i /\ n + 1 - limit + i \in 1 .. n
          BY <2>3, <5>1
        <5> QED BY <1>1, <5>1, <5>2, <5>3
      <4> QED BY <4>1, <4>2
    <3> QED BY Zenon, <3>0, <3>5, <3>6
  <2>4. limit < 0 \/ (limit > 0 /\ n < limit) \/ (limit > 0 /\ n >= limit)
    BY <1>1, <1>2
  <2> QED BY Zenon, <2>1, <2>2, <2>3, <2>4
<1> DEFINE Recent(m, l) == /\ Len(attemptHistory') = m
                           /\ \A i \in 1 .. m : attemptHistory'[i] = accepted'[l - m + i].attempt
<1>11. Recent(kept, n + 1)
  BY <1>10
<1> HIDE DEF Recent
<1>12. Recent(retained', Len(accepted'))
  <2>1. retained' = kept /\ Len(accepted') = n + 1
    BY Zenon, <1>1, <1>8
  <2> QED BY Zenon, <1>11, <2>1
<1> QED BY Zenon, <1>12 DEF HistoryIsRecentLog, Recent

(* So does every step.                                                     *)
LEMMA HistoryInductive ==
  ASSUME BaseInv, HistoryIsRecentLog, [ManagerNext]_vars
  PROVE  HistoryIsRecentLog'
<1>1. ASSUME UNCHANGED <<state, attemptHistoryLimit>>
      PROVE  HistoryIsRecentLog'
  BY <1>1 DEF state, retained, historyLimit, HistoryIsRecentLog
<1>2. CASE UNCHANGED vars
  BY <1>1, <1>2 DEF vars
<1>3. ASSUME NEW c \in Callers, StartLoad(c) \/ Quiet(c)
      PROVE  HistoryIsRecentLog'
  BY <1>1, <1>3, QuietKeeps DEF StartLoad
<1>4. ASSUME NEW c \in Callers, CommitLoad(c)
      PROVE  HistoryIsRecentLog'
  BY <1>4, CommitLoadCommits, CommitKeepsHistory DEF CommitLoad
<1>5. ASSUME NEW c \in Callers, AcceptExternal(c)
      PROVE  HistoryIsRecentLog'
  BY <1>5, AcceptExternalCommits, CommitKeepsHistory DEF AcceptExternal
<1> QED
  BY <1>2, <1>3, <1>4, <1>5, StepKinds

(* It holds of a new manager.                                              *)
LEMMA HistoryInitial == ManagerInit => HistoryIsRecentLog
<1> SUFFICES ASSUME ManagerInit PROVE HistoryIsRecentLog
  OBVIOUS
<1>1. accepted = <<>> /\ attemptHistory = <<>>
  BY Zenon DEF ManagerInit
<1>2. attemptHistoryLimit \in Int
  BY Zenon, BaseInitial DEF BaseInv, ManagerTypeOK
<1>3. historyLimit \in Int /\ historyLimit # 0
  BY <1>2, ManagerAssumption DEF historyLimit
<1>4. retained = 0
  BY <1>1, <1>3 DEF retained
<1> QED BY <1>1, <1>4 DEF HistoryIsRecentLog

(* The retained attempts are the latest of the log, and as many as the     *)
(* limit allows.                                                           *)
THEOREM ManagerHistoryIsRecent == ManagerSpec => []HistoryIsRecentLog
BY HistoryInitial, BaseInitial, BaseInductive, HistoryInductive, PTL DEF ManagerSpec

(* The list that a reader gets has no gap: the attempts follow one another *)
(* by their IDs, and the last one is the one the status reports, whether   *)
(* loaded here or applied from elsewhere (recordAttemptLocked).            *)
HistoryInTurn ==
  /\ attemptHistory # <<>> => attemptHistory[Len(attemptHistory)] = lastAttempt
  /\ \A i \in 1 .. Len(attemptHistory) - 1 :
       attemptHistory[i + 1].id = attemptHistory[i].id + 1

THEOREM ManagerHistoryInTurn == ManagerSpec => []HistoryInTurn
<1>1. ASSUME BaseInv, StatusFollowsLog, IDsDense, HistoryIsRecentLog
      PROVE  HistoryInTurn
  <2>1. PICK n \in Nat : n = Len(accepted) /\ DOMAIN accepted = 1 .. n
    BY <1>1 DEF BaseInv, ManagerTypeOK
  <2>2. PICK k \in Nat : k = Len(attemptHistory) /\ DOMAIN attemptHistory = 1 .. k
    BY <1>1 DEF BaseInv, ManagerTypeOK
  <2>3. retained = k /\ \A i \in 1 .. k : attemptHistory[i] = accepted[n - k + i].attempt
    BY <1>1, <2>1, <2>2, Zenon DEF HistoryIsRecentLog
  <2>4. k <= n
    <3>1. historyLimit \in Int
      BY <1>1, ManagerAssumption DEF historyLimit, BaseInv, ManagerTypeOK
    <3> QED BY <2>1, <2>2, <2>3, <3>1 DEF retained
  <2>5. ASSUME attemptHistory # <<>>
        PROVE  attemptHistory[k] = lastAttempt
    <3>1. k # 0
      <4>1. attemptHistory \in Seq(AttemptRecord)
        BY <1>1 DEF BaseInv, ManagerTypeOK
      <4> QED BY <2>2, <2>5, <4>1
    <3>2. k \in 1 .. k /\ n - k + k = n /\ n # 0
      BY <2>4, <3>1
    <3>3. attemptHistory[k] = accepted[n].attempt
      BY <2>3, <3>2
    <3>4. accepted # <<>>
      BY <2>1, <3>2
    <3> QED BY <1>1, <2>1, <3>3, <3>4, Zenon DEF StatusFollowsLog
  <2>6. ASSUME NEW i \in 1 .. k - 1
        PROVE  attemptHistory[i + 1].id = attemptHistory[i].id + 1
    <3>1. PICK j \in 1 .. n : j = n - k + i /\ j + 1 = n - k + (i + 1) /\ j + 1 \in 1 .. n
      BY <2>4
    <3>2. i \in 1 .. k /\ i + 1 \in 1 .. k
      OBVIOUS
    <3>3. attemptHistory[i] = accepted[j].attempt /\ attemptHistory[i + 1] = accepted[j + 1].attempt
      BY <2>3, <3>1, <3>2
    <3>4. accepted[j].attempt.id = j /\ accepted[j + 1].attempt.id = j + 1
      BY <1>1, <2>1, <3>1 DEF IDsDense
    <3> QED BY <3>3, <3>4
  <2> QED BY <2>2, <2>5, <2>6, Zenon DEF HistoryInTurn
<1> QED BY <1>1, ManagerStatusFollowsLog, ManagerIDsDense, ManagerHistoryIsRecent,
           BaseInitial, BaseInductive, PTL DEF ManagerSpec

(***************************************************************************)
(* The log only grows, so what is told of one of its entries stays true.   *)
(***************************************************************************)
LogGrows ==
  \A i \in DOMAIN accepted : i \in DOMAIN accepted' /\ accepted'[i] = accepted[i]

(* No step takes back or changes what the log has.                         *)
LEMMA ManagerStepGrowsLog ==
  ASSUME BaseInv, [ManagerNext]_vars
  PROVE  LogGrows
<1>1. ASSUME UNCHANGED state
      PROVE  LogGrows
  BY <1>1 DEF state, LogGrows
<1>2. ASSUME NEW r \in LoadResult, Commit(r)
      PROVE  LogGrows
  <2>1. Len(accepted) \in Nat
    BY DEF BaseInv, ManagerTypeOK
  <2> QED BY <1>2, <2>1, AppendedLog DEF LogGrows
<1>3. CASE UNCHANGED vars
  BY <1>1, <1>3 DEF vars
<1>4. CASE ManagerNext
  <2>1. PICK c \in Callers : StartLoad(c) \/ CommitLoad(c) \/ AcceptExternal(c) \/ Quiet(c)
    BY <1>4, StepKinds
  <2>2. CASE StartLoad(c) \/ Quiet(c)
    BY <1>1, <2>2, QuietKeeps DEF StartLoad
  <2>3. CASE CommitLoad(c)
    BY <1>2, <2>3, CommitLoadCommits
  <2>4. CASE AcceptExternal(c)
    BY <1>2, <2>4, AcceptExternalCommits
  <2> QED BY <2>1, <2>2, <2>3, <2>4
<1> QED BY <1>3, <1>4

(* Every entry of the log was accepted by validateLoadResult.              *)
LogValid == \A i \in DOMAIN accepted : ValidLoadResult(accepted[i])

(* An empty log is.                                                        *)
LEMMA LogValidInitial == ManagerInit => LogValid
<1> SUFFICES ASSUME ManagerInit PROVE LogValid
  OBVIOUS
<1>1. accepted = <<>>
  BY Zenon DEF ManagerInit
<1> QED BY <1>1 DEF LogValid

(* That the log is valid is kept by every step.                            *)
LEMMA LogValidInductive ==
  ASSUME BaseInv, LogValid, [ManagerNext]_vars
  PROVE  LogValid'
<1>1. ASSUME UNCHANGED state
      PROVE  LogValid'
  BY <1>1 DEF state, LogValid
<1>2. ASSUME NEW r \in LoadResult, ValidLoadResult(r), Commit(r)
      PROVE  LogValid'
  <2>1. Len(accepted) \in Nat
    BY DEF BaseInv, ManagerTypeOK
  <2> QED BY <1>2, <2>1, AppendedLog DEF LogValid
<1>3. CASE UNCHANGED vars
  BY <1>1, <1>3 DEF vars
<1>4. CASE ManagerNext
  <2>1. PICK c \in Callers : StartLoad(c) \/ CommitLoad(c) \/ AcceptExternal(c) \/ Quiet(c)
    BY <1>4, StepKinds
  <2>2. CASE StartLoad(c) \/ Quiet(c)
    BY <1>1, <2>2, QuietKeeps DEF StartLoad
  <2>3. CASE CommitLoad(c)
    BY <1>2, <2>3, CommitLoadCommits
  <2>4. CASE AcceptExternal(c)
    BY <1>2, <2>4, AcceptExternalCommits
  <2> QED BY <2>1, <2>2, <2>3, <2>4
<1> QED BY <1>3, <1>4

(***************************************************************************)
(* What observers are told.  No variable holds all that was and is yet to  *)
(* be told, so the invariant says that there is such a story: it is in     *)
(* order, each observer has heard a part of it from its beginning, the     *)
(* caller that delivers has the rest, and it agrees with the log.          *)
(***************************************************************************)
Opening == {"load_started", "snapshot_applied"}
Closing == {"load_failed", "snapshot_applied"}

Chained(s) ==
  /\ s # <<>> => s[1].kind \in Opening
  /\ \A i \in 1 .. Len(s) - 1 : Follows(s[i], s[i + 1])
  /\ \A i, j \in 1 .. Len(s) : i < j => Before(s[i], s[j])

Ends(s) ==
  IF LoadInProgress
  THEN s # <<>> /\ s[Len(s)].kind = "load_started" /\ s[Len(s)].id = nextAttemptID
  ELSE s # <<>> => s[Len(s)].kind \in Closing /\ s[Len(s)].id <= nextAttemptID

Rest(s, c) ==
  LET heard == Len(s) - Len(events[c])
  IN  /\ heard >= 0
      /\ \A i \in 1 .. Len(events[c]) : events[c][i] = s[heard + i]
      /\ \A o \in Observers : Len(delivered[o]) = IF o < turn[c] THEN heard + 1 ELSE heard

Spread(s) ==
  /\ \A c \in Callers : IF events[c] = <<>> THEN turn[c] = 1 ELSE Rest(s, c)
  /\ Settled => \A o \in Observers : Len(delivered[o]) = Len(s)
  /\ \A o \in Observers : /\ Len(delivered[o]) <= Len(s)
                          /\ \A i \in 1 .. Len(delivered[o]) : delivered[o][i] = s[i]

EventTrue(e) ==
  /\ e.kind = "load_started" => e.id \in 1 .. Len(accepted) + 1
  /\ e.kind # "load_started" =>
       /\ e.id \in 1 .. Len(accepted)
       /\ accepted[e.id].attempt.status = IF e.kind = "load_failed" THEN "failed" ELSE "succeeded"
  /\ e.state = StateAfter(IF e.kind = "load_started" THEN e.id - 1 ELSE e.id)

Retells(s) ==
  /\ \A i \in 1 .. Len(s) : EventTrue(s[i])
  /\ \A n \in 1 .. Len(accepted) : accepted[n].attempt.status = "succeeded" =>
       \E i \in 1 .. Len(s) : s[i].kind = "snapshot_applied" /\ s[i].id = n

Story(s) == Chained(s) /\ Ends(s) /\ Spread(s) /\ Retells(s)

StoryInv == \E s \in Seq(Event) : Story(s)

ManagerInv == BaseInv /\ LogValid /\ StatusFollowsLog /\ IDsDense /\ StoryInv

(* The order of events is an order, and what follows comes after.          *)
LEMMA BeforeOrders ==
  /\ \A e, f, g \in Event : Before(e, f) /\ Before(f, g) => Before(e, g)
  /\ \A e, f \in Event : Follows(e, f) => Before(e, f)
<1>1. \A e \in Event : e.id \in Nat /\ Rank(e.kind) \in {0, 1, 2}
  BY DEF Event, Rank
<1>2. \A e, f, g \in Event : Before(e, f) /\ Before(f, g) => Before(e, g)
  BY <1>1 DEF Before
<1>3. \A e, f \in Event : Follows(e, f) => Before(e, f)
  BY <1>1 DEF Follows, Before, Rank
<1> QED BY <1>2, <1>3

(* A story stays in order when the next event follows its last.            *)
LEMMA ChainGrows ==
  ASSUME NEW s \in Seq(Event), NEW e \in Event, Chained(s),
         IF s = <<>> THEN e.kind \in Opening ELSE Follows(s[Len(s)], e)
  PROVE  Chained(Append(s, e))
<1> DEFINE t == Append(s, e)
<1>1. PICK n \in Nat : n = Len(s)
  OBVIOUS
<1>2. Len(t) = n + 1 /\ t[n + 1] = e /\ \A i \in 1 .. n : t[i] = s[i] /\ s[i] \in Event
  BY <1>1
<1>3. t # <<>> => t[1].kind \in Opening
  <2>1. CASE n = 0
    BY <1>1, <1>2, <2>1
  <2>2. CASE n > 0
    BY <1>1, <1>2, <2>2 DEF Chained
  <2> QED BY <2>1, <2>2
<1> HIDE DEF t
<1>4. \A i \in 1 .. Len(t) - 1 : Follows(t[i], t[i + 1])
  <2>1. ASSUME NEW i \in 1 .. n PROVE Follows(t[i], t[i + 1])
    <3>1. CASE i = n
      <4>1. t[i] = s[n] /\ t[i + 1] = e /\ s # <<>>
        BY <1>1, <1>2, <3>1
      <4> QED BY <1>1, <4>1
    <3>2. CASE i < n
      <4>1. t[i] = s[i] /\ t[i + 1] = s[i + 1] /\ i \in 1 .. n - 1
        BY <1>1, <1>2, <3>2
      <4> QED BY <1>1, <4>1 DEF Chained
    <3> QED BY <3>1, <3>2
  <2> QED BY <1>2, <2>1
<1>5. \A i, j \in 1 .. Len(t) : i < j => Before(t[i], t[j])
  <2>1. ASSUME NEW i \in 1 .. n, NEW j \in 1 .. n, i < j PROVE Before(t[i], t[j])
    BY <1>1, <1>2, <2>1 DEF Chained
  <2>2. ASSUME NEW i \in 1 .. n PROVE Before(t[i], t[n + 1])
    <3>1. Follows(s[n], e) /\ n \in 1 .. n
      BY <1>1, <2>2
    <3>2. Before(s[n], e) /\ s[i] \in Event /\ s[n] \in Event
      BY <1>2, <3>1, BeforeOrders
    <3>3. i = n \/ Before(s[i], s[n])
      BY <1>1, <3>1 DEF Chained
    <3>4. Before(s[i], e)
      BY <3>2, <3>3, BeforeOrders
    <3> QED BY <1>2, <3>4
  <2> QED BY <1>2, <2>1, <2>2
<1> QED BY <1>3, <1>4, <1>5 DEF Chained, t

(* The events that a caller gets to deliver, when none are under way, are  *)
(* what its observers have not heard.                                      *)
LEMMA SpreadGrows ==
  ASSUME BaseInv, Settled, NEW c \in Callers,
         NEW s \in Seq(Event), Spread(s), NEW more \in Seq(Event), NEW t \in Seq(Event),
         Len(t) = Len(s) + Len(more),
         \A i \in 1 .. Len(s) : t[i] = s[i],
         \A i \in 1 .. Len(more) : t[Len(s) + i] = more[i],
         events' = [events EXCEPT ![c] = more], UNCHANGED <<turn, delivered>>
  PROVE  Spread(t)'
<1>1. PICK n \in Nat : n = Len(s)
  OBVIOUS
<1>2. PICK m \in Nat : m = Len(more)
  OBVIOUS
<1>3. /\ \A o \in Observers : Len(delivered[o]) = n
      /\ \A o \in Observers : \A i \in 1 .. n : delivered[o][i] = s[i]
      /\ \A d \in Callers : turn[d] = 1 /\ events[d] = <<>>
  BY <1>1 DEF Spread, Settled
<1>4. events'[c] = more /\ \A d \in Callers \ {c} : events'[d] = <<>>
  BY <1>3 DEF BaseInv, ManagerTypeOK
<1>5. Observers \subseteq Nat /\ \A o \in Observers : ~(o < 1)
  BY ManagerAssumption DEF Observers
<1>6. more # <<>> => Rest(t, c)'
  <2>1. Len(t) - m = n /\ n >= 0
    BY <1>1, <1>2
  <2>2. \A i \in 1 .. m : more[i] = t[n + i]
    BY <1>1, <1>2
  <2> QED BY <1>2, <1>3, <1>4, <1>5, <2>1, <2>2 DEF Rest
<1>7. Settled' => m = 0
  BY <1>2, <1>4 DEF Settled
<1>8. /\ \A d \in Callers : IF events'[d] = <<>> THEN turn'[d] = 1 ELSE Rest(t, d)'
      /\ Settled' => \A o \in Observers : Len(delivered'[o]) = Len(t)
      /\ \A o \in Observers : /\ Len(delivered'[o]) <= Len(t)
                              /\ \A i \in 1 .. Len(delivered'[o]) : delivered'[o][i] = t[i]
  <2>1. \A d \in Callers : IF events'[d] = <<>> THEN turn'[d] = 1 ELSE Rest(t, d)'
    BY <1>3, <1>4, <1>6
  <2>2. Settled' => \A o \in Observers : Len(delivered'[o]) = Len(t)
    BY <1>1, <1>2, <1>3, <1>7
  <2>3. \A o \in Observers : /\ Len(delivered'[o]) <= Len(t)
                             /\ \A i \in 1 .. Len(delivered'[o]) : delivered'[o][i] = t[i]
    BY <1>1, <1>2, <1>3
  <2> QED BY <2>1, <2>2, <2>3
<1> QED BY <1>8 DEF Spread

(* When a load starts or a result is accepted, no event is under way.      *)
LEMMA AnnouncementsFindSettled ==
  ASSUME BaseInv, NEW c \in Callers, StartLoad(c) \/ CommitLoad(c) \/ AcceptExternal(c)
  PROVE  /\ Settled
         /\ StartLoad(c) => ~LoadInProgress /\ LoadInProgress'
         /\ CommitLoad(c) => LoadInProgress /\ ~LoadInProgress'
         /\ AcceptExternal(c) => ~LoadInProgress /\ ~LoadInProgress'
<1>1. adm[c] = "admitted" /\ phase[c] \in {"load", "loaded", "apply"}
  BY DEF StartLoad, CommitLoad, AcceptExternal, BaseInv, CallInv
<1>2. \A d \in Callers \ {c} : phase[d] \notin {"started", "loaded", "finishing"}
  BY <1>1, OneWorks
<1>3. Settled
  BY <1>1, <1>2 DEF BaseInv, CallInv, Settled
<1>4. StartLoad(c) => ~LoadInProgress /\ LoadInProgress'
  BY <1>2 DEF StartLoad, LoadInProgress, BaseInv, ManagerTypeOK
<1>5. CommitLoad(c) => LoadInProgress /\ ~LoadInProgress'
  BY <1>2 DEF CommitLoad, LoadInProgress, BaseInv, ManagerTypeOK
<1>6. AcceptExternal(c) => ~LoadInProgress /\ ~LoadInProgress'
  BY <1>2 DEF AcceptExternal, LoadInProgress, BaseInv, ManagerTypeOK
<1> QED BY <1>3, <1>4, <1>5, <1>6

(* What the whole log leaves the manager in is what it reports.            *)
LEMMA StateNow ==
  ASSUME BaseInv, LogValid, StatusFollowsLog, NEW n \in Nat, n = Len(accepted)
  PROVE  StateAfter(n) = managerState
<1>1. DOMAIN accepted = 1 .. n /\ (n = 0 <=> accepted = <<>>)
  BY DEF BaseInv, ManagerTypeOK
<1>2. current # Nil <=> \E i \in 1 .. n : accepted[i].attempt.status = "succeeded"
  <2>1. CASE NoneWith("succeeded") /\ current = Nil
    BY <1>1, <2>1 DEF NoneWith
  <2>2. ASSUME NEW i \in DOMAIN accepted, LatestWith(i, "succeeded"), current = accepted[i].snapshot
        PROVE  current # Nil /\ accepted[i].attempt.status = "succeeded"
    <3>1. accepted[i].attempt.status = "succeeded" /\ ValidLoadResult(accepted[i])
      BY <2>2 DEF LatestWith, LogValid
    <3> QED BY <2>2, <3>1 DEF ValidLoadResult, ValidSucceeded
  <2> QED BY <1>1, <2>1, <2>2 DEF StatusFollowsLog
<1>3. CASE n = 0
  <2>1. lastAttempt = Nil /\ current = Nil
    BY <1>1, <1>2, <1>3 DEF StatusFollowsLog
  <2> QED BY <1>3, <2>1 DEF StateAfter, managerState, LifecycleState
<1>4. CASE n > 0
  <2>1. n \in 1 .. n /\ lastAttempt = accepted[n].attempt /\ ValidLoadResult(accepted[n])
    BY <1>1, <1>4 DEF StatusFollowsLog, LogValid
  <2>2. lastAttempt # Nil
    <3>1. accepted[n] \in LoadResult
      BY <1>1, <2>1 DEF BaseInv, ManagerTypeOK
    <3> QED BY <2>1, <3>1, NilAssumption DEF LoadResult
  <2>3. CASE accepted[n].attempt.status = "succeeded"
    BY <1>2, <1>4, <2>1, <2>3 DEF StateAfter, managerState, LifecycleState
  <2>4. CASE accepted[n].attempt.status = "failed"
    BY <1>2, <1>4, <2>1, <2>2, <2>4 DEF StateAfter, managerState, LifecycleState
  <2> QED BY <2>1, <2>3, <2>4 DEF ValidLoadResult
<1> QED BY <1>3, <1>4

(* So it is in the next state.                                             *)
LEMMA StateNext ==
  (BaseInv /\ LogValid /\ StatusFollowsLog => StateAfter(Len(accepted)) = managerState)'
<1>1. BaseInv /\ LogValid /\ StatusFollowsLog => StateAfter(Len(accepted)) = managerState
  <2>1. BaseInv => Len(accepted) \in Nat
    BY DEF BaseInv, ManagerTypeOK
  <2> QED BY <2>1, StateNow
<1> QED BY <1>1, PTL

(* What an event tells of the log stays true.                              *)
LEMMA EventTrueKept ==
  ASSUME BaseInv, BaseInv', LogGrows, NEW e \in Event, EventTrue(e)
  PROVE  EventTrue(e)'
<1>1. PICK l \in Nat : l = Len(accepted) /\ DOMAIN accepted = 1 .. l
  BY DEF BaseInv, ManagerTypeOK
<1>2. PICK m \in Nat : m = Len(accepted') /\ DOMAIN accepted' = 1 .. m
  BY DEF BaseInv, ManagerTypeOK
<1>3. \A i \in 1 .. l : i \in 1 .. m /\ accepted'[i] = accepted[i]
  BY <1>1, <1>2 DEF LogGrows
<1>4. l <= m
  <2>1. l = 0 \/ l \in 1 .. l
    BY <1>1
  <2> QED BY <1>3, <2>1
<1>5. ASSUME NEW n \in 0 .. l
      PROVE  StateAfter(n)' = StateAfter(n)
  <2>1. \A i \in 1 .. n : accepted'[i] = accepted[i]
    BY <1>3
  <2>2. n = 0 \/ n \in 1 .. n
    OBVIOUS
  <2> QED BY <2>1, <2>2 DEF StateAfter
<1>6. e.id \in Nat
  BY DEF Event
<1>7. CASE e.kind = "load_started"
  <2>1. e.id \in 1 .. l + 1 /\ e.state = StateAfter(e.id - 1)
    BY <1>1, <1>7 DEF EventTrue
  <2>2. e.id \in 1 .. m + 1 /\ e.id - 1 \in 0 .. l
    BY <1>4, <2>1
  <2>3. e.state = StateAfter(e.id - 1)'
    BY <1>5, <2>1, <2>2
  <2> QED BY <1>2, <1>7, <2>2, <2>3 DEF EventTrue
<1>8. CASE e.kind # "load_started"
  <2>1. /\ e.id \in 1 .. l /\ e.state = StateAfter(e.id)
        /\ accepted[e.id].attempt.status = IF e.kind = "load_failed" THEN "failed" ELSE "succeeded"
    BY <1>1, <1>8 DEF EventTrue
  <2>2. e.id \in 1 .. m /\ accepted'[e.id] = accepted[e.id] /\ e.id \in 0 .. l
    BY <1>3, <2>1
  <2>3. e.state = StateAfter(e.id)'
    BY <1>5, <2>1, <2>2
  <2> QED BY <1>2, <1>8, <2>1, <2>2, <2>3 DEF EventTrue
<1> QED BY <1>7, <1>8

(* The events that follow a valid result.                                  *)
LEMMA CompletionShape ==
  ASSUME BaseInv, NEW r \in LoadResult, ValidLoadResult(r)
  PROVE  \E f, a \in Event :
           /\ f.kind = IF r.attempt.status = "succeeded" THEN "load_succeeded" ELSE "load_failed"
           /\ f.id = r.attempt.id /\ f.state = Applied(current, r).state
           /\ a.kind = "snapshot_applied"
           /\ a.id = r.attempt.id /\ a.state = Applied(current, r).state
           /\ Finished(r) = <<f>>
           /\ SnapshotApplied(r) = IF r.attempt.status = "succeeded" THEN <<a>> ELSE <<>>
<1> DEFINE f == [kind |-> IF r.attempt.status = "succeeded" THEN "load_succeeded" ELSE "load_failed",
                 id |-> r.attempt.id, state |-> Applied(current, r).state]
           a == [kind |-> "snapshot_applied", id |-> r.attempt.id,
                 state |-> Applied(current, r).state]
<1>1. current \in Metadata \cup {Nil} /\ r.attempt.id \in Nat
  BY DEF BaseInv, ManagerTypeOK, LoadResult, AttemptRecord
<1>2. Applied(current, r).state \in LifecycleStates
  BY <1>1, AppliedType DEF ApplyResult
<1>3. f \in Event /\ a \in Event
  BY <1>1, <1>2 DEF Event, EventKinds
<1>4. /\ f.kind = IF r.attempt.status = "succeeded" THEN "load_succeeded" ELSE "load_failed"
      /\ f.id = r.attempt.id /\ f.state = Applied(current, r).state
      /\ a.kind = "snapshot_applied"
      /\ a.id = r.attempt.id /\ a.state = Applied(current, r).state
  OBVIOUS
<1>5. Applied(current, r).published <=> r.attempt.status = "succeeded"
  <2>1. Applied(current, r).published <=> r.attempt.status = "succeeded" /\ r.snapshot # Nil
    BY Zenon DEF Applied
  <2> QED BY <2>1 DEF ValidLoadResult, ValidSucceeded
<1>6. Finished(r) = <<f>>
  BY Zenon DEF Finished
<1>7. SnapshotApplied(r) = IF r.attempt.status = "succeeded" THEN <<a>> ELSE <<>>
  BY Zenon, <1>5 DEF SnapshotApplied
<1> HIDE DEF f, a
<1> QED BY <1>3, <1>4, <1>6, <1>7

(* The start of a load adds to the story that it began.                    *)
LEMMA StoryStarts ==
  ASSUME ManagerInv, BaseInv', NEW c \in Callers, StartLoad(c)
  PROVE  StoryInv'
<1>1. PICK s \in Seq(Event) : Story(s)
  BY DEF ManagerInv, StoryInv
<1>2. PICK n \in Nat : n = Len(s)
  OBVIOUS
<1>3. PICK l \in Nat : l = Len(accepted)
  BY DEF ManagerInv, BaseInv, ManagerTypeOK
<1>4. BaseInv /\ Settled /\ ~LoadInProgress /\ LoadInProgress'
  BY AnnouncementsFindSettled DEF ManagerInv
<1>5. nextAttemptID = l /\ nextAttemptID' = l + 1 /\ UNCHANGED <<state, turn, delivered>>
  BY <1>3, <1>4 DEF ManagerInv, IDsDense, StartLoad
<1>6. PICK e : e = [kind |-> "load_started", id |-> nextAttemptID', state |-> managerState]
  OBVIOUS
<1>7. /\ e \in Event /\ e.kind = "load_started" /\ e.id = l + 1 /\ e.state = managerState
      /\ events' = [events EXCEPT ![c] = <<e>>]
  BY <1>5, <1>6, LifecycleStateType DEF Event, EventKinds, managerState, StartLoad
<1>8. PICK t \in Seq(Event) : t = Append(s, e)
  <2>1. e \in Event
    BY <1>7
  <2>2. Append(s, e) \in Seq(Event)
    BY <2>1
  <2> QED BY <2>2
<1>9. Len(t) = n + 1 /\ t[n + 1] = e /\ \A i \in 1 .. n : t[i] = s[i] /\ s[i] \in Event
  BY <1>2, <1>8
<1>10. Chained(t)
  <2>1. CASE s = <<>>
    BY <1>1, <1>7, <1>8, <2>1, ChainGrows DEF Story, Opening
  <2>2. CASE s # <<>>
    <3>1. s[n].kind \in Closing /\ s[n].id <= l /\ s[n].id \in Nat
      BY <1>1, <1>2, <1>4, <1>5, <1>9, <2>2 DEF Story, Ends, Event
    <3>2. Follows(s[n], e)
      BY <1>7, <3>1 DEF Follows, Closing
    <3> QED BY <1>1, <1>2, <1>7, <1>8, <2>2, <3>2, ChainGrows DEF Story
  <2> QED BY <2>1, <2>2
<1>11. Ends(t)'
  <2>1. t # <<>>
    BY <1>9
  <2> QED BY <1>4, <1>5, <1>7, <1>9, <2>1 DEF Ends
<1>12. Spread(t)'
  <2>1. <<e>> \in Seq(Event) /\ Len(<<e>>) = 1 /\ <<e>>[1] = e
    BY <1>7
  <2>2. PICK more \in Seq(Event) : more = <<e>> /\ Len(more) = 1 /\ more[1] = e
    BY <2>1
  <2>3. \A i \in 1 .. Len(more) : t[Len(s) + i] = more[i]
    BY <1>2, <1>9, <2>2
  <2>4. Len(t) = Len(s) + Len(more) /\ \A i \in 1 .. Len(s) : t[i] = s[i]
    BY <1>2, <1>9, <2>2
  <2>5. events' = [events EXCEPT ![c] = more]
    BY <1>7, <2>2
  <2> QED BY <1>1, <1>4, <1>5, <2>3, <2>4, <2>5, SpreadGrows DEF Story
<1>13. Retells(t)'
  <2>1. LogGrows /\ UNCHANGED accepted
    BY <1>5 DEF state, LogGrows
  <2>2. EventTrue(e)
    <3>1. StateAfter(l) = managerState
      BY <1>3, StateNow DEF ManagerInv
    <3> QED BY <1>3, <1>7, <3>1 DEF EventTrue
  <2>3. \A i \in 1 .. Len(t) : t[i] \in Event /\ EventTrue(t[i])
    BY <1>1, <1>2, <1>7, <1>9, <2>2 DEF Story, Retells
  <2>4. ASSUME NEW i \in 1 .. Len(t) PROVE EventTrue(t[i])'
    BY <1>4, <2>1, <2>3, EventTrueKept
  <2>5. ASSUME NEW m \in 1 .. Len(accepted), accepted[m].attempt.status = "succeeded"
        PROVE  \E i \in 1 .. Len(t) : t[i].kind = "snapshot_applied" /\ t[i].id = m
    BY <1>1, <1>2, <1>9, <2>5 DEF Story, Retells
  <2> QED BY <2>1, <2>4, <2>5 DEF Retells
<1> QED BY <1>8, <1>10, <1>11, <1>12, <1>13 DEF StoryInv, Story

(* An event of a result that is being accepted tells the log that has it.  *)
LEMMA CommitTellsTruth ==
  ASSUME BaseInv', LogValid', StatusFollowsLog', BaseInv,
         NEW r \in LoadResult, ValidLoadResult(r), Commit(r), r.attempt.id = Len(accepted) + 1,
         NEW e \in Event, e.id = r.attempt.id, e.state = Applied(current, r).state,
         \/ e.kind = (IF r.attempt.status = "succeeded" THEN "load_succeeded" ELSE "load_failed")
         \/ e.kind = "snapshot_applied" /\ r.attempt.status = "succeeded"
  PROVE  EventTrue(e)'
<1>1. PICK l \in Nat : /\ l = Len(accepted) /\ Len(accepted') = l + 1
                       /\ accepted'[l + 1] = r
  <2>1. Len(accepted) \in Nat
    BY DEF BaseInv, ManagerTypeOK
  <2> QED BY <2>1, AppendedLog
<1>2. e.state = managerState'
  BY CommitEffect
<1>3. StateAfter(l + 1)' = managerState'
  BY <1>1, StateNext
<1>4. e.id = l + 1 /\ e.kind # "load_started"
  BY <1>1
<1>5. r.attempt.status = IF e.kind = "load_failed" THEN "failed" ELSE "succeeded"
  BY DEF ValidLoadResult
<1> QED BY <1>1, <1>2, <1>3, <1>4, <1>5 DEF EventTrue

(* Either commit appends a result to the log, under the number that comes  *)
(* next there, and gives its caller the events that follow.                *)
LEMMA Acceptance ==
  ASSUME BaseInv, IDsDense, NEW c \in Callers, CommitLoad(c) \/ AcceptExternal(c),
         NEW l \in Nat, l = Len(accepted)
  PROVE  \E r \in LoadResult :
           /\ ValidLoadResult(r) /\ Commit(r)
           /\ r.attempt.id = l + 1 /\ nextAttemptID' = l + 1
           /\ CommitLoad(c) =>
                /\ nextAttemptID = l + 1
                /\ events' = [events EXCEPT ![c] = Finished(r) \o SnapshotApplied(r)]
           /\ AcceptExternal(c) => /\ nextAttemptID = l
                                   /\ events' = [events EXCEPT ![c] = SnapshotApplied(r)]
<1>1. /\ CommitLoad(c) => LoadInProgress
      /\ AcceptExternal(c) => ~LoadInProgress
  BY AnnouncementsFindSettled
<1>2. CASE CommitLoad(c)
  <2>1. nextAttemptID = l + 1
    BY <1>1, <1>2 DEF IDsDense
  <2>2. ~AcceptExternal(c)
    BY <1>2 DEF CommitLoad, AcceptExternal
  <2>3. events' = [events EXCEPT ![c] = Finished(job[c]) \o SnapshotApplied(job[c])]
    BY <1>2 DEF CommitLoad
  <2> QED BY <1>2, <2>1, <2>2, <2>3, CommitLoadCommits
<1>3. CASE AcceptExternal(c)
  <2>1. nextAttemptID = l
    BY <1>1, <1>3 DEF IDsDense
  <2>2. ~CommitLoad(c)
    BY <1>3 DEF CommitLoad, AcceptExternal
  <2>3. PICK x : x = WithID(job[c], nextAttemptID + 1)
    OBVIOUS
  <2>4. /\ x \in LoadResult /\ ValidLoadResult(x) /\ Commit(x)
        /\ x.attempt.id = nextAttemptID' /\ nextAttemptID' = nextAttemptID + 1
        /\ events' = [events EXCEPT ![c] = SnapshotApplied(x)]
    BY <1>3, <2>3, AcceptExternalCommits
  <2> QED BY <2>1, <2>2, <2>4
<1> QED BY <1>2, <1>3

(* The acceptance of a result adds to the story what follows of it.        *)
LEMMA StoryAccepts ==
  ASSUME ManagerInv, BaseInv', LogValid', StatusFollowsLog', NEW c \in Callers,
         CommitLoad(c) \/ AcceptExternal(c)
  PROVE  StoryInv'
<1>1. PICK s \in Seq(Event) : Story(s)
  BY DEF ManagerInv, StoryInv
<1>2. PICK n \in Nat : n = Len(s) /\ \A i \in 1 .. n : s[i] \in Event
  OBVIOUS
<1>3. PICK l \in Nat : l = Len(accepted)
  BY DEF ManagerInv, BaseInv, ManagerTypeOK
<1>4. /\ BaseInv /\ Settled /\ ~LoadInProgress'
      /\ CommitLoad(c) => LoadInProgress
      /\ AcceptExternal(c) => ~LoadInProgress
  BY AnnouncementsFindSettled DEF ManagerInv
<1>5. PICK r \in LoadResult :
           /\ ValidLoadResult(r) /\ Commit(r)
           /\ r.attempt.id = l + 1 /\ nextAttemptID' = l + 1
           /\ CommitLoad(c) =>
                /\ nextAttemptID = l + 1
                /\ events' = [events EXCEPT ![c] = Finished(r) \o SnapshotApplied(r)]
           /\ AcceptExternal(c) => /\ nextAttemptID = l
                                   /\ events' = [events EXCEPT ![c] = SnapshotApplied(r)]
  BY <1>3, Acceptance DEF ManagerInv
<1>6. PICK f, a \in Event :
           /\ f.kind = IF r.attempt.status = "succeeded" THEN "load_succeeded" ELSE "load_failed"
           /\ f.id = r.attempt.id /\ f.state = Applied(current, r).state
           /\ a.kind = "snapshot_applied"
           /\ a.id = r.attempt.id /\ a.state = Applied(current, r).state
           /\ Finished(r) = <<f>>
           /\ SnapshotApplied(r) = IF r.attempt.status = "succeeded" THEN <<a>> ELSE <<>>
  BY <1>4, <1>5, CompletionShape
<1>7. f.id = l + 1 /\ a.id = l + 1
  BY <1>5, <1>6
<1>8. EventTrue(f)' /\ (r.attempt.status = "succeeded" => EventTrue(a)')
  <2>1. EventTrue(f)'
    BY <1>3, <1>4, <1>5, <1>6, CommitTellsTruth
  <2>2. r.attempt.status = "succeeded" => EventTrue(a)'
    BY <1>3, <1>4, <1>5, <1>6, CommitTellsTruth
  <2> QED BY <2>1, <2>2
<1>9. /\ Len(accepted') = l + 1 /\ accepted'[l + 1] = r
      /\ \A i \in 1 .. l : accepted'[i] = accepted[i]
  BY <1>3, <1>4, <1>5, AppendedLog
<1>10. LogGrows
  BY <1>4, ManagerStepGrowsLog DEF ManagerNext, Work
<1>11. ASSUME NEW more \in Seq(Event), NEW t \in Seq(Event), NEW m \in Nat, Len(more) = m,
              Len(t) = n + m,
              \A i \in 1 .. n : t[i] = s[i],
              \A i \in 1 .. m : t[n + i] = more[i],
              events' = [events EXCEPT ![c] = more],
              Chained(t),
              t # <<>> => t[n + m].kind \in Closing /\ t[n + m].id <= l + 1,
              \A i \in 1 .. m : EventTrue(more[i])',
              r.attempt.status = "succeeded" =>
                \E i \in 1 .. m : more[i].kind = "snapshot_applied" /\ more[i].id = l + 1
       PROVE  StoryInv'
  <2>1. Ends(t)'
    BY <1>4, <1>5, <1>11 DEF Ends
  <2>2. Spread(t)'
    <3>1. UNCHANGED <<turn, delivered>> /\ Spread(s)
      BY <1>1 DEF CommitLoad, AcceptExternal, Story
    <3> QED BY <1>2, <1>4, <1>11, <3>1, SpreadGrows
  <2>3. \A i \in 1 .. Len(t) : EventTrue(t[i])'
    <3>1. ASSUME NEW i \in 1 .. n PROVE EventTrue(s[i])'
      <4>1. EventTrue(s[i]) /\ s[i] \in Event
        BY <1>1, <1>2 DEF Story, Retells
      <4> QED BY <1>4, <1>10, <4>1, EventTrueKept
    <3>2. ASSUME NEW i \in 1 .. n + m PROVE EventTrue(t[i])'
      <4>1. CASE i <= n
        <5>1. i \in 1 .. n
          BY <4>1
        <5>2. t[i] = s[i]
          BY <1>11, <5>1
        <5> QED BY <3>1, <5>1, <5>2
      <4>2. CASE i > n
        <5>1. i - n \in 1 .. m /\ n + (i - n) = i
          BY <4>2
        <5>2. t[i] = more[i - n]
          BY <1>11, <5>1
        <5> QED BY <1>11, <5>1, <5>2
      <4> QED BY <4>1, <4>2
    <3> QED BY <1>11, <3>2
  <2>4. ASSUME NEW k \in 1 .. l + 1, accepted'[k].attempt.status = "succeeded"
        PROVE  \E i \in 1 .. n + m : t[i].kind = "snapshot_applied" /\ t[i].id = k
    <3>1. CASE k = l + 1
      <4>1. PICK i \in 1 .. m : more[i].kind = "snapshot_applied" /\ more[i].id = k
        BY <1>9, <1>11, <2>4, <3>1
      <4>2. n + i \in 1 .. n + m /\ t[n + i] = more[i]
        BY <1>11
      <4> QED BY <4>1, <4>2
    <3>2. CASE k \in 1 .. l
      <4>1. PICK i \in 1 .. n : s[i].kind = "snapshot_applied" /\ s[i].id = k
        BY <1>1, <1>2, <1>3, <1>9, <2>4, <3>2 DEF Story, Retells
      <4>2. i \in 1 .. n + m /\ t[i] = s[i]
        BY <1>11
      <4> QED BY <4>1, <4>2
    <3>3. k = l + 1 \/ k \in 1 .. l
      OBVIOUS
    <3> QED BY <3>1, <3>2, <3>3
  <2>5. Retells(t)'
    BY <1>9, <1>11, <2>3, <2>4 DEF Retells
  <2> QED BY <1>11, <2>1, <2>2, <2>5 DEF StoryInv, Story
<1>12. /\ CommitLoad(c) => s # <<>> /\ s[n].kind = "load_started" /\ s[n].id = l + 1
       /\ AcceptExternal(c) => (s # <<>> => s[n].kind \in Closing /\ s[n].id <= l)
  BY <1>1, <1>2, <1>4, <1>5 DEF Story, Ends
<1>13. \A e \in Event : <<e>> \in Seq(Event) /\ Len(<<e>>) = 1 /\ <<e>>[1] = e
  OBVIOUS
<1>14. ASSUME CommitLoad(c)
       PROVE  \E t \in Seq(Event) : /\ Chained(t) /\ Len(t) = n + 1 /\ t[n + 1] = f
                                    /\ \A i \in 1 .. n : t[i] = s[i]
  <2>1. Follows(s[n], f)
    BY <1>6, <1>7, <1>12, <1>14 DEF Follows
  <2>2. Chained(Append(s, f))
    BY <1>1, <1>2, <1>12, <1>14, <2>1, ChainGrows DEF Story
  <2>3. /\ Append(s, f) \in Seq(Event) /\ Len(Append(s, f)) = n + 1 /\ Append(s, f)[n + 1] = f
        /\ \A i \in 1 .. n : Append(s, f)[i] = s[i]
    BY <1>2
  <2> QED BY <2>2, <2>3
<1>15. CASE CommitLoad(c) /\ r.attempt.status = "failed"
  <2>1. PICK t \in Seq(Event) : /\ Chained(t) /\ Len(t) = n + 1 /\ t[n + 1] = f
                                /\ \A i \in 1 .. n : t[i] = s[i]
    BY <1>14, <1>15
  <2>2. PICK more \in Seq(Event) : more = <<f>> /\ Len(more) = 1 /\ more[1] = f
    BY <1>13
  <2>3. events' = [events EXCEPT ![c] = more]
    <3>1. <<f>> \o <<>> = <<f>>
      BY <1>13
    <3> QED BY <1>5, <1>6, <1>15, <2>2, <3>1
  <2>4. f.kind \in Closing /\ f.id <= l + 1
    BY <1>6, <1>7, <1>15 DEF Closing
  <2>5. \A i \in 1 .. 1 : t[n + i] = more[i] /\ EventTrue(more[i])'
    <3>1. \A i \in 1 .. 1 : i = 1
      OBVIOUS
    <3> QED BY <1>8, <2>1, <2>2, <3>1
  <2> QED BY <1>11, <1>15, <2>1, <2>2, <2>3, <2>4, <2>5
<1>16. CASE CommitLoad(c) /\ r.attempt.status = "succeeded"
  <2>1. PICK u \in Seq(Event) : /\ Chained(u) /\ Len(u) = n + 1 /\ u[n + 1] = f
                                /\ \A i \in 1 .. n : u[i] = s[i]
    BY <1>14, <1>16
  <2>2. Follows(f, a)
    BY <1>6, <1>7, <1>16 DEF Follows
  <2>3. u # <<>> /\ u[Len(u)] = f
    BY <2>1
  <2>4. Chained(Append(u, a))
    BY <2>1, <2>2, <2>3, ChainGrows
  <2>5. PICK t \in Seq(Event) : t = Append(u, a)
    <3>1. Append(u, a) \in Seq(Event)
      OBVIOUS
    <3> QED BY <3>1
  <2>6. /\ Len(t) = n + 2 /\ t[n + 1] = f /\ t[n + 2] = a
        /\ \A i \in 1 .. n : t[i] = s[i]
    BY <2>1, <2>5
  <2>7. PICK more \in Seq(Event) : /\ more = <<f>> \o <<a>> /\ Len(more) = 2
                                   /\ more[1] = f /\ more[2] = a
    <3>1. /\ <<f>> \o <<a>> \in Seq(Event) /\ Len(<<f>> \o <<a>>) = 2
          /\ (<<f>> \o <<a>>)[1] = f /\ (<<f>> \o <<a>>)[2] = a
      BY <1>13
    <3> QED BY <3>1
  <2>8. events' = [events EXCEPT ![c] = more]
    BY <1>5, <1>6, <1>16, <2>7
  <2>9. a.kind \in Closing /\ a.id <= l + 1
    BY <1>6, <1>7 DEF Closing
  <2>10. \A i \in 1 .. 2 : i = 1 \/ i = 2
    OBVIOUS
  <2>11. \A i \in 1 .. 2 : t[n + i] = more[i] /\ EventTrue(more[i])'
    BY <1>8, <1>16, <2>6, <2>7, <2>10
  <2>12. \E i \in 1 .. 2 : more[i].kind = "snapshot_applied" /\ more[i].id = l + 1
    BY <1>6, <1>7, <2>7
  <2>13. Chained(t)
    BY <2>4, <2>5
  <2>14. t[n + 2].kind \in Closing /\ t[n + 2].id <= l + 1
    BY <2>6, <2>9
  <2>15. \A i \in 1 .. 2 : t[n + i] = more[i]
    BY <2>11
  <2>16. \A i \in 1 .. 2 : EventTrue(more[i])'
    BY <2>11
  <2>17. Len(more) = 2 /\ Len(t) = n + 2 /\ \A i \in 1 .. n : t[i] = s[i]
    BY <2>6, <2>7
  <2> QED BY <1>11, <2>8, <2>12, <2>13, <2>14, <2>15, <2>16, <2>17
<1>17. CASE AcceptExternal(c) /\ r.attempt.status = "succeeded"
  <2>1. Chained(Append(s, a))
    <3>1. CASE s = <<>>
      BY <1>1, <1>6, <3>1, ChainGrows DEF Story, Opening
    <3>2. CASE s # <<>>
      <4>1. s[n].kind \in Closing /\ s[n].id <= l /\ s[n] \in Event
        BY <1>2, <1>12, <1>17, <3>2
      <4>2. Follows(s[n], a)
        BY <1>6, <1>7, <4>1 DEF Follows, Closing, Event
      <4> QED BY <1>1, <1>2, <3>2, <4>2, ChainGrows DEF Story
    <3> QED BY <3>1, <3>2
  <2>2. PICK t \in Seq(Event) : t = Append(s, a)
    <3>1. Append(s, a) \in Seq(Event)
      OBVIOUS
    <3> QED BY <3>1
  <2>3. Len(t) = n + 1 /\ t[n + 1] = a /\ \A i \in 1 .. n : t[i] = s[i]
    BY <1>2, <2>2
  <2>4. PICK more \in Seq(Event) : more = <<a>> /\ Len(more) = 1 /\ more[1] = a
    BY <1>13
  <2>5. events' = [events EXCEPT ![c] = more]
    BY <1>5, <1>6, <1>17, <2>4
  <2>6. a.kind \in Closing /\ a.id <= l + 1
    BY <1>6, <1>7 DEF Closing
  <2>7. \A i \in 1 .. 1 : t[n + i] = more[i] /\ EventTrue(more[i])'
    <3>1. \A i \in 1 .. 1 : i = 1
      OBVIOUS
    <3> QED BY <1>8, <1>17, <2>3, <2>4, <3>1
  <2>8. \E i \in 1 .. 1 : more[i].kind = "snapshot_applied" /\ more[i].id = l + 1
    BY <1>6, <1>7, <2>4
  <2> QED BY <1>11, <2>1, <2>2, <2>3, <2>4, <2>5, <2>6, <2>7, <2>8
<1>18. CASE AcceptExternal(c) /\ r.attempt.status = "failed"
  <2>1. PICK more \in Seq(Event) : more = <<>> /\ Len(more) = 0
    <3>1. <<>> \in Seq(Event) /\ Len(<<>>) = 0
      OBVIOUS
    <3> QED BY <3>1
  <2>2. events' = [events EXCEPT ![c] = more]
    BY <1>5, <1>6, <1>18, <2>1
  <2>3. s # <<>> => s[n + 0].kind \in Closing /\ s[n + 0].id <= l + 1
    BY <1>2, <1>12, <1>18 DEF Event
  <2>4. Chained(s) /\ Len(s) = n + 0
    BY <1>1, <1>2 DEF Story
  <2>5. \A i \in 1 .. 0 : s[n + i] = more[i] /\ EventTrue(more[i])'
    OBVIOUS
  <2> QED BY <1>11, <1>18, <2>1, <2>2, <2>3, <2>4, <2>5
<1> QED BY <1>5, <1>15, <1>16, <1>17, <1>18 DEF ValidLoadResult

(* A delivery moves the observers on in the story that there is.           *)
LEMMA StoryDelivers ==
  ASSUME ManagerInv, NEW c \in Callers, Deliver(c)
  PROVE  StoryInv'
<1>1. PICK s \in Seq(Event) : Story(s)
  BY DEF ManagerInv, StoryInv
<1>2. PICK n \in Nat : n = Len(s)
  OBVIOUS
<1>3. /\ events[c] # <<>>
      /\ delivered' = [delivered EXCEPT ![turn[c]] = Append(@, Head(events[c]))]
      /\ UNCHANGED <<nextAttemptID, state, phase>>
      /\ IF turn[c] < NumObservers
         THEN turn' = [turn EXCEPT ![c] = turn[c] + 1] /\ UNCHANGED events
         ELSE turn' = [turn EXCEPT ![c] = 1] /\ events' = [events EXCEPT ![c] = Tail(events[c])]
  BY DEF Deliver
<1>4. /\ events \in [Callers -> Seq(Event)] /\ turn \in [Callers -> Observers]
      /\ delivered \in [Observers -> Seq(Event)]
  BY DEF ManagerInv, BaseInv, ManagerTypeOK
<1>5. PICK now \in Observers : now = turn[c]
  BY <1>4
<1>6. Observers \subseteq Nat /\ \A o \in Observers : 1 <= o /\ o <= NumObservers
  BY ManagerAssumption DEF Observers
<1>7. \A d \in Callers \ {c} : events[d] = <<>> /\ events'[d] = <<>> /\ turn'[d] = turn[d]
  <2>1. phase[c] \in {"started", "finishing"} /\ adm[c] = "admitted"
    BY <1>3 DEF ManagerInv, BaseInv, CallInv
  <2>2. \A d \in Callers \ {c} : events[d] = <<>>
    BY <2>1, OneWorks DEF ManagerInv, BaseInv, CallInv
  <2> QED BY <1>3, <1>4, <2>2
<1>8. PICK m \in Nat \ {0} : m = Len(events[c])
  BY <1>3, <1>4
<1>9. PICK heard \in Nat :
           /\ heard = n - m
           /\ \A i \in 1 .. m : events[c][i] = s[heard + i]
           /\ \A o \in Observers : Len(delivered[o]) = IF o < now THEN heard + 1 ELSE heard
           /\ \A o \in Observers : \A i \in 1 .. Len(delivered[o]) : delivered[o][i] = s[i]
  <2>1. Rest(s, c) /\ \A o \in Observers : \A i \in 1 .. Len(delivered[o]) : delivered[o][i] = s[i]
    BY <1>1, <1>3 DEF Story, Spread
  <2>2. PICK heard \in Int : heard = n - m
    OBVIOUS
  <2>3. /\ heard >= 0
        /\ \A i \in 1 .. m : events[c][i] = s[heard + i]
        /\ \A o \in Observers : Len(delivered[o]) = IF o < now THEN heard + 1 ELSE heard
    BY <1>2, <1>5, <1>8, <2>1, <2>2 DEF Rest
  <2> QED BY <2>1, <2>2, <2>3
<1>10. Head(events[c]) = s[heard + 1] /\ heard + 1 <= n
  BY <1>4, <1>8, <1>9
<1>11. ASSUME NEW o \in Observers
       PROVE  /\ Len(delivered'[o]) = IF o <= now THEN heard + 1 ELSE heard
              /\ \A i \in 1 .. Len(delivered'[o]) : delivered'[o][i] = s[i]
  <2>1. CASE o = now
    <3>1. PICK d \in Seq(Event) : d = delivered[now] /\ Len(d) = heard
      <4>1. delivered[now] \in Seq(Event) /\ ~(now < now)
        BY <1>4, <1>6
      <4> QED BY <1>9, <4>1
    <3>2. PICK e \in Event : e = Head(events[c]) /\ e = s[heard + 1]
      BY <1>4, <1>8, <1>10
    <3>3. Len(Append(d, e)) = heard + 1 /\ \A i \in 1 .. heard + 1 : Append(d, e)[i] = s[i]
      <4>1. \A i \in 1 .. heard : d[i] = s[i]
        BY <1>9, <3>1
      <4> QED BY <3>1, <3>2, <4>1
    <3>4. delivered'[o] = Append(d, e)
      BY <1>3, <1>4, <1>5, <2>1, <3>1, <3>2
    <3> QED BY <1>6, <2>1, <3>3, <3>4
  <2>2. CASE o # now
    <3>1. delivered'[o] = delivered[o] /\ (o <= now <=> o < now)
      BY <1>3, <1>4, <1>5, <1>6, <2>2
    <3> QED BY <1>9, <3>1
  <2> QED BY <2>1, <2>2
<1>12. /\ turn'[c] = IF now < NumObservers THEN now + 1 ELSE 1
       /\ events'[c] = IF now < NumObservers THEN events[c] ELSE Tail(events[c])
  BY <1>3, <1>4, <1>5
<1>13. IF events'[c] = <<>> THEN turn'[c] = 1 /\ \A o \in Observers : Len(delivered'[o]) = n
       ELSE Rest(s, c)'
  <2>1. CASE now < NumObservers
    <3>1. events'[c] = events[c] /\ turn'[c] = now + 1
      BY <1>12, <2>1
    <3>2. \A o \in Observers : o < now + 1 <=> o <= now
      BY <1>6
    <3>3. Rest(s, c)'
      <4>1. Len(s) - Len(events'[c]) = heard /\ heard >= 0 /\ Len(events'[c]) = m
        BY <1>2, <1>8, <1>9, <3>1
      <4>2. \A i \in 1 .. m : events'[c][i] = s[heard + i]
        BY <1>9, <3>1
      <4>3. \A o \in Observers : Len(delivered'[o]) = IF o < turn'[c] THEN heard + 1 ELSE heard
        BY <1>11, <3>1, <3>2
      <4> QED BY <4>1, <4>2, <4>3 DEF Rest
    <3> QED BY <1>3, <3>1, <3>3
  <2>2. CASE now >= NumObservers
    <3>1. events'[c] = Tail(events[c]) /\ turn'[c] = 1
      BY <1>6, <1>12, <2>2, ManagerAssumption
    <3>2. \A o \in Observers : o <= now /\ ~(o < 1)
      BY <1>6, <2>2, ManagerAssumption
    <3>3. \A o \in Observers : Len(delivered'[o]) = heard + 1
      BY <1>11, <3>2
    <3>4. Len(Tail(events[c])) = m - 1 /\ \A i \in 1 .. m - 1 : Tail(events[c])[i] = events[c][i + 1]
      BY <1>4, <1>8
    <3>5. CASE m = 1
      <4>1. events'[c] = <<>>
        <5>1. PICK q \in Seq(Event) : q = Tail(events[c]) /\ Len(q) = 0
          <6>1. events[c] \in Seq(Event) /\ events[c] # <<>>
            BY <1>3, <1>4
          <6>2. Tail(events[c]) \in Seq(Event)
            BY <6>1, HeadTailProperties
          <6>3. Len(Tail(events[c])) = 0
            BY <3>4, <3>5
          <6> QED BY <6>2, <6>3, Zenon
        <5>2. q = <<>>
          BY <5>1, EmptySeq
        <5> QED BY <3>1, <5>1, <5>2
      <4>2. heard + 1 = n
        BY <1>9, <3>5
      <4> QED BY <3>1, <3>3, <4>1, <4>2
    <3>6. CASE m > 1
      <4>1. n - (m - 1) = heard + 1 /\ heard + 1 >= 0
        BY <1>9
      <4>2. \A i \in 1 .. m - 1 : Tail(events[c])[i] = s[heard + 1 + i]
        <5>1. ASSUME NEW i \in 1 .. m - 1 PROVE Tail(events[c])[i] = s[heard + 1 + i]
          <6>1. i + 1 \in 1 .. m /\ heard + (i + 1) = heard + 1 + i
            OBVIOUS
          <6> QED BY <1>9, <3>4, <6>1
        <5> QED BY <5>1
      <4>3. events'[c] # <<>>
        <5>1. Len(<<>>) = 0 /\ m - 1 # 0
          BY <3>6
        <5> QED BY <3>1, <3>4, <5>1
      <4>4. Rest(s, c)'
        BY <1>2, <3>1, <3>2, <3>3, <3>4, <4>1, <4>2 DEF Rest
      <4> QED BY <4>3, <4>4
    <3>7. m = 1 \/ m > 1
      OBVIOUS
    <3> QED BY <3>5, <3>6, <3>7
  <2> QED BY <1>6, <2>1, <2>2, ManagerAssumption
<1>14. Spread(s)'
  <2>1. \A d \in Callers : IF events'[d] = <<>> THEN turn'[d] = 1 ELSE Rest(s, d)'
    <3>1. \A d \in Callers \ {c} : events'[d] = <<>> /\ turn'[d] = 1
      BY <1>1, <1>7 DEF Story, Spread
    <3> QED BY <1>13, <3>1
  <2>2. Settled' => \A o \in Observers : Len(delivered'[o]) = Len(s)
    BY <1>2, <1>13 DEF Settled
  <2>3. \A o \in Observers : /\ Len(delivered'[o]) <= Len(s)
                             /\ \A i \in 1 .. Len(delivered'[o]) : delivered'[o][i] = s[i]
    <3>1. heard <= n
      BY <1>10
    <3> QED BY <1>2, <1>10, <1>11, <3>1
  <2> QED BY <2>1, <2>2, <2>3 DEF Spread
<1>15. Ends(s)'
  BY <1>1, <1>3 DEF Story, Ends, LoadInProgress
<1>16. Retells(s)'
  <2>1. accepted' = accepted
    BY <1>3 DEF state
  <2>2. \A x : StateAfter(x)' = StateAfter(x)
    BY <2>1, Zenon DEF StateAfter
  <2>3. \A e : EventTrue(e)' <=> EventTrue(e)
    BY <2>1, <2>2, Zenon DEF EventTrue
  <2> QED BY <1>1, <2>1, <2>3, Zenon DEF Story, Retells
<1> QED BY <1>1, <1>14, <1>15, <1>16 DEF StoryInv, Story

(* The other steps of a call add nothing to the story.                     *)
LEMMA StoryKept ==
  ASSUME ManagerInv, UNCHANGED <<nextAttemptID, accepted, events, turn, delivered>>,
         LoadInProgress' <=> LoadInProgress
  PROVE  StoryInv'
<1>1. PICK s \in Seq(Event) : Story(s)
  BY DEF ManagerInv, StoryInv
<1>2. Ends(s)'
  BY <1>1 DEF Story, Ends
<1>3. Spread(s)'
  BY <1>1 DEF Story, Spread, Rest, Settled
<1>4. Retells(s)'
  <2>1. accepted' = accepted
    OBVIOUS
  <2>2. \A x : StateAfter(x)' = StateAfter(x)
    BY <2>1, Zenon DEF StateAfter
  <2>3. \A e : EventTrue(e)' <=> EventTrue(e)
    BY <2>1, <2>2, Zenon DEF EventTrue
  <2> QED BY <1>1, <2>1, <2>3, Zenon DEF Story, Retells
<1> QED BY <1>1, <1>2, <1>3, <1>4 DEF StoryInv, Story

(* The whole invariant is kept by every step.                              *)
LEMMA ManagerInductive == ManagerInv /\ [ManagerNext]_vars => ManagerInv'
<1> SUFFICES ASSUME ManagerInv, [ManagerNext]_vars PROVE ManagerInv'
  OBVIOUS
<1>1. BaseInv' /\ LogValid' /\ StatusFollowsLog' /\ IDsDense'
  BY BaseInductive, LogValidInductive, StatusInductive, IDsDenseInductive DEF ManagerInv
<1>2. CASE UNCHANGED vars
  <2>1. UNCHANGED <<nextAttemptID, accepted, events, turn, delivered, phase>>
    BY <1>2 DEF vars, state, callVars
  <2>2. LoadInProgress' <=> LoadInProgress
    BY <2>1 DEF LoadInProgress
  <2>3. StoryInv'
    BY <2>1, <2>2, StoryKept
  <2> QED BY <1>1, <2>3 DEF ManagerInv
<1>3. ASSUME NEW c \in Callers, StartLoad(c)
      PROVE  StoryInv'
  BY <1>1, <1>3, StoryStarts
<1>4. ASSUME NEW c \in Callers, CommitLoad(c) \/ AcceptExternal(c)
      PROVE  StoryInv'
  BY <1>1, <1>4, StoryAccepts
<1>5. ASSUME NEW c \in Callers, Deliver(c)
      PROVE  StoryInv'
  BY <1>5, StoryDelivers
<1>6. ASSUME NEW c \in Callers, Quiet(c), ~Deliver(c)
      PROVE  StoryInv'
  <2>1. UNCHANGED <<events, turn, delivered>>
    BY <1>6 DEF Quiet, CallLoad, CallApply, Acquire, CancelCall, callVars, ReturnRefused,
                RunLoad, RejectExternal, Return
  <2>2. /\ UNCHANGED <<nextAttemptID, accepted>>
        /\ \A d \in Callers : phase'[d] \in {"started", "loaded"} <=> phase[d] \in {"started", "loaded"}
    BY <1>6, QuietKeeps DEF ManagerInv, state
  <2>3. LoadInProgress' <=> LoadInProgress
    BY <2>2 DEF LoadInProgress
  <2> QED BY <2>1, <2>2, <2>3, StoryKept
<1>7. CASE ManagerNext
  <2>1. PICK c \in Callers : StartLoad(c) \/ CommitLoad(c) \/ AcceptExternal(c) \/ Quiet(c)
    BY <1>7, StepKinds
  <2>2. StoryInv'
    BY <1>3, <1>4, <1>5, <1>6, <2>1
  <2> QED BY <1>1, <2>2 DEF ManagerInv
<1> QED BY <1>2, <1>7

(* It holds of a new manager, of which there is nothing to tell.           *)
LEMMA ManagerInitial == ManagerInit => ManagerInv
<1> SUFFICES ASSUME ManagerInit PROVE ManagerInv
  OBVIOUS
<1>1. BaseInv /\ LogValid /\ StatusFollowsLog /\ IDsDense
  BY BaseInitial, LogValidInitial, StatusInitial, IDsDenseInitial
<1>2. /\ accepted = <<>> /\ phase = [c \in Callers |-> "idle"]
      /\ events = [c \in Callers |-> <<>>] /\ turn = [c \in Callers |-> 1]
      /\ delivered = [o \in Observers |-> <<>>]
  BY Zenon DEF ManagerInit
<1>3. PICK s \in Seq(Event) : s = <<>> /\ Len(s) = 0
  <2>1. <<>> \in Seq(Event) /\ Len(<<>>) = 0
    OBVIOUS
  <2> QED BY <2>1
<1>4. Chained(s)
  BY <1>3 DEF Chained
<1>5. Ends(s)
  BY <1>2, <1>3 DEF Ends, LoadInProgress
<1>6. Spread(s)
  BY <1>2, <1>3 DEF Spread
<1>7. Retells(s)
  BY <1>2, <1>3 DEF Retells
<1> QED BY <1>1, <1>4, <1>5, <1>6, <1>7 DEF ManagerInv, StoryInv, Story

(* What observers heard is a part of the story from its beginning.         *)
LEMMA DeliveryOrder == ManagerInv => DeliveredInOrder
<1> SUFFICES ASSUME ManagerInv PROVE DeliveredInOrder
  OBVIOUS
<1>1. PICK s \in Seq(Event) : Story(s)
  BY DEF ManagerInv, StoryInv
<1>2. PICK n \in Nat : n = Len(s)
  OBVIOUS
<1>3. /\ events \in [Callers -> Seq(Event)] /\ turn \in [Callers -> Observers]
      /\ delivered \in [Observers -> Seq(Event)]
  BY DEF ManagerInv, BaseInv, ManagerTypeOK
<1>4. \A o \in Observers : /\ Len(delivered[o]) \in Nat /\ Len(delivered[o]) <= n
                           /\ \A i \in 1 .. Len(delivered[o]) : delivered[o][i] = s[i]
  BY <1>1, <1>2, <1>3 DEF Story, Spread
<1>5. ASSUME NEW o \in Observers
      PROVE  /\ delivered[o] # <<>> => delivered[o][1].kind \in Opening
             /\ \A i \in 1 .. Len(delivered[o]) - 1 : Follows(delivered[o][i], delivered[o][i + 1])
  <2>1. PICK k \in Nat : k = Len(delivered[o]) /\ k <= n
    BY <1>4
  <2>2. \A i \in 1 .. k : delivered[o][i] = s[i]
    BY <1>4, <2>1
  <2>3. delivered[o] # <<>> => k > 0
    BY <1>3, <2>1
  <2>4. k > 0 => delivered[o][1] = s[1] /\ s # <<>>
    BY <1>2, <2>1, <2>2
  <2>5. delivered[o] # <<>> => delivered[o][1].kind \in Opening
    BY <1>1, <2>3, <2>4 DEF Story, Chained
  <2>6. ASSUME NEW i \in 1 .. k - 1 PROVE Follows(delivered[o][i], delivered[o][i + 1])
    <3>1. i \in 1 .. k /\ i + 1 \in 1 .. k /\ i \in 1 .. n - 1
      BY <2>1
    <3> QED BY <1>1, <1>2, <2>2, <3>1 DEF Story, Chained
  <2> QED BY <2>1, <2>5, <2>6
<1>6. ASSUME NEW o \in 1 .. NumObservers - 1
      PROVE  /\ Len(delivered[o]) - Len(delivered[o + 1]) \in {0, 1}
             /\ \A i \in DOMAIN delivered[o + 1] : delivered[o + 1][i] = delivered[o][i]
  <2>1. o \in Observers /\ o + 1 \in Observers /\ o \in Nat
    BY ManagerAssumption DEF Observers
  <2>2. \/ Len(delivered[o]) = Len(delivered[o + 1])
        \/ Len(delivered[o]) = Len(delivered[o + 1]) + 1
    <3>1. CASE Settled
      BY <1>1, <2>1, <3>1 DEF Story, Spread
    <3>2. ASSUME NEW c \in Callers, events[c] # <<>>
          PROVE  \/ Len(delivered[o]) = Len(delivered[o + 1])
                 \/ Len(delivered[o]) = Len(delivered[o + 1]) + 1
      <4>1. Rest(s, c)
        BY <1>1, <3>2 DEF Story, Spread
      <4>2. PICK heard : \A p \in Observers :
               Len(delivered[p]) = IF p < turn[c] THEN heard + 1 ELSE heard
        BY <4>1 DEF Rest
      <4>3. turn[c] \in Nat
        BY <1>3 DEF Observers
      <4>4. o + 1 < turn[c] => o < turn[c]
        BY <2>1, <4>3
      <4> QED BY <2>1, <4>2, <4>4
    <3> QED BY <3>1, <3>2 DEF Settled
  <2>3. /\ Len(delivered[o]) \in Nat /\ Len(delivered[o + 1]) \in Nat
        /\ DOMAIN delivered[o + 1] = 1 .. Len(delivered[o + 1])
    BY <1>3, <2>1
  <2>4. \A i \in DOMAIN delivered[o + 1] : i \in 1 .. Len(delivered[o])
    BY <2>2, <2>3
  <2>5. \A i \in DOMAIN delivered[o + 1] : delivered[o + 1][i] = delivered[o][i]
    BY <1>4, <2>1, <2>3, <2>4
  <2> QED BY <2>2, <2>3, <2>5
<1> QED BY <1>5, <1>6 DEF DeliveredInOrder, Opening

(* Observers are told of the attempts one after another, each of its steps *)
(* in order, and all observers the same, one at most ahead of the next     *)
(* (notifyLoadStarted, notifyLoadFinished, notifySnapshotApplied, notify). *)
THEOREM ManagerDeliversInOrder == ManagerSpec => []DeliveredInOrder
BY DeliveryOrder, ManagerInitial, ManagerInductive, PTL DEF ManagerSpec

(* No snapshot becomes current unannounced and none is announced that did  *)
(* not, to any observer (notifySnapshotApplied after applyValidated).      *)
THEOREM ManagerTellsPublications == ManagerSpec => []EventsTellPublications
<1>1. ManagerInv => EventsTellPublications
  <2> SUFFICES ASSUME ManagerInv, Settled, NEW o \in Observers
               PROVE  LET d    == delivered[o]
                          told == {i \in DOMAIN d : d[i].kind = "snapshot_applied"}
                      IN  /\ {d[i].id : i \in told} =
                               {accepted[n].attempt.id :
                                  n \in {m \in DOMAIN accepted :
                                           accepted[m].attempt.status = "succeeded"}}
                          /\ \A i, j \in told : i < j => d[i].id < d[j].id
    BY DEF EventsTellPublications
  <2>1. PICK s \in Seq(Event) : Story(s)
    BY DEF ManagerInv, StoryInv
  <2>2. PICK n \in Nat : n = Len(s) /\ \A i \in 1 .. n : s[i] \in Event
    OBVIOUS
  <2>3. PICK d \in Seq(Event) : /\ d = delivered[o] /\ DOMAIN d = 1 .. n
                                /\ \A i \in 1 .. n : d[i] = s[i]
    <3>1. delivered[o] \in Seq(Event) /\ Len(delivered[o]) = n
      BY <2>1, <2>2 DEF ManagerInv, BaseInv, ManagerTypeOK, Story, Spread
    <3>2. \A i \in 1 .. n : delivered[o][i] = s[i]
      BY <2>1, <3>1 DEF Story, Spread
    <3> QED BY <3>1, <3>2
  <2>4. PICK l \in Nat : /\ l = Len(accepted) /\ DOMAIN accepted = 1 .. l
                         /\ \A m \in 1 .. l : accepted[m].attempt.id = m
    <3>1. accepted \in Seq(LoadResult) /\ \A m \in DOMAIN accepted : accepted[m].attempt.id = m
      BY DEF ManagerInv, BaseInv, ManagerTypeOK, IDsDense
    <3> QED BY <3>1
  <2>5. \A i \in 1 .. n : d[i].kind = "snapshot_applied" =>
          d[i].id \in 1 .. l /\ accepted[d[i].id].attempt.status = "succeeded"
    BY <2>1, <2>2, <2>3, <2>4 DEF Story, Retells, EventTrue
  <2>6. \A m \in 1 .. l : accepted[m].attempt.status = "succeeded" =>
          \E i \in 1 .. n : d[i].kind = "snapshot_applied" /\ d[i].id = m
    BY <2>1, <2>2, <2>3, <2>4 DEF Story, Retells
  <2>7. \A i, j \in 1 .. n : d[i].kind = "snapshot_applied" /\ d[j].kind = "snapshot_applied"
                               /\ i < j => d[i].id < d[j].id
    <3>1. \A i \in 1 .. n : d[i].id \in Nat
      BY <2>2, <2>3 DEF Event
    <3>2. \A i, j \in 1 .. n : i < j => Before(d[i], d[j])
      BY <2>1, <2>2, <2>3 DEF Story, Chained
    <3> QED BY <3>1, <3>2 DEF Before, Rank
  <2> DEFINE told == {i \in 1 .. n : d[i].kind = "snapshot_applied"}
             kept == {m \in 1 .. l : accepted[m].attempt.status = "succeeded"}
  <2>8. {d[i].id : i \in told} = {accepted[m].attempt.id : m \in kept}
    <3>1. \A i \in told : d[i].id \in kept /\ accepted[d[i].id].attempt.id = d[i].id
      BY <2>4, <2>5
    <3>2. \A m \in kept : \E i \in told : d[i].id = accepted[m].attempt.id
      BY <2>4, <2>6
    <3> QED BY <3>1, <3>2
  <2>9. \A i, j \in told : i < j => d[i].id < d[j].id
    BY <2>7
  <2>10. /\ told = {i \in DOMAIN delivered[o] : delivered[o][i].kind = "snapshot_applied"}
         /\ kept = {m \in DOMAIN accepted : accepted[m].attempt.status = "succeeded"}
    BY <2>3, <2>4
  <2> HIDE DEF told, kept
  <2> QED BY <2>3, <2>8, <2>9, <2>10
<1> QED BY <1>1, ManagerInitial, ManagerInductive, PTL DEF ManagerSpec
=============================================================================
