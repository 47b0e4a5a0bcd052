------------------------------- MODULE Manager -------------------------------
(***************************************************************************)
(* Manager (manager.go): the loads and applies of concurrent callers,      *)
(* serialized by Admission, the state they leave, and the events they      *)
(* deliver to the synchronous observers.                                   *)
(*                                                                         *)
(* A managed load is four steps: it takes an ID and announces itself, runs *)
(* the stateless load, commits the result under the state lock, and        *)
(* notifies.  The stateless load is one step that returns any result its   *)
(* contract allows (Outcome); Load is its detailed model.  Load and        *)
(* LoadFromSource differ only inside that step, and in that the metadata   *)
(* of the source is read before the ID is taken, which no state can tell.  *)
(*                                                                         *)
(* Observers are called one after another on the caller's goroutine while  *)
(* it holds the admission.  A panic of an observer is recovered and        *)
(* changes nothing, so a delivery is one step whether it panics or not.    *)
(***************************************************************************)
EXTENDS Admission, Lifecycle, Integers, Sequences

CONSTANTS
  LoadResults,      \* results a stateless load may return
  ExternalResults,  \* results callers pass to Apply
  NumObservers,
  DefaultAttemptHistoryLimit,
  ConfiguredLimits, \* values given to WithAttemptHistoryLimit
  MaxCalls          \* bound on the number of calls

ASSUME ManagerAssumption ==
  /\ LoadResults \subseteq LoadResult
  /\ \A r \in LoadResults : ValidLoadResult(r)
  /\ ExternalResults \subseteq LoadResult
  /\ NumObservers \in Nat \ {0}
  /\ DefaultAttemptHistoryLimit \in Nat \ {0}
  /\ ConfiguredLimits \subseteq Int
  /\ MaxCalls \in Nat

VARIABLES
  nextAttemptID, current, lastAttempt, lastSuccess, lastFailure, lastApply,
  attemptHistory, attemptHistoryLimit,
  phase,      \* what each caller's call does next
  job,        \* the result each caller has in hand
  attemptID,  \* the ID each caller's managed load was given
  events,     \* the events each caller has still to deliver
  turn,       \* the observer that gets the first of them next
  accepted,   \* history: the accepted results, in order
  delivered,  \* history: the events each observer was called with
  calls       \* number of calls begun

state    == <<current, lastAttempt, lastSuccess, lastFailure, lastApply,
              attemptHistory, accepted>>
callVars == <<phase, job, attemptID, events, turn>>
vars     == <<admVars, nextAttemptID, state, attemptHistoryLimit, callVars,
              delivered, calls>>

Observers == 1 .. NumObservers

Phases == {"idle", "load", "apply", "started", "loaded", "finishing"}

EventKinds == {"load_started", "load_succeeded", "load_failed", "snapshot_applied"}

Event == [kind : EventKinds, id : Nat, state : LifecycleStates]

(***************************************************************************)
(* Initial state: the zero Manager, whose limit is 0, or NewManager's.     *)
(***************************************************************************)
NewManagerLimit(configured) == IF configured <= 0 THEN -1 ELSE configured

ManagerInit ==
  /\ AdmInit
  /\ nextAttemptID = 0
  /\ current = Nil
  /\ lastAttempt = Nil /\ lastSuccess = Nil /\ lastFailure = Nil
  /\ lastApply = Nil
  /\ attemptHistory = <<>>
  /\ attemptHistoryLimit \in {0, DefaultAttemptHistoryLimit}
                               \cup {NewManagerLimit(n) : n \in ConfiguredLimits}
  /\ phase     = [c \in Callers |-> "idle"]
  /\ job       = [c \in Callers |-> Nil]
  /\ attemptID = [c \in Callers |-> 0]
  /\ events    = [c \in Callers |-> <<>>]
  /\ turn      = [c \in Callers |-> 1]
  /\ accepted  = <<>>
  /\ delivered = [o \in Observers |-> <<>>]
  /\ calls = 0

managerState == LifecycleState(current, lastAttempt)

WithID(r, n) == [snapshot |-> r.snapshot, attempt |-> [r.attempt EXCEPT !.id = n]]

(* Faulty variants, here, before Commit and before CommitLoad, are no part *)
(* of the specification: each property is shown to fail with one of them   *)
(* in the place of the definition it varies.                               *)
RecordOldest(attempt) ==  \* a full history drops what is newest
  LET limit == IF attemptHistoryLimit = 0 THEN DefaultAttemptHistoryLimit
                                          ELSE attemptHistoryLimit
  IN  IF limit < 0 \/ Len(attemptHistory) = limit THEN attemptHistory
      ELSE Append(attemptHistory, attempt)

(* recordAttemptLocked.                                                    *)
historyLimit == IF attemptHistoryLimit = 0 THEN DefaultAttemptHistoryLimit
                                           ELSE attemptHistoryLimit

RecordAttempt(attempt) ==
  LET longer == Append(attemptHistory, attempt)
  IN  IF historyLimit < 0 THEN attemptHistory
      ELSE IF Len(longer) <= historyLimit THEN longer
      ELSE SubSeq(longer, Len(longer) - historyLimit + 1, Len(longer))

CommitClearingSnapshot(r) ==  \* a failed attempt unpublishes
  /\ lastAttempt'    = r.attempt
  /\ attemptHistory' = RecordAttempt(r.attempt)
  /\ lastApply'      = Applied(current, r)
  /\ current'        = r.snapshot
  /\ IF r.attempt.status = "succeeded"
     THEN lastSuccess' = r.attempt /\ UNCHANGED lastFailure
     ELSE lastFailure' = r.attempt /\ UNCHANGED lastSuccess
  /\ accepted' = Append(accepted, r)

CommitClearingFailure(r) ==  \* a success forgets the last failure
  /\ lastAttempt'    = r.attempt
  /\ attemptHistory' = RecordAttempt(r.attempt)
  /\ lastApply'      = Applied(current, r)
  /\ IF r.attempt.status = "succeeded"
     THEN current' = r.snapshot /\ lastSuccess' = r.attempt /\ lastFailure' = Nil
     ELSE lastFailure' = r.attempt /\ UNCHANGED <<current, lastSuccess>>
  /\ accepted' = Append(accepted, r)

FinishedBeforeCommit(r) ==  \* the event reports the state before the commit
  <<[kind  |-> IF r.attempt.status = "succeeded" THEN "load_succeeded" ELSE "load_failed",
     id    |-> r.attempt.id,
     state |-> managerState]>>

SnapshotAppliedIfChanged(r) ==  \* no event for the same configuration again
  IF Applied(current, r).changed
  THEN <<[kind |-> "snapshot_applied", id |-> r.attempt.id,
          state |-> Applied(current, r).state]>>
  ELSE <<>>

(* apply: one critical section of the state lock.                          *)
Commit(r) ==
  /\ lastAttempt'    = r.attempt
  /\ attemptHistory' = RecordAttempt(r.attempt)
  /\ lastApply'      = Applied(current, r)
  /\ IF r.attempt.status = "succeeded" /\ r.snapshot # Nil
     THEN /\ current' = r.snapshot
          /\ lastSuccess' = r.attempt
          /\ UNCHANGED lastFailure
     ELSE /\ lastFailure' = IF r.attempt.status = "failed" THEN r.attempt ELSE lastFailure
          /\ UNCHANGED <<current, lastSuccess>>
  /\ accepted' = Append(accepted, r)

(* The events that follow an accepted result: load_succeeded or            *)
(* load_failed for a managed load, snapshot_applied for a publication.     *)
Finished(r) ==
  <<[kind  |-> IF r.attempt.status = "succeeded" THEN "load_succeeded" ELSE "load_failed",
     id    |-> r.attempt.id,
     state |-> Applied(current, r).state]>>

SnapshotApplied(r) ==
  IF Applied(current, r).published
  THEN <<[kind |-> "snapshot_applied", id |-> r.attempt.id,
          state |-> Applied(current, r).state]>>
  ELSE <<>>

(***************************************************************************)
(* Steps of a call.                                                        *)
(***************************************************************************)
CallLoad(c, k) ==
  /\ calls < MaxCalls
  /\ phase[c] = "idle"
  /\ Enter(c, k)
  /\ phase' = [phase EXCEPT ![c] = "load"]
  /\ calls' = calls + 1
  /\ UNCHANGED <<nextAttemptID, state, attemptHistoryLimit, job, attemptID,
                 events, turn, delivered>>

CallApply(c, k, r) ==
  /\ calls < MaxCalls
  /\ phase[c] = "idle"
  /\ Enter(c, k)
  /\ phase' = [phase EXCEPT ![c] = "apply"]
  /\ job' = [job EXCEPT ![c] = r]
  /\ calls' = calls + 1
  /\ UNCHANGED <<nextAttemptID, state, attemptHistoryLimit, attemptID,
                 events, turn, delivered>>

Acquire(c) ==
  /\ Acquiring(c)
  /\ UNCHANGED <<nextAttemptID, state, attemptHistoryLimit, callVars, delivered, calls>>

CancelCall(c, k) ==
  /\ Cancel(c, k)
  /\ UNCHANGED <<nextAttemptID, state, attemptHistoryLimit, callVars, delivered, calls>>

(* A call refused admission returns the context error.                     *)
ReturnRefused(c) ==
  /\ Leave(c)
  /\ phase' = [phase EXCEPT ![c] = "idle"]
  /\ job' = [job EXCEPT ![c] = Nil]
  /\ UNCHANGED <<nextAttemptID, state, attemptHistoryLimit, attemptID,
                 events, turn, delivered, calls>>

(* nextManagedAttemptID and notifyLoadStarted.                             *)
StartLoad(c) ==
  /\ phase[c] = "load"
  /\ adm[c] = "admitted"
  /\ nextAttemptID' = nextAttemptID + 1
  /\ attemptID' = [attemptID EXCEPT ![c] = nextAttemptID']
  /\ events' = [events EXCEPT ![c] =
       <<[kind |-> "load_started", id |-> nextAttemptID', state |-> managerState]>>]
  /\ phase' = [phase EXCEPT ![c] = "started"]
  /\ UNCHANGED <<admVars, state, attemptHistoryLimit, job, turn, delivered, calls>>

(* The stateless load returns, and its attempt gets the ID.                *)
RunLoad(c) ==
  /\ phase[c] = "started"
  /\ events[c] = <<>>
  /\ \E r \in LoadResults :
       /\ Outcome(r, ctx[c])
       /\ job' = [job EXCEPT ![c] = WithID(r, attemptID[c])]
  /\ phase' = [phase EXCEPT ![c] = "loaded"]
  /\ UNCHANGED <<admVars, nextAttemptID, state, attemptHistoryLimit, attemptID,
                 events, turn, delivered, calls>>

CommitLoadPublishedFirst(c) ==  \* snapshot_applied before load_succeeded
  /\ phase[c] = "loaded"
  /\ ValidLoadResult(job[c])
  /\ Commit(job[c])
  /\ events' = [events EXCEPT ![c] = SnapshotApplied(job[c]) \o Finished(job[c])]
  /\ phase' = [phase EXCEPT ![c] = "finishing"]
  /\ UNCHANGED <<admVars, nextAttemptID, attemptHistoryLimit, job, attemptID,
                 turn, delivered, calls>>

RejectExternalNumbered(c) ==  \* the ID is assigned before the validation
  /\ phase[c] = "apply"
  /\ adm[c] = "admitted"
  /\ ~ValidLoadResult(job[c])
  /\ nextAttemptID' = nextAttemptID + 1
  /\ phase' = [phase EXCEPT ![c] = "finishing"]
  /\ UNCHANGED <<admVars, state, attemptHistoryLimit, job, attemptID,
                 events, turn, delivered, calls>>

DeliverOncePastLast(c) ==  \* the turn does not go back to the first observer
  /\ events[c] # <<>>
  /\ delivered' = [delivered EXCEPT ![turn[c]] = Append(@, Head(events[c]))]
  /\ turn' = [turn EXCEPT ![c] = @ + 1]
  /\ UNCHANGED <<admVars, nextAttemptID, state, attemptHistoryLimit, phase, job,
                 attemptID, events, calls>>

ReturnBeforeNotify(c) ==  \* releases while its events are being delivered
  /\ phase[c] = "finishing"
  /\ Release(c)
  /\ phase' = [phase EXCEPT ![c] = "idle"]
  /\ job' = [job EXCEPT ![c] = Nil]
  /\ UNCHANGED <<nextAttemptID, state, attemptHistoryLimit, attemptID,
                 events, turn, delivered, calls>>

(* applyValidated, then notifyLoadFinished and notifySnapshotApplied.      *)
(* Outcome makes validateLoadResult accept every result.                   *)
CommitLoad(c) ==
  /\ phase[c] = "loaded"
  /\ ValidLoadResult(job[c])
  /\ Commit(job[c])
  /\ events' = [events EXCEPT ![c] = Finished(job[c]) \o SnapshotApplied(job[c])]
  /\ phase' = [phase EXCEPT ![c] = "finishing"]
  /\ UNCHANGED <<admVars, nextAttemptID, attemptHistoryLimit, job, attemptID,
                 turn, delivered, calls>>

(* Apply of a result produced elsewhere: a fresh ID, and one event at most.*)
AcceptExternal(c) ==
  /\ phase[c] = "apply"
  /\ adm[c] = "admitted"
  /\ ValidLoadResult(job[c])
  /\ nextAttemptID' = nextAttemptID + 1
  /\ LET r == WithID(job[c], nextAttemptID')
     IN  /\ Commit(r)
         /\ events' = [events EXCEPT ![c] = SnapshotApplied(r)]
  /\ phase' = [phase EXCEPT ![c] = "finishing"]
  /\ UNCHANGED <<admVars, attemptHistoryLimit, job, attemptID, turn, delivered, calls>>

RejectExternal(c) ==
  /\ phase[c] = "apply"
  /\ adm[c] = "admitted"
  /\ ~ValidLoadResult(job[c])
  /\ phase' = [phase EXCEPT ![c] = "finishing"]
  /\ UNCHANGED <<admVars, nextAttemptID, state, attemptHistoryLimit, job, attemptID,
                 events, turn, delivered, calls>>

(* notify: the first event goes to the observer whose turn it is, and the  *)
(* next event starts when every observer has had this one.                 *)
Deliver(c) ==
  /\ events[c] # <<>>
  /\ delivered' = [delivered EXCEPT ![turn[c]] = Append(@, Head(events[c]))]
  /\ IF turn[c] < NumObservers
     THEN turn' = [turn EXCEPT ![c] = @ + 1] /\ UNCHANGED events
     ELSE /\ turn' = [turn EXCEPT ![c] = 1]
          /\ events' = [events EXCEPT ![c] = Tail(@)]
  /\ UNCHANGED <<admVars, nextAttemptID, state, attemptHistoryLimit, phase, job,
                 attemptID, calls>>

(* The deferred release, and the return to the caller.                     *)
Return(c) ==
  /\ phase[c] = "finishing"
  /\ events[c] = <<>>
  /\ Release(c)
  /\ phase' = [phase EXCEPT ![c] = "idle"]
  /\ job' = [job EXCEPT ![c] = Nil]
  /\ UNCHANGED <<nextAttemptID, state, attemptHistoryLimit, attemptID,
                 events, turn, delivered, calls>>

Work(c) == \/ ReturnRefused(c) \/ StartLoad(c) \/ RunLoad(c) \/ CommitLoad(c)
           \/ AcceptExternal(c) \/ RejectExternal(c) \/ Deliver(c) \/ Return(c)

ManagerNext ==
  \E c \in Callers :
    \/ \E k \in Contexts : CallLoad(c, k) \/ \E r \in ExternalResults : CallApply(c, k, r)
    \/ Acquire(c)
    \/ \E k \in Dead : CancelCall(c, k)
    \/ Work(c)

ManagerSpec == ManagerInit /\ [][ManagerNext]_vars
=============================================================================
