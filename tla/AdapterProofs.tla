----------------------------- MODULE AdapterProofs -----------------------------
(***************************************************************************)
(* Proofs about Opskit and ReloadCommand, what an operator reads of a      *)
(* manager and the command that reloads it, for any probers, any callers   *)
(* and any manager.                                                        *)
(***************************************************************************)
EXTENDS Opskit, ReloadCommand, ManagerProofs, WellFoundedInduction

(***************************************************************************)
(* Opskit.                                                                 *)
(***************************************************************************)
(* Reading is all that probers do: with the probers hidden, Opskit is      *)
(* Manager, so what is proved of Manager holds between any reads.          *)
LEMMA OpskitStepIsManagerStep == [OpskitNext]_<<vars, opsVars>> => [ManagerNext]_vars
BY DEF OpskitNext, Read, Probe, Check, Inspect, GetInspection, GetAttempts, Answer

(* Status, Readiness, Inspect and the HTTP routes change nothing.          *)
THEOREM OpskitOnlyReads == OpskitSpec => ManagerSpec
<1>1. OpskitInit => ManagerInit
  BY DEF OpskitInit
<1> QED BY <1>1, OpskitStepIsManagerStep, PTL DEF OpskitSpec, ManagerSpec

(***************************************************************************)
(* Readiness.                                                              *)
(***************************************************************************)
ReadyStep ==
  lifecycleReady(managerState) =>
    \/ lifecycleReady(managerState)'
    \/ ~degradedReady /\ lastAttempt' # Nil /\ lastAttempt'.status = "failed"

(* A manager that is ready has a snapshot.                                 *)
LEMMA ReadyHasCurrent ==
  ASSUME lifecycleReady(managerState)
  PROVE  current # Nil
BY DEF lifecycleReady, managerState, LifecycleState

(* A commit ends readiness only by a failure where degraded is not ready.  *)
LEMMA CommitKeepsReadiness ==
  ASSUME NEW r \in LoadResult, ValidLoadResult(r), Commit(r), UNCHANGED degradedReady
  PROVE  ReadyStep
<1> SUFFICES ASSUME current # Nil
             PROVE  \/ lifecycleReady(managerState)'
                    \/ ~degradedReady /\ lastAttempt' # Nil /\ lastAttempt'.status = "failed"
  BY ReadyHasCurrent DEF ReadyStep
<1>1. lastAttempt' = r.attempt /\ lastAttempt' # Nil
  BY CommitEffect
<1>2. CASE r.attempt.status = "succeeded"
  <2>1. current' # Nil
    BY <1>2, CommitEffect, NilAssumption
  <2>2. managerState' = "loaded"
    BY <1>1, <1>2, <2>1 DEF managerState, LifecycleState
  <2> QED BY <2>2 DEF lifecycleReady
<1>3. CASE r.attempt.status = "failed"
  <2>1. current' # Nil
    BY <1>3, CommitEffect
  <2>2. managerState' = "degraded"
    BY <1>1, <1>3, <2>1 DEF managerState, LifecycleState
  <2> QED BY <1>1, <1>3, <2>2 DEF lifecycleReady
<1> QED BY <1>2, <1>3 DEF ValidLoadResult

(* So does any step.                                                       *)
LEMMA StepKeepsReadiness ==
  ASSUME BaseInv, [OpskitNext]_<<vars, opsVars>>
  PROVE  [ReadyStep]_<<vars, opsVars>>
<1>1. UNCHANGED degradedReady
  BY DEF OpskitNext, opsVars, Read, Probe, Check, Inspect, GetInspection, GetAttempts, Answer
<1>2. ASSUME UNCHANGED state
      PROVE  ReadyStep
  BY <1>1, <1>2 DEF ReadyStep, lifecycleReady, managerState, state
<1>3. CASE UNCHANGED vars
  BY <1>2, <1>3 DEF vars
<1>4. CASE ManagerNext
  <2>1. PICK c \in Callers : StartLoad(c) \/ CommitLoad(c) \/ AcceptExternal(c) \/ Quiet(c)
    BY <1>4, StepKinds
  <2>2. CASE StartLoad(c) \/ Quiet(c)
    BY <1>2, <2>2, QuietKeeps DEF StartLoad
  <2>3. CASE CommitLoad(c)
    BY <1>1, <2>3, CommitLoadCommits, CommitKeepsReadiness
  <2>4. CASE AcceptExternal(c)
    BY <1>1, <2>4, AcceptExternalCommits, CommitKeepsReadiness
  <2> QED BY <2>1, <2>2, <2>3, <2>4
<1> QED BY <1>3, <1>4, OpskitStepIsManagerStep

(* A ready service stays ready, whatever its callers load, apply or        *)
(* cancel, unless it was told that degraded is not ready and an attempt    *)
(* failed (lifecycleReady over what apply leaves).                         *)
THEOREM OpskitReadinessKept == OpskitSpec => ReadinessKept
<1>1. OpskitInit => BaseInv
  BY BaseInitial DEF OpskitInit
<1>2. BaseInv /\ [OpskitNext]_<<vars, opsVars>> => BaseInv'
  BY BaseInductive, OpskitStepIsManagerStep
<1>3. BaseInv /\ [OpskitNext]_<<vars, opsVars>> => [ReadyStep]_<<vars, opsVars>>
  BY StepKeepsReadiness
<1> QED BY <1>1, <1>2, <1>3, PTL DEF OpskitSpec, ReadinessKept, ReadyStep

(***************************************************************************)
(* What the status is made of, as the log tells it.                        *)
(***************************************************************************)

(* The latest of a status is where LatestWith finds it.                    *)
LEMMA LatestOfIs ==
  ASSUME NEW n \in Nat, DOMAIN accepted = 1 .. n, NEW status, NEW i \in 1 .. n,
         LatestWith(i, status)
  PROVE  LatestOf(status, n) = i
<1> DEFINE those == {j \in 1 .. n : accepted[j].attempt.status = status}
<1>1. i \in those /\ \A j \in those : j <= i
  BY DEF LatestWith
<1>2. \A k \in those : (\A j \in those : j <= k) => k = i
  BY <1>1
<1>3. LatestOf(status, n) = IF those = {} THEN 0
                            ELSE CHOOSE k \in those : \A j \in those : j <= k
  BY Zenon DEF LatestOf
<1> HIDE DEF those
<1> QED BY <1>1, <1>2, <1>3

(* There is none where NoneWith holds.                                     *)
LEMMA LatestOfNone ==
  ASSUME NEW n \in Nat, DOMAIN accepted = 1 .. n, NEW status, NoneWith(status)
  PROVE  LatestOf(status, n) = 0
<1>1. {j \in 1 .. n : accepted[j].attempt.status = status} = {}
  BY DEF NoneWith
<1> QED BY <1>1, Zenon DEF LatestOf

(* What of a moment n of the past is told by the log as it is now.         *)
Recounts(n) ==
  <<LatestOf("succeeded", n), LatestOf("failed", n), HealthAt(n), SnapshotAt(n), AttemptAt(n),
    AttemptAt(LatestOf("succeeded", n)), AttemptAt(LatestOf("failed", n))>>

(* A nonempty set of numbers up to n has a greatest.                       *)
LEMMA Greatest ==
  ASSUME NEW n \in Nat, NEW S \in SUBSET (1 .. n), S # {}
  PROVE  \E k \in S : \A j \in S : j <= k
<1> DEFINE gaps == {n - j : j \in S}
<1>1. gaps # {} /\ gaps \subseteq Nat
  <2>1. \A j \in S : n - j \in Nat
    OBVIOUS
  <2>2. PICK j \in S : TRUE
    OBVIOUS
  <2> QED BY <2>1, <2>2
<1>2. PICK g \in gaps : \A h \in gaps : ~(<<h, g>> \in OpToRel(<, Nat))
  <2> HIDE DEF gaps
  <2> QED BY <1>1, NatLessThanWellFounded, WFMin, Zenon
<1>3. \A h \in gaps : ~(h < g)
  BY <1>1, <1>2 DEF OpToRel
<1>4. PICK k \in S : g = n - k
  OBVIOUS
<1>5. ASSUME NEW j \in S
      PROVE  j <= k
  <2>1. ~(n - j < n - k)
    BY <1>3, <1>4
  <2> QED BY <2>1
<1> QED BY <1>5

(* The latest is one of the first n, or none.                              *)
LEMMA LatestOfRange ==
  ASSUME NEW n \in Nat, NEW status
  PROVE  LatestOf(status, n) \in 0 .. n
<1> DEFINE those == {j \in 1 .. n : accepted[j].attempt.status = status}
<1>1. LatestOf(status, n) = IF those = {} THEN 0
                            ELSE CHOOSE k \in those : \A j \in those : j <= k
  BY Zenon DEF LatestOf
<1>2. those \in SUBSET (1 .. n)
  OBVIOUS
<1> HIDE DEF those
<1>3. those # {} => LatestOf(status, n) \in those
  BY <1>1, <1>2, Greatest
<1>4. those = {} => LatestOf(status, n) = 0
  BY <1>1
<1>5. 0 \in 0 .. n /\ 1 .. n \subseteq 0 .. n
  OBVIOUS
<1> QED BY <1>2, <1>3, <1>4, <1>5

(* A log that grows tells the same of its past.                            *)
LEMMA PastKept ==
  ASSUME NEW n \in Nat, 1 .. n \subseteq DOMAIN accepted, LogGrows
  PROVE  Recounts(n)' = Recounts(n)
<1>1. \A i \in 1 .. n : accepted'[i] = accepted[i]
  BY DEF LogGrows
<1>2. ASSUME NEW status
      PROVE  LatestOf(status, n)' = LatestOf(status, n)
  <2>1. {j \in 1 .. n : accepted'[j].attempt.status = status}
          = {j \in 1 .. n : accepted[j].attempt.status = status}
    BY <1>1
  <2> DEFINE Last(T) == IF T = {} THEN 0 ELSE CHOOSE k \in T : \A j \in T : j <= k
  <2>2. /\ LatestOf(status, n) = Last({j \in 1 .. n : accepted[j].attempt.status = status})
        /\ LatestOf(status, n)' = Last({j \in 1 .. n : accepted'[j].attempt.status = status})
    BY Zenon DEF LatestOf
  <2> HIDE DEF Last
  <2> QED BY <2>1, <2>2
<1>3. \A i \in 0 .. n : AttemptAt(i)' = AttemptAt(i)
  BY <1>1 DEF AttemptAt
<1>4. HealthAt(n)' = HealthAt(n)
  BY <1>2 DEF HealthAt
<1>5. SnapshotAt(n)' = SnapshotAt(n)
  <2>1. PICK i \in 0 .. n : LatestOf("succeeded", n) = i
    BY LatestOfRange
  <2>2. LatestOf("succeeded", n)' = i
    BY <1>2, <2>1
  <2>3. i = 0 \/ accepted'[i] = accepted[i]
    BY <1>1
  <2> QED BY <2>1, <2>2, <2>3 DEF SnapshotAt
<1>6. AttemptAt(LatestOf("succeeded", n))' = AttemptAt(LatestOf("succeeded", n))
  <2>1. PICK i \in 0 .. n : LatestOf("succeeded", n) = i /\ LatestOf("succeeded", n)' = i
    BY <1>2, LatestOfRange
  <2> QED BY <1>3, <2>1 DEF AttemptAt
<1>7. AttemptAt(LatestOf("failed", n))' = AttemptAt(LatestOf("failed", n))
  <2>1. PICK i \in 0 .. n : LatestOf("failed", n) = i /\ LatestOf("failed", n)' = i
    BY <1>2, LatestOfRange
  <2> QED BY <1>3, <2>1 DEF AttemptAt
<1> QED BY <1>2, <1>3, <1>4, <1>5, <1>6, <1>7 DEF Recounts

(* What the manager has and reports is what the whole log tells.           *)
LEMMA PresentTold ==
  ASSUME BaseInv, LogValid, StatusFollowsLog, NEW n \in Nat, n = Len(accepted)
  PROVE  /\ DOMAIN accepted = 1 .. n
         /\ HealthAt(n) = managerState
         /\ SnapshotAt(n) = current
         /\ AttemptAt(n) = lastAttempt
         /\ AttemptAt(LatestOf("succeeded", n)) = lastSuccess
         /\ AttemptAt(LatestOf("failed", n)) = lastFailure
         /\ current # Nil <=> LatestOf("succeeded", n) > 0
         /\ n > 0 => lastApply.current = current /\ lastApply.state = managerState
<1>1. DOMAIN accepted = 1 .. n /\ (n = 0 <=> accepted = <<>>)
  BY DEF BaseInv, ManagerTypeOK
<1>2. AttemptAt(n) = lastAttempt
  BY <1>1 DEF AttemptAt, StatusFollowsLog
<1>3. PICK s \in 0 .. n : /\ LatestOf("succeeded", n) = s
                          /\ lastSuccess = AttemptAt(s)
                          /\ current = IF s = 0 THEN Nil ELSE accepted[s].snapshot
                          /\ s = 0 => NoneWith("succeeded")
                          /\ s > 0 => LatestWith(s, "succeeded")
  <2>1. CASE NoneWith("succeeded") /\ current = Nil /\ lastSuccess = Nil
    BY <1>1, <2>1, LatestOfNone DEF AttemptAt
  <2>2. ASSUME NEW i \in DOMAIN accepted, LatestWith(i, "succeeded"),
               current = accepted[i].snapshot, lastSuccess = accepted[i].attempt
        PROVE  \E s \in 0 .. n : /\ LatestOf("succeeded", n) = s
                                 /\ lastSuccess = AttemptAt(s)
                                 /\ current = IF s = 0 THEN Nil ELSE accepted[s].snapshot
                                 /\ s = 0 => NoneWith("succeeded")
                                 /\ s > 0 => LatestWith(s, "succeeded")
    <3>1. i \in 1 .. n /\ LatestOf("succeeded", n) = i
      BY <1>1, <2>2, LatestOfIs
    <3> QED BY <2>2, <3>1 DEF AttemptAt
  <2> QED BY <2>1, <2>2 DEF StatusFollowsLog
<1>4. AttemptAt(LatestOf("failed", n)) = lastFailure
  <2>1. CASE NoneWith("failed") /\ lastFailure = Nil
    BY <1>1, <2>1, LatestOfNone DEF AttemptAt
  <2>2. ASSUME NEW i \in DOMAIN accepted, LatestWith(i, "failed"),
               lastFailure = accepted[i].attempt
        PROVE  AttemptAt(LatestOf("failed", n)) = lastFailure
    <3>1. i \in 1 .. n /\ LatestOf("failed", n) = i
      BY <1>1, <2>2, LatestOfIs
    <3> QED BY <2>2, <3>1 DEF AttemptAt
  <2> QED BY <2>1, <2>2 DEF StatusFollowsLog
<1>5. current # Nil <=> s > 0
  <2>1. s > 0 => ValidLoadResult(accepted[s]) /\ accepted[s].attempt.status = "succeeded"
    BY <1>1, <1>3 DEF LogValid, LatestWith
  <2>2. s > 0 => accepted[s].snapshot # Nil
    BY <2>1 DEF ValidLoadResult, ValidSucceeded
  <2> QED BY <1>3, <2>2
<1>6. SnapshotAt(n) = current
  BY <1>3 DEF SnapshotAt
<1>7. HealthAt(n) = managerState
  <2>1. CASE n = 0
    <3>1. s = 0 /\ lastAttempt = Nil /\ current = Nil
      BY <1>2, <1>3, <2>1 DEF AttemptAt
    <3> QED BY <2>1, <3>1 DEF HealthAt, managerState, LifecycleState
  <2>2. CASE n > 0
    <3>1. /\ n \in DOMAIN accepted /\ lastAttempt = accepted[n].attempt
          /\ ValidLoadResult(accepted[n])
      BY <1>1, <1>2, <2>2 DEF AttemptAt, LogValid
    <3>2. accepted[n].attempt \in AttemptRecord
      <4>1. accepted[n] \in LoadResult
        BY <3>1 DEF BaseInv, ManagerTypeOK
      <4> QED BY <4>1 DEF LoadResult
    <3>3. lastAttempt # Nil
      BY <3>1, <3>2, NilAssumption
    <3>4. CASE lastAttempt.status = "succeeded"
      <4>1. s = n
        BY <1>1, <1>3, <2>2, <3>1, <3>4 DEF LatestWith, NoneWith
      <4> QED BY <1>3, <1>5, <2>2, <3>4, <4>1 DEF HealthAt, managerState, LifecycleState
    <3>5. CASE lastAttempt.status = "failed"
      <4>1. s # n
        BY <1>1, <1>3, <2>2, <3>1, <3>5 DEF LatestWith, NoneWith
      <4> QED BY <1>3, <1>5, <2>2, <3>3, <3>5, <4>1 DEF HealthAt, managerState, LifecycleState
    <3> QED BY <3>1, <3>4, <3>5 DEF ValidLoadResult
  <2> QED BY <2>1, <2>2
<1>8. n > 0 => lastApply.current = current /\ lastApply.state = managerState
  BY <1>1 DEF StatusFollowsLog
<1> QED BY <1>1, <1>2, <1>3, <1>4, <1>5, <1>6, <1>7, <1>8

(* An answer of Status or Readiness is true when it is given.              *)
LEMMA FreshReadingTrue ==
  ASSUME BaseInv, LogValid, StatusFollowsLog
  PROVE  ReadingTrue(Reading)
<1>1. PICK n \in Nat : n = Len(accepted)
  BY DEF BaseInv, ManagerTypeOK
<1>2. /\ DOMAIN accepted = 1 .. n
      /\ HealthAt(n) = managerState
      /\ SnapshotAt(n) = current
      /\ AttemptAt(n) = lastAttempt
      /\ current # Nil <=> LatestOf("succeeded", n) > 0
  BY <1>1, PresentTold
<1>3. LatestOf("succeeded", n) \in 0 .. n
  BY LatestOfRange
<1>4. /\ Reading.moment = n
      /\ Reading.state = opskitState[managerState]
      /\ Reading.ready = lifecycleReady(managerState)
      /\ Reading.attributes = lifecycleAttributes
  BY <1>1 DEF Reading
<1>5. lifecycleReady(managerState) <=> \/ LatestOf("succeeded", n) = n /\ n > 0
                                       \/ LatestOf("succeeded", n) > 0 /\ degradedReady
  BY <1>2, <1>3 DEF HealthAt, lifecycleReady
<1>6. lifecycleAttributes.hasCurrent <=> LatestOf("succeeded", n) > 0
  BY <1>2 DEF lifecycleAttributes
<1>7. ASSUME n > 0
      PROVE  /\ lifecycleAttributes.status = accepted[n].attempt.status
             /\ lifecycleAttributes.stage = accepted[n].attempt.stage
             /\ lifecycleAttributes.source =
                  IF lifecycleAttributes.hasCurrent /\ SnapshotAt(n).source # ""
                  THEN SnapshotAt(n).source ELSE accepted[n].attempt.source
  <2>1. lastAttempt = accepted[n].attempt
    BY <1>2, <1>7 DEF AttemptAt
  <2>2. lastAttempt # Nil
    <3>1. accepted[n] \in LoadResult
      BY <1>2, <1>7 DEF BaseInv, ManagerTypeOK
    <3> QED BY <2>1, <3>1, NilAssumption DEF LoadResult
  <2> QED BY <1>2, <2>1, <2>2 DEF lifecycleAttributes, lifecycleSource
<1> HIDE DEF Reading
<1> QED BY <1>2, <1>4, <1>5, <1>6, <1>7 DEF ReadingTrue

(***************************************************************************)
(* The answers.  A page has its fields, and what is told of its moment is  *)
(* told of a part of the log; so is a reading's.                           *)
(***************************************************************************)
Page == [kind        : {"page"},
         state       : LifecycleStates,
         current     : Metadata \cup {Nil},
         lastAttempt : AttemptRecord \cup {Nil},
         lastSuccess : AttemptRecord \cup {Nil},
         lastFailure : AttemptRecord \cup {Nil},
         lastApply   : ApplyResult \cup {Nil},
         redacted    : Metadata \cup {Nil},
         moment      : Nat,
         attempts    : Seq(AttemptRecord),
         listed      : Nat]

PageInv(v) ==
  /\ v \in Page
  /\ v.moment <= Len(accepted) /\ v.listed <= Len(accepted)
  /\ PageTrue(v)

ReadingInv(r) ==
  /\ r.kind # "page"
  /\ r.moment \in Nat /\ r.moment <= Len(accepted)
  /\ ReadingTrue(r)

AnswerInv ==
  /\ DOMAIN answer = Probers
  /\ \A p \in Probers : answer[p] # Nil => PageInv(answer[p]) \/ ReadingInv(answer[p])

OpsInv == BaseInv /\ LogValid /\ StatusFollowsLog /\ HistoryIsRecentLog /\ AnswerInv

(* The attempts read with a page, or after it, are the latest.             *)
LEMMA FreshListTrue ==
  ASSUME BaseInv, HistoryIsRecentLog, NEW v \in Page, v.moment <= Len(accepted)
  PROVE  /\ ListTrue(Listing(v)) /\ Listing(v) \in Page
         /\ \A f \in {"kind", "state", "current", "lastAttempt", "lastSuccess", "lastFailure",
                      "lastApply", "redacted", "moment"} : Listing(v)[f] = v[f]
         /\ Listing(v).listed = Len(accepted)
<1>1. PICK n \in Nat : n = Len(accepted)
  BY DEF BaseInv, ManagerTypeOK
<1>2. attemptHistory \in Seq(AttemptRecord)
  BY DEF BaseInv, ManagerTypeOK
<1>3. /\ Listing(v) \in Page
      /\ \A f \in {"kind", "state", "current", "lastAttempt", "lastSuccess", "lastFailure",
                   "lastApply", "redacted", "moment"} : Listing(v)[f] = v[f]
      /\ Listing(v).listed = n /\ Listing(v).attempts = attemptHistory
  BY <1>1, <1>2 DEF Listing, Page
<1>4. retained = IF historyLimit < 0 THEN 0 ELSE IF n < historyLimit THEN n ELSE historyLimit
  BY <1>1 DEF retained
<1>5. ListTrue(Listing(v))
  <2> HIDE DEF Listing
  <2>1. /\ Len(attemptHistory) = retained
        /\ \A i \in 1 .. retained : attemptHistory[i] = accepted[n - retained + i].attempt
    BY <1>1, Zenon DEF HistoryIsRecentLog
  <2>2. Listing(v).listed >= Listing(v).moment
    BY <1>1, <1>3
  <2> QED BY <1>3, <1>4, <2>1, <2>2, Zenon DEF ListTrue
<1> QED BY <1>1, <1>3, <1>5

(* A page is true when it is read.                                         *)
LEMMA FreshPageTrue ==
  ASSUME BaseInv, LogValid, StatusFollowsLog
  PROVE  PageInv(LifecycleInspection)
<1> DEFINE v == LifecycleInspection
<1>1. PICK n \in Nat : n = Len(accepted)
  BY DEF BaseInv, ManagerTypeOK
<1>2. v \in Page
  <2>1. /\ managerState \in LifecycleStates
        /\ current \in Metadata \cup {Nil}
        /\ lastAttempt \in AttemptRecord \cup {Nil}
        /\ lastSuccess \in AttemptRecord \cup {Nil}
        /\ lastFailure \in AttemptRecord \cup {Nil}
        /\ lastApply \in ApplyResult \cup {Nil}
    BY LifecycleStateType DEF BaseInv, ManagerTypeOK, managerState
  <2>2. <<>> \in Seq(AttemptRecord)
    OBVIOUS
  <2> QED BY <1>1, <2>1, <2>2 DEF LifecycleInspection, Page
<1>3. /\ v.moment = n /\ v.listed = 0 /\ v.state = managerState
      /\ v.current = current /\ v.redacted = current
      /\ v.lastAttempt = lastAttempt /\ v.lastSuccess = lastSuccess
      /\ v.lastFailure = lastFailure /\ v.lastApply = lastApply
  BY <1>1 DEF LifecycleInspection
<1> HIDE DEF v
<1>4. /\ HealthAt(n) = managerState
      /\ SnapshotAt(n) = current
      /\ AttemptAt(n) = lastAttempt
      /\ AttemptAt(LatestOf("succeeded", n)) = lastSuccess
      /\ AttemptAt(LatestOf("failed", n)) = lastFailure
      /\ n > 0 => lastApply.current = current /\ lastApply.state = managerState
  BY <1>1, PresentTold
<1>5. PageTrue(v)
  BY <1>3, <1>4 DEF PageTrue
<1> QED BY <1>1, <1>2, <1>3, <1>5 DEF PageInv, v

(***************************************************************************)
(* What was true of an answer when it was given stays true.                *)
(***************************************************************************)

(* The log that a moment is part of is still there.                        *)
LEMMA MomentKept ==
  ASSUME BaseInv, BaseInv', LogGrows, NEW n \in Nat, n <= Len(accepted)
  PROVE  /\ n <= Len(accepted')
         /\ 1 .. n \subseteq DOMAIN accepted
         /\ \A i \in 1 .. n : accepted'[i] = accepted[i]
<1>1. PICK l \in Nat : l = Len(accepted) /\ DOMAIN accepted = 1 .. l
  BY DEF BaseInv, ManagerTypeOK
<1>2. PICK m \in Nat : m = Len(accepted') /\ DOMAIN accepted' = 1 .. m
  BY DEF BaseInv, ManagerTypeOK
<1>3. \A i \in 1 .. l : i \in 1 .. m /\ accepted'[i] = accepted[i]
  BY <1>1, <1>2 DEF LogGrows
<1>4. l = 0 \/ l \in 1 .. l
  BY <1>1
<1>5. l <= m
  BY <1>3, <1>4
<1> QED BY <1>1, <1>2, <1>3, <1>5

(* A reading stays true.                                                   *)
LEMMA ReadingKept ==
  ASSUME BaseInv, BaseInv', LogGrows, UNCHANGED degradedReady, NEW r, ReadingInv(r)
  PROVE  ReadingInv(r)'
<1>1. PICK n \in Nat : n = r.moment /\ n <= Len(accepted)
  BY DEF ReadingInv
<1>2. /\ n <= Len(accepted') /\ 1 .. n \subseteq DOMAIN accepted
      /\ \A i \in 1 .. n : accepted'[i] = accepted[i]
  BY <1>1, MomentKept
<1>3. /\ HealthAt(n)' = HealthAt(n) /\ SnapshotAt(n)' = SnapshotAt(n)
      /\ LatestOf("succeeded", n)' = LatestOf("succeeded", n)
  BY <1>2, PastKept DEF Recounts
<1>4. n > 0 => accepted'[n] = accepted[n]
  BY <1>2
<1>5. ReadingTrue(r)'
  BY <1>1, <1>3, <1>4 DEF ReadingInv, ReadingTrue
<1> QED BY <1>1, <1>2, <1>5 DEF ReadingInv

(* A page stays true.                                                      *)
LEMMA PageKept ==
  ASSUME BaseInv, BaseInv', LogGrows, UNCHANGED attemptHistoryLimit, NEW v, PageInv(v)
  PROVE  PageInv(v)'
<1>1. PICK n \in Nat : n = v.moment /\ n <= Len(accepted)
  BY DEF PageInv, Page
<1>2. PICK l \in Nat : l = v.listed /\ l <= Len(accepted)
  BY DEF PageInv, Page
<1>3. /\ n <= Len(accepted') /\ 1 .. n \subseteq DOMAIN accepted
      /\ l <= Len(accepted') /\ \A i \in 1 .. l : accepted'[i] = accepted[i]
  BY <1>1, <1>2, MomentKept
<1>4. /\ HealthAt(n)' = HealthAt(n) /\ SnapshotAt(n)' = SnapshotAt(n)
      /\ AttemptAt(n)' = AttemptAt(n)
      /\ AttemptAt(LatestOf("succeeded", n))' = AttemptAt(LatestOf("succeeded", n))
      /\ AttemptAt(LatestOf("failed", n))' = AttemptAt(LatestOf("failed", n))
  BY <1>3, PastKept DEF Recounts
<1>5. ASSUME l > 0, ListTrue(v)
      PROVE  ListTrue(v)'
  <2>1. PICK limit \in Int : limit = historyLimit /\ historyLimit' = limit
    <3>1. historyLimit \in Int
      BY ManagerAssumption DEF historyLimit, BaseInv, ManagerTypeOK
    <3>2. historyLimit' = historyLimit
      BY Zenon DEF historyLimit
    <3> QED BY <3>1, <3>2
  <2>2. PICK size \in Int : size = IF limit < 0 THEN 0 ELSE IF l < limit THEN l ELSE limit
    BY <2>1
  <2>3. /\ l >= v.moment /\ Len(v.attempts) = size
        /\ \A i \in 1 .. size : v.attempts[i] = accepted[l - size + i].attempt
    BY <1>2, <1>5, <2>1, <2>2, Zenon DEF ListTrue
  <2>4. \A i \in 1 .. size : accepted'[l - size + i] = accepted[l - size + i]
    <3>1. \A i \in 1 .. size : l - size + i \in 1 .. l
      BY <2>1, <2>2
    <3> QED BY <1>3, <3>1
  <2>5. \A i \in 1 .. size : v.attempts[i] = accepted'[l - size + i].attempt
    BY <2>3, <2>4
  <2> QED BY <1>2, <2>1, <2>2, <2>3, <2>5, Zenon DEF ListTrue
<1>6. PageTrue(v)'
  <2>1. /\ v.state = HealthAt(n)
        /\ v.current = SnapshotAt(n) /\ v.redacted = v.current
        /\ v.lastAttempt = AttemptAt(n)
        /\ v.lastSuccess = AttemptAt(LatestOf("succeeded", n))
        /\ v.lastFailure = AttemptAt(LatestOf("failed", n))
        /\ n > 0 => v.lastApply.current = v.current /\ v.lastApply.state = v.state
        /\ l > 0 => ListTrue(v)
    BY <1>1, <1>2 DEF PageInv, PageTrue
  <2> QED BY <1>1, <1>2, <1>4, <1>5, <2>1 DEF PageTrue
<1> QED BY <1>1, <1>2, <1>3, <1>6 DEF PageInv

(***************************************************************************)
(* Every step keeps the answers true.                                      *)
(***************************************************************************)
LEMMA OpskitSettingsKept ==
  ASSUME BaseInv, [OpskitNext]_<<vars, opsVars>>
  PROVE  UNCHANGED <<degradedReady, attemptHistoryLimit>>
<1>1. UNCHANGED degradedReady
  BY DEF OpskitNext, opsVars, Read, Probe, Check, Inspect, GetInspection, GetAttempts, Answer
<1>2. CASE UNCHANGED vars
  BY <1>1, <1>2 DEF vars
<1>3. CASE ManagerNext
  <2>1. PICK c \in Callers : StartLoad(c) \/ CommitLoad(c) \/ AcceptExternal(c) \/ Quiet(c)
    BY <1>3, StepKinds
  <2> QED BY <1>1, <2>1, QuietKeeps DEF StartLoad, CommitLoad, AcceptExternal
<1> QED BY <1>2, <1>3, OpskitStepIsManagerStep

(* The answer that a read gives is a true one.                             *)
LEMMA ReadAnswersTruly ==
  ASSUME OpsInv, NEW p \in Probers, Read(p)
  PROVE  \E a : /\ a # Nil => PageInv(a) \/ ReadingInv(a)
                /\ answer' = [answer EXCEPT ![p] = a]
<1>1. ReadingInv(Reading)
  <2>1. Len(accepted) \in Nat
    BY DEF OpsInv, BaseInv, ManagerTypeOK
  <2>2. Reading.kind # "page" /\ Reading.moment = Len(accepted)
    BY DEF Reading
  <2>3. ReadingTrue(Reading)
    BY FreshReadingTrue DEF OpsInv
  <2> QED BY <2>1, <2>2, <2>3 DEF ReadingInv
<1>2. PageInv(LifecycleInspection)
  BY FreshPageTrue DEF OpsInv
<1>3. ASSUME NEW v, PageInv(v)
      PROVE  PageInv(Listing(v))
  <2>1. v \in Page /\ v.moment <= Len(accepted) /\ PageTrue(v)
    BY <1>3 DEF PageInv
  <2>2. PICK w : w = Listing(v)
    OBVIOUS
  <2>3. /\ ListTrue(w) /\ w \in Page
        /\ w.state = v.state /\ w.current = v.current /\ w.lastAttempt = v.lastAttempt
        /\ w.lastSuccess = v.lastSuccess /\ w.lastFailure = v.lastFailure
        /\ w.lastApply = v.lastApply /\ w.redacted = v.redacted /\ w.moment = v.moment
        /\ w.listed = Len(accepted)
    BY <2>1, <2>2, FreshListTrue DEF OpsInv
  <2>4. PageTrue(w)
    BY <2>1, <2>3 DEF PageTrue
  <2>5. Len(accepted) \in Nat
    BY DEF OpsInv, BaseInv, ManagerTypeOK
  <2>6. PageInv(w)
    BY <2>1, <2>3, <2>4, <2>5 DEF PageInv
  <2> QED BY <2>2, <2>6
<1>4. PageInv(Listing(LifecycleInspection))
  BY <1>2, <1>3
<1>5. ASSUME GetAttempts(p)
      PROVE  PageInv(Listing(answer[p])) /\ answer' = [answer EXCEPT ![p] = Listing(answer[p])]
  <2>1. HasPage(p) /\ answer' = [answer EXCEPT ![p] = Listing(answer[p])]
    BY <1>5 DEF GetAttempts, Answer
  <2>2. PageInv(answer[p])
    BY <2>1 DEF HasPage, OpsInv, AnswerInv, ReadingInv
  <2> QED BY <1>3, <2>1, <2>2
<1>6. CASE GetAttempts(p)
  BY <1>5, <1>6
<1>7. CASE ~GetAttempts(p)
  BY <1>1, <1>2, <1>4, <1>7 DEF Read, Probe, Check, Inspect, GetInspection, Answer
<1> QED BY <1>6, <1>7

(* The answers stay true.                                                  *)
LEMMA AnswersKept ==
  ASSUME OpsInv, BaseInv', [OpskitNext]_<<vars, opsVars>>
  PROVE  AnswerInv'
<1>1. BaseInv /\ LogGrows /\ UNCHANGED <<degradedReady, attemptHistoryLimit>>
  BY ManagerStepGrowsLog, OpskitStepIsManagerStep, OpskitSettingsKept DEF OpsInv
<1>2. ASSUME NEW a, PageInv(a) \/ ReadingInv(a)
      PROVE  (PageInv(a) \/ ReadingInv(a))'
  BY <1>1, <1>2, PageKept, ReadingKept
<1>3. CASE UNCHANGED answer
  <2>1. DOMAIN answer' = Probers
    BY <1>3 DEF OpsInv, AnswerInv
  <2>2. ASSUME NEW p \in Probers, answer'[p] # Nil
        PROVE  (PageInv(answer[p]) \/ ReadingInv(answer[p]))'
    <3>1. PICK a : a = answer[p] /\ a = answer'[p]
      BY <1>3
    <3>2. PageInv(a) \/ ReadingInv(a)
      BY <2>2, <3>1 DEF OpsInv, AnswerInv
    <3> QED BY <1>2, <3>1, <3>2
  <2> QED BY <2>1, <2>2 DEF AnswerInv
<1>4. ASSUME NEW p \in Probers, Read(p)
      PROVE  AnswerInv'
  <2>1. PICK a : /\ a # Nil => PageInv(a) \/ ReadingInv(a)
                 /\ answer' = [answer EXCEPT ![p] = a]
    BY <1>4, ReadAnswersTruly
  <2>2. DOMAIN answer = Probers
    BY DEF OpsInv, AnswerInv
  <2>3. ASSUME NEW q \in Probers, answer'[q] # Nil
        PROVE  (PageInv(answer[q]) \/ ReadingInv(answer[q]))'
    <3>1. PICK b : b = answer'[q]
      OBVIOUS
    <3>2. b = IF q = p THEN a ELSE answer[q]
      BY <2>1, <2>2, <3>1
    <3>3. PageInv(b) \/ ReadingInv(b)
      BY <2>1, <2>3, <3>1, <3>2 DEF OpsInv, AnswerInv
    <3> QED BY <1>2, <3>1, <3>3
  <2> QED BY <2>1, <2>2, <2>3 DEF AnswerInv
<1>5. UNCHANGED answer \/ \E p \in Probers : Read(p)
  BY DEF OpskitNext, opsVars
<1> QED BY <1>3, <1>4, <1>5

(* The invariant of the answers holds of every behaviour.                 *)
LEMMA OpsInvAlways == OpskitSpec => []OpsInv
<1>1. OpskitInit => OpsInv
  <2> SUFFICES ASSUME OpskitInit PROVE OpsInv
    OBVIOUS
  <2>1. ManagerInit /\ answer = [p \in Probers |-> Nil]
    BY DEF OpskitInit
  <2>2. AnswerInv
    BY <2>1 DEF AnswerInv
  <2> QED BY <2>1, <2>2, BaseInitial, LogValidInitial, StatusInitial, HistoryInitial DEF OpsInv
<1>2. OpsInv /\ [OpskitNext]_<<vars, opsVars>> => OpsInv'
  BY OpskitStepIsManagerStep, BaseInductive, LogValidInductive, StatusInductive,
     HistoryInductive, AnswersKept
  DEF OpsInv
<1> QED BY <1>1, <1>2, PTL DEF OpskitSpec

(* What Status and Readiness answered was the state of the manager at one  *)
(* moment, whatever was committed before and since (statusLocked and       *)
(* lifecycleAttributes under one read lock).                               *)
THEOREM OpskitReadingsTellLog == OpskitSpec => []ReadingsTellLog
<1>1. OpsInv => ReadingsTellLog
  BY DEF OpsInv, AnswerInv, PageInv, Page, ReadingInv, ReadingsTellLog, HasPage
<1> QED BY <1>1, OpsInvAlways, PTL

(* Every page of Inspect and of the HTTP routes is of one moment, and its  *)
(* list of attempts the latest of that moment or of a later one.           *)
THEOREM OpskitPagesTellLog == OpskitSpec => []PagesTellLog
<1>1. OpsInv => PagesTellLog
  BY DEF OpsInv, AnswerInv, PageInv, ReadingInv, PagesTellLog, HasPage
<1> QED BY <1>1, OpsInvAlways, PTL

(* Between two answers to one prober the manager only went on: the later   *)
(* one is of the same moment or a later one, by whatever route it came,    *)
(* and a page never reports an older attempt than the page before it.      *)
Onward(p) ==
  answer[p] # Nil /\ answer'[p] # Nil =>
    /\ answer'[p].moment >= answer[p].moment
    /\ HasPage(p) /\ HasPage(p)' /\ answer[p].lastAttempt # Nil =>
         answer'[p].lastAttempt # Nil /\ answer'[p].lastAttempt.id >= answer[p].lastAttempt.id

AnswersGoOn == [][\A p \in Probers : Onward(p)]_<<vars, opsVars>>

(* An answer is of the moment it was read, or the page it completes.       *)
LEMMA MomentsGoOn ==
  ASSUME OpsInv, OpsInv', [OpskitNext]_<<vars, opsVars>>, NEW p \in Probers,
         answer[p] # Nil, answer'[p] # Nil
  PROVE  answer'[p].moment >= answer[p].moment
<1>1. /\ answer[p].moment \in Nat /\ answer[p].moment <= Len(accepted)
      /\ Len(accepted) \in Nat /\ DOMAIN answer = Probers
  <2>1. PageInv(answer[p]) \/ ReadingInv(answer[p])
    BY DEF OpsInv, AnswerInv
  <2>2. answer[p].moment \in Nat /\ answer[p].moment <= Len(accepted)
    BY <2>1 DEF PageInv, ReadingInv, Page
  <2>3. Len(accepted) \in Nat /\ DOMAIN answer = Probers
    BY DEF OpsInv, BaseInv, ManagerTypeOK, AnswerInv
  <2> QED BY <2>2, <2>3
<1>2. CASE answer' = answer
  BY <1>1, <1>2
<1>3. ASSUME NEW q \in Probers, Read(q)
      PROVE  answer'[p].moment >= answer[p].moment
  <2>1. CASE q # p
    <3>1. PICK a : answer' = [answer EXCEPT ![q] = a]
      BY <1>3, ReadAnswersTruly
    <3>2. answer'[p] = answer[p]
      BY <1>1, <2>1, <3>1
    <3> QED BY <1>1, <3>2
  <2>2. CASE q = p
    <3>1. PICK a : /\ answer' = [answer EXCEPT ![p] = a]
                   /\ a \in {Nil, Reading, LifecycleInspection, Listing(LifecycleInspection),
                            Listing(answer[p])}
      BY <1>3, <2>2, Zenon DEF Read, Probe, Check, Inspect, GetInspection, GetAttempts, Answer
    <3>2. answer'[p] = a /\ a # Nil
      BY <1>1, <3>1
    <3>3. Reading.moment = Len(accepted) /\ LifecycleInspection.moment = Len(accepted)
      BY DEF Reading, LifecycleInspection
    <3>4. Listing(LifecycleInspection).moment = LifecycleInspection.moment
      BY DEF Listing, LifecycleInspection
    <3>5. CASE a = Listing(answer[p])
      BY <1>1, <3>2, <3>5 DEF Listing
    <3> QED BY <1>1, <3>1, <3>2, <3>3, <3>4, <3>5
  <2> QED BY <2>1, <2>2
<1> QED BY <1>2, <1>3 DEF OpskitNext, opsVars

(* What the last attempt of a page says of its moment.                     *)
LEMMA PageAttempt ==
  ASSUME OpsInv, IDsDense, NEW v, PageInv(v)
  PROVE  /\ v.moment \in Nat
         /\ v.lastAttempt # Nil <=> v.moment > 0
         /\ v.moment > 0 => v.lastAttempt.id = v.moment
<1>1. PICK n \in Nat : n = v.moment /\ n <= Len(accepted)
  BY DEF PageInv, Page
<1>2. v.lastAttempt = AttemptAt(n)
  BY <1>1 DEF PageInv, PageTrue
<1>3. CASE n = 0
  BY <1>1, <1>2, <1>3 DEF AttemptAt
<1>4. CASE n > 0
  <2>1. n \in DOMAIN accepted
    BY <1>1, <1>4 DEF OpsInv, BaseInv, ManagerTypeOK
  <2>2. accepted[n].attempt.id = n
    BY <2>1 DEF IDsDense
  <2>3. accepted[n].attempt \in AttemptRecord
    <3>1. accepted[n] \in LoadResult
      BY <2>1 DEF OpsInv, BaseInv, ManagerTypeOK
    <3> QED BY <3>1 DEF LoadResult
  <2>4. accepted[n].attempt # Nil
    BY <2>3, NilAssumption
  <2>5. v.lastAttempt = accepted[n].attempt
    BY <1>2, <1>4 DEF AttemptAt
  <2> QED BY <1>1, <1>4, <2>2, <2>4, <2>5
<1> QED BY <1>3, <1>4

PagesInTurn ==
  \A p \in Probers : HasPage(p) =>
    /\ answer[p].moment \in Nat
    /\ answer[p].lastAttempt # Nil <=> answer[p].moment > 0
    /\ answer[p].moment > 0 => answer[p].lastAttempt.id = answer[p].moment

(* So it is of the pages there are, before a step and after it.            *)
LEMMA PageAttempts ==
  /\ OpsInv /\ IDsDense => PagesInTurn
  /\ OpsInv' /\ IDsDense' => PagesInTurn'
<1>1. ASSUME OpsInv, IDsDense, NEW p \in Probers, HasPage(p)
      PROVE  /\ answer[p].moment \in Nat
             /\ answer[p].lastAttempt # Nil <=> answer[p].moment > 0
             /\ answer[p].moment > 0 => answer[p].lastAttempt.id = answer[p].moment
  <2>1. PICK v : v = answer[p]
    OBVIOUS
  <2>2. PageInv(v)
    BY <1>1, <2>1 DEF HasPage, OpsInv, AnswerInv, ReadingInv
  <2>3. /\ v.moment \in Nat
        /\ v.lastAttempt # Nil <=> v.moment > 0
        /\ v.moment > 0 => v.lastAttempt.id = v.moment
    BY <1>1, <2>2, PageAttempt
  <2> QED BY <2>1, <2>3
<1>2. OpsInv /\ IDsDense => PagesInTurn
  BY <1>1, Zenon DEF PagesInTurn
<1> QED BY <1>2, PTL

(* No prober sees the manager go back (each read under one read lock, of   *)
(* an owner whose attempts are numbered in turn).                          *)
THEOREM OpskitAnswersGoOn == OpskitSpec => AnswersGoOn
<1>1. ASSUME OpsInv, OpsInv', IDsDense, IDsDense', [OpskitNext]_<<vars, opsVars>>,
             NEW p \in Probers, answer[p] # Nil, answer'[p] # Nil
      PROVE  /\ answer'[p].moment >= answer[p].moment
             /\ HasPage(p) /\ HasPage(p)' /\ answer[p].lastAttempt # Nil =>
                  /\ answer'[p].lastAttempt # Nil
                  /\ answer'[p].lastAttempt.id >= answer[p].lastAttempt.id
  <2>1. answer'[p].moment >= answer[p].moment
    BY <1>1, MomentsGoOn
  <2>2. ASSUME HasPage(p), HasPage(p)', answer[p].lastAttempt # Nil
        PROVE  /\ answer'[p].lastAttempt # Nil
               /\ answer'[p].lastAttempt.id >= answer[p].lastAttempt.id
    <3>1. PagesInTurn /\ PagesInTurn'
      BY <1>1, PageAttempts
    <3>2. /\ answer[p].moment \in Nat /\ answer[p].moment > 0
          /\ answer[p].lastAttempt.id = answer[p].moment
      BY <2>2, <3>1, Zenon DEF PagesInTurn
    <3>3. /\ answer'[p].moment \in Nat
          /\ answer'[p].lastAttempt # Nil <=> answer'[p].moment > 0
          /\ answer'[p].moment > 0 => answer'[p].lastAttempt.id = answer'[p].moment
      BY <2>2, <3>1, Zenon DEF PagesInTurn, HasPage
    <3> QED BY <2>1, <3>2, <3>3
  <2> QED BY <2>1, <2>2
<1>2. OpsInv /\ OpsInv' /\ IDsDense /\ IDsDense' /\ [OpskitNext]_<<vars, opsVars>>
        => [\A p \in Probers : Onward(p)]_<<vars, opsVars>>
  BY <1>1, Zenon DEF Onward
<1> QED BY <1>2, OpsInvAlways, OpskitOnlyReads, ManagerIDsDense, PTL DEF OpskitSpec, AnswersGoOn

(***************************************************************************)
(* ReloadCommand.                                                          *)
(***************************************************************************)
(* A command is a use of the manager like any other: with the commands     *)
(* hidden, ReloadCommand is Manager.                                       *)
LEMMA CommandStepIsManagerStep == [CommandNext]_<<vars, commandVars>> => [ManagerNext]_vars
<1> SUFFICES ASSUME [CommandNext]_<<vars, commandVars>> PROVE [ManagerNext]_vars
  OBVIOUS
<1>1. ASSUME NEW c \in Callers, CommandStep(c)
      PROVE  [ManagerNext]_vars
  BY <1>1 DEF CommandStep, RejectCommand, HandleCommand, CommandCommits, CommandReturns, Reply,
              ManagerNext, Work
<1>2. ASSUME NEW c \in Callers, Otherwise(c)
      PROVE  ManagerNext
  BY <1>2 DEF Otherwise, ManagerNext, Work
<1> QED BY <1>1, <1>2 DEF CommandNext

(* HandleCommand does to the manager only what LoadFromSource does.        *)
THEOREM CommandUsesManager == CommandSpec => ManagerSpec
<1>1. CommandInit => ManagerInit
  BY DEF CommandInit
<1> QED BY <1>1, CommandStepIsManagerStep, PTL DEF CommandSpec, ManagerSpec

(***************************************************************************)
(* What a command has been told stays true, as the log only grows.         *)
(***************************************************************************)
(* What was published before an entry does not change when the log grows.  *)
LEMMA PublishedBeforeKept ==
  ASSUME BaseInv, LogGrows, NEW n \in DOMAIN accepted
  PROVE  PublishedBefore(n)' = PublishedBefore(n)
<1>1. PICK m \in Nat : DOMAIN accepted = 1 .. m
  BY DEF BaseInv, ManagerTypeOK
<1>2. \A i \in 1 .. n - 1 : accepted'[i] = accepted[i]
  BY <1>1 DEF LogGrows
<1> DEFINE last  == {j \in 1 .. n - 1 :
                      /\ accepted[j].attempt.status = "succeeded"
                      /\ \A l \in j + 1 .. n - 1 : accepted[l].attempt.status # "succeeded"}
           last2 == {j \in 1 .. n - 1 :
                      /\ accepted'[j].attempt.status = "succeeded"
                      /\ \A l \in j + 1 .. n - 1 : accepted'[l].attempt.status # "succeeded"}
<1>3. last2 = last
  <2>1. \A j \in 1 .. n - 1 : \A l \in j + 1 .. n - 1 : l \in 1 .. n - 1
    BY <1>1
  <2>2. \A j \in 1 .. n - 1 : j \in last2 <=> j \in last
    BY <1>2, <2>1
  <2>3. last \subseteq 1 .. n - 1 /\ last2 \subseteq 1 .. n - 1
    OBVIOUS
  <2> HIDE DEF last, last2
  <2> QED BY <2>2, <2>3
<1>4. \A j \in last : accepted'[j] = accepted[j]
  BY <1>2
<1>5. PublishedBefore(n) = {accepted[j].snapshot.checksum : j \in last}
  BY DEF PublishedBefore
<1>6. PublishedBefore(n)' = {accepted'[j].snapshot.checksum : j \in last2}
  BY DEF PublishedBefore
<1> HIDE DEF last, last2
<1> QED BY <1>3, <1>4, <1>5, <1>6

(* What a command relies on of the result it has got.                      *)
Told(x) ==
  LET i == x.attempt.id
  IN  /\ i \in DOMAIN accepted
      /\ accepted[i].attempt = x.attempt
      /\ x.attempt.status = "succeeded" =>
           /\ x.apply.published /\ x.apply.state = "loaded"
           /\ x.apply.current = accepted[i].snapshot
           /\ x.apply.changed <=> PublishedBefore(i) # {accepted[i].snapshot.checksum}

(* What was true of a result when it was returned stays true.              *)
LEMMA ToldKept ==
  ASSUME BaseInv, LogGrows, NEW x, Told(x)
  PROVE  Told(x)'
<1>1. x.attempt.id \in DOMAIN accepted
  BY DEF Told
<1>2. /\ x.attempt.id \in DOMAIN accepted'
      /\ accepted'[x.attempt.id] = accepted[x.attempt.id]
  BY <1>1 DEF LogGrows
<1>3. PublishedBefore(x.attempt.id)' = PublishedBefore(x.attempt.id)
  BY <1>1, PublishedBeforeKept
<1> QED BY <1>1, <1>2, <1>3 DEF Told

(***************************************************************************)
(* What a commit returns is so.                                            *)
(***************************************************************************)
LEMMA LastPublication ==
  ASSUME BaseInv, LogValid, StatusFollowsLog
  PROVE  PublishedBefore(Len(accepted) + 1) = IF current = Nil THEN {} ELSE {current.checksum}
<1>1. PICK n \in Nat : n = Len(accepted) /\ DOMAIN accepted = 1 .. n
  BY DEF BaseInv, ManagerTypeOK
<1>2. CASE NoneWith("succeeded") /\ current = Nil
  BY <1>1, <1>2 DEF NoneWith, PublishedBefore
<1>3. ASSUME NEW i \in DOMAIN accepted, LatestWith(i, "succeeded"), current = accepted[i].snapshot
      PROVE  PublishedBefore(n + 1) = IF current = Nil THEN {} ELSE {current.checksum}
  <2>1. current # Nil
    BY <1>3 DEF LogValid, LatestWith, ValidLoadResult, ValidSucceeded
  <2>2. \A j \in 1 .. n : (/\ accepted[j].attempt.status = "succeeded"
                           /\ \A l \in j + 1 .. n : accepted[l].attempt.status # "succeeded")
                          <=> j = i
    BY <1>1, <1>3 DEF LatestWith
  <2>3. {j \in 1 .. n : /\ accepted[j].attempt.status = "succeeded"
                        /\ \A l \in j + 1 .. n : accepted[l].attempt.status # "succeeded"} = {i}
    BY <1>1, <2>2
  <2> QED BY <1>1, <1>3, <2>1, <2>3 DEF PublishedBefore
<1> QED BY <1>1, <1>2, <1>3 DEF StatusFollowsLog

(* The result a commit returns tells of the entry it added.                *)
LEMMA CommitLoadTold ==
  ASSUME BaseInv, LogValid, StatusFollowsLog, IDsDense, NEW c \in Callers, CommitLoad(c),
         NEW x, x = [attempt |-> lastAttempt', apply |-> lastApply']
  PROVE  Told(x)'
<1>1. PICK r : r = job[c]
  OBVIOUS
<1>2. PICK n : n = Len(accepted)
  OBVIOUS
<1>3. r \in LoadResult /\ ValidLoadResult(r) /\ Commit(r)
  BY <1>1, CommitLoadCommits
<1>4. n \in Nat /\ DOMAIN accepted' = 1 .. n + 1 /\ accepted'[n + 1] = r
  BY <1>2, <1>3, AppendedLog DEF BaseInv, ManagerTypeOK
<1>5. r.attempt.id = n + 1
  <2>1. phase[c] = "loaded"
    BY DEF CommitLoad
  <2> QED BY <1>1, <1>2, <2>1, CommitLoadCommits DEF IDsDense, LoadInProgress
<1>6. lastAttempt' = r.attempt /\ lastApply' = Applied(current, r)
  BY <1>3, CommitEffect
<1>7. ASSUME r.attempt.status = "succeeded"
      PROVE  /\ Applied(current, r).published /\ Applied(current, r).state = "loaded"
             /\ Applied(current, r).current = r.snapshot
             /\ Applied(current, r).changed <=>
                  (current # Nil => current.checksum # r.snapshot.checksum)
  <2>1. r.snapshot # Nil
    BY <1>3, <1>7 DEF ValidLoadResult, ValidSucceeded
  <2>2. LifecycleState(r.snapshot, r.attempt) = "loaded"
    BY <1>7, <2>1 DEF LifecycleState
  <2> QED BY <1>7, <2>1, <2>2 DEF Applied
<1>8. PublishedBefore(n + 1)' = PublishedBefore(n + 1)
  <2>1. \A i \in 1 .. n : accepted'[i] = accepted[i]
    BY <1>2, <1>3, AppendedLog
  <2>2. \A i \in 1 .. (n + 1) - 1 : accepted'[i] = accepted[i]
    BY <1>4, <2>1
  <2> QED BY <1>4, <2>2 DEF PublishedBefore
<1>9. PublishedBefore(n + 1) # {r.snapshot.checksum} <=>
        (current # Nil => current.checksum # r.snapshot.checksum)
  BY <1>2, LastPublication
<1>10. x.attempt = r.attempt /\ x.apply = Applied(current, r)
  BY <1>6
<1>11. Told(x)'
  <2>1. x.attempt.id = n + 1
    BY <1>5, <1>10
  <2>2. n + 1 \in DOMAIN accepted' /\ accepted'[n + 1].attempt = x.attempt
    BY <1>4, <1>10
  <2>3. ASSUME x.attempt.status = "succeeded"
        PROVE  /\ x.apply.published /\ x.apply.state = "loaded"
               /\ x.apply.current = accepted'[n + 1].snapshot
               /\ x.apply.changed <=>
                    PublishedBefore(n + 1)' # {accepted'[n + 1].snapshot.checksum}
    <3>1. r.attempt.status = "succeeded" /\ accepted'[n + 1].snapshot = r.snapshot
      BY <1>4, <1>10, <2>3
    <3> QED BY <1>7, <1>8, <1>9, <1>10, <3>1
  <2> QED BY <2>1, <2>2, <2>3 DEF Told
<1> QED BY <1>11

(***************************************************************************)
(* The invariant: a command that has its result holds a true one, and one  *)
(* that returned without was refused because its context had ended.        *)
(***************************************************************************)
CommandOf(c) ==
  /\ command[c] \in {"none", "running", "returned"}
  /\ command[c] = "running" => phase[c] \in {"load", "started", "loaded", "finishing"}
  /\ command[c] = "returned" => phase[c] = "idle"
  /\ result[c] # Nil => phase[c] = "finishing" \/ command[c] = "returned"
  /\ command[c] = "running" /\ phase[c] = "finishing" => result[c] # Nil
  /\ adm[c] = "refused" => ctx[c] \in Dead
  /\ command[c] = "returned" /\ result[c] = Nil => ctx[c] \in Dead

(* Told and the properties speak of the values of result and reply, which  *)
(* are functions on the callers.                                           *)
CommandFunctions ==
  /\ command = [c \in Callers |-> command[c]]
  /\ result  = [c \in Callers |-> result[c]]
  /\ reply   = [c \in Callers |-> reply[c]]

ResultsTold == \A c \in Callers : result[c] # Nil => Told(result[c])

(* The three variables stay functions of the callers.                      *)
LEMMA CommandFunctionsKept ==
  ASSUME CommandFunctions, [CommandNext]_<<vars, commandVars>>
  PROVE  CommandFunctions'
<1>1. CASE UNCHANGED commandVars
  BY <1>1 DEF commandVars, CommandFunctions
<1>2. ASSUME NEW c \in Callers, CommandStep(c)
      PROVE  CommandFunctions'
  <2> USE DEF CommandFunctions
  <2>1. ASSUME NEW fault, NEW supported, RejectCommand(c, fault, supported)
        PROVE  CommandFunctions'
    BY <2>1 DEF RejectCommand
  <2>2. ASSUME NEW fault, NEW supported, NEW k, HandleCommand(c, fault, supported, k)
        PROVE  CommandFunctions'
    BY <2>2 DEF HandleCommand
  <2>3. CASE CommandCommits(c)
    BY <2>3 DEF CommandCommits
  <2>4. CASE CommandReturns(c)
    BY <2>4 DEF CommandReturns
  <2>5. CASE Reply(c)
    BY <2>5 DEF Reply
  <2> QED BY <1>2, <2>1, <2>2, <2>3, <2>4, <2>5 DEF CommandStep
<1> QED BY <1>1, <1>2 DEF CommandNext, Otherwise

CommandInv == CommandFunctions /\ \A c \in Callers : CommandOf(c)

(* A step of one caller leaves what the others are doing alone.            *)
LEMMA OthersUndisturbed ==
  ASSUME BaseInv, CommandFunctions, NEW c \in Callers, CommandStep(c) \/ Otherwise(c),
         NEW d \in Callers, d # c
  PROVE  UNCHANGED <<command[d], result[d], reply[d], phase[d], adm[d], ctx[d]>>
<1>1. ASSUME NEW e \in Callers, e # d,
             \/ \E k \in Contexts : CallLoad(e, k) \/ \E r \in ExternalResults : CallApply(e, k, r)
             \/ Acquire(e) \/ (\E k \in Dead : CancelCall(e, k)) \/ Work(e)
      PROVE  UNCHANGED <<phase[d], adm[d], ctx[d]>>
  <2> USE DEF BaseInv, ManagerTypeOK, AdmInv, AdmTypeOK, admVars, callVars
  <2>1. ASSUME Acquire(e)
        PROVE  UNCHANGED <<phase[d], adm[d], ctx[d]>>
    BY <1>1, <2>1 DEF Acquire, Acquiring, EntryCheck, Take, GiveUp, RecheckLive, RecheckDead
  <2>2. ASSUME NEW k \in Contexts, CallLoad(e, k) \/ \E r \in ExternalResults : CallApply(e, k, r)
        PROVE  UNCHANGED <<phase[d], adm[d], ctx[d]>>
    BY <1>1, <2>2 DEF CallLoad, CallApply, Enter
  <2>3. ASSUME NEW k \in Dead, CancelCall(e, k)
        PROVE  UNCHANGED <<phase[d], adm[d], ctx[d]>>
    BY <1>1, <2>3 DEF CancelCall, Cancel
  <2>4. CASE ReturnRefused(e) \/ Return(e)
    BY <1>1, <2>4 DEF ReturnRefused, Return, Leave, Release
  <2>5. CASE StartLoad(e) \/ RunLoad(e) \/ CommitLoad(e) \/ AcceptExternal(e)
             \/ RejectExternal(e) \/ Deliver(e)
    BY <1>1, <2>5 DEF StartLoad, RunLoad, CommitLoad, AcceptExternal, RejectExternal, Deliver
  <2> QED BY <1>1, <2>1, <2>2, <2>3, <2>4, <2>5 DEF Work
<1>2. UNCHANGED <<phase[d], adm[d], ctx[d]>>
  <2>1. CASE Otherwise(c)
    BY <1>1, <2>1 DEF Otherwise, Work
  <2>2. CASE CommandStep(c)
    <3>1. CASE UNCHANGED vars
      BY <3>1 DEF vars, admVars, callVars
    <3>2. CASE ~UNCHANGED vars
      BY <1>1, <2>2, <3>2
      DEF CommandStep, RejectCommand, HandleCommand, CommandCommits, CommandReturns, Reply, Work
    <3> QED BY <3>1, <3>2
  <2> QED BY <2>1, <2>2
<1>3. UNCHANGED <<command[d], result[d], reply[d]>>
  <2>1. CASE Otherwise(c)
    BY <2>1 DEF Otherwise, commandVars
  <2> USE DEF CommandFunctions
  <2>2. CASE CommandCommits(c)
    BY <2>2 DEF CommandCommits
  <2>3. CASE CommandReturns(c)
    BY <2>3 DEF CommandReturns
  <2>4. CASE Reply(c)
    BY <2>4 DEF Reply
  <2>5. ASSUME NEW fault, NEW supported,
               \/ RejectCommand(c, fault, supported)
               \/ \E k \in Contexts : HandleCommand(c, fault, supported, k)
        PROVE  UNCHANGED <<command[d], result[d], reply[d]>>
    BY <2>5 DEF RejectCommand, HandleCommand
  <2> QED BY <2>1, <2>2, <2>3, <2>4, <2>5 DEF CommandStep
<1> QED BY <1>2, <1>3

(* What a command may rely on is kept by its own steps.                    *)
LEMMA CommandOfKept ==
  ASSUME BaseInv, CommandInv, NEW c \in Callers, CommandStep(c) \/ Otherwise(c)
  PROVE  CommandOf(c)'
<1> USE DEF CommandInv, CommandFunctions, CommandOf
<1>1. /\ phase \in [Callers -> Phases] /\ adm \in [Callers -> AdmStates] /\ ctx \in [Callers -> Contexts]
      /\ phase[c] = "idle" => adm[c] = "out"
      /\ phase[c] \in {"started", "loaded", "finishing"} => adm[c] = "admitted"
      /\ phase[c] = "apply" => command[c] = "none"
  BY DEF BaseInv, ManagerTypeOK, AdmInv, AdmTypeOK, CallInv
<1>2. CASE Otherwise(c)
  <2>1. ASSUME Idle(c), NEW k \in Contexts,
               CallLoad(c, k) \/ \E r \in ExternalResults : CallApply(c, k, r)
        PROVE  CommandOf(c)'
    BY <1>1, <1>2, <2>1 DEF Otherwise, commandVars, Idle, CallLoad, CallApply, Enter
  <2>2. CASE Acquire(c)
    BY <1>1, <1>2, <2>2 DEF Otherwise, commandVars, Acquire, Acquiring, callVars, EntryCheck, Take,
       GiveUp, RecheckLive, RecheckDead, Contexts, Dead
  <2>3. ASSUME NEW k \in Dead, CancelCall(c, k)
        PROVE  CommandOf(c)'
    BY <1>1, <1>2, <2>3 DEF Otherwise, commandVars, CancelCall, callVars, Cancel
  <2>4. CASE StartLoad(c) \/ RunLoad(c) \/ AcceptExternal(c) \/ RejectExternal(c) \/ Deliver(c)
    BY <1>1, <1>2, <2>4 DEF Otherwise, commandVars, StartLoad, RunLoad, AcceptExternal,
       RejectExternal, Deliver, admVars
  <2> QED BY <1>2, <2>1, <2>2, <2>3, <2>4 DEF Otherwise
<1>3. ASSUME NEW fault, NEW supported, RejectCommand(c, fault, supported)
      PROVE  CommandOf(c)'
  BY <1>3 DEF RejectCommand, vars, callVars, admVars
<1>4. ASSUME NEW fault, NEW supported, NEW k \in Contexts, HandleCommand(c, fault, supported, k)
      PROVE  CommandOf(c)'
  BY <1>1, <1>4 DEF HandleCommand, Idle, CallLoad, Enter
<1>5. CASE CommandCommits(c)
  <2>1. phase' = [phase EXCEPT ![c] = "finishing"] /\ phase[c] = "loaded" /\ UNCHANGED admVars
    BY <1>5 DEF CommandCommits, CommitLoad
  <2>2. result'[c] # Nil
    <3>1. /\ job[c] \in LoadResult /\ ValidLoadResult(job[c]) /\ Commit(job[c])
      BY <1>5, CommitLoadCommits DEF CommandCommits
    <3>2. lastAttempt' \in AttemptRecord /\ lastApply' \in ApplyResult
      <4>1. PICK r : r = job[c]
        OBVIOUS
      <4>2. lastAttempt' = r.attempt /\ lastApply' = Applied(current, r)
        BY <3>1, <4>1, CommitEffect
      <4>3. current \in Metadata \cup {Nil}
        BY DEF BaseInv, ManagerTypeOK
      <4>4. Applied(current, r) \in ApplyResult /\ r.attempt \in AttemptRecord
        BY <3>1, <4>1, <4>3, AppliedType DEF LoadResult
      <4> QED BY <4>2, <4>4
    <3>3. [attempt |-> lastAttempt', apply |-> lastApply'] \in ManagedLoadResult
      BY <3>2 DEF ManagedLoadResult
    <3> QED BY <1>5, <3>3, ResultNilAssumption DEF CommandCommits
  <2> QED BY <1>1, <1>5, <2>1, <2>2 DEF CommandCommits, admVars
<1>6. CASE CommandReturns(c)
  <2>1. CASE Return(c)
    BY <1>1, <1>6, <2>1 DEF CommandReturns, Return, Release
  <2>2. CASE ReturnRefused(c)
    BY <1>1, <1>6, <2>2 DEF CommandReturns, ReturnRefused, Leave
  <2> QED BY <1>6, <2>1, <2>2 DEF CommandReturns
<1>7. CASE Reply(c)
  BY <1>7 DEF Reply, vars, callVars, admVars
<1> QED BY <1>2, <1>3, <1>4, <1>5, <1>6, <1>7 DEF CommandStep

(* It is kept by every step.                                               *)
LEMMA CommandInvInductive ==
  ASSUME BaseInv, CommandInv, [CommandNext]_<<vars, commandVars>>
  PROVE  CommandInv'
<1>1. CommandFunctions'
  BY CommandFunctionsKept DEF CommandInv
<1>2. CASE UNCHANGED <<vars, commandVars>>
  BY <1>1, <1>2 DEF vars, admVars, callVars, commandVars, CommandInv, CommandOf
<1>3. CASE CommandNext
  <2>1. PICK c \in Callers : CommandStep(c) \/ Otherwise(c)
    BY <1>3 DEF CommandNext
  <2>2. ASSUME NEW d \in Callers, d # c
        PROVE  CommandOf(d)'
    <3>1. UNCHANGED <<command[d], result[d], phase[d], adm[d], ctx[d]>>
      BY <2>1, <2>2, OthersUndisturbed DEF CommandInv
    <3> QED BY <3>1 DEF CommandInv, CommandOf
  <2> QED BY <1>1, <2>1, <2>2, CommandOfKept DEF CommandInv
<1> QED BY <1>2, <1>3

(* The results in hand stay true, and new ones are.                        *)
LEMMA ResultsToldKept ==
  ASSUME BaseInv, LogValid, StatusFollowsLog, IDsDense, CommandInv, ResultsTold,
         [CommandNext]_<<vars, commandVars>>
  PROVE  ResultsTold'
<1>1. LogGrows
  BY CommandStepIsManagerStep, ManagerStepGrowsLog
<1>2. ASSUME NEW d \in Callers, result'[d] = result[d], result'[d] # Nil
      PROVE  Told(result[d])'
  <2>1. PICK x : x = result[d]
    OBVIOUS
  <2>2. Told(x)
    BY <1>2, <2>1 DEF ResultsTold
  <2>3. Told(x)'
    BY <1>1, <2>2, ToldKept
  <2>4. x = result'[d]
    BY <1>2, <2>1
  <2> QED BY <2>3, <2>4
<1>3. CASE UNCHANGED <<vars, commandVars>>
  BY <1>2, <1>3 DEF commandVars, ResultsTold
<1>4. CASE CommandNext
  <2>1. PICK c \in Callers : CommandStep(c) \/ Otherwise(c)
    BY <1>4 DEF CommandNext
  <2>2. ASSUME NEW d \in Callers, d # c, result'[d] # Nil
        PROVE  Told(result[d])'
    BY <1>2, <2>1, <2>2, OthersUndisturbed DEF CommandInv
  <2>3. ASSUME CommandCommits(c)
        PROVE  Told(result[c])'
    <3>1. PICK x : x = [attempt |-> lastAttempt', apply |-> lastApply']
      OBVIOUS
    <3>2. CommitLoad(c) /\ result'[c] = x
      BY <2>3, <3>1 DEF CommandCommits, CommandInv, CommandFunctions
    <3>3. Told(x)'
      BY <3>1, <3>2, CommitLoadTold
    <3> QED BY <3>2, <3>3
  <2>4. ASSUME ~CommandCommits(c), result'[c] # Nil
        PROVE  result'[c] = result[c]
    <3> USE DEF CommandInv, CommandFunctions
    <3>1. CASE Otherwise(c)
      BY <3>1 DEF Otherwise, commandVars
    <3>2. CASE CommandReturns(c) \/ Reply(c)
      BY <2>4, <3>2 DEF CommandReturns, Reply
    <3>3. ASSUME NEW fault, NEW supported,
                 \/ RejectCommand(c, fault, supported)
                 \/ \E k \in Contexts : HandleCommand(c, fault, supported, k)
          PROVE  result'[c] = result[c]
      BY <3>3 DEF RejectCommand, HandleCommand
    <3> QED BY <2>1, <2>4, <3>1, <3>2, <3>3 DEF CommandStep
  <2> QED BY <1>2, <2>2, <2>3, <2>4 DEF ResultsTold
<1> QED BY <1>3, <1>4

(***************************************************************************)
(* Replies.                                                                *)
(***************************************************************************)
CompletedTrue(x) ==
  LET p == x.payload
  IN  /\ p.id \in DOMAIN accepted
      /\ accepted[p.id].attempt.status = "succeeded"
      /\ p.published /\ p.state = "loaded"
      /\ p.checksum = accepted[p.id].snapshot.checksum
      /\ p.revision = accepted[p.id].snapshot.revision
      /\ p.changed <=> PublishedBefore(p.id) # {p.checksum}

FailedTrue(x) ==
  IF x.id = 0 THEN x.failure \in Dead /\ x.failure = x.own
  ELSE /\ x.id \in DOMAIN accepted
       /\ accepted[x.id].attempt.status = "failed"
       /\ accepted[x.id].attempt.failure = x.failure

ReplyTrue(x) == /\ x.outcome = "completed" => CompletedTrue(x)
                /\ x.outcome = "failed" => FailedTrue(x)

RepliesTrue == \A c \in Callers : reply[c] # Nil => ReplyTrue(reply[c])

(* A true reply stays true when the log grows.                             *)
LEMMA ReplyTrueKept ==
  ASSUME BaseInv, LogGrows, NEW x, ReplyTrue(x)
  PROVE  ReplyTrue(x)'
<1>1. ASSUME CompletedTrue(x)
      PROVE  CompletedTrue(x)'
  <2>1. x.payload.id \in DOMAIN accepted
    BY <1>1 DEF CompletedTrue
  <2>2. /\ x.payload.id \in DOMAIN accepted'
        /\ accepted'[x.payload.id] = accepted[x.payload.id]
    BY <2>1 DEF LogGrows
  <2>3. PublishedBefore(x.payload.id)' = PublishedBefore(x.payload.id)
    BY <2>1, PublishedBeforeKept
  <2> QED BY <1>1, <2>2, <2>3 DEF CompletedTrue
<1>2. ASSUME FailedTrue(x)
      PROVE  FailedTrue(x)'
  BY <1>2 DEF FailedTrue, LogGrows
<1> QED BY <1>1, <1>2 DEF ReplyTrue

(* A command that has returned gives a true reply.                         *)
LEMMA ReplyToTrue ==
  ASSUME BaseInv, LogValid, CommandInv, ResultsTold,
         NEW c \in Callers, command[c] = "returned"
  PROVE  ReplyTrue(ReplyTo(c))
<1>1. CASE result[c] = Nil
  <2>1. loadErr(c) \in Dead /\ loadErr(c) = ctx[c]
    BY <1>1 DEF loadErr, CommandInv, CommandOf
  <2>2. ReplyTo(c) = Failed(loadErr(c), 0, ctx[c])
    BY <1>1, <2>1 DEF ReplyTo
  <2> QED BY <2>1, <2>2 DEF Failed, ReplyTrue, FailedTrue
<1>2. ASSUME NEW x, x = result[c], x # Nil
      PROVE  ReplyTrue(ReplyTo(c))
  <2> DEFINE i == x.attempt.id
  <2>1. Told(x)
    BY <1>2 DEF ResultsTold
  <2>2. i \in DOMAIN accepted /\ accepted[i].attempt = x.attempt /\ ValidLoadResult(accepted[i])
    BY <2>1 DEF Told, LogValid
  <2>3. i # 0
    BY <2>2 DEF BaseInv, ManagerTypeOK
  <2>4. loadErr(c) = x.attempt.failure
    BY <1>2 DEF loadErr
  <2>5. CASE x.attempt.status = "failed"
    <3>1. x.attempt.failure # Nil
      BY <2>2, <2>5 DEF ValidLoadResult, ValidFailed
    <3>2. ReplyTo(c) = Failed(x.attempt.failure, i, ctx[c])
      BY <1>2, <2>4, <3>1 DEF ReplyTo
    <3> QED BY <2>2, <2>3, <2>5, <3>2 DEF Failed, ReplyTrue, FailedTrue
  <2>6. CASE x.attempt.status = "succeeded"
    <3>1. x.attempt.failure = Nil /\ accepted[i].snapshot # Nil
      BY <2>2, <2>6 DEF ValidLoadResult, ValidSucceeded
    <3>2. Nil \notin Dead
      BY NilAssumption DEF FailureCodes, Causes
    <3>3. ReplyTo(c) = Completed(ReloadCommandResult(x))
      BY <1>2, <2>4, <2>6, <3>1, <3>2 DEF ReplyTo
    <3>4. /\ x.apply.published /\ x.apply.state = "loaded"
          /\ x.apply.current = accepted[i].snapshot
          /\ x.apply.changed <=> PublishedBefore(i) # {accepted[i].snapshot.checksum}
      BY <2>1, <2>6 DEF Told
    <3>5. PICK p : p = ReloadCommandResult(x)
      OBVIOUS
    <3>6. /\ p.id = i /\ p.state = "loaded" /\ p.published = x.apply.published
          /\ p.changed = x.apply.changed
          /\ p.checksum = accepted[i].snapshot.checksum
          /\ p.revision = accepted[i].snapshot.revision
      BY <3>1, <3>4, <3>5 DEF ReloadCommandResult
    <3>7. CompletedTrue(Completed(p))
      BY <2>2, <2>6, <3>4, <3>6 DEF CompletedTrue, Completed
    <3> QED BY <3>3, <3>5, <3>7 DEF ReplyTrue, Completed
  <2> QED BY <2>2, <2>5, <2>6 DEF ValidLoadResult
<1> QED BY <1>1, <1>2

(* Replies stay true, and new ones are.                                    *)
LEMMA RepliesTrueKept ==
  ASSUME BaseInv, LogValid, CommandInv, ResultsTold, RepliesTrue,
         [CommandNext]_<<vars, commandVars>>
  PROVE  RepliesTrue'
<1>1. LogGrows
  BY CommandStepIsManagerStep, ManagerStepGrowsLog
<1>2. ASSUME NEW d \in Callers, reply'[d] = reply[d], reply'[d] # Nil
      PROVE  ReplyTrue(reply[d])'
  <2>1. PICK x : x = reply[d]
    OBVIOUS
  <2>2. ReplyTrue(x)
    BY <1>2, <2>1 DEF RepliesTrue
  <2>3. ReplyTrue(x)'
    BY <1>1, <2>2, ReplyTrueKept
  <2>4. x = reply'[d]
    BY <1>2, <2>1
  <2> QED BY <2>3, <2>4
<1>3. CASE UNCHANGED <<vars, commandVars>>
  BY <1>2, <1>3 DEF commandVars, RepliesTrue
<1>4. CASE CommandNext
  <2>1. PICK c \in Callers : CommandStep(c) \/ Otherwise(c)
    BY <1>4 DEF CommandNext
  <2>2. ASSUME NEW d \in Callers, d # c, reply'[d] # Nil
        PROVE  ReplyTrue(reply[d])'
    BY <1>2, <2>1, <2>2, OthersUndisturbed DEF CommandInv
  <2>3. ASSUME Reply(c)
        PROVE  ReplyTrue(reply[c])'
    <3>1. PICK x : x = ReplyTo(c)
      OBVIOUS
    <3>2. ReplyTrue(x)
      BY <2>3, <3>1, ReplyToTrue DEF Reply
    <3>3. ReplyTrue(x)'
      BY <1>1, <3>2, ReplyTrueKept
    <3>4. reply'[c] = x
      BY <2>3, <3>1 DEF Reply, CommandInv, CommandFunctions
    <3> QED BY <3>3, <3>4
  <2>4. ASSUME NEW fault, NEW supported, RejectCommand(c, fault, supported)
        PROVE  ReplyTrue(reply[c])'
    <3>1. PICK f : reply'[c] = Rejected(f)
      BY <2>4 DEF RejectCommand, CommandInv, CommandFunctions
    <3> QED BY <3>1 DEF Rejected, ReplyTrue
  <2>5. ASSUME ~Reply(c),
               ~\E fault \in HandlerFaults, supported \in BOOLEAN :
                  RejectCommand(c, fault, supported)
        PROVE  reply'[c] = reply[c]
    BY <2>1, <2>5 DEF CommandStep, Otherwise, commandVars, HandleCommand, CommandCommits,
                      CommandReturns
  <2> QED BY <1>2, <2>2, <2>3, <2>4, <2>5 DEF RepliesTrue
<1> QED BY <1>3, <1>4

(* It all holds before the first step, and so always.                      *)
LEMMA CommandInitial ==
  ASSUME CommandInit
  PROVE  LogValid /\ CommandInv /\ ResultsTold /\ RepliesTrue
<1>1. /\ command = [c \in Callers |-> "none"]
      /\ result  = [c \in Callers |-> Nil]
      /\ reply   = [c \in Callers |-> Nil]
  BY Zenon DEF CommandInit
<1>2. accepted = <<>> /\ adm = [c \in Callers |-> "out"]
  BY Zenon DEF CommandInit, ManagerInit, AdmInit
<1> QED BY <1>1, <1>2 DEF LogValid, CommandInv, CommandFunctions, CommandOf, ResultsTold, RepliesTrue

(* Every reply ever given is true of the log.                              *)
LEMMA RepliesAlwaysTrue == CommandSpec => []RepliesTrue
<1> DEFINE Own == LogValid /\ CommandInv /\ ResultsTold /\ RepliesTrue
           Base == BaseInv /\ StatusFollowsLog /\ IDsDense
<1>1. CommandInit => Own
  BY CommandInitial
<1>2. Base /\ Own /\ [CommandNext]_<<vars, commandVars>> => Own'
  BY CommandStepIsManagerStep, LogValidInductive, CommandInvInductive, ResultsToldKept,
     RepliesTrueKept
<1>3. ManagerSpec => []BaseInv
  BY BaseInitial, BaseInductive, PTL DEF ManagerSpec
<1>4. Own => RepliesTrue
  OBVIOUS
<1> HIDE DEF Own
<1> QED
  BY <1>1, <1>2, <1>3, <1>4, CommandUsesManager, ManagerStatusFollowsLog, ManagerIDsDense, PTL
  DEF CommandSpec, Base

(* A completed reload told its caller of its own publication, for any      *)
(* number of callers, commands and loads in between (HandleCommand over    *)
(* what LoadFromSource returned).                                          *)
THEOREM CommandTellsPublication == CommandSpec => []CompletedTellsPublication
<1>1. RepliesTrue => CompletedTellsPublication
  BY DEF RepliesTrue, ReplyTrue, CompletedTrue, CompletedTellsPublication, Replied
<1> QED BY <1>1, RepliesAlwaysTrue, PTL

(* A failed reload published nothing, and caller and log agree on why.     *)
THEOREM CommandTellsFailure == CommandSpec => []FailedTellsFailure
<1>1. RepliesTrue => FailedTellsFailure
  BY DEF RepliesTrue, ReplyTrue, FailedTrue, FailedTellsFailure, Replied
<1> QED BY <1>1, RepliesAlwaysTrue, PTL
================================================================================
