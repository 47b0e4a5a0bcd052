-------------------------------- MODULE Opskit --------------------------------
(***************************************************************************)
(* The operational readers of a Manager: its Opskit methods (opskit.go)    *)
(* and the HTTP endpoints and readiness check made of it (opshttp).        *)
(*                                                                         *)
(* A prober reads between any two steps of the callers.  Status,           *)
(* Readiness, Inspect and the HTTP routes each take the read lock once and *)
(* answer from what they copied, so each is one step; two reads of one     *)
(* prober may straddle any number of commits.  Messages, component         *)
(* identity and timestamps are left out.  A redacted view is represented   *)
(* by the metadata of the snapshot it was made from.                       *)
(***************************************************************************)
EXTENDS Manager

CONSTANT Probers

VARIABLES
  degradedReady,  \* managerDegradedReady()
  routes,         \* what Mount registered
  answer          \* the last answer each prober got, or Nil

opsVars == <<degradedReady, routes, answer>>

(* Mount refuses a missing server or inspector and a malformed prefix      *)
(* before it registers any route, and lists attempts if the inspector does.*)
Mount(server, inspector, prefix) ==
  IF server = "nil" \/ inspector = "nil" \/ prefix = "malformed" THEN {}
  ELSE {"inspection"} \cup (IF inspector = "with_attempts" THEN {"attempts"} ELSE {})

(* The zero Manager is ready when it is degraded; NewManager's is unless   *)
(* WithDegradedReady says otherwise.                                       *)
OpskitInit ==
  /\ ManagerInit
  /\ degradedReady \in BOOLEAN
  /\ attemptHistoryLimit = 0 => degradedReady
  /\ routes \in {Mount(server, inspector, prefix) :
                   server    \in {"nil", "given"},
                   inspector \in {"nil", "without_attempts", "with_attempts"},
                   prefix    \in {"malformed", "clean"}}
  /\ answer = [p \in Probers |-> Nil]

opskitState == [unloaded |-> "not_ready", failed   |-> "failed",
                loaded   |-> "ready",     degraded |-> "degraded"]

(* Faulty variants, here and before Inspect, are no part of the            *)
(* specification: each property is shown to fail with one of them, or one  *)
(* of Manager's, in the place of the definition it varies.                 *)
ReadyIfPublishedLast(s) == s = "loaded"  \* the option is not looked at

lifecycleReady(s) == \/ s = "loaded"
                     \/ s = "degraded" /\ degradedReady

lifecycleSource ==
  IF current # Nil /\ current.source # "" THEN current.source
  ELSE IF lastAttempt # Nil THEN lastAttempt.source
  ELSE ""

lifecycleAttributes ==
  [hasCurrent |-> current # Nil,
   source     |-> lifecycleSource,
   status     |-> IF lastAttempt = Nil THEN "" ELSE lastAttempt.status,
   stage      |-> IF lastAttempt = Nil THEN "" ELSE lastAttempt.stage]

(* What Status answers, and Readiness in part, with the length of the log  *)
(* at the moment of the read, which only the properties look at.           *)
Reading == [kind       |-> "reading",
            state      |-> opskitState[managerState],
            ready      |-> lifecycleReady(managerState),
            attributes |-> lifecycleAttributes,
            moment     |-> Len(accepted)]

(* LifecycleInspection: statusLocked and the redacted view, under one lock.*)
LifecycleInspection ==
  [kind        |-> "page",
   state       |-> managerState,
   current     |-> current,
   lastAttempt |-> lastAttempt,
   lastSuccess |-> lastSuccess,
   lastFailure |-> lastFailure,
   lastApply   |-> lastApply,
   redacted    |-> current,
   moment      |-> Len(accepted),
   attempts    |-> <<>>,
   listed      |-> 0]

(* The attempts of a page, and the length of the log when they were read.  *)
Listing(seen) == [seen EXCEPT !.attempts = attemptHistory, !.listed = Len(accepted)]

(***************************************************************************)
(* Reads.  A read that refuses an ended context leaves no answer.          *)
(***************************************************************************)
Answer(p, a) ==
  /\ answer' = [answer EXCEPT ![p] = a]
  /\ UNCHANGED <<vars, degradedReady, routes>>

HasPage(p) == answer[p] # Nil /\ answer[p].kind = "page"

(* Status and Readiness.                                                   *)
Probe(p) == Answer(p, Reading)

(* ReadinessCheck, which also refuses a missing provider.                  *)
Check(p, k) == Answer(p, IF k = "live" THEN Reading ELSE Nil)

InspectInTwoLocks(p, k) ==  \* the attempts are those of the page before
  Answer(p, IF k # "live" THEN Nil
            ELSE IF HasPage(p)
            THEN [Listing(LifecycleInspection) EXCEPT !.attempts = answer[p].attempts]
            ELSE Listing(LifecycleInspection))

Inspect(p, k) == Answer(p, IF k = "live" THEN Listing(LifecycleInspection) ELSE Nil)

(* GET <prefix>, and GET <prefix>/attempts to complete the page.           *)
GetInspection(p) == "inspection" \in routes /\ Answer(p, LifecycleInspection)

GetAttempts(p) ==
  /\ "attempts" \in routes
  /\ HasPage(p)
  /\ Answer(p, Listing(answer[p]))

Read(p) == \/ Probe(p)
           \/ \E k \in Contexts : Check(p, k) \/ Inspect(p, k)
           \/ GetInspection(p)
           \/ GetAttempts(p)

OpskitNext == \/ ManagerNext /\ UNCHANGED opsVars
              \/ \E p \in Probers : Read(p)

OpskitSpec == OpskitInit /\ [][OpskitNext]_<<vars, opsVars>>

(***************************************************************************)
(* Properties: what each answer should have been, told from the log.       *)
(***************************************************************************)
LatestOf(status, n) ==  \* its position in the first n of the log, or 0
  LET those == {i \in 1 .. n : accepted[i].attempt.status = status}
  IN  IF those = {} THEN 0 ELSE CHOOSE i \in those : \A j \in those : j <= i

HealthAt(n) ==
  IF n = 0 THEN "unloaded"
  ELSE IF LatestOf("succeeded", n) = n THEN "loaded"
  ELSE IF LatestOf("succeeded", n) = 0 THEN "failed" ELSE "degraded"

AttemptAt(i)  == IF i = 0 THEN Nil ELSE accepted[i].attempt
SnapshotAt(n) == LET i == LatestOf("succeeded", n)
                 IN  IF i = 0 THEN Nil ELSE accepted[i].snapshot

ReadingTrue(r) ==
  LET n == r.moment
      a == r.attributes
  IN  /\ r.state = opskitState[HealthAt(n)]
      /\ r.ready <=> \/ LatestOf("succeeded", n) = n /\ n > 0
                     \/ LatestOf("succeeded", n) > 0 /\ degradedReady
      /\ a.hasCurrent <=> LatestOf("succeeded", n) > 0
      /\ n > 0 => /\ a.status = accepted[n].attempt.status
                  /\ a.stage = accepted[n].attempt.stage
                  /\ a.source = IF a.hasCurrent /\ SnapshotAt(n).source # ""
                                THEN SnapshotAt(n).source ELSE accepted[n].attempt.source

ListTrue(v) ==
  LET size == IF historyLimit < 0 THEN 0
              ELSE IF v.listed < historyLimit THEN v.listed ELSE historyLimit
  IN  /\ v.listed >= v.moment
      /\ Len(v.attempts) = size
      /\ \A i \in 1 .. size : v.attempts[i] = accepted[v.listed - size + i].attempt

PageTrue(v) ==
  LET n == v.moment
  IN  /\ v.state = HealthAt(n)
      /\ v.current = SnapshotAt(n) /\ v.redacted = v.current
      /\ v.lastAttempt = AttemptAt(n)
      /\ v.lastSuccess = AttemptAt(LatestOf("succeeded", n))
      /\ v.lastFailure = AttemptAt(LatestOf("failed", n))
      /\ n > 0 => v.lastApply.current = v.current /\ v.lastApply.state = v.state
      /\ v.listed > 0 => ListTrue(v)

(* Every answer of Status and Readiness was true at one moment, however    *)
(* many commits ran since: state, readiness and attributes agree on one    *)
(* prefix of the log.  The manager was ready if its last attempt had       *)
(* published, or one before had and degraded counts as ready, and the      *)
(* source named is that of the snapshot in effect, if it names one.        *)
ReadingsTellLog ==
  \A p \in Probers : answer[p] # Nil /\ ~HasPage(p) => ReadingTrue(answer[p])

(* Every page is of one moment: the snapshot in effect and its redacted    *)
(* view, the three attempts and the last apply are those of one prefix of  *)
(* the log, and the attempts listed are the most recent of a prefix that   *)
(* is the same for Inspect, and no shorter when the list is read after.    *)
PagesTellLog ==
  \A p \in Probers : HasPage(p) => PageTrue(answer[p])

(* A service that counts degraded as ready never stops being ready because *)
(* of a reload, and one that does not, only because of a failed one.       *)
ReadinessKept ==
  [][lifecycleReady(managerState) =>
       \/ lifecycleReady(managerState)'
       \/ ~degradedReady /\ lastAttempt' # Nil /\ lastAttempt'.status = "failed"
    ]_<<vars, opsVars>>
=============================================================================
