-------------------------- MODULE ManagerProperties --------------------------
(***************************************************************************)
(* Correctness properties of Manager.                                      *)
(***************************************************************************)
EXTENDS Manager

ManagerTypeOK ==
  /\ AdmTypeOK
  /\ nextAttemptID \in Nat
  /\ current \in Metadata \cup {Nil}
  /\ lastAttempt \in AttemptRecord \cup {Nil}
  /\ lastSuccess \in AttemptRecord \cup {Nil}
  /\ lastFailure \in AttemptRecord \cup {Nil}
  /\ lastApply \in ApplyResult \cup {Nil}
  /\ attemptHistory \in Seq(AttemptRecord)
  /\ attemptHistoryLimit \in Int
  /\ phase \in [Callers -> Phases]
  /\ job \in [Callers -> LoadResult \cup {Nil}]
  /\ attemptID \in [Callers -> Nat]
  /\ events \in [Callers -> Seq(Event)]
  /\ turn \in [Callers -> Observers]
  /\ accepted \in Seq(LoadResult)
  /\ delivered \in [Observers -> Seq(Event)]
  /\ calls \in Nat

(***************************************************************************)
(* The status follows the log of accepted results.                         *)
(***************************************************************************)
LatestWith(i, status) ==
  /\ i \in DOMAIN accepted
  /\ accepted[i].attempt.status = status
  /\ \A j \in DOMAIN accepted : j > i => accepted[j].attempt.status # status

NoneWith(status) == \A i \in DOMAIN accepted : accepted[i].attempt.status # status

(* Everything LifecycleStatus reports is that of one accepted attempt: the *)
(* current snapshot and last success are of the latest success, the last   *)
(* failure of the latest failure, the last attempt of the latest accepted, *)
(* and the stored apply result describes what is current now.              *)
StatusFollowsLog ==
  /\ IF accepted = <<>> THEN lastAttempt = Nil /\ lastApply = Nil
     ELSE /\ lastAttempt = accepted[Len(accepted)].attempt
          /\ lastApply.current = current
          /\ lastApply.state = managerState
  /\ \/ NoneWith("succeeded") /\ current = Nil /\ lastSuccess = Nil
     \/ \E i \in DOMAIN accepted :
          /\ LatestWith(i, "succeeded")
          /\ current = accepted[i].snapshot
          /\ lastSuccess = accepted[i].attempt
  /\ \/ NoneWith("failed") /\ lastFailure = Nil
     \/ \E i \in DOMAIN accepted :
          LatestWith(i, "failed") /\ lastFailure = accepted[i].attempt

retained == IF historyLimit < 0 THEN 0
            ELSE IF Len(accepted) < historyLimit THEN Len(accepted)
            ELSE historyLimit

(* The retained history is the most recent part of the log, as long as the *)
(* limit allows and never longer, from the oldest to the newest.           *)
HistoryIsRecentLog ==
  /\ Len(attemptHistory) = retained
  /\ \A i \in 1 .. retained :
       attemptHistory[i] = accepted[Len(accepted) - retained + i].attempt

(* Attempt IDs are dense and in the order of the log, though they are      *)
(* assigned without a lock: an ID is in the log or belongs to the one load *)
(* in progress, and refused calls and rejected results consume none.       *)
LoadInProgress == \E c \in Callers : phase[c] \in {"started", "loaded"}

IDsDense ==
  /\ \A i \in DOMAIN accepted : accepted[i].attempt.id = i
  /\ nextAttemptID = IF LoadInProgress THEN Len(accepted) + 1 ELSE Len(accepted)

(* An event that is being delivered tells the truth of now: an observer    *)
(* that reads the manager from its callback finds the state in the event,  *)
(* and the event is of the attempt that was numbered last.                 *)
EventsMatchManager ==
  \A c \in Callers : \A i \in DOMAIN events[c] :
    events[c][i].state = managerState /\ events[c][i].id = nextAttemptID

(***************************************************************************)
(* What an observer sees.                                                  *)
(***************************************************************************)
Follows(e, f) ==
  \/ e.kind = "load_started" /\ f.kind \in {"load_succeeded", "load_failed"} /\ f.id = e.id
  \/ e.kind = "load_succeeded" /\ f.kind = "snapshot_applied" /\ f.id = e.id
  \/ /\ e.kind \in {"load_failed", "snapshot_applied"}
     /\ f.kind \in {"load_started", "snapshot_applied"}
     /\ f.id > e.id

(* No observer sees the events of two attempts interleaved or out of       *)
(* order: started, then finished, then published for a managed load, and   *)
(* a publication alone for an external result.  All see the same events,   *)
(* and each is at most one event ahead of those configured after it.       *)
DeliveredInOrder ==
  /\ \A o \in Observers :
       LET d == delivered[o]
       IN  /\ d # <<>> => d[1].kind \in {"load_started", "snapshot_applied"}
           /\ \A i \in 1 .. Len(d) - 1 : Follows(d[i], d[i + 1])
  /\ \A o \in 1 .. NumObservers - 1 :
       /\ Len(delivered[o]) - Len(delivered[o + 1]) \in {0, 1}
       /\ \A i \in DOMAIN delivered[o + 1] : delivered[o + 1][i] = delivered[o][i]

(* Publications and snapshot_applied events are in one-to-one              *)
(* correspondence, in order: an observer that follows the events has, when *)
(* none is under way, seen every snapshot that ever became current.        *)
Settled == \A c \in Callers : events[c] = <<>>

EventsTellPublications ==
  Settled =>
    \A o \in Observers :
      LET d    == delivered[o]
          told == {i \in DOMAIN d : d[i].kind = "snapshot_applied"}
      IN  /\ {d[i].id : i \in told} =
               {accepted[n].attempt.id :
                  n \in {m \in DOMAIN accepted : accepted[m].attempt.status = "succeeded"}}
          /\ \A i, j \in told : i < j => d[i].id < d[j].id

(* The order of the events of a log, and what the manager reports after    *)
(* the first n results of it.                                              *)
Rank(kind) == IF kind = "load_started" THEN 0
              ELSE IF kind = "snapshot_applied" THEN 2 ELSE 1

Before(e, f) == \/ e.id < f.id
                \/ e.id = f.id /\ Rank(e.kind) < Rank(f.kind)

StateAfter(n) ==
  LET published == \E i \in 1 .. n : accepted[i].attempt.status = "succeeded"
  IN  IF n = 0 THEN "unloaded"
      ELSE IF accepted[n].attempt.status = "succeeded" THEN "loaded"
      ELSE IF published THEN "degraded" ELSE "failed"

(* Readers see a last known good manager.                                  *)
Readers == INSTANCE LastKnownGood WITH good <- current, health <- managerState

KeepsLastKnownGood == Readers!GoodSpec
=============================================================================
