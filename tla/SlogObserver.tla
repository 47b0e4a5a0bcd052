----------------------------- MODULE SlogObserver -----------------------------
(***************************************************************************)
(* The structured log observer (observer_slog.go) beside the OpenTelemetry *)
(* one.  An attribute the code leaves out is "", Nil or FALSE here; names, *)
(* kinds, messages and times are left out.                                 *)
(***************************************************************************)
EXTENDS OTelObserver

CONSTANT Slog  \* its place among the observers

ASSUME SlogAssumption == Slog \in Observers \ {OTel}

VARIABLE records  \* what was logged

SlogInit == OTelInit /\ records = <<>>

(* notifyLoadFinished and notifySnapshotApplied attach the snapshot.       *)
EventSnapshot(a) == IF a = Nil THEN Nil
                    ELSE IF a.apply.published THEN a.apply.current ELSE Nil

slogEventAttrs(e, a) ==
  [event      |-> e.kind,
   state      |-> e.state,
   id         |-> IF e.id = 0 /\ a # Nil THEN a.attempt.id ELSE e.id,
   status     |-> IF a = Nil THEN "" ELSE a.attempt.status,
   stage      |-> IF a = Nil THEN "" ELSE a.attempt.stage,
   code       |-> IF a = Nil THEN Nil ELSE a.attempt.failure,
   attempted  |-> IF a = Nil THEN "" ELSE a.attempt.checksum,
   snapshot   |-> IF EventSnapshot(a) = Nil THEN "" ELSE EventSnapshot(a).checksum,
   published  |-> a # Nil /\ a.apply.published,
   changed    |-> a # Nil /\ a.apply.changed]

(* A faulty variant, no part of the specification.                         *)
LevelByState(e) ==  \* an error while the manager has one
  IF e.state \in {"failed", "degraded"} THEN "error" ELSE "info"

Level(e) == IF e.kind = "load_failed" THEN "error" ELSE "info"

Log(e, a) == records' = Append(records, [level |-> Level(e), attrs |-> slogEventAttrs(e, a)])

SlogNext ==
  \E c \in Callers :
    \/ /\ ObservedDelivery(c)
       /\ IF turn[c] = Slog THEN Log(Head(events[c]), about[c]) ELSE UNCHANGED records
    \/ /\ ObservedStart(c) \/ ObservedCommit(c) \/ Unobserved(c)
       /\ UNCHANGED records

SlogSpec == SlogInit /\ [][SlogNext]_<<vars, otelVars, records>>

(***************************************************************************)
(* Properties.                                                             *)
(***************************************************************************)
LoggedOf(kind, i) ==
  LET r == accepted[i]
  IN  [event     |-> kind,
       state     |-> StateAfter(i),
       id        |-> i,
       status    |-> r.attempt.status,
       stage     |-> r.attempt.stage,
       code      |-> r.attempt.failure,
       attempted |-> r.attempt.checksum,
       snapshot  |-> IF i \in With("succeeded") THEN r.snapshot.checksum ELSE "",
       published |-> i \in With("succeeded"),
       changed   |-> i \in With("succeeded")
                       /\ ChecksumBefore(i) # {r.snapshot.checksum}]

LogStarted(i) ==
  [level |-> "info",
   attrs |-> [event     |-> "load_started", state   |-> StateAfter(i - 1), id |-> i,
              status    |-> "",    stage    |-> "", code |-> Nil,
              attempted |-> "",    snapshot |-> "",
              published |-> FALSE, changed  |-> FALSE]]

LogFinished(i) ==
  IF i \in With("succeeded") THEN [level |-> "info",  attrs |-> LoggedOf("load_succeeded", i)]
                             ELSE [level |-> "error", attrs |-> LoggedOf("load_failed", i)]

LogPublished(i) == [level |-> "info", attrs |-> LoggedOf("snapshot_applied", i)]

EventOf(record) == [kind |-> record.attrs.event, id |-> record.attrs.id]

(* The log retells what happened, in order: for each attempt when it began *)
(* and in which state, how it ended, and what it published; an error is a  *)
(* managed load that failed, and nothing else is.  A failure applied from  *)
(* elsewhere leaves no record: the state of the next one tells of it.      *)
RecordsTellLog ==
  Settled =>
    /\ ToSet(records) = {LogStarted(i) : i \in managed}
                          \cup {LogFinished(i) : i \in managed \cap DOMAIN accepted}
                          \cup {LogPublished(i) : i \in With("succeeded")}
    /\ \A m, n \in DOMAIN records : m < n => Before(EventOf(records[m]), EventOf(records[n]))
=============================================================================
