----------------------------- MODULE OTelObserver -----------------------------
(***************************************************************************)
(* The OpenTelemetry observer (otel/observer.go) as one of a Manager's     *)
(* synchronous observers: its counters, histogram and spans.               *)
(*                                                                         *)
(* The instruments and the tracer are the SDK's: a counter is what it was  *)
(* added with, the attributes of one addition after the other, and the     *)
(* spans are kept in the order they end.  Component name, attempt kind,    *)
(* source and timestamps are left out.                                     *)
(***************************************************************************)
EXTENDS ManagerProperties, SequencesExt

CONSTANT OTel  \* its place among the observers

ASSUME OTelAssumption ==
  /\ OTel \in Observers
  /\ Nil \notin [attempt : AttemptRecord, apply : ApplyResult]

VARIABLES
  about,     \* the attempt and apply result each caller's events point to
  counters,  \* what was added to each instrument
  spans,     \* the spans that ended
  managed,   \* history: the IDs of the managed loads
  backward   \* the IDs of the attempts that ended before they started

otelVars == <<about, counters, spans, managed, backward>>

Instruments == {"started", "completed", "failed", "duration", "published", "changed"}

OTelInit ==
  /\ ManagerInit
  /\ about    = [c \in Callers |-> Nil]
  /\ counters = [i \in Instruments |-> <<>>]
  /\ spans    = <<>>
  /\ managed  = {}
  /\ backward = {}

(* attrs: the attributes of an event e about a, which is Nil for           *)
(* load_started.                                                           *)
attrs(e, a) ==
  [event     |-> e.kind,
   state     |-> e.state,
   status    |-> IF a = Nil THEN "" ELSE a.attempt.status,
   stage     |-> IF a = Nil THEN "" ELSE a.attempt.stage,
   code      |-> IF a = Nil THEN Nil ELSE a.attempt.failure,
   published |-> a # Nil /\ a.apply.published,
   changed   |-> a # Nil /\ a.apply.changed]

Span(name, id, ok) == [name |-> name, id |-> id, ok |-> ok]

(* Faulty variants, no part of the specification.                          *)
FailedByState(e, timed) ==  \* misses the failures of a manager that is degraded
  CASE e.kind = "load_started" -> {"started"}
    [] e.kind \in {"load_succeeded", "load_failed"} ->
         {"completed"} \cup (IF e.state = "failed" THEN {"failed"} ELSE {})
                       \cup (IF timed THEN {"duration"} ELSE {})
    [] OTHER -> {"published"}

LoadSpanForAll(e) ==  \* a publication ends a load's span too
  CASE e.kind = "load_started"     -> <<>>
    [] e.kind = "load_succeeded"   -> <<Span("load", e.id, TRUE)>>
    [] e.kind = "load_failed"      -> <<Span("load", e.id, FALSE)>>
    [] e.kind = "snapshot_applied" -> <<Span("load", e.id, TRUE)>>

(* Observe: which instruments an event is added to, but for changed, and   *)
(* which span it makes.  An attempt that ended before it started, by a     *)
(* clock that went back, is not timed: its duration is not recorded.       *)
Added(e, timed) ==
  CASE e.kind = "load_started" -> {"started"}
    [] e.kind \in {"load_succeeded", "load_failed"} ->
         {"completed"} \cup (IF e.kind = "load_failed" THEN {"failed"} ELSE {})
                       \cup (IF timed THEN {"duration"} ELSE {})
    [] e.kind = "snapshot_applied" -> {"published"}

Ended(e) ==
  CASE e.kind = "load_started"     -> <<>>
    [] e.kind = "load_succeeded"   -> <<Span("load", e.id, TRUE)>>
    [] e.kind = "load_failed"      -> <<Span("load", e.id, FALSE)>>
    [] e.kind = "snapshot_applied" -> <<Span("apply", e.id, TRUE)>>

Observe(e, a) ==
  LET also  == IF e.kind = "snapshot_applied" /\ a.apply.changed THEN {"changed"} ELSE {}
      added == Added(e, e.id \notin backward) \cup also
  IN  /\ counters' = [i \in Instruments |->
           IF i \in added THEN Append(counters[i], attrs(e, a)) ELSE counters[i]]
      /\ spans' = spans \o Ended(e)

(***************************************************************************)
(* Steps: those of Manager, with the observer in its place.                *)
(***************************************************************************)
ObservedStart(c) ==
  /\ StartLoad(c)
  /\ about' = [about EXCEPT ![c] = Nil]
  /\ managed' = managed \cup {nextAttemptID'}
  /\ UNCHANGED <<counters, spans, backward>>

ObservedCommit(c) ==
  /\ CommitLoad(c) \/ AcceptExternal(c)
  /\ about' = [about EXCEPT ![c] = [attempt |-> lastAttempt', apply |-> lastApply']]
  /\ backward' \in {backward, backward \cup {lastAttempt'.id}}
  /\ UNCHANGED <<counters, spans, managed>>

ObservedDelivery(c) ==
  /\ Deliver(c)
  /\ IF turn[c] = OTel
     THEN Observe(Head(events[c]), about[c])
     ELSE UNCHANGED <<counters, spans>>
  /\ UNCHANGED <<about, managed, backward>>

Unobserved(c) ==
  /\ \/ \E k \in Contexts : CallLoad(c, k) \/ \E r \in ExternalResults : CallApply(c, k, r)
     \/ Acquire(c)
     \/ \E k \in Dead : CancelCall(c, k)
     \/ ReturnRefused(c) \/ RunLoad(c) \/ RejectExternal(c) \/ Return(c)
  /\ UNCHANGED otelVars

OTelNext == \E c \in Callers : \/ ObservedStart(c) \/ ObservedCommit(c)
                               \/ ObservedDelivery(c) \/ Unobserved(c)

OTelSpec == OTelInit /\ [][OTelNext]_<<vars, otelVars>>

(***************************************************************************)
(* Properties.  They speak of the moments at which no event is under way.  *)
(***************************************************************************)
With(status) == {i \in DOMAIN accepted : accepted[i].attempt.status = status}

ChecksumBefore(n) ==  \* of the last publication before n, if any
  {accepted[i].snapshot.checksum :
     i \in {j \in With("succeeded") : j < n /\ ~\E l \in With("succeeded") : j < l /\ l < n}}

Total(instrument) == Len(counters[instrument])

FailedWith(code) ==
  Cardinality({n \in DOMAIN counters["failed"] : counters["failed"][n].code = code})

(* The counters agree with the log: loads started and completed, durations *)
(* of those that did not end before they started, failed loads by their    *)
(* code, snapshots published, and those whose checksum differs from the    *)
(* one published before.  Results applied from elsewhere count as          *)
(* publications only.                                                      *)
CountersTellLog ==
  Settled =>
    /\ Total("started") = Cardinality(managed)
    /\ Total("completed") = Cardinality(managed \cap DOMAIN accepted)
    /\ Total("duration") = Cardinality((managed \cap DOMAIN accepted) \ backward)
    /\ \A code \in FailureCodes :
         FailedWith(code) =
           Cardinality({i \in With("failed") \cap managed :
                          accepted[i].attempt.failure = code})
    /\ Total("published") = Cardinality(With("succeeded"))
    /\ Total("changed") =
         Cardinality({i \in With("succeeded") :
                        ChecksumBefore(i) # {accepted[i].snapshot.checksum}})

(* The spans retell the log: for each managed load one span that says how  *)
(* it ended, followed by one of its publication, if any.                   *)
SpansTellLog ==
  Settled =>
    /\ ToSet(spans) =
         {Span("load", i, i \in With("succeeded")) : i \in managed \cap DOMAIN accepted}
           \cup {Span("apply", i, TRUE) : i \in With("succeeded")}
    /\ \A m, n \in DOMAIN spans : m < n =>
         \/ spans[m].id < spans[n].id
         \/ spans[m].id = spans[n].id /\ spans[m].name = "load" /\ spans[n].name = "apply"
=============================================================================
