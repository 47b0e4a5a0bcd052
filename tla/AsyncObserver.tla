----------------------------- MODULE AsyncObserver -----------------------------
(***************************************************************************)
(* AsyncObserver (observer_async.go): Notify queues events for a worker    *)
(* goroutine that calls the wrapped observer, and Close stops the intake   *)
(* and waits for the worker.                                               *)
(*                                                                         *)
(* Notify runs under the read lock and Close shuts the channel under the   *)
(* write lock, once.  The worker is parked in its receive or is not: a     *)
(* select with a default finds room in a channel when there is a parked    *)
(* receiver or a free place in the buffer, and a channel of capacity 0 has *)
(* no place.  The wrapped observer may panic, which is a return; it may    *)
(* call Notify itself, as Worker; it may call Close, which then waits for  *)
(* the very worker that runs it; and it may never return.                  *)
(***************************************************************************)
EXTENDS Integers, Sequences, FiniteSets

CONSTANTS
  Notifiers,          \* goroutines that call Notify
  Worker,             \* the one of them that is the observer's own
  Closers,            \* calls of Close
  DefaultBuffer,
  ConfiguredBuffers,  \* values given to WithAsyncObserverBuffer
  MaxEvents,          \* bound on the events of each notifier
  NoEvent

ASSUME AsyncAssumption ==
  /\ Worker \in Notifiers
  /\ DefaultBuffer \in Nat
  /\ ConfiguredBuffers \subseteq Int
  /\ MaxEvents \in Nat
  /\ NoEvent \notin Notifiers \X Nat

VARIABLES
  buffer,     \* capacity of the channel
  queue,      \* contents of the channel
  closed,     \* closed, and the channel closed
  dropped,
  notify,     \* where each notifier is in Notify
  sent,       \* number of events each notifier has begun to notify
  closing,    \* where each call of Close is
  expired,    \* whether its context has ended
  inside,     \* the calls of Close that the wrapped observer makes
  run,        \* where the worker is
  inHand,     \* the event the worker has received
  stuck,      \* the observer never returns from this event
  accepted,   \* history: the events sent to the channel, in order
  delivered   \* history: the events the observer has returned from

channel   == <<buffer, queue, closed, dropped, accepted>>
notifying == <<notify, sent>>
closeVars == <<closing, expired, inside>>
worker    == <<run, inHand, stuck, delivered>>
asyncVars == <<channel, notifying, closeVars, worker>>

Events == Notifiers \X (1 .. MaxEvents)

(* Faulty variants, here, before FindOpen, DropFull, ShutChannel and Exit, *)
(* are no part of the specification: each property is shown to fail with   *)
(* one of them in the place of the definition it varies.                   *)
NewBufferUnclamped(configured) == configured

NewBuffer(configured) == IF configured < 0 THEN 0 ELSE configured

AsyncInit ==
  /\ buffer \in {DefaultBuffer} \cup {NewBuffer(n) : n \in ConfiguredBuffers}
  /\ queue = <<>> /\ closed = FALSE /\ dropped = 0 /\ accepted = <<>>
  /\ notify = [n \in Notifiers |-> "out"]
  /\ sent   = [n \in Notifiers |-> 0]
  /\ closing = [k \in Closers |-> "out"]
  /\ expired = [k \in Closers |-> FALSE]
  /\ inside = {}
  /\ run = "ready" /\ inHand = NoEvent /\ stuck = FALSE /\ delivered = <<>>

(***************************************************************************)
(* Notify.                                                                 *)
(***************************************************************************)
Readers       == {n \in Notifiers : notify[n] \in {"locked", "open", "unlock"}}
WriterWaiting == \E k \in Closers : closing[k] = "lock"

NotifyStep(n, from, to) == notify[n] = from /\ notify' = [notify EXCEPT ![n] = to]

Event(n) == <<n, sent[n]>>

CloseReturned(k) == closing[k] \in {"drained", "expired"}

(* The wrapped observer runs its own code: it is neither stuck nor in a    *)
(* call of Notify or Close.                                                *)
ClosingInside == \E k \in inside : ~CloseReturned(k)

ObserverRuns ==
  /\ run = "delivering"
  /\ ~stuck
  /\ notify[Worker] = "out"
  /\ ~ClosingInside

StartNotify(n) ==
  /\ sent[n] < MaxEvents
  /\ n = Worker => ObserverRuns
  /\ NotifyStep(n, "out", "rlock")
  /\ sent' = [sent EXCEPT ![n] = @ + 1]
  /\ UNCHANGED <<channel, closeVars, worker>>

(* A writer that waits for the lock keeps new readers out.                 *)
RLock(n) ==
  /\ ~WriterWaiting
  /\ NotifyStep(n, "rlock", "locked")
  /\ UNCHANGED <<channel, sent, closeVars, worker>>

DropClosed(n) ==
  /\ closed
  /\ NotifyStep(n, "locked", "unlock")
  /\ dropped' = dropped + 1
  /\ UNCHANGED <<buffer, queue, closed, accepted, sent, closeVars, worker>>

FindOpenAnyway(n) ==  \* no look at closed
  /\ NotifyStep(n, "locked", "open")
  /\ UNCHANGED <<channel, sent, closeVars, worker>>

FindOpen(n) ==
  /\ ~closed
  /\ NotifyStep(n, "locked", "open")
  /\ UNCHANGED <<channel, sent, closeVars, worker>>

HandOver(n) ==
  /\ run = "parked"
  /\ NotifyStep(n, "open", "unlock")
  /\ run' = "delivering"
  /\ inHand' = Event(n)
  /\ accepted' = Append(accepted, Event(n))
  /\ UNCHANGED <<buffer, queue, closed, dropped, sent, closeVars, stuck, delivered>>

Enqueue(n) ==
  /\ run # "parked"
  /\ Len(queue) < buffer
  /\ NotifyStep(n, "open", "unlock")
  /\ queue' = Append(queue, Event(n))
  /\ accepted' = Append(accepted, Event(n))
  /\ UNCHANGED <<buffer, closed, dropped, sent, closeVars, worker>>

DropFullUncounted(n) ==  \* a drop that Dropped does not tell
  /\ run # "parked"
  /\ Len(queue) = buffer
  /\ NotifyStep(n, "open", "unlock")
  /\ UNCHANGED <<channel, sent, closeVars, worker>>

DropFullBlocking(n) ==  \* a send without the default: wait for room
  /\ notify[n] = "open"
  /\ FALSE
  /\ UNCHANGED asyncVars

DropFull(n) ==
  /\ run # "parked"
  /\ Len(queue) = buffer
  /\ NotifyStep(n, "open", "unlock")
  /\ dropped' = dropped + 1
  /\ UNCHANGED <<buffer, queue, closed, accepted, sent, closeVars, worker>>

RUnlock(n) ==
  /\ NotifyStep(n, "unlock", "out")
  /\ UNCHANGED <<channel, sent, closeVars, worker>>

(***************************************************************************)
(* Close.  The first call runs the body of closeOnce, which others wait    *)
(* for; under the write lock it is one step.                               *)
(***************************************************************************)
CloseStep(k, from, to) == closing[k] = from /\ closing' = [closing EXCEPT ![k] = to]

StartClose(k) ==
  /\ CloseStep(k, "out", "once")
  /\ \E ended \in BOOLEAN : expired' = [expired EXCEPT ![k] = ended]
  /\ \/ UNCHANGED inside
     \/ ObserverRuns /\ inside' = inside \cup {k}
  /\ UNCHANGED <<channel, notifying, worker>>

CloseFirst(k) ==
  /\ ~closed
  /\ ~WriterWaiting
  /\ CloseStep(k, "once", "lock")
  /\ UNCHANGED <<channel, notifying, expired, inside, worker>>

ShutChannelUnlocked(k) ==  \* without the write lock
  /\ CloseStep(k, "lock", "waiting")
  /\ closed' = TRUE
  /\ UNCHANGED <<buffer, queue, dropped, accepted, notifying, expired, inside, worker>>

ShutChannel(k) ==
  /\ Readers = {}
  /\ CloseStep(k, "lock", "waiting")
  /\ closed' = TRUE
  /\ UNCHANGED <<buffer, queue, dropped, accepted, notifying, expired, inside, worker>>

CloseAgain(k) ==
  /\ closed
  /\ CloseStep(k, "once", "waiting")
  /\ UNCHANGED <<channel, notifying, expired, inside, worker>>

CloseDrained(k) ==
  /\ run = "done"
  /\ CloseStep(k, "waiting", "drained")
  /\ UNCHANGED <<channel, notifying, expired, inside, worker>>

CloseExpired(k) ==
  /\ expired[k]
  /\ CloseStep(k, "waiting", "expired")
  /\ UNCHANGED <<channel, notifying, expired, inside, worker>>

CloseContextEnds(k) ==
  /\ closing[k] \in {"once", "lock", "waiting"}
  /\ ~expired[k]
  /\ expired' = [expired EXCEPT ![k] = TRUE]
  /\ UNCHANGED <<channel, notifying, closing, inside, worker>>

(***************************************************************************)
(* The worker.                                                             *)
(***************************************************************************)
Receive ==
  /\ run = "ready"
  /\ queue # <<>>
  /\ inHand' = Head(queue)
  /\ queue' = Tail(queue)
  /\ run' = "delivering"
  /\ UNCHANGED <<buffer, closed, dropped, accepted, notifying, closeVars, stuck, delivered>>

Park ==
  /\ run = "ready"
  /\ queue = <<>>
  /\ ~closed
  /\ run' = "parked"
  /\ UNCHANGED <<channel, notifying, closeVars, inHand, stuck, delivered>>

ExitUndrained ==  \* leaves the queued events behind
  /\ run \in {"ready", "parked"}
  /\ closed
  /\ run' = "done"
  /\ UNCHANGED <<channel, notifying, closeVars, inHand, stuck, delivered>>

ExitUnlessParked ==  \* a parked worker is not woken
  /\ run = "ready"
  /\ queue = <<>>
  /\ closed
  /\ run' = "done"
  /\ UNCHANGED <<channel, notifying, closeVars, inHand, stuck, delivered>>

Exit ==
  /\ run \in {"ready", "parked"}
  /\ queue = <<>>
  /\ closed
  /\ run' = "done"
  /\ UNCHANGED <<channel, notifying, closeVars, inHand, stuck, delivered>>

ObserverReturns ==
  /\ ObserverRuns
  /\ delivered' = Append(delivered, inHand)
  /\ inHand' = NoEvent
  /\ run' = "ready"
  /\ UNCHANGED <<channel, notifying, closeVars, stuck>>

ObserverSticks ==
  /\ ObserverRuns
  /\ stuck' = TRUE
  /\ UNCHANGED <<channel, notifying, closeVars, run, inHand, delivered>>

Notify(n) == \/ RLock(n)    \/ DropClosed(n) \/ FindOpen(n)
             \/ HandOver(n) \/ Enqueue(n)    \/ DropFull(n) \/ RUnlock(n)

Close(k) == \/ CloseFirst(k)   \/ ShutChannel(k) \/ CloseAgain(k)
            \/ CloseDrained(k) \/ CloseExpired(k)

Run == Receive \/ Park \/ Exit \/ ObserverReturns

AsyncNext ==
  \/ \E n \in Notifiers : StartNotify(n) \/ Notify(n)
  \/ \E k \in Closers : StartClose(k) \/ Close(k) \/ CloseContextEnds(k)
  \/ Run
  \/ ObserverSticks

AsyncSpec == AsyncInit /\ [][AsyncNext]_asyncVars

(***************************************************************************)
(* Goroutines run, and an observer that does not stick returns.  Nothing   *)
(* makes a context end or an observer stick.                               *)
(***************************************************************************)
AsyncFairness ==
  /\ \A n \in Notifiers : WF_asyncVars(Notify(n))
  /\ \A k \in Closers : WF_asyncVars(Close(k))
  /\ WF_asyncVars(Run)

FairAsyncSpec == AsyncSpec /\ AsyncFairness

(***************************************************************************)
(* Properties.                                                             *)
(***************************************************************************)
AsyncTypeOK ==
  /\ buffer \in Nat
  /\ queue \in Seq(Events)
  /\ closed \in BOOLEAN
  /\ dropped \in Nat
  /\ notify \in [Notifiers -> {"out", "rlock", "locked", "open", "unlock"}]
  /\ sent \in [Notifiers -> 0 .. MaxEvents]
  /\ closing \in [Closers -> {"out", "once", "lock", "waiting", "drained", "expired"}]
  /\ expired \in [Closers -> BOOLEAN]
  /\ inside \in SUBSET Closers
  /\ run \in {"ready", "parked", "delivering", "done"}
  /\ inHand \in Events \cup {NoEvent}
  /\ stuck \in BOOLEAN
  /\ accepted \in Seq(Events)
  /\ delivered \in Seq(Events)

(* Close never shuts the channel between a notifier's look at closed and   *)
(* its send: a send on a closed channel would panic, in the goroutine of a *)
(* load, and the event would be neither delivered nor counted.             *)
NeverSendsOnClosed == \A n \in Notifiers : notify[n] = "open" => ~closed

(* No event is lost silently or delivered twice: an event that Notify has  *)
(* decided on is counted as dropped, or is in exactly one of the places    *)
(* from the channel to the observer, in the order of acceptance.           *)
Undecided == {n \in Notifiers : notify[n] \in {"rlock", "locked", "open"}}

Begun == {e \in Events : e[2] <= sent[e[1]]}

EveryEventAccounted ==
  /\ accepted = delivered \o (IF inHand = NoEvent THEN <<>> ELSE <<inHand>>) \o queue
  /\ dropped + Len(accepted) + Cardinality(Undecided) = Cardinality(Begun)

(* When any Close has returned nil, everything that was ever accepted has  *)
(* been delivered, and the worker is gone, so nothing is delivered later.  *)
CloseMeansDrained ==
  \A k \in Closers : closing[k] = "drained" => run = "done" /\ delivered = accepted

(* Notify returns whatever the observer and the callers of Close do.       *)
NotifyReturns == \A n \in Notifiers : notify[n] # "out" ~> notify[n] = "out"

(* Close returns once its context has ended, even if the observer is stuck *)
(* or another Close was first, and even called by the observer, where it   *)
(* waits for the worker it runs on; and if its context never ends, only an *)
(* observer that is stuck or in such a Close keeps it.                     *)
Blocked == stuck \/ ClosingInside

CloseReturns ==
  \A k \in Closers :
    /\ closing[k] # "out" /\ expired[k] ~> CloseReturned(k)
    /\ closing[k] # "out" ~> CloseReturned(k) \/ Blocked

(* Every event accepted is delivered, unless the observer is stuck or      *)
(* waits for its own Close: neither a parked worker, nor a Close that gave *)
(* up, whoever called it, leaves it behind.                                *)
AcceptedIsDelivered ==
  \A e \in Events : (\E i \in DOMAIN accepted : accepted[i] = e)
                      ~> (\E i \in DOMAIN delivered : delivered[i] = e) \/ Blocked

(* The observer is a lossy queue.                                          *)
Queue == INSTANCE LossyQueue WITH capacity <- buffer, taken <- accepted,
                                  given <- Len(delivered), lost <- dropped,
                                  shut <- closed

IsLossyQueue == Queue!QueueSpec
=============================================================================
