---------------------------- MODULE ObservedManager ----------------------------
(***************************************************************************)
(* A Manager whose observers do more than watch: the composition of        *)
(* Manager with AsyncObserver.                                             *)
(*                                                                         *)
(* The last observer is the Notify of an AsyncObserver, so that the        *)
(* delivery of an event to it is a call of Notify by the goroutine that    *)
(* holds the admission.  The observer it wraps makes follow-up loads, as   *)
(* the documentation of WithObservers allows, on the worker goroutine,     *)
(* which is the caller Worker.  The other observers are synchronous, and   *)
(* one of them may call the manager back from a delivery, as the           *)
(* documentation forbids: such a call runs on the goroutine of the         *)
(* delivery, which waits for it, and is the caller Nested.  The            *)
(* AsyncObserver is not closed here; AsyncObserver has its Close.          *)
(***************************************************************************)
EXTENDS ManagerProperties

CONSTANTS
  Worker, Nested,
  Endings,   \* how contexts end
  DefaultBuffer, ConfiguredBuffers, MaxEvents, NoEvent

ASSUME ObservedAssumption ==
  /\ Worker \in Callers /\ Nested \in Callers /\ Worker # Nested
  /\ NumObservers > 1
  /\ Nil \notin Callers
  /\ Endings \subseteq Dead

VARIABLES
  buffer, queue, closed, dropped, notify, sent, closing, expired, inside,
  run, inHand, stuck,
  taken,   \* the events the AsyncObserver accepted
  given,   \* the events its observer has returned from
  within,  \* the caller whose delivery the nested call is made from, or Nil
  noted    \* history: the events each caller has notified the AsyncObserver of

Async == INSTANCE AsyncObserver WITH
           Notifiers <- Callers, Closers <- {}, accepted <- taken, delivered <- given

asyncVars    == <<buffer, queue, closed, dropped, notify, sent, closing, expired,
                  inside, run, inHand, stuck, taken, given>>
observedVars == <<vars, asyncVars, within, noted>>

AsyncPlace == NumObservers

ObservedInit ==
  /\ ManagerInit
  /\ Async!AsyncInit
  /\ within = Nil
  /\ noted = [c \in Callers |-> <<>>]

(***************************************************************************)
(* Calls.  The application's goroutines call when they like; a context     *)
(* that has ended by then is one that ends before the call looks at it.    *)
(***************************************************************************)
ApplicationCalls(c) ==
  /\ c \notin {Worker, Nested}
  /\ CallLoad(c, "live") \/ \E r \in ExternalResults : CallApply(c, "live", r)
  /\ UNCHANGED <<asyncVars, within, noted>>

(* The wrapped observer loads with the context of its event, which Notify  *)
(* has detached from the cancellation of the call that made the event.     *)
FollowUp ==
  /\ Async!ObserverRuns
  /\ CallLoad(Worker, "live")
  /\ UNCHANGED <<asyncVars, within, noted>>

(* A synchronous observer calls back.                                      *)
CallBack(c) ==
  /\ c # Nested
  /\ events[c] # <<>>
  /\ turn[c] # AsyncPlace
  /\ within = Nil
  /\ CallLoad(Nested, "live") \/ \E r \in ExternalResults : CallApply(Nested, "live", r)
  /\ within' = c
  /\ UNCHANGED <<asyncVars, noted>>

(* The context of the follow-up never ends.                                *)
ContextEnds(c) ==
  /\ c # Worker
  /\ \E k \in Endings : CancelCall(c, k)
  /\ UNCHANGED <<asyncVars, within, noted>>

(***************************************************************************)
(* Deliveries.                                                             *)
(***************************************************************************)
DeliverSync(c) ==
  /\ turn[c] # AsyncPlace
  /\ within = c => phase[Nested] = "idle"
  /\ Deliver(c)
  /\ within' = IF within = c THEN Nil ELSE within
  /\ UNCHANGED <<asyncVars, noted>>

BeginNotify(c) ==
  /\ events[c] # <<>>
  /\ turn[c] = AsyncPlace
  /\ Async!StartNotify(c)
  /\ noted' = [noted EXCEPT ![c] = Append(@, Head(events[c]))]
  /\ UNCHANGED <<vars, within>>

InNotify(c) ==
  /\ \/ Async!RLock(c)    \/ Async!FindOpen(c)
     \/ Async!HandOver(c) \/ Async!Enqueue(c)    \/ Async!DropFull(c)
  /\ UNCHANGED <<vars, within, noted>>

EndNotify(c) ==
  /\ Async!RUnlock(c)
  /\ Deliver(c)
  /\ UNCHANGED <<within, noted>>

(***************************************************************************)
(* The rest of both components.                                            *)
(***************************************************************************)
AcquireAdmission(c) == Acquire(c) /\ UNCHANGED <<asyncVars, within, noted>>

OwnStep(c) ==
  \/ ReturnRefused(c)  \/ StartLoad(c)      \/ RunLoad(c) \/ CommitLoad(c)
  \/ AcceptExternal(c) \/ RejectExternal(c) \/ Return(c)

CallerWork(c) ==
  \/ OwnStep(c) /\ UNCHANGED <<asyncVars, within, noted>>
  \/ DeliverSync(c) \/ BeginNotify(c) \/ InNotify(c) \/ EndNotify(c)

(* The wrapped observer returns when its follow-up has.                    *)
WorkerRuns ==
  /\ \/ Async!Receive \/ Async!Park
     \/ phase[Worker] = "idle" /\ Async!ObserverReturns
  /\ UNCHANGED <<vars, within, noted>>

WorkerSticks ==
  /\ phase[Worker] = "idle"
  /\ Async!ObserverSticks
  /\ UNCHANGED <<vars, within, noted>>

ObservedNext ==
  \/ \E c \in Callers : \/ ApplicationCalls(c) \/ CallBack(c) \/ ContextEnds(c)
                        \/ AcquireAdmission(c) \/ CallerWork(c)
  \/ FollowUp \/ WorkerRuns \/ WorkerSticks

ObservedSpec == ObservedInit /\ [][ObservedNext]_observedVars

(***************************************************************************)
(* The fairness of both components: goroutines run, loads and synchronous  *)
(* observers return, and the senders that wait for the admission are       *)
(* served in turn (see AcquireFairness in Admission).  Nothing makes a     *)
(* context end.                                                            *)
(***************************************************************************)
ObservedFairness ==
  /\ \A c \in Callers : /\ WF_observedVars(AcquireAdmission(c))
                        /\ SF_observedVars(Take(c) /\ AcquireAdmission(c))
                        /\ WF_observedVars(CallerWork(c))
  /\ WF_observedVars(WorkerRuns)

FairObservedSpec == ObservedSpec /\ ObservedFairness

(***************************************************************************)
(* Properties.                                                             *)
(***************************************************************************)

(* A call that an observer makes back into the manager it observes is      *)
(* never admitted, as the caller it would have to wait for waits for it:   *)
(* it can only be refused, and changes nothing between an event and the    *)
(* next observer that gets it.                                             *)
NestedNeverAdmitted == within # Nil => adm[Nested] \notin {"acquired", "admitted"}

(* Every call returns, the follow-ups of the wrapped observer included,    *)
(* even while the worker that has to make room in the queue itself waits   *)
(* for the admission, and even if the wrapped observer gets stuck: only a  *)
(* nested call whose context does not end can hold the manager up.  (A     *)
(* nested call that returned too late would keep the call it is made from.)*)
HeldByNested == within # Nil /\ phase[Nested] # "idle" /\ ctx[Nested] = "live"

EveryCallReturns ==
  \A c \in Callers \ {Nested} : phase[c] # "idle" ~> phase[c] = "idle" \/ HeldByNested

Told(i) == noted[taken[i][1]][taken[i][2]]

(* The AsyncObserver gets the events of all callers in the order of the    *)
(* log, some dropped perhaps, and each tells the state its own attempt led *)
(* to, or was started in, however late it is given.                        *)
AsyncEventsTellLog ==
  /\ \A i \in DOMAIN taken :
       LET e == Told(i)
       IN  e.state = StateAfter(IF e.kind = "load_started" THEN e.id - 1 ELSE e.id)
  /\ \A i \in 1 .. Len(taken) - 1 : Before(Told(i), Told(i + 1))
=============================================================================
