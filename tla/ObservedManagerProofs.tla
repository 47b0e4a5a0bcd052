------------------------- MODULE ObservedManagerProofs -------------------------
(***************************************************************************)
(* Proofs about ObservedManager: the composition does what each of its     *)
(* components does, a nested call is never admitted, and the AsyncObserver *)
(* is told the log in order, for any callers, results and queues.          *)
(***************************************************************************)
EXTENDS ObservedManager, ManagerProofs

(***************************************************************************)
(* The composition implements its components.                              *)
(***************************************************************************)
(* Every step of the composition is one of the manager, or leaves it      *)
(* alone.                                                                  *)
LEMMA ObservedStepIsManagerStep == [ObservedNext]_observedVars => [ManagerNext]_vars
<1> SUFFICES ASSUME [ObservedNext]_observedVars PROVE [ManagerNext]_vars
  OBVIOUS
<1>1. CASE UNCHANGED observedVars
  BY <1>1 DEF observedVars
<1>2. ASSUME NEW c \in Callers, ApplicationCalls(c) \/ CallBack(c) \/ ContextEnds(c) \/ AcquireAdmission(c)
      PROVE  ManagerNext
  <2>1. "live" \in Contexts /\ Endings \subseteq Dead /\ Nested \in Callers
    BY ObservedAssumption DEF Contexts
  <2> QED BY <1>2, <2>1 DEF ApplicationCalls, CallBack, ContextEnds, AcquireAdmission, ManagerNext
<1>3. ASSUME NEW c \in Callers, CallerWork(c)
      PROVE  [ManagerNext]_vars
  BY <1>3 DEF CallerWork, OwnStep, DeliverSync, BeginNotify, InNotify, EndNotify, ManagerNext, Work
<1>4. CASE FollowUp
  <2>1. "live" \in Contexts /\ Worker \in Callers
    BY ObservedAssumption DEF Contexts
  <2> QED BY <1>4, <2>1 DEF FollowUp, ManagerNext
<1>5. CASE WorkerRuns \/ WorkerSticks
  BY <1>5 DEF WorkerRuns, WorkerSticks
<1> QED BY <1>1, <1>2, <1>3, <1>4, <1>5 DEF ObservedNext

(* A manager whose observers notify, follow up and call back is a manager: *)
(* what is proved of Manager holds of it (Manager with WithObservers).     *)
THEOREM ObservedImplementsManager == ObservedSpec => ManagerSpec
<1>1. ObservedInit => ManagerInit
  BY DEF ObservedInit
<1> QED BY <1>1, ObservedStepIsManagerStep, PTL DEF ObservedSpec, ManagerSpec

(* Every step of the composition is one of the observer, or leaves it      *)
(* alone.                                                                  *)
LEMMA ObservedStepIsAsyncStep == [ObservedNext]_observedVars => [Async!AsyncNext]_(Async!asyncVars)
<1> SUFFICES ASSUME [ObservedNext]_observedVars PROVE [Async!AsyncNext]_(Async!asyncVars)
  OBVIOUS
<1>1. ASSUME UNCHANGED asyncVars PROVE UNCHANGED Async!asyncVars
  BY <1>1 DEF asyncVars, Async!asyncVars, Async!channel, Async!notifying, Async!closeVars, Async!worker
<1>2. ASSUME NEW c \in Callers, ApplicationCalls(c) \/ CallBack(c) \/ ContextEnds(c) \/ AcquireAdmission(c)
      PROVE  UNCHANGED asyncVars
  BY <1>2 DEF ApplicationCalls, CallBack, ContextEnds, AcquireAdmission
<1>3. ASSUME NEW c \in Callers, CallerWork(c)
      PROVE  UNCHANGED asyncVars \/ Async!AsyncNext
  BY <1>3 DEF CallerWork, DeliverSync, BeginNotify, InNotify, EndNotify, Async!AsyncNext, Async!Notify
<1>4. CASE FollowUp \/ UNCHANGED observedVars
  BY <1>1, <1>4 DEF FollowUp, observedVars
<1>5. CASE WorkerRuns \/ WorkerSticks
  BY <1>5 DEF WorkerRuns, WorkerSticks, Async!AsyncNext, Async!Run
<1> QED BY <1>1, <1>2, <1>3, <1>4, <1>5 DEF ObservedNext

(* The AsyncObserver that a manager notifies is one that is never closed.  *)
THEOREM ObservedImplementsAsyncObserver == ObservedSpec => Async!AsyncSpec
<1>1. ObservedInit => Async!AsyncInit
  BY DEF ObservedInit
<1> QED BY <1>1, ObservedStepIsAsyncStep, PTL DEF ObservedSpec, Async!AsyncSpec

(***************************************************************************)
(* The inductive invariant.  A nested call is made from a delivery that    *)
(* has not ended; a caller inside Notify is there with the first of its    *)
(* events, which is the last it has noted; and what the AsyncObserver took *)
(* is what it was notified of before, or what it is being notified of.     *)
(***************************************************************************)
WithinInv ==
  within # Nil => /\ within \in Callers \ {Nested}
                  /\ events[within] # <<>> /\ turn[within] # AsyncPlace

NotedInv ==
  /\ noted \in [Callers -> Seq(Event)]
  /\ notify \in [Callers -> {"out", "rlock", "locked", "open", "unlock"}]
  /\ sent = [c \in Callers |-> Len(noted[c])]
  /\ \A c \in Callers : notify[c] # "out" =>
       /\ events[c] # <<>> /\ turn[c] = AsyncPlace
       /\ Len(noted[c]) > 0 /\ noted[c][Len(noted[c])] = Head(events[c])

Heard(e) ==
  \/ \E j \in 1 .. Len(delivered[AsyncPlace]) : e = delivered[AsyncPlace][j]
  \/ \E c \in Callers : notify[c] = "unlock" /\ e = Head(events[c])

TakenInv ==
  /\ taken \in Seq(Callers \X Nat)
  /\ \A i \in 1 .. Len(taken) : taken[i][2] \in 1 .. Len(noted[taken[i][1]]) /\ Heard(Told(i))
  /\ \A i \in 1 .. Len(taken) - 1 : Before(Told(i), Told(i + 1))

ObservedInv == ManagerInv /\ WithinInv /\ NotedInv /\ TakenInv

(* Nothing was told at the beginning.                                      *)
LEMMA ObservedInitial == ObservedInit => ObservedInv
<1> SUFFICES ASSUME ObservedInit PROVE ObservedInv
  OBVIOUS
<1>1. ManagerInv
  BY ManagerInitial DEF ObservedInit
<1>2. /\ within = Nil /\ noted = [c \in Callers |-> <<>>]
      /\ notify = [c \in Callers |-> "out"] /\ sent = [c \in Callers |-> 0] /\ taken = <<>>
  BY Zenon DEF ObservedInit, Async!AsyncInit
<1>3. <<>> \in Seq(Event) /\ <<>> \in Seq(Callers \X Nat) /\ Len(<<>>) = 0
  OBVIOUS
<1>4. NotedInv
  BY <1>2, <1>3 DEF NotedInv
<1>5. TakenInv
  BY <1>2, <1>3 DEF TakenInv
<1> QED BY <1>1, <1>2, <1>4, <1>5 DEF ObservedInv, WithinInv

(* Only one caller has events to deliver.                                  *)
LEMMA OneDelivers ==
  ASSUME BaseInv, NEW c \in Callers, NEW d \in Callers, events[c] # <<>>, events[d] # <<>>
  PROVE  c = d
BY OneWorks DEF BaseInv, CallInv

(* The events that an observer has heard, and that which it hears next,    *)
(* are in order and tell the truth.                                        *)
LEMMA HeardInStory ==
  ASSUME ManagerInv, NEW c \in Callers, events[c] # <<>>, turn[c] = AsyncPlace
  PROVE  /\ Head(events[c]) \in Event /\ EventTrue(Head(events[c]))
         /\ \A j \in 1 .. Len(delivered[AsyncPlace]) : Before(delivered[AsyncPlace][j], Head(events[c]))
<1>1. PICK s \in Seq(Event) : Story(s)
  BY DEF ManagerInv, StoryInv
<1>2. /\ events[c] \in Seq(Event) /\ delivered \in [Observers -> Seq(Event)]
      /\ AsyncPlace \in Observers /\ AsyncPlace \in Nat
  BY ManagerAssumption DEF ManagerInv, BaseInv, ManagerTypeOK, AsyncPlace, Observers
<1>3. PICK n \in Nat, m \in Nat \ {0} : n = Len(s) /\ m = Len(events[c])
  BY <1>2
<1>4. Rest(s, c) /\ \A j \in 1 .. Len(delivered[AsyncPlace]) : delivered[AsyncPlace][j] = s[j]
  BY <1>1, <1>2 DEF Story, Spread
<1>5. PICK heard \in Int : heard = n - m
  OBVIOUS
<1>6. /\ heard >= 0
      /\ \A i \in 1 .. m : events[c][i] = s[heard + i]
      /\ Len(delivered[AsyncPlace]) = heard
  <2>1. ~(AsyncPlace < turn[c])
    BY <1>2
  <2> QED BY <1>2, <1>3, <1>4, <1>5, <2>1 DEF Rest
<1>7. Head(events[c]) = s[heard + 1] /\ heard + 1 \in 1 .. n
  <2>1. Head(events[c]) = events[c][1] /\ 1 \in 1 .. m
    BY <1>2, <1>3
  <2> QED BY <1>5, <1>6, <2>1
<1>8. \A j \in 1 .. heard : Before(s[j], s[heard + 1])
  BY <1>1, <1>3, <1>7 DEF Story, Chained
<1>9. EventTrue(s[heard + 1]) /\ s[heard + 1] \in Event
  BY <1>1, <1>3, <1>7 DEF Story, Retells
<1> QED BY <1>4, <1>6, <1>7, <1>8, <1>9

(* What an observer has heard is true.                                     *)
LEMMA HeardIsTrue ==
  ASSUME ManagerInv, NEW o \in Observers, NEW j \in 1 .. Len(delivered[o])
  PROVE  EventTrue(delivered[o][j])
<1>1. PICK s \in Seq(Event) : Story(s)
  BY DEF ManagerInv, StoryInv
<1>2. Len(delivered[o]) \in Nat /\ Len(delivered[o]) <= Len(s) /\ delivered[o][j] = s[j]
  BY <1>1 DEF ManagerInv, BaseInv, ManagerTypeOK, Story, Spread
<1>3. j \in 1 .. Len(s)
  BY <1>2
<1> QED BY <1>1, <1>2, <1>3 DEF Story, Retells

(***************************************************************************)
(* Steps that leave what the invariant is about alone, but for a call that *)
(* an observer makes back.                                                 *)
(***************************************************************************)
Calm(c) ==
  \/ ApplicationCalls(c) \/ CallBack(c) \/ ContextEnds(c) \/ AcquireAdmission(c)
  \/ /\ ReturnRefused(c) \/ RunLoad(c) \/ RejectExternal(c) \/ Return(c)
     /\ UNCHANGED <<asyncVars, within, noted>>

(* Steps without a delivery keep the parts of the invariant.               *)
LEMMA CalmKeeps ==
  ASSUME ObservedInv, NEW c \in Callers, Calm(c)
  PROVE  WithinInv' /\ NotedInv' /\ TakenInv'
<1>1. UNCHANGED <<events, turn, delivered>>
  BY DEF Calm, ApplicationCalls, CallBack, ContextEnds, AcquireAdmission, CallLoad, CallApply,
         CancelCall, Acquire, ReturnRefused, RunLoad, RejectExternal, Return, callVars
<1>2. UNCHANGED <<notify, sent, taken, noted>>
  BY DEF Calm, ApplicationCalls, CallBack, ContextEnds, AcquireAdmission, asyncVars
<1>3. WithinInv'
  <2>1. UNCHANGED within \/ (within' = c /\ CallBack(c))
    BY DEF Calm, ApplicationCalls, CallBack, ContextEnds, AcquireAdmission
  <2> QED BY <1>1, <2>1 DEF ObservedInv, WithinInv, CallBack
<1>4. NotedInv' /\ TakenInv'
  BY <1>1, <1>2 DEF ObservedInv, NotedInv, TakenInv, Heard, Told, AsyncPlace
<1> QED BY <1>3, <1>4

(* So do those of the worker, which touch nothing that the parts mention.  *)
LEMMA WorkerKeeps ==
  ASSUME ObservedInv, FollowUp \/ WorkerRuns \/ WorkerSticks
  PROVE  WithinInv' /\ NotedInv' /\ TakenInv'
<1>1. UNCHANGED <<events, turn, delivered, within, noted>>
  BY DEF FollowUp, WorkerRuns, WorkerSticks, CallLoad, callVars, vars
<1>2. UNCHANGED <<notify, sent, taken>>
  BY DEF FollowUp, WorkerRuns, WorkerSticks, Async!Receive, Async!Park, Async!ObserverReturns,
         Async!ObserverSticks, Async!channel, Async!notifying, asyncVars
<1>3. WithinInv' /\ NotedInv' /\ TakenInv'
  BY <1>1, <1>2 DEF ObservedInv, WithinInv, NotedInv, TakenInv, Heard, Told, AsyncPlace
<1> QED BY <1>3

(* A load starts or a result is accepted: no event is under way.           *)
LEMMA AnnouncementKeeps ==
  ASSUME ObservedInv, NEW c \in Callers, StartLoad(c) \/ CommitLoad(c) \/ AcceptExternal(c),
         UNCHANGED <<asyncVars, within, noted>>
  PROVE  WithinInv' /\ NotedInv' /\ TakenInv'
<1>1. Settled
  BY AnnouncementsFindSettled DEF ObservedInv, ManagerInv
<1>2. UNCHANGED <<notify, sent, taken, noted, within, delivered>>
  BY DEF asyncVars, StartLoad, CommitLoad, AcceptExternal
<1>3. within = Nil /\ \A d \in Callers : notify[d] = "out"
  BY <1>1 DEF ObservedInv, WithinInv, NotedInv, Settled
<1>4. WithinInv' /\ NotedInv'
  BY <1>2, <1>3 DEF ObservedInv, WithinInv, NotedInv
<1>5. TakenInv'
  <2>1. \A i \in 1 .. Len(taken) : Heard(Told(i)) => Heard(Told(i))'
    BY <1>2, <1>3 DEF Heard, Told, AsyncPlace
  <2> QED BY <1>2, <2>1 DEF ObservedInv, TakenInv, Told
<1> QED BY <1>4, <1>5

(* A synchronous observer returns: the AsyncObserver is not concerned.     *)
LEMMA SyncKeeps ==
  ASSUME ObservedInv, NEW c \in Callers, DeliverSync(c)
  PROVE  WithinInv' /\ NotedInv' /\ TakenInv'
<1>1. /\ events \in [Callers -> Seq(Event)] /\ turn \in [Callers -> Observers]
      /\ delivered \in [Observers -> Seq(Event)]
  BY DEF ObservedInv, ManagerInv, BaseInv, ManagerTypeOK
<1>2. turn[c] # AsyncPlace /\ turn[c] < NumObservers /\ AsyncPlace \in Observers
  BY <1>1, ManagerAssumption DEF DeliverSync, Observers, AsyncPlace
<1>3. /\ events[c] # <<>> /\ UNCHANGED events /\ turn' = [turn EXCEPT ![c] = @ + 1]
      /\ delivered'[AsyncPlace] = delivered[AsyncPlace]
  BY <1>1, <1>2 DEF DeliverSync, Deliver
<1>4. UNCHANGED <<notify, sent, taken, noted>> /\ within' = IF within = c THEN Nil ELSE within
  BY DEF DeliverSync, asyncVars
<1>5. notify[c] = "out"
  BY <1>2 DEF ObservedInv, NotedInv
<1>6. WithinInv'
  BY <1>1, <1>3, <1>4 DEF ObservedInv, WithinInv, AsyncPlace
<1>7. NotedInv'
  BY <1>1, <1>3, <1>4, <1>5 DEF ObservedInv, NotedInv, AsyncPlace
<1>8. TakenInv'
  <2>1. \A e : Heard(e)' <=> Heard(e)
    BY <1>3, <1>4, Zenon DEF Heard, AsyncPlace
  <2>2. \A i : Told(i)' = Told(i)
    BY <1>4, Zenon DEF Told
  <2>3. TakenInv
    BY DEF ObservedInv
  <2>4. taken' \in Seq(Callers \X Nat) /\ taken' = taken /\ noted' = noted
    BY <1>4, <2>3, Zenon DEF TakenInv
  <2>5. \A i \in 1 .. Len(taken') :
          taken'[i][2] \in 1 .. Len(noted'[taken'[i][1]]) /\ Heard(Told(i))'
    <3>1. ASSUME NEW i \in 1 .. Len(taken) PROVE Heard(Told(i))'
      <4>1. PICK e : e = Told(i)
        OBVIOUS
      <4>2. Heard(e)
        BY <2>3, <4>1, Zenon DEF TakenInv
      <4>3. Heard(e)'
        BY <2>1, <4>2, Zenon
      <4>4. Told(i)' = e
        BY <2>2, <4>1, Zenon
      <4> QED BY <4>3, <4>4
    <3> QED BY <2>3, <2>4, <3>1, Zenon DEF TakenInv
  <2>6. \A i \in 1 .. Len(taken') - 1 : Before(Told(i)', Told(i + 1)')
    BY <2>2, <2>3, <2>4, Zenon DEF TakenInv
  <2> QED BY <2>4, <2>5, <2>6 DEF TakenInv, Before
<1> QED BY <1>6, <1>7, <1>8

(* A caller enters Notify.                                                 *)
LEMMA BeginKeeps ==
  ASSUME ObservedInv, NEW c \in Callers, BeginNotify(c)
  PROVE  WithinInv' /\ NotedInv' /\ TakenInv'
<1>1. /\ events[c] # <<>> /\ turn[c] = AsyncPlace /\ notify[c] = "out"
      /\ notify' = [notify EXCEPT ![c] = "rlock"] /\ sent' = [sent EXCEPT ![c] = @ + 1]
      /\ noted' = [noted EXCEPT ![c] = Append(@, Head(events[c]))]
      /\ UNCHANGED <<taken, within, events, turn, delivered>>
  BY DEF BeginNotify, Async!StartNotify, Async!NotifyStep, Async!channel, vars, callVars
<1>2. Head(events[c]) \in Event
  BY <1>1, HeardInStory DEF ObservedInv
<1>3. PICK q \in Seq(Event), e \in Event : q = noted[c] /\ e = Head(events[c])
  BY <1>2 DEF ObservedInv, NotedInv
<1>4. /\ Append(q, e) \in Seq(Event) /\ Len(Append(q, e)) = Len(q) + 1
      /\ Append(q, e)[Len(q) + 1] = e /\ \A i \in 1 .. Len(q) : Append(q, e)[i] = q[i]
      /\ Len(q) \in Nat
  OBVIOUS
<1>5. noted \in [Callers -> Seq(Event)] /\ noted'[c] = Append(q, e)
  BY <1>1, <1>3 DEF ObservedInv, NotedInv
<1>6. WithinInv'
  BY <1>1 DEF ObservedInv, WithinInv, AsyncPlace
<1>7. NotedInv'
  <2>1. noted' \in [Callers -> Seq(Event)]
    BY <1>1, <1>3, <1>4, <1>5
  <2>2. sent' = [d \in Callers |-> Len(noted'[d])]
    BY <1>1, <1>3, <1>4, <1>5 DEF ObservedInv, NotedInv
  <2>3. notify' \in [Callers -> {"out", "rlock", "locked", "open", "unlock"}]
    BY <1>1 DEF ObservedInv, NotedInv
  <2>4. ASSUME NEW d \in Callers, notify'[d] # "out"
        PROVE  /\ events'[d] # <<>> /\ turn'[d] = AsyncPlace
               /\ Len(noted'[d]) > 0 /\ noted'[d][Len(noted'[d])] = Head(events'[d])
    <3>1. CASE d = c
      BY <1>1, <1>3, <1>4, <1>5, <3>1
    <3>2. CASE d # c
      BY <1>1, <2>4, <3>2 DEF ObservedInv, NotedInv
    <3> QED BY <3>1, <3>2
  <2> QED BY <2>1, <2>2, <2>3, <2>4 DEF NotedInv, AsyncPlace
<1>8. TakenInv'
  <2>1. ASSUME NEW i \in 1 .. Len(taken)
        PROVE  /\ taken[i][2] \in 1 .. Len(noted'[taken[i][1]])
               /\ Told(i)' = Told(i) /\ Heard(Told(i))'
    <3>1. /\ taken[i] \in Callers \X Nat /\ taken[i][2] \in 1 .. Len(noted[taken[i][1]])
          /\ Heard(Told(i))
      BY DEF ObservedInv, TakenInv
    <3>2. PICK d \in Callers, k \in Nat : taken[i][1] = d /\ taken[i][2] = k
      BY <3>1
    <3>3. k \in 1 .. Len(noted'[d]) /\ noted'[d][k] = noted[d][k]
      <4>1. CASE d = c
        BY <1>3, <1>4, <1>5, <3>1, <3>2, <4>1
      <4>2. CASE d # c
        BY <1>1, <1>5, <3>1, <3>2, <4>2
      <4> QED BY <4>1, <4>2
    <3>4. Told(i)' = Told(i)
      BY <1>1, <3>2, <3>3 DEF Told
    <3>5. Heard(Told(i))'
      BY <1>1, <3>1, <3>4 DEF Heard, AsyncPlace, ObservedInv, NotedInv
    <3> QED BY <3>2, <3>3, <3>4, <3>5
  <2>2. \A i \in 1 .. Len(taken) - 1 : Before(Told(i), Told(i + 1))'
    <3>1. ASSUME NEW i \in 1 .. Len(taken) - 1 PROVE Before(Told(i), Told(i + 1))'
      <4>1. i \in 1 .. Len(taken) /\ i + 1 \in 1 .. Len(taken)
        BY DEF ObservedInv, TakenInv
      <4>2. Told(i)' = Told(i) /\ Told(i + 1)' = Told(i + 1)
        BY <2>1, <4>1
      <4> QED BY <4>2 DEF ObservedInv, TakenInv, Before
    <3> QED BY <3>1
  <2> QED BY <1>1, <2>1, <2>2 DEF ObservedInv, TakenInv
<1> QED BY <1>6, <1>7, <1>8

(***************************************************************************)
(* Inside Notify.                                                          *)
(***************************************************************************)
(* A step between the entry into Notify and its return keeps the parts.    *)
LEMMA PassKeeps ==
  ASSUME ObservedInv, NEW c \in Callers,
         Async!RLock(c) \/ Async!FindOpen(c) \/ Async!DropFull(c), UNCHANGED <<vars, within, noted>>
  PROVE  WithinInv' /\ NotedInv' /\ TakenInv'
<1>1. /\ notify[c] \notin {"out", "unlock"}
      /\ \E to \in {"locked", "open", "unlock"} : notify' = [notify EXCEPT ![c] = to]
      /\ UNCHANGED <<sent, taken, noted, within, events, turn, delivered>>
  BY DEF Async!RLock, Async!FindOpen, Async!DropFull, Async!NotifyStep, Async!channel, vars, callVars
<1>2. WithinInv'
  BY <1>1 DEF ObservedInv, WithinInv, AsyncPlace
<1>3. NotedInv'
  BY <1>1 DEF ObservedInv, NotedInv, AsyncPlace
<1>4. \A i \in 1 .. Len(taken) : Heard(Told(i)) => Heard(Told(i))'
  BY <1>1 DEF Heard, Told, AsyncPlace, ObservedInv, NotedInv
<1>5. TakenInv'
  BY <1>1, <1>4 DEF ObservedInv, TakenInv, Told
<1> QED BY <1>2, <1>3, <1>5

(* The channel takes the event that the caller has noted last, after those *)
(* that all observers have heard.                                          *)
LEMMA TakeKeeps ==
  ASSUME ObservedInv, NEW c \in Callers, Async!HandOver(c) \/ Async!Enqueue(c),
         UNCHANGED <<vars, within, noted>>
  PROVE  WithinInv' /\ NotedInv' /\ TakenInv'
<1>1. /\ notify[c] = "open" /\ notify' = [notify EXCEPT ![c] = "unlock"]
      /\ taken' = Append(taken, <<c, sent[c]>>)
      /\ UNCHANGED <<sent, noted, within, events, turn, delivered>>
  BY DEF Async!HandOver, Async!Enqueue, Async!NotifyStep, Async!Event, vars, callVars
<1>2. /\ noted[c] \in Seq(Event) /\ sent[c] = Len(noted[c]) /\ Len(noted[c]) > 0
      /\ events[c] # <<>> /\ turn[c] = AsyncPlace
      /\ noted[c][Len(noted[c])] = Head(events[c])
  BY <1>1 DEF ObservedInv, NotedInv
<1>3. PICK k \in Nat, p \in Callers \X Nat :
        k > 0 /\ k = sent[c] /\ p = <<c, k>> /\ k = Len(noted[c]) /\ noted[c][k] = Head(events[c])
  <2>1. sent[c] \in Nat /\ <<c, sent[c]>> \in Callers \X Nat /\ sent[c] > 0
    BY <1>2
  <2> QED BY <1>2, <2>1
<1>4. PICK t \in Seq(Callers \X Nat), m \in Nat : t = taken /\ m = Len(t)
  BY DEF ObservedInv, TakenInv
<1>5. /\ taken' = Append(t, p) /\ Append(t, p) \in Seq(Callers \X Nat) /\ Len(Append(t, p)) = m + 1
      /\ Append(t, p)[m + 1] = p /\ \A i \in 1 .. m : Append(t, p)[i] = t[i]
  BY <1>1, <1>3, <1>4
<1>6. WithinInv' /\ NotedInv'
  BY <1>1 DEF ObservedInv, WithinInv, NotedInv, AsyncPlace
<1>7. \A i \in 1 .. m : Told(i)' = Told(i)
  BY <1>1, <1>4, <1>5 DEF Told
<1>8. Told(m + 1)' = Head(events[c])
  BY <1>1, <1>3, <1>5 DEF Told
<1>9. \A d \in Callers : notify[d] # "unlock"
  BY <1>1, <1>2, OneDelivers DEF ObservedInv, ManagerInv, NotedInv
<1>10. ASSUME NEW i \in 1 .. m
       PROVE  /\ taken'[i][2] \in 1 .. Len(noted'[taken'[i][1]])
              /\ Heard(Told(i))' /\ Before(Told(i), Head(events[c]))
  <2>1. taken[i][2] \in 1 .. Len(noted[taken[i][1]]) /\ Heard(Told(i))
    BY <1>4 DEF ObservedInv, TakenInv
  <2>2. PICK j \in 1 .. Len(delivered[AsyncPlace]) : Told(i) = delivered[AsyncPlace][j]
    BY <1>9, <2>1 DEF Heard
  <2>3. Heard(Told(i))'
    BY <1>1, <1>7, <2>2 DEF Heard, AsyncPlace
  <2>4. Before(Told(i), Head(events[c]))
    BY <1>2, <2>2, HeardInStory DEF ObservedInv
  <2> QED BY <1>1, <1>4, <1>5, <2>1, <2>3, <2>4
<1>11. taken'[m + 1][2] \in 1 .. Len(noted'[taken'[m + 1][1]]) /\ Heard(Told(m + 1))'
  <2>1. notify'[c] = "unlock"
    BY <1>1 DEF ObservedInv, NotedInv
  <2>2. Heard(Told(m + 1))'
    BY <1>1, <1>8, <2>1 DEF Heard, AsyncPlace
  <2> QED BY <1>1, <1>3, <1>5, <2>2
<1>12. \A i \in 1 .. m : Before(Told(i), Told(i + 1))'
  <2>1. ASSUME NEW i \in 1 .. m, i # m PROVE Before(Told(i), Told(i + 1))'
    <3>1. i \in 1 .. Len(taken) - 1 /\ i + 1 \in 1 .. m
      BY <1>4, <2>1
    <3>2. Before(Told(i), Told(i + 1))
      BY <3>1 DEF ObservedInv, TakenInv
    <3> QED BY <1>7, <3>1, <3>2 DEF Before
  <2>2. m \in 1 .. m => Before(Told(m), Told(m + 1))'
    BY <1>7, <1>8, <1>10 DEF Before
  <2> QED BY <2>1, <2>2
<1>13. TakenInv'
  <2>1. Len(taken') = m + 1 /\ taken' \in Seq(Callers \X Nat)
    BY <1>5
  <2>2. \A i \in 1 .. m + 1 : i \in 1 .. m \/ i = m + 1
    OBVIOUS
  <2>3. \A i \in 1 .. m + 1 : taken'[i][2] \in 1 .. Len(noted'[taken'[i][1]]) /\ Heard(Told(i))'
    BY <1>10, <1>11, <2>2
  <2>4. \A i \in 1 .. (m + 1) - 1 : Before(Told(i), Told(i + 1))'
    BY <1>12
  <2> QED BY <2>1, <2>3, <2>4 DEF TakenInv
<1> QED BY <1>6, <1>13

(* Notify returns: all observers have had the event.                       *)
LEMMA EndKeeps ==
  ASSUME ObservedInv, NEW c \in Callers, EndNotify(c)
  PROVE  WithinInv' /\ NotedInv' /\ TakenInv'
<1>1. /\ notify[c] = "unlock" /\ notify' = [notify EXCEPT ![c] = "out"]
      /\ UNCHANGED <<sent, noted, within, taken>>
      /\ events[c] # <<>>
      /\ delivered' = [delivered EXCEPT ![turn[c]] = Append(@, Head(events[c]))]
  BY DEF EndNotify, Deliver, Async!RUnlock, Async!NotifyStep, Async!channel
<1>2. /\ events \in [Callers -> Seq(Event)] /\ turn \in [Callers -> Observers]
      /\ delivered \in [Observers -> Seq(Event)]
      /\ AsyncPlace \in Observers /\ turn[c] = AsyncPlace /\ ~(turn[c] < NumObservers)
  <2>1. /\ events \in [Callers -> Seq(Event)] /\ turn \in [Callers -> Observers]
        /\ delivered \in [Observers -> Seq(Event)]
    BY Zenon DEF ObservedInv, ManagerInv, BaseInv, ManagerTypeOK
  <2>2. turn[c] = AsyncPlace
    BY <1>1, Zenon DEF ObservedInv, NotedInv
  <2>3. AsyncPlace \in Observers /\ ~(AsyncPlace < NumObservers)
    BY ManagerAssumption DEF Observers, AsyncPlace
  <2> QED BY <2>1, <2>2, <2>3
<1>3. turn' = [turn EXCEPT ![c] = 1] /\ events' = [events EXCEPT ![c] = Tail(@)]
  BY <1>2 DEF EndNotify, Deliver
<1>4. \A d \in Callers \ {c} : events[d] = <<>> /\ notify[d] = "out"
  BY <1>1, OneDelivers DEF ObservedInv, ManagerInv, NotedInv
<1>5. within = Nil
  BY <1>2, <1>4 DEF ObservedInv, WithinInv
<1>6. PICK d \in Seq(Event), e \in Event :
        /\ d = delivered[AsyncPlace] /\ e = Head(events[c])
        /\ delivered'[AsyncPlace] = Append(d, e)
  <2>1. Head(events[c]) \in Event
    BY <1>1, <1>2, HeardInStory DEF ObservedInv
  <2> QED BY <1>1, <1>2, <2>1
<1>7. /\ Len(d) \in Nat /\ Len(Append(d, e)) = Len(d) + 1 /\ Append(d, e)[Len(d) + 1] = e
      /\ \A j \in 1 .. Len(d) : Append(d, e)[j] = d[j]
  OBVIOUS
<1>8. WithinInv' /\ NotedInv'
  BY <1>1, <1>4, <1>5 DEF ObservedInv, WithinInv, NotedInv
<1>9. ASSUME NEW i \in 1 .. Len(taken) PROVE Heard(Told(i))' /\ Told(i)' = Told(i)
  <2>1. Told(i)' = Told(i)
    BY <1>1 DEF Told
  <2>2. Heard(Told(i))
    BY DEF ObservedInv, TakenInv
  <2>3. CASE \E j \in 1 .. Len(delivered[AsyncPlace]) : Told(i) = delivered[AsyncPlace][j]
    <3>1. PICK j \in 1 .. Len(d) : Told(i) = d[j]
      BY <1>6, <2>3
    <3>2. j \in 1 .. Len(delivered'[AsyncPlace]) /\ Told(i) = delivered'[AsyncPlace][j]
      BY <1>6, <1>7, <3>1
    <3> QED BY <2>1, <3>2 DEF Heard, AsyncPlace
  <2>4. CASE \E b \in Callers : notify[b] = "unlock" /\ Told(i) = Head(events[b])
    <3>1. Told(i) = e
      BY <1>4, <1>6, <2>4
    <3>2. Len(d) + 1 \in 1 .. Len(delivered'[AsyncPlace]) /\ Told(i) = delivered'[AsyncPlace][Len(d) + 1]
      BY <1>6, <1>7, <3>1
    <3> QED BY <2>1, <3>2 DEF Heard, AsyncPlace
  <2> QED BY <2>1, <2>2, <2>3, <2>4 DEF Heard
<1>10. TakenInv'
  BY <1>1, <1>9 DEF ObservedInv, TakenInv, Told
<1> QED BY <1>8, <1>10

(* Every step keeps the invariant.                                         *)
LEMMA ObservedInductive == ObservedInv /\ [ObservedNext]_observedVars => ObservedInv'
<1> SUFFICES ASSUME ObservedInv, [ObservedNext]_observedVars PROVE ObservedInv'
  OBVIOUS
<1>1. ManagerInv'
  BY ObservedStepIsManagerStep, ManagerInductive DEF ObservedInv
<1>2. CASE UNCHANGED observedVars
  <2>1. UNCHANGED <<events, turn, delivered, notify, sent, taken, within, noted>>
    BY <1>2 DEF observedVars, vars, callVars, asyncVars
  <2>2. WithinInv' /\ NotedInv' /\ TakenInv'
    BY <2>1 DEF ObservedInv, WithinInv, NotedInv, TakenInv, Heard, Told, AsyncPlace
  <2> QED BY <1>1, <2>2 DEF ObservedInv
<1>3. ASSUME NEW c \in Callers, CallerWork(c)
      PROVE  WithinInv' /\ NotedInv' /\ TakenInv'
  <2>1. ASSUME OwnStep(c), UNCHANGED <<asyncVars, within, noted>>
        PROVE  WithinInv' /\ NotedInv' /\ TakenInv'
    BY <2>1, CalmKeeps, AnnouncementKeeps DEF OwnStep, Calm
  <2>2. ASSUME InNotify(c)
        PROVE  WithinInv' /\ NotedInv' /\ TakenInv'
    BY <2>2, PassKeeps, TakeKeeps DEF InNotify
  <2> QED BY <1>3, <2>1, <2>2, SyncKeeps, BeginKeeps, EndKeeps DEF CallerWork
<1>4. CASE ObservedNext
  <2>1. ASSUME NEW c \in Callers,
               ApplicationCalls(c) \/ CallBack(c) \/ ContextEnds(c) \/ AcquireAdmission(c)
        PROVE  WithinInv' /\ NotedInv' /\ TakenInv'
    BY <2>1, CalmKeeps DEF Calm
  <2>2. CASE FollowUp \/ WorkerRuns \/ WorkerSticks
    BY <1>1, <2>2, WorkerKeeps DEF ObservedInv
  <2> QED BY <1>1, <1>3, <1>4, <2>1, <2>2 DEF ObservedNext, ObservedInv
<1> QED BY <1>2, <1>4

(* The invariant holds of every behaviour of the composition.              *)
LEMMA ObservedInvariant == ObservedSpec => []ObservedInv
BY ObservedInitial, ObservedInductive, PTL DEF ObservedSpec

(* A call that an observer makes back into the manager is never admitted   *)
(* while its delivery lasts (lifecycleAdmission; WithObservers forbids it).*)
THEOREM ObservedNestedNeverAdmitted == ObservedSpec => []NestedNeverAdmitted
<1>1. ObservedInv => NestedNeverAdmitted
  <2> SUFFICES ASSUME ObservedInv, within # Nil PROVE adm[Nested] \notin {"acquired", "admitted"}
    BY DEF NestedNeverAdmitted
  <2>1. within \in Callers \ {Nested} /\ adm[within] = "admitted"
    BY DEF ObservedInv, WithinInv, ManagerInv, BaseInv, CallInv
  <2> QED BY <2>1, ObservedAssumption
             DEF ObservedInv, ManagerInv, BaseInv, AdmInv, MutualExclusion, Holds
<1> QED BY <1>1, ObservedInvariant, PTL

(* The events that an AsyncObserver takes are those of the log, in its     *)
(* order, and each tells the state its attempt found or left, whatever was *)
(* dropped in between (notify, AsyncObserver.Notify).                      *)
THEOREM ObservedTellsLog == ObservedSpec => []AsyncEventsTellLog
<1>1. ObservedInv => AsyncEventsTellLog
  <2> SUFFICES ASSUME ObservedInv PROVE AsyncEventsTellLog
    OBVIOUS
  <2>1. DOMAIN taken = 1 .. Len(taken)
    BY DEF ObservedInv, TakenInv
  <2>2. ASSUME NEW i \in 1 .. Len(taken) PROVE EventTrue(Told(i))
    <3>1. Heard(Told(i)) /\ AsyncPlace \in Observers
      BY ManagerAssumption DEF ObservedInv, TakenInv, AsyncPlace, Observers
    <3>2. CASE \E j \in 1 .. Len(delivered[AsyncPlace]) : Told(i) = delivered[AsyncPlace][j]
      BY <3>1, <3>2, HeardIsTrue DEF ObservedInv
    <3>3. CASE \E c \in Callers : notify[c] = "unlock" /\ Told(i) = Head(events[c])
      BY <3>3, HeardInStory DEF ObservedInv, NotedInv
    <3> QED BY <3>1, <3>2, <3>3 DEF Heard
  <2> QED BY <2>1, <2>2 DEF AsyncEventsTellLog, EventTrue, ObservedInv, TakenInv
<1> QED BY <1>1, ObservedInvariant, PTL
=============================================================================
