-------------------------- MODULE AsyncObserverProofs --------------------------
(***************************************************************************)
(* Proofs about AsyncObserver, for any notifiers and callers of Close, any *)
(* buffers and any number of events.                                       *)
(***************************************************************************)
EXTENDS AsyncObserver, SequenceTheorems, FiniteSetTheorems, TLAPS

(***************************************************************************)
(* The inductive invariant.  Whoever is between its look at closed and its *)
(* send holds the read lock, so the one caller of Close that waits for the *)
(* write lock has not shut the channel; and every event accepted is in one *)
(* place, from which only the worker moves it on.                          *)
(***************************************************************************)
InHand == IF inHand = NoEvent THEN <<>> ELSE <<inHand>>

NotifyInv ==
  /\ NeverSendsOnClosed
  /\ \A n \in Notifiers : notify[n] # "out" => sent[n] # 0

CloseInv ==
  /\ \A k \in Closers : closing[k] = "lock" => ~closed
  /\ \A k, l \in Closers : closing[k] = "lock" /\ closing[l] = "lock" => k = l
  /\ \A k \in Closers : closing[k] = "drained" => run = "done"

PlacesInv ==
  /\ accepted = delivered \o InHand \o queue
  /\ Len(queue) <= buffer
  /\ run = "delivering" <=> inHand # NoEvent
  /\ run = "parked" => queue = <<>>
  /\ run = "done" => closed /\ queue = <<>>

AsyncInv == AsyncTypeOK /\ NotifyInv /\ CloseInv /\ PlacesInv

(* Events are told from no event.                                          *)
LEMMA EventProperties ==
  /\ NoEvent \notin Events
  /\ \A n \in Notifiers : AsyncTypeOK /\ sent[n] # 0 => Event(n) \in Events
<1>1. ASSUME NEW e \in Events PROVE e \in Notifiers \X Nat
  BY AsyncAssumption DEF Events
<1>2. NoEvent \notin Events
  BY <1>1, AsyncAssumption
<1>3. ASSUME NEW n \in Notifiers, AsyncTypeOK, sent[n] # 0 PROVE Event(n) \in Events
  <2>1. sent[n] \in 1 .. MaxEvents
    BY <1>3, AsyncAssumption DEF AsyncTypeOK
  <2> QED BY <2>1 DEF Event, Events
<1> QED BY <1>2, <1>3

(* It holds of a new observer.                                             *)
LEMMA AsyncInitial == AsyncInit => AsyncInv
<1> SUFFICES ASSUME AsyncInit PROVE AsyncInv
  OBVIOUS
<1>1. buffer \in Nat
  BY AsyncAssumption DEF AsyncInit, NewBuffer
<1>2. /\ queue = <<>> /\ closed = FALSE /\ dropped = 0 /\ accepted = <<>>
      /\ notify = [n \in Notifiers |-> "out"] /\ sent = [n \in Notifiers |-> 0]
      /\ closing = [k \in Closers |-> "out"] /\ expired = [k \in Closers |-> FALSE] /\ inside = {}
      /\ run = "ready" /\ inHand = NoEvent /\ stuck = FALSE /\ delivered = <<>>
  BY Zenon DEF AsyncInit
<1>3. <<>> \in Seq(Events) /\ Len(<<>>) = 0 /\ <<>> \o <<>> \o <<>> = <<>>
  OBVIOUS
<1>4. AsyncTypeOK
  <2>1. /\ notify \in [Notifiers -> {"out", "rlock", "locked", "open", "unlock"}]
        /\ sent \in [Notifiers -> 0 .. MaxEvents]
        /\ closing \in [Closers -> {"out", "once", "lock", "waiting", "drained", "expired"}]
        /\ expired \in [Closers -> BOOLEAN]
    BY <1>2, AsyncAssumption
  <2>2. queue \in Seq(Events) /\ accepted \in Seq(Events) /\ delivered \in Seq(Events)
    BY <1>2, <1>3, Zenon
  <2> QED BY <1>1, <1>2, <2>1, <2>2 DEF AsyncTypeOK
<1>5. NotifyInv /\ CloseInv
  BY <1>2 DEF NotifyInv, CloseInv, NeverSendsOnClosed
<1>6. PlacesInv
  BY <1>1, <1>2, <1>3 DEF PlacesInv, InHand
<1> QED BY <1>4, <1>5, <1>6 DEF AsyncInv

(***************************************************************************)
(* Steps that neither move an event nor touch the channel.                 *)
(***************************************************************************)
NotifyMove(n) == StartNotify(n) \/ RLock(n) \/ DropClosed(n) \/ FindOpen(n) \/ DropFull(n) \/ RUnlock(n)

CloseMove(k) ==
  \/ StartClose(k) \/ CloseFirst(k) \/ CloseAgain(k) \/ CloseDrained(k) \/ CloseExpired(k)
  \/ CloseContextEnds(k)

(* A notifier that is not sending keeps it.                                *)
LEMMA NotifyMoveKeeps ==
  ASSUME AsyncInv, NEW n \in Notifiers, NotifyMove(n)
  PROVE  AsyncInv'
<1>1. /\ UNCHANGED <<buffer, queue, closed, accepted, closeVars, worker>>
  BY DEF NotifyMove, StartNotify, RLock, DropClosed, FindOpen, DropFull, RUnlock, channel
<1>2. AsyncTypeOK'
  <2>1. sent' \in [Notifiers -> 0 .. MaxEvents]
    BY AsyncAssumption DEF NotifyMove, StartNotify, RLock, DropClosed, FindOpen, DropFull, RUnlock,
       AsyncInv, AsyncTypeOK
  <2>2. notify' \in [Notifiers -> {"out", "rlock", "locked", "open", "unlock"}]
    BY DEF NotifyMove, StartNotify, RLock, DropClosed, FindOpen, DropFull, RUnlock, NotifyStep,
       AsyncInv, AsyncTypeOK
  <2>3. dropped' \in Nat
    BY DEF NotifyMove, StartNotify, RLock, DropClosed, FindOpen, DropFull, RUnlock, channel,
       AsyncInv, AsyncTypeOK
  <2> QED BY <1>1, <2>1, <2>2, <2>3 DEF AsyncInv, AsyncTypeOK, closeVars, worker
<1>3. NotifyInv'
  <2>1. ASSUME NEW m \in Notifiers, notify'[m] # "out" PROVE sent'[m] # 0
    BY <2>1, AsyncAssumption DEF NotifyMove, StartNotify, RLock, DropClosed, FindOpen, DropFull, RUnlock,
       NotifyStep, AsyncInv, AsyncTypeOK, NotifyInv
  <2>2. ASSUME NEW m \in Notifiers, notify'[m] = "open" PROVE ~closed'
    BY <1>1, <2>2 DEF NotifyMove, StartNotify, RLock, DropClosed, FindOpen, DropFull, RUnlock,
       NotifyStep, AsyncInv, AsyncTypeOK, NotifyInv, NeverSendsOnClosed
  <2> QED BY <2>1, <2>2 DEF NotifyInv, NeverSendsOnClosed
<1>4. CloseInv'
  BY <1>1 DEF AsyncInv, CloseInv, closeVars, worker
<1>5. PlacesInv'
  BY <1>1 DEF AsyncInv, PlacesInv, InHand, worker
<1> QED BY <1>2, <1>3, <1>4, <1>5 DEF AsyncInv

(* So does Close.                                                          *)
LEMMA CloseMoveKeeps ==
  ASSUME AsyncInv, NEW k \in Closers, CloseMove(k)
  PROVE  AsyncInv'
<1>1. UNCHANGED <<channel, notifying, worker>>
  BY DEF CloseMove, StartClose, CloseFirst, CloseAgain, CloseDrained, CloseExpired, CloseContextEnds
<1>2. AsyncTypeOK'
  <2>1. closing' \in [Closers -> {"out", "once", "lock", "waiting", "drained", "expired"}]
    BY DEF CloseMove, StartClose, CloseFirst, CloseAgain, CloseDrained, CloseExpired, CloseContextEnds,
       CloseStep, AsyncInv, AsyncTypeOK
  <2>2. expired' \in [Closers -> BOOLEAN]
    BY DEF CloseMove, StartClose, CloseFirst, CloseAgain, CloseDrained, CloseExpired, CloseContextEnds,
       AsyncInv, AsyncTypeOK
  <2>3. inside' \in SUBSET Closers
    BY DEF CloseMove, StartClose, CloseFirst, CloseAgain, CloseDrained, CloseExpired, CloseContextEnds,
       AsyncInv, AsyncTypeOK
  <2> QED BY <1>1, <2>1, <2>2, <2>3 DEF AsyncInv, AsyncTypeOK, channel, notifying, worker
<1>3. NotifyInv' /\ PlacesInv'
  BY <1>1 DEF AsyncInv, NotifyInv, PlacesInv, InHand, NeverSendsOnClosed, channel, notifying, worker
<1>4. CloseInv'
  <2>1. /\ \A l \in Closers : l # k => closing'[l] = closing[l]
        /\ closing'[k] = "drained" => closing[k] = "drained" \/ run = "done"
        /\ closing'[k] = "lock" => closing[k] = "lock" \/ (~closed /\ ~WriterWaiting)
    <3>1. CASE StartClose(k) \/ CloseAgain(k) \/ CloseExpired(k) \/ CloseContextEnds(k)
      BY <3>1 DEF StartClose, CloseAgain, CloseExpired, CloseContextEnds, CloseStep, AsyncInv, AsyncTypeOK
    <3>2. CASE CloseFirst(k)
      BY <3>2 DEF CloseFirst, CloseStep, AsyncInv, AsyncTypeOK
    <3>3. CASE CloseDrained(k)
      BY <3>3 DEF CloseDrained, CloseStep, AsyncInv, AsyncTypeOK
    <3> QED BY <3>1, <3>2, <3>3 DEF CloseMove
  <2>2. closed' = closed /\ run' = run
    BY <1>1 DEF channel, worker
  <2>3. \A l \in Closers : closing'[l] = "lock" => ~closed'
    BY <2>1, <2>2 DEF AsyncInv, CloseInv
  <2>4. \A l \in Closers : closing'[l] = "drained" => run' = "done"
    BY <2>1, <2>2 DEF AsyncInv, CloseInv
  <2>5. \A l, m \in Closers : closing'[l] = "lock" /\ closing'[m] = "lock" => l = m
    BY <2>1 DEF AsyncInv, CloseInv, WriterWaiting
  <2> QED BY <2>3, <2>4, <2>5 DEF CloseInv
<1> QED BY <1>2, <1>3, <1>4 DEF AsyncInv

(***************************************************************************)
(* Steps that do.                                                          *)
(***************************************************************************)
LEMMA ShutKeeps ==
  ASSUME AsyncInv, NEW k \in Closers, ShutChannel(k)
  PROVE  AsyncInv' /\ ~closed /\ closed' = TRUE
<1>1. /\ closing[k] = "lock" /\ closing' = [closing EXCEPT ![k] = "waiting"] /\ closed' = TRUE
      /\ UNCHANGED <<buffer, queue, dropped, accepted, notifying, expired, inside, worker>>
      /\ Readers = {}
  BY DEF ShutChannel, CloseStep
<1>2. ~closed /\ \A l \in Closers : closing'[l] # "lock"
  BY <1>1 DEF AsyncInv, CloseInv, AsyncTypeOK
<1>3. AsyncTypeOK'
  BY <1>1 DEF AsyncInv, AsyncTypeOK, notifying, worker
<1>4. NotifyInv'
  BY <1>1 DEF AsyncInv, NotifyInv, NeverSendsOnClosed, Readers, notifying
<1>5. CloseInv'
  BY <1>1, <1>2 DEF AsyncInv, CloseInv, AsyncTypeOK, worker
<1>6. PlacesInv'
  BY <1>1 DEF AsyncInv, PlacesInv, InHand, worker
<1> QED BY <1>1, <1>2, <1>3, <1>4, <1>5, <1>6 DEF AsyncInv

(* What is delivered, in hand and queued is as long as what is accepted.   *)
LEMMA PlacesType ==
  ASSUME AsyncInv
  PROVE  /\ InHand \in Seq(Events) /\ Len(InHand) \in {0, 1}
         /\ Len(accepted) = Len(delivered) + Len(InHand) + Len(queue)
<1>1. InHand \in Seq(Events) /\ Len(InHand) \in {0, 1}
  <2>1. CASE inHand = NoEvent
    <3>1. <<>> \in Seq(Events) /\ Len(<<>>) \in {0, 1}
      OBVIOUS
    <3> QED BY <2>1, <3>1, Zenon DEF InHand
  <2>2. CASE inHand # NoEvent
    <3>1. <<inHand>> \in Seq(Events) /\ Len(<<inHand>>) \in {0, 1}
      BY <2>2 DEF AsyncInv, AsyncTypeOK
    <3> QED BY <2>2, <3>1, Zenon DEF InHand
  <2> QED BY <2>1, <2>2
<1>2. \A d, h, q \in Seq(Events) : Len(d \o h \o q) = Len(d) + Len(h) + Len(q)
  OBVIOUS
<1>3. accepted = delivered \o InHand \o queue /\ delivered \in Seq(Events) /\ queue \in Seq(Events)
  BY DEF AsyncInv, AsyncTypeOK, PlacesInv
<1> QED BY <1>1, <1>2, <1>3

(* Appending to the last of two sequences.                                 *)
LEMMA AppendConcat ==
  ASSUME NEW s \in Seq(Events), NEW t \in Seq(Events), NEW e \in Events
  PROVE  Append(s \o t, e) = s \o Append(t, e)
<1>1. Append(s \o t, e) = (s \o t) \o <<e>> /\ Append(t, e) = t \o <<e>>
  BY AppendIsConcat
<1>2. (s \o t) \o <<e>> = s \o (t \o <<e>>)
  BY ConcatAssociative
<1> QED BY <1>1, <1>2

(* A notifier's event goes to the worker, or into the queue.               *)
LEMMA SendKeeps ==
  ASSUME AsyncInv, NEW n \in Notifiers, HandOver(n) \/ Enqueue(n)
  PROVE  /\ AsyncInv' /\ ~closed
         /\ Event(n) \in Events /\ accepted' = Append(accepted, Event(n))
         /\ Len(accepted) - Len(delivered) <= buffer
<1>1. PICK e \in Events : e = Event(n)
  <2>1. sent[n] # 0
    BY DEF HandOver, Enqueue, NotifyStep, AsyncInv, NotifyInv
  <2> QED BY <2>1, EventProperties, Zenon DEF AsyncInv
<1>2. /\ notify[n] = "open" /\ notify' = [notify EXCEPT ![n] = "unlock"]
      /\ accepted' = Append(accepted, e) /\ ~closed
      /\ UNCHANGED <<buffer, closed, dropped, sent, closeVars, stuck, delivered>>
  BY <1>1 DEF HandOver, Enqueue, NotifyStep, AsyncInv, NotifyInv, NeverSendsOnClosed, worker
<1>3. /\ accepted \in Seq(Events) /\ queue \in Seq(Events) /\ delivered \in Seq(Events)
      /\ accepted = delivered \o InHand \o queue /\ buffer \in Nat /\ e # NoEvent
  BY EventProperties DEF AsyncInv, AsyncTypeOK, PlacesInv
<1>4. CASE HandOver(n)
  <2>1. /\ run = "parked" /\ run' = "delivering" /\ inHand' = e /\ queue' = queue
        /\ queue = <<>> /\ inHand = NoEvent
    BY <1>1, <1>4 DEF HandOver, AsyncInv, PlacesInv
  <2>2. accepted = delivered
    BY <1>3, <2>1 DEF InHand
  <2>3. Append(delivered, e) = delivered \o <<e>> \o <<>>
    BY <1>3
  <2>4. PlacesInv'
    BY <1>2, <1>3, <2>1, <2>2, <2>3 DEF PlacesInv, InHand
  <2>5. AsyncTypeOK'
    BY <1>2, <1>3, <2>1 DEF AsyncInv, AsyncTypeOK, closeVars
  <2>6. NotifyInv' /\ CloseInv'
    BY <1>2, <2>1 DEF AsyncInv, AsyncTypeOK, NotifyInv, CloseInv, NeverSendsOnClosed, closeVars
  <2> QED BY <1>1, <1>2, <1>3, <2>2, <2>4, <2>5, <2>6 DEF AsyncInv
<1>5. CASE Enqueue(n)
  <2>1. /\ run' = run /\ inHand' = inHand /\ queue' = Append(queue, e) /\ run # "parked"
        /\ Len(queue) < buffer
    BY <1>1, <1>5 DEF Enqueue, worker
  <2>2. PICK h \in Seq(Events) : h = InHand
    BY PlacesType, Zenon
  <2>3. Append(delivered \o h \o queue, e) = delivered \o h \o Append(queue, e)
    <3>1. PICK d \in Seq(Events), q \in Seq(Events) : d = delivered /\ q = queue
      BY <1>3
    <3>2. Append(d \o h \o q, e) = d \o h \o Append(q, e)
      <4>1. d \o h \in Seq(Events)
        BY <2>2
      <4>2. \A w \in Seq(Events) : Append(w \o q, e) = w \o Append(q, e)
        BY AppendConcat, Zenon
      <4> QED BY <4>1, <4>2
    <3> QED BY <3>1, <3>2
  <2>4. PlacesInv'
    <3>1. InHand' = h
      BY <2>1, <2>2 DEF InHand
    <3>2. accepted' = delivered' \o h \o queue'
      BY <1>2, <1>3, <2>1, <2>2, <2>3
    <3>3. Len(queue') <= buffer'
      BY <1>2, <1>3, <2>1
    <3>4. run # "done"
      BY <1>2 DEF AsyncInv, PlacesInv
    <3> QED BY <2>1, <3>1, <3>2, <3>3, <3>4 DEF AsyncInv, PlacesInv
  <2>5. AsyncTypeOK'
    BY <1>2, <1>3, <2>1 DEF AsyncInv, AsyncTypeOK, closeVars
  <2>6. NotifyInv' /\ CloseInv'
    BY <1>2, <2>1 DEF AsyncInv, AsyncTypeOK, NotifyInv, CloseInv, NeverSendsOnClosed, closeVars
  <2>7. Len(accepted) - Len(delivered) <= buffer
    <3>1. Len(accepted) = Len(delivered) + Len(InHand) + Len(queue) /\ Len(InHand) \in {0, 1}
      BY PlacesType
    <3>2. Len(delivered) \in Nat /\ Len(queue) \in Nat /\ buffer \in Nat /\ Len(queue) < buffer
      BY <1>3, <2>1
    <3>3. CASE Len(InHand) = 0
      BY <3>1, <3>2, <3>3
    <3>4. CASE Len(InHand) = 1
      BY <3>1, <3>2, <3>4
    <3> QED BY <3>1, <3>3, <3>4
  <2> QED BY <1>1, <1>2, <2>4, <2>5, <2>6, <2>7 DEF AsyncInv
<1> QED BY <1>4, <1>5

(* The worker takes an event out of the channel.                           *)
LEMMA ReceiveKeeps ==
  ASSUME AsyncInv, Receive
  PROVE  AsyncInv'
<1>1. /\ run = "ready" /\ run' = "delivering" /\ queue # <<>>
      /\ inHand' = Head(queue) /\ queue' = Tail(queue)
      /\ UNCHANGED <<buffer, closed, dropped, accepted, notifying, closeVars, stuck, delivered>>
  BY DEF Receive
<1>2. PICK q \in Seq(Events), d \in Seq(Events) :
        q = queue /\ d = delivered /\ accepted = d \o <<>> \o q /\ q # <<>>
  BY <1>1 DEF AsyncInv, AsyncTypeOK, PlacesInv, InHand
<1>3. /\ Head(q) \in Events /\ Tail(q) \in Seq(Events) /\ Len(Tail(q)) = Len(q) - 1
      /\ d \o <<>> \o q = d \o <<Head(q)>> \o Tail(q)
  <2>1. Head(q) \in Events /\ Tail(q) \in Seq(Events) /\ Len(Tail(q)) = Len(q) - 1
    BY <1>2
  <2>2. <<Head(q)>> \in Seq(Events) /\ q = <<Head(q)>> \o Tail(q)
    BY <1>2, <2>1
  <2>3. d \o <<>> = d
    BY ConcatEmptySeq
  <2>4. (d \o <<Head(q)>>) \o Tail(q) = d \o (<<Head(q)>> \o Tail(q))
    BY <2>1, <2>2, ConcatAssociative
  <2> QED BY <2>1, <2>2, <2>3, <2>4, Zenon
<1>4. AsyncTypeOK'
  BY <1>1, <1>2, <1>3 DEF AsyncInv, AsyncTypeOK, notifying, closeVars
<1>5. NotifyInv' /\ CloseInv'
  BY <1>1 DEF AsyncInv, NotifyInv, CloseInv, NeverSendsOnClosed, notifying, closeVars
<1>6. PlacesInv'
  <2>1. Head(q) # NoEvent /\ InHand' = <<Head(q)>>
    BY <1>1, <1>2, <1>3, EventProperties DEF InHand
  <2>2. accepted' = delivered' \o InHand' \o queue'
    BY <1>1, <1>2, <1>3, <2>1
  <2>3. Len(queue') <= buffer'
    BY <1>1, <1>2, <1>3 DEF AsyncInv, AsyncTypeOK, PlacesInv
  <2> QED BY <1>1, <1>2, <2>1, <2>2, <2>3 DEF PlacesInv
<1> QED BY <1>4, <1>5, <1>6 DEF AsyncInv

(* The observer returns: its event is delivered.                           *)
LEMMA ReturnKeeps ==
  ASSUME AsyncInv, ObserverReturns
  PROVE  /\ AsyncInv' /\ Len(delivered') = Len(delivered) + 1 /\ Len(accepted) - Len(delivered) > 0
         /\ UNCHANGED <<buffer, accepted, dropped, closed>>
<1>1. /\ run = "delivering" /\ run' = "ready" /\ inHand' = NoEvent
      /\ delivered' = Append(delivered, inHand)
      /\ UNCHANGED <<channel, notifying, closeVars, stuck>>
  BY DEF ObserverReturns, ObserverRuns
<1>2. PICK q \in Seq(Events), d \in Seq(Events), e \in Events :
        q = queue /\ d = delivered /\ e = inHand /\ accepted = d \o <<e>> \o q
  BY <1>1 DEF AsyncInv, AsyncTypeOK, PlacesInv, InHand
<1>3. /\ Append(d, e) \in Seq(Events) /\ Len(Append(d, e)) = Len(d) + 1
      /\ d \o <<e>> \o q = Append(d, e) \o <<>> \o q
      /\ Len(d \o <<e>> \o q) = Len(d) + 1 + Len(q)
      /\ Len(d) \in Nat /\ Len(q) \in Nat
  BY <1>2
<1>4. AsyncTypeOK'
  BY <1>1, <1>2, <1>3 DEF AsyncInv, AsyncTypeOK, channel, notifying, closeVars
<1>5. NotifyInv' /\ CloseInv'
  BY <1>1 DEF AsyncInv, NotifyInv, CloseInv, NeverSendsOnClosed, channel, notifying, closeVars
<1>6. PlacesInv'
  <2>1. InHand' = <<>>
    BY <1>1 DEF InHand
  <2>2. accepted' = delivered' \o InHand' \o queue'
    BY <1>1, <1>2, <1>3, <2>1 DEF channel
  <2> QED BY <1>1, <2>1, <2>2 DEF AsyncInv, PlacesInv, channel
<1> QED BY <1>1, <1>2, <1>3, <1>4, <1>5, <1>6 DEF AsyncInv, channel

(* The worker's other steps move no event.                                 *)
LEMMA WorkerMoveKeeps ==
  ASSUME AsyncInv, Park \/ Exit \/ ObserverSticks
  PROVE  AsyncInv' /\ UNCHANGED <<channel, delivered>>
<1>1. UNCHANGED <<channel, notifying, closeVars, inHand, delivered>>
  BY DEF Park, Exit, ObserverSticks
<1>2. /\ stuck' \in BOOLEAN /\ run' \in {"ready", "parked", "delivering", "done"}
      /\ run' = "delivering" <=> run = "delivering"
      /\ run' = "parked" => queue = <<>>
      /\ run' = "done" => closed /\ queue = <<>>
      /\ run = "done" => run' = "done"
  BY DEF Park, Exit, ObserverSticks, ObserverRuns, AsyncInv, AsyncTypeOK, PlacesInv
<1>3. AsyncTypeOK'
  BY <1>1, <1>2 DEF AsyncInv, AsyncTypeOK, channel, notifying, closeVars
<1>4. NotifyInv' /\ CloseInv'
  BY <1>1, <1>2 DEF AsyncInv, NotifyInv, CloseInv, NeverSendsOnClosed, channel, notifying, closeVars
<1>5. PlacesInv'
  BY <1>1, <1>2 DEF AsyncInv, PlacesInv, InHand, channel
<1> QED BY <1>1, <1>3, <1>4, <1>5 DEF AsyncInv

(***************************************************************************)
(* The invariant, and what follows from it.                                *)
(***************************************************************************)
LEMMA AsyncStutter ==
  ASSUME AsyncInv, UNCHANGED asyncVars
  PROVE  AsyncInv'
<1>1. AsyncTypeOK'
  BY DEF AsyncInv, AsyncTypeOK, asyncVars, channel, notifying, closeVars, worker
<1>2. NotifyInv' /\ CloseInv' /\ PlacesInv'
  BY DEF AsyncInv, NotifyInv, CloseInv, PlacesInv, InHand, NeverSendsOnClosed, asyncVars, channel,
     notifying, closeVars, worker
<1> QED BY <1>1, <1>2 DEF AsyncInv

(* Every step keeps the invariant.                                         *)
LEMMA AsyncInductive == AsyncInv /\ [AsyncNext]_asyncVars => AsyncInv'
BY AsyncStutter, NotifyMoveKeeps, CloseMoveKeeps, ShutKeeps, SendKeeps, ReceiveKeeps, ReturnKeeps,
   WorkerMoveKeeps DEF AsyncNext, Notify, Close, Run, NotifyMove, CloseMove

(* So it always holds.                                                     *)
LEMMA AsyncInvariant == AsyncSpec => []AsyncInv
BY AsyncInitial, AsyncInductive, PTL DEF AsyncSpec

(* Every variable keeps its type.                                          *)
THEOREM AsyncTypeCorrect == AsyncSpec => []AsyncTypeOK
BY AsyncInvariant, PTL DEF AsyncInv

(* Close never shuts the channel under a notifier that is about to send.   *)
THEOREM AsyncNeverSendsOnClosed == AsyncSpec => []NeverSendsOnClosed
BY AsyncInvariant, PTL DEF AsyncInv, NotifyInv

(* When Close has returned nil, all that was accepted was delivered.       *)
THEOREM AsyncCloseMeansDrained == AsyncSpec => []CloseMeansDrained
<1>1. AsyncInv => CloseMeansDrained
  <2> SUFFICES ASSUME AsyncInv, NEW k \in Closers, closing[k] = "drained"
               PROVE  run = "done" /\ delivered = accepted
    BY DEF CloseMeansDrained
  <2>1. run = "done" /\ queue = <<>> /\ inHand = NoEvent
    BY DEF AsyncInv, CloseInv, PlacesInv
  <2>2. accepted = delivered \o <<>> \o <<>> /\ delivered \in Seq(Events)
    BY <2>1 DEF AsyncInv, AsyncTypeOK, PlacesInv, InHand
  <2> QED BY <2>1, <2>2
<1> QED BY <1>1, AsyncInvariant, PTL

(* An event accepted is in one place, and the order is that of acceptance. *)
THEOREM AsyncKeepsOrder ==
  AsyncSpec => [](accepted = delivered \o (IF inHand = NoEvent THEN <<>> ELSE <<inHand>>) \o queue)
BY AsyncInvariant, PTL DEF AsyncInv, PlacesInv, InHand

(***************************************************************************)
(* The count.  However many notifiers there are, only as many are inside   *)
(* Notify, and only as many events begun, as there were steps that made    *)
(* them so: the sets counted are finite.                                   *)
(***************************************************************************)
CountInv ==
  /\ IsFiniteSet(Undecided) /\ IsFiniteSet(Begun)
  /\ dropped + Len(accepted) + Cardinality(Undecided) = Cardinality(Begun)

(* Nothing is begun, nothing counted.                                      *)
LEMMA CountInitial == AsyncInit => CountInv
<1> SUFFICES ASSUME AsyncInit PROVE CountInv
  OBVIOUS
<1>1. /\ dropped = 0 /\ accepted = <<>>
      /\ notify = [n \in Notifiers |-> "out"] /\ sent = [n \in Notifiers |-> 0]
  BY Zenon DEF AsyncInit
<1>2. Undecided = {} /\ Begun = {}
  BY <1>1, AsyncAssumption DEF Undecided, Begun, Events
<1>3. Len(<<>>) = 0
  OBVIOUS
<1> QED BY <1>1, <1>2, <1>3, FS_EmptySet DEF CountInv

(* To begin an event is to have one more to decide on.                     *)
LEMMA CountStart ==
  ASSUME AsyncInv, CountInv, NEW n \in Notifiers, StartNotify(n)
  PROVE  CountInv'
<1>1. /\ sent[n] < MaxEvents /\ notify[n] = "out"
      /\ notify' = [notify EXCEPT ![n] = "rlock"] /\ sent' = [sent EXCEPT ![n] = @ + 1]
      /\ UNCHANGED <<dropped, accepted>>
  BY DEF StartNotify, NotifyStep, channel
<1>2. /\ sent \in [Notifiers -> 0 .. MaxEvents] /\ MaxEvents \in Nat
      /\ notify \in [Notifiers -> {"out", "rlock", "locked", "open", "unlock"}]
      /\ dropped \in Nat /\ Len(accepted) \in Nat
  BY AsyncAssumption DEF AsyncInv, AsyncTypeOK
<1>3. PICK k \in 1 .. MaxEvents : k = sent[n] + 1
  BY <1>1, <1>2
<1>4. n \notin Undecided /\ Undecided' = Undecided \cup {n}
  BY <1>1, <1>2 DEF Undecided
<1>5. <<n, k>> \notin Begun /\ Begun' = Begun \cup {<<n, k>>}
  <2>1. <<n, k>> \in Events /\ <<n, k>> \notin Begun
    BY <1>2, <1>3 DEF Events, Begun
  <2>2. ASSUME NEW e \in Events PROVE e[2] <= sent'[e[1]] <=> e[2] <= sent[e[1]] \/ e = <<n, k>>
    <3>1. PICK m \in Notifiers, i \in 1 .. MaxEvents : e = <<m, i>>
      BY DEF Events
    <3>2. sent'[m] = IF m = n THEN k ELSE sent[m]
      BY <1>1, <1>2, <1>3
    <3>3. sent[m] \in Nat /\ i \in Nat
      BY <1>2
    <3> QED BY <1>3, <3>1, <3>2, <3>3
  <2> QED BY <2>1, <2>2 DEF Begun
<1>6. /\ IsFiniteSet(Undecided') /\ Cardinality(Undecided') = Cardinality(Undecided) + 1
      /\ IsFiniteSet(Begun') /\ Cardinality(Begun') = Cardinality(Begun) + 1
  BY <1>4, <1>5, FS_AddElement DEF CountInv
<1>7. Cardinality(Undecided) \in Nat /\ Cardinality(Begun) \in Nat
  BY FS_CardinalityType DEF CountInv
<1> QED BY <1>1, <1>2, <1>6, <1>7 DEF CountInv

(* To decide on an event is to count it once: as dropped or as accepted.   *)
LEMMA CountDecide ==
  ASSUME AsyncInv, CountInv, NEW n \in Notifiers,
         DropClosed(n) \/ DropFull(n) \/ HandOver(n) \/ Enqueue(n)
  PROVE  CountInv'
<1>1. /\ notify[n] \in {"locked", "open"} /\ notify' = [notify EXCEPT ![n] = "unlock"]
      /\ UNCHANGED sent
  BY DEF DropClosed, DropFull, HandOver, Enqueue, NotifyStep
<1>2. /\ notify \in [Notifiers -> {"out", "rlock", "locked", "open", "unlock"}]
      /\ dropped \in Nat /\ Len(accepted) \in Nat /\ accepted \in Seq(Events)
  BY DEF AsyncInv, AsyncTypeOK
<1>3. n \in Undecided /\ Undecided' = Undecided \ {n} /\ Begun' = Begun
  BY <1>1, <1>2 DEF Undecided, Begun
<1>4. IsFiniteSet(Undecided') /\ Cardinality(Undecided') = Cardinality(Undecided) - 1
  BY <1>3, FS_RemoveElement DEF CountInv
<1>5. dropped' + Len(accepted') = dropped + Len(accepted) + 1
  <2>1. CASE DropClosed(n) \/ DropFull(n)
    BY <1>2, <2>1 DEF DropClosed, DropFull
  <2>2. CASE HandOver(n) \/ Enqueue(n)
    <3>1. Event(n) \in Events /\ accepted' = Append(accepted, Event(n)) /\ dropped' = dropped
      BY <2>2, SendKeeps DEF HandOver, Enqueue
    <3>2. Len(accepted') = Len(accepted) + 1
      BY <1>2, <3>1
    <3> QED BY <1>2, <3>1, <3>2
  <2> QED BY <2>1, <2>2
<1>6. Cardinality(Undecided) \in Nat /\ dropped' + Len(accepted') \in Nat
  BY <1>2, <1>5, FS_CardinalityType DEF CountInv
<1> QED BY <1>2, <1>3, <1>4, <1>5, <1>6 DEF CountInv

(* No other step changes what is counted.                                  *)
LEMMA CountInductive == AsyncInv /\ CountInv /\ [AsyncNext]_asyncVars => CountInv'
<1> SUFFICES ASSUME AsyncInv, CountInv, [AsyncNext]_asyncVars PROVE CountInv'
  OBVIOUS
<1>1. ASSUME UNCHANGED <<dropped, accepted, sent>>,
             \A n \in Notifiers : notify'[n] \in {"rlock", "locked", "open"} <=>
                                   notify[n] \in {"rlock", "locked", "open"}
      PROVE  CountInv'
  BY <1>1 DEF CountInv, Undecided, Begun
<1>2. ASSUME NEW n \in Notifiers, RLock(n) \/ FindOpen(n) \/ RUnlock(n)
      PROVE  CountInv'
  <2>1. UNCHANGED <<dropped, accepted, sent>>
    BY <1>2 DEF RLock, FindOpen, RUnlock, channel
  <2>2. \A m \in Notifiers : notify'[m] \in {"rlock", "locked", "open"} <=>
                             notify[m] \in {"rlock", "locked", "open"}
    BY <1>2 DEF RLock, FindOpen, RUnlock, NotifyStep, AsyncInv, AsyncTypeOK
  <2> QED BY <1>1, <2>1, <2>2
<1>3. CASE \/ Run \/ ObserverSticks \/ UNCHANGED asyncVars
           \/ \E k \in Closers : StartClose(k) \/ Close(k) \/ CloseContextEnds(k)
  <2>1. UNCHANGED <<dropped, accepted, sent, notify>>
    BY <1>3 DEF Run, Receive, Park, Exit, ObserverReturns, ObserverSticks, StartClose, Close,
       CloseFirst, ShutChannel, CloseAgain, CloseDrained, CloseExpired, CloseContextEnds,
       asyncVars, channel, notifying
  <2> QED BY <1>1, <2>1
<1> QED BY <1>2, <1>3, CountStart, CountDecide DEF AsyncNext, Notify

(* Every event that Notify was called with and has decided on is counted   *)
(* once, as dropped or as accepted, and what was accepted is in one place  *)
(* (Notify, Dropped).                                                      *)
THEOREM AsyncEveryEventAccounted == AsyncSpec => []EveryEventAccounted
<1>1. AsyncInv /\ CountInv => EveryEventAccounted
  BY DEF AsyncInv, PlacesInv, InHand, CountInv, EveryEventAccounted
<1> QED BY <1>1, AsyncInvariant, AsyncInitial, CountInitial, CountInductive, PTL DEF AsyncSpec

(***************************************************************************)
(* The observer implements the lossy queue.                                *)
(***************************************************************************)
LEMMA QueueInitial == AsyncInit => Queue!QueueInit
<1> SUFFICES ASSUME AsyncInit PROVE Queue!QueueInit
  OBVIOUS
<1>1. buffer \in Nat
  BY AsyncInitial DEF AsyncInv, AsyncTypeOK
<1>2. accepted = <<>> /\ delivered = <<>> /\ dropped = 0 /\ closed = FALSE
  BY Zenon DEF AsyncInit
<1> QED BY <1>1, <1>2 DEF Queue!QueueInit

(* Every step is a step of the lossy queue, or none.                       *)
LEMMA QueueStep ==
  ASSUME AsyncInv, [AsyncNext]_asyncVars
  PROVE  [Queue!TakeEvent \/ Queue!LoseEvent \/ Queue!GiveEvent \/ Queue!Shut]_Queue!queueVars
<1>1. /\ delivered \in Seq(Events) /\ accepted \in Seq(Events) /\ buffer \in Nat
      /\ Len(delivered) \in Nat /\ Len(accepted) \in Nat
  BY DEF AsyncInv, AsyncTypeOK
<1>2. ASSUME NEW n \in Notifiers, HandOver(n) \/ Enqueue(n)
      PROVE  Queue!TakeEvent
  <2>1. /\ ~closed /\ Event(n) \in Events /\ accepted' = Append(accepted, Event(n))
        /\ Len(accepted) - Len(delivered) <= buffer
    BY <1>2, SendKeeps
  <2>2. UNCHANGED <<buffer, delivered, dropped, closed>>
    BY <1>2 DEF HandOver, Enqueue, worker
  <2>3. /\ Len(Append(accepted, Event(n))) = Len(accepted) + 1
        /\ SubSeq(Append(accepted, Event(n)), 1, Len(accepted)) = accepted
    BY <1>1, <2>1
  <2> QED BY <2>1, <2>2, <2>3 DEF Queue!TakeEvent, Queue!waiting
<1>3. ASSUME NEW n \in Notifiers, DropClosed(n) \/ DropFull(n)
      PROVE  Queue!LoseEvent
  <2>1. UNCHANGED <<buffer, accepted, delivered, closed>> /\ dropped' = dropped + 1
    BY <1>3 DEF DropClosed, DropFull, worker
  <2>2. closed \/ Len(accepted) - Len(delivered) >= buffer
    <3>1. CASE DropClosed(n)
      BY <3>1 DEF DropClosed
    <3>2. CASE DropFull(n)
      <4>1. Len(queue) = buffer
        BY <3>2 DEF DropFull
      <4> QED BY <1>1, <4>1, PlacesType
    <3> QED BY <1>3, <3>1, <3>2
  <2> QED BY <2>1, <2>2 DEF Queue!LoseEvent, Queue!waiting
<1>4. ASSUME ObserverReturns
      PROVE  Queue!GiveEvent
  BY <1>4, ReturnKeeps DEF Queue!GiveEvent, Queue!waiting
<1>5. ASSUME NEW k \in Closers, ShutChannel(k)
      PROVE  Queue!Shut
  <2>1. UNCHANGED <<buffer, accepted, delivered, dropped>>
    BY <1>5 DEF ShutChannel, worker
  <2> QED BY <1>5, <2>1, ShutKeeps DEF Queue!Shut
<1>6. ASSUME NEW n \in Notifiers, StartNotify(n) \/ RLock(n) \/ FindOpen(n) \/ RUnlock(n)
      PROVE  UNCHANGED <<channel, delivered>>
  BY <1>6 DEF StartNotify, RLock, FindOpen, RUnlock, worker
<1>7. ASSUME NEW k \in Closers, CloseMove(k)
      PROVE  UNCHANGED <<channel, delivered>>
  BY <1>7 DEF CloseMove, StartClose, CloseFirst, CloseAgain, CloseDrained, CloseExpired,
              CloseContextEnds, worker
<1>8. CASE Receive \/ Park \/ Exit \/ ObserverSticks \/ UNCHANGED asyncVars
  <2>1. UNCHANGED <<buffer, closed, dropped, accepted, delivered>>
    BY <1>8 DEF Receive, Park, Exit, ObserverSticks, asyncVars, channel, worker
  <2> QED BY <2>1 DEF Queue!queueVars
<1>9. ASSUME UNCHANGED <<channel, delivered>>
      PROVE  UNCHANGED Queue!queueVars
  BY <1>9 DEF channel, Queue!queueVars
<1> QED
  BY <1>2, <1>3, <1>4, <1>5, <1>6, <1>7, <1>8, <1>9 DEF AsyncNext, Notify, Close, Run, CloseMove

(* For any notifiers, callers of Close and buffers, what an AsyncObserver  *)
(* does is what a lossy queue does.                                        *)
THEOREM AsyncImplementsLossyQueue == AsyncSpec => IsLossyQueue
BY QueueInitial, AsyncInvariant, QueueStep, PTL DEF AsyncSpec, IsLossyQueue, Queue!QueueSpec
=============================================================================
