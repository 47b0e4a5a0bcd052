---------------------------- MODULE TelemetryProofs ----------------------------
(***************************************************************************)
(* Proofs about OTelObserver and SlogObserver, for any manager and any     *)
(* places of the two among its observers.                                  *)
(***************************************************************************)
EXTENDS SlogObserver, ManagerProofs, FiniteSetTheorems

(***************************************************************************)
(* Observing adds nothing to what the manager does.                        *)
(***************************************************************************)
(* With what was observed hidden, a step is a step of the manager.         *)
LEMMA OTelStepIsManagerStep == [OTelNext]_<<vars, otelVars>> => [ManagerNext]_vars
<1> SUFFICES ASSUME [OTelNext]_<<vars, otelVars>> PROVE [ManagerNext]_vars
  OBVIOUS
<1>1. ASSUME NEW c \in Callers,
             ObservedStart(c) \/ ObservedCommit(c) \/ ObservedDelivery(c) \/ Unobserved(c)
      PROVE  ManagerNext
  <2>1. CASE ObservedStart(c) \/ ObservedCommit(c) \/ ObservedDelivery(c)
    BY <2>1 DEF ObservedStart, ObservedCommit, ObservedDelivery, ManagerNext, Work
  <2>2. CASE Unobserved(c)
    BY <2>2 DEF Unobserved, ManagerNext, Work
  <2> QED BY <1>1, <2>1, <2>2
<1> QED BY <1>1 DEF OTelNext

(* The OpenTelemetry observer is one that returns and changes nothing of   *)
(* its manager (Observe).                                                  *)
THEOREM OTelOnlyObserves == OTelSpec => ManagerSpec
<1>1. OTelInit => ManagerInit
  BY DEF OTelInit
<1> QED BY <1>1, OTelStepIsManagerStep, PTL DEF OTelSpec, ManagerSpec

(* With its log hidden, the log observer is the other one alone.           *)
LEMMA SlogStepIsOTelStep == [SlogNext]_<<vars, otelVars, records>> => [OTelNext]_<<vars, otelVars>>
BY DEF SlogNext, OTelNext

(* So is the structured log observer, which the other does not see.        *)
THEOREM SlogOnlyObserves == SlogSpec => OTelSpec
<1>1. SlogInit => OTelInit
  BY DEF SlogInit
<1> QED BY <1>1, SlogStepIsOTelStep, PTL DEF SlogSpec, OTelSpec

(***************************************************************************)
(* What the story of the manager says of those who tell and hear it.       *)
(***************************************************************************)
LEMMA StoryTold ==
  ASSUME ManagerInv
  PROVE  /\ \A o \in Observers : \A i \in 1 .. Len(delivered[o]) :
              delivered[o][i] \in Event /\ EventTrue(delivered[o][i])
         /\ \A o \in Observers : \A i, j \in 1 .. Len(delivered[o]) :
              i < j => Before(delivered[o][i], delivered[o][j])
         /\ \A c \in Callers : \A i \in 1 .. Len(events[c]) :
              events[c][i] \in Event /\ EventTrue(events[c][i])
         /\ \A c \in Callers : events[c] = <<>> => turn[c] = 1
<1>1. PICK s \in Seq(Event) : Story(s)
  BY DEF ManagerInv, StoryInv
<1>2. PICK n \in Nat : n = Len(s) /\ \A i \in 1 .. n : s[i] \in Event
  OBVIOUS
<1>3. events \in [Callers -> Seq(Event)] /\ delivered \in [Observers -> Seq(Event)]
  BY DEF ManagerInv, BaseInv, ManagerTypeOK
<1>4. \A i \in 1 .. n : EventTrue(s[i])
  BY <1>1, <1>2 DEF Story, Retells
<1>5. ASSUME NEW o \in Observers
      PROVE  /\ \A i \in 1 .. Len(delivered[o]) : i \in 1 .. n /\ delivered[o][i] = s[i]
             /\ Len(delivered[o]) \in Nat
  <2>1. Len(delivered[o]) \in Nat
    BY <1>3
  <2>2. Len(delivered[o]) <= n /\ \A i \in 1 .. Len(delivered[o]) : delivered[o][i] = s[i]
    BY <1>1, <1>2 DEF Story, Spread
  <2> QED BY <2>1, <2>2
<1>6. \A i, j \in 1 .. n : i < j => Before(s[i], s[j])
  BY <1>1, <1>2 DEF Story, Chained
<1>7. ASSUME NEW c \in Callers, NEW i \in 1 .. Len(events[c])
      PROVE  events[c][i] \in Event /\ EventTrue(events[c][i])
  <2>1. events[c] \in Seq(Event) /\ Len(events[c]) \in Nat
    BY <1>3
  <2>2. events[c] # <<>>
    BY <1>7, <2>1
  <2>3. Rest(s, c)
    BY <1>1, <2>2 DEF Story, Spread
  <2>4. n - Len(events[c]) >= 0 /\ events[c][i] = s[n - Len(events[c]) + i]
    BY <1>2, <2>3 DEF Rest
  <2>5. n - Len(events[c]) + i \in 1 .. n
    BY <2>1, <2>4
  <2> QED BY <1>2, <1>4, <2>4, <2>5
<1>8. \A c \in Callers : events[c] = <<>> => turn[c] = 1
  BY <1>1 DEF Story, Spread
<1> QED BY <1>2, <1>4, <1>5, <1>6, <1>7, <1>8

(***************************************************************************)
(* What each observer has been told, or is going to be: the events it was  *)
(* called with, and those that a caller has still to deliver to it.        *)
(***************************************************************************)
Pending(c, i, o) == i > 1 \/ turn[c] <= o

Announced(o, x) ==
  \/ \E i \in 1 .. Len(delivered[o]) : delivered[o][i] = x
  \/ \E c \in Callers : \E i \in 1 .. Len(events[c]) : events[c][i] = x /\ Pending(c, i, o)

(* A delivery announces nothing new and forgets nothing.                   *)
LEMMA DeliveryAnnounces ==
  ASSUME BaseInv, NEW c \in Callers, Deliver(c), NEW o \in Observers, NEW x
  PROVE  Announced(o, x)' <=> Announced(o, x)
<1>1. /\ events \in [Callers -> Seq(Event)] /\ turn \in [Callers -> Observers]
      /\ delivered \in [Observers -> Seq(Event)]
  BY DEF BaseInv, ManagerTypeOK
<1>2. /\ events[c] # <<>>
      /\ delivered' = [delivered EXCEPT ![turn[c]] = Append(@, Head(events[c]))]
      /\ IF turn[c] < NumObservers
         THEN turn' = [turn EXCEPT ![c] = turn[c] + 1] /\ UNCHANGED events
         ELSE turn' = [turn EXCEPT ![c] = 1] /\ events' = [events EXCEPT ![c] = Tail(events[c])]
  BY DEF Deliver
<1>3. PICK now \in Nat : now = turn[c] /\ now \in Observers /\ now >= 1 /\ now <= NumObservers
  BY <1>1, ManagerAssumption DEF Observers
<1>4. o \in Nat /\ o >= 1 /\ o <= NumObservers /\ NumObservers \in Nat
  BY ManagerAssumption DEF Observers
<1>5. PICK list \in Seq(Event) : list = events[c] /\ list # <<>>
  BY <1>1, <1>2
<1>6. PICK n \in Nat : n = Len(list) /\ n >= 1
  BY <1>5
<1>7. PICK e \in Event : e = Head(events[c]) /\ e = list[1]
  BY <1>5
<1>8. PICK d \in Seq(Event) : d = delivered[o]
  BY <1>1
<1>9. PICK k \in Nat : k = Len(d)
  BY <1>8
<1> DEFINE Has(i) == d[i] = x
           Others == \E a \in Callers \ {c} : \E i \in 1 .. Len(events[a]) :
                       events[a][i] = x /\ Pending(a, i, o)
           Mine   == \E i \in 1 .. n : list[i] = x /\ (i > 1 \/ now <= o)
           Mine2  == \E i \in 1 .. Len(events'[c]) : events'[c][i] = x /\ Pending(c, i, o)'
           Heard  == \E i \in 1 .. k : Has(i)
           Heard2 == \E i \in 1 .. Len(delivered'[o]) : delivered'[o][i] = x
<1>10. Announced(o, x) <=> Heard \/ Mine \/ Others
  BY <1>3, <1>5, <1>6, <1>8, <1>9 DEF Announced, Pending
<1>11. Announced(o, x)' <=> Heard2 \/ Mine2 \/ Others
  <2>1. \A a \in Callers \ {c} : events'[a] = events[a] /\ turn'[a] = turn[a]
    BY <1>1, <1>2
  <2> QED BY <2>1 DEF Announced, Pending
<1>12. Heard2 <=> Heard \/ (o = now /\ x = e)
  <2>1. CASE o = now
    <3>1. delivered'[o] = Append(d, e)
      BY <1>1, <1>2, <1>3, <1>7, <1>8, <2>1
    <3>2. Len(Append(d, e)) = k + 1 /\ Append(d, e)[k + 1] = e
          /\ \A i \in 1 .. k : Append(d, e)[i] = d[i]
      BY <1>9
    <3>3. Heard => Heard2
      <4>1. ASSUME NEW i \in 1 .. k, Has(i) PROVE i \in 1 .. k + 1 /\ Append(d, e)[i] = x
        BY <3>2, <4>1
      <4> QED BY <3>1, <3>2, <4>1
    <3>4. x = e => Heard2
      <4>1. k + 1 \in 1 .. k + 1
        OBVIOUS
      <4> QED BY <3>1, <3>2, <4>1
    <3>5. ASSUME NEW i \in 1 .. k + 1, Append(d, e)[i] = x PROVE Heard \/ x = e
      <4>1. i \in 1 .. k \/ i = k + 1
        OBVIOUS
      <4> QED BY <3>2, <3>5, <4>1
    <3> QED BY <2>1, <3>1, <3>2, <3>3, <3>4, <3>5
  <2>2. CASE o # now
    <3>1. delivered'[o] = d
      BY <1>1, <1>2, <1>3, <1>8, <2>2
    <3> QED BY <1>9, <2>2, <3>1
  <2> QED BY <2>1, <2>2
<1>13. Mine <=> Mine2 \/ (o = now /\ x = e)
  <2>1. CASE now < NumObservers
    <3>1. events'[c] = list /\ turn'[c] = now + 1
      BY <1>1, <1>2, <1>3, <1>5, <2>1
    <3>2. Mine2 <=> \E i \in 1 .. n : list[i] = x /\ (i > 1 \/ now + 1 <= o)
      BY <1>6, <3>1 DEF Pending
    <3>3. 1 \in 1 .. n /\ \A i \in 1 .. n : i > 1 \/ i = 1
      BY <1>6
    <3>4. now <= o <=> now + 1 <= o \/ o = now
      BY <1>4
    <3> QED BY <1>7, <3>2, <3>3, <3>4
  <2>2. CASE now = NumObservers
    <3>1. events'[c] = Tail(list) /\ turn'[c] = 1
      BY <1>1, <1>2, <1>3, <1>5, <2>2
    <3>2. Len(Tail(list)) = n - 1 /\ \A i \in 1 .. n - 1 : Tail(list)[i] = list[i + 1]
      BY <1>5, <1>6
    <3>3. Mine2 <=> \E i \in 1 .. n - 1 : list[i + 1] = x
      BY <1>4, <3>1, <3>2 DEF Pending
    <3>4. now <= o <=> o = now
      BY <1>4, <2>2
    <3>5. ASSUME NEW i \in 1 .. n, list[i] = x, i > 1 PROVE Mine2
      <4>1. i - 1 \in 1 .. n - 1 /\ list[(i - 1) + 1] = x
        BY <3>5
      <4> QED BY <3>3, <4>1
    <3>6. ASSUME NEW i \in 1 .. n - 1, list[i + 1] = x PROVE Mine
      <4>1. i + 1 \in 1 .. n /\ i + 1 > 1
        BY <1>6
      <4> QED BY <3>6, <4>1
    <3>7. 1 \in 1 .. n /\ \A i \in 1 .. n : i > 1 \/ i = 1
      BY <1>6
    <3>8. Mine => Mine2 \/ (o = now /\ x = e)
      BY <1>7, <3>4, <3>5, <3>7
    <3>9. Mine2 => Mine
      BY <3>3, <3>6
    <3>10. o = now /\ x = e => Mine
      BY <1>7, <3>4, <3>7
    <3> QED BY <3>8, <3>9, <3>10
  <2>3. now < NumObservers \/ now = NumObservers
    BY <1>3, <1>4
  <2> QED BY <2>1, <2>2, <2>3
<1> HIDE DEF Heard, Heard2, Mine, Mine2, Others
<1> QED BY <1>10, <1>11, <1>12, <1>13

(* The events a caller gets, when none are under way, are announced to all.*)
LEMMA EventsAnnounced ==
  ASSUME ManagerInv, Settled, NEW c \in Callers, NEW more \in Seq(Event),
         events' = [events EXCEPT ![c] = more], UNCHANGED <<turn, delivered>>,
         NEW o \in Observers, NEW x
  PROVE  Announced(o, x)' <=> Announced(o, x) \/ \E i \in 1 .. Len(more) : more[i] = x
<1>1. \A d \in Callers : events[d] = <<>> /\ turn[d] = 1
  BY StoryTold DEF Settled
<1>2. events'[c] = more /\ \A d \in Callers \ {c} : events'[d] = <<>>
  BY <1>1 DEF ManagerInv, BaseInv, ManagerTypeOK
<1>3. 1 <= o
  BY ManagerAssumption DEF Observers
<1>4. \A d \in Callers : \A i \in 1 .. Len(<<>>) : FALSE
  OBVIOUS
<1>5. Announced(o, x) <=> \E i \in 1 .. Len(delivered[o]) : delivered[o][i] = x
  BY <1>1, <1>4 DEF Announced
<1>6. (\E d \in Callers : \E i \in 1 .. Len(events'[d]) : events'[d][i] = x /\ Pending(d, i, o)')
        <=> \E i \in 1 .. Len(more) : more[i] = x
  <2>1. \A i : Pending(c, i, o)'
    BY <1>1, <1>3 DEF Pending
  <2> QED BY <1>2, <1>4, <2>1
<1> QED BY <1>5, <1>6 DEF Announced

(***************************************************************************)
(* What is announced covers the log: the start and the end of each managed *)
(* load, and each publication, and only managed loads start and end.       *)
(***************************************************************************)
Finishing == {"load_succeeded", "load_failed"}

Tells(o, kinds, i) == \E x \in Event : Announced(o, x) /\ x.kind \in kinds /\ x.id = i

CoverInv ==
  /\ managed \subseteq 1 .. nextAttemptID
  /\ LoadInProgress => nextAttemptID \in managed
  /\ \A o \in Observers :
       /\ \A x \in Event : Announced(o, x) /\ x.kind # "snapshot_applied" => x.id \in managed
       /\ \A i \in managed : Tells(o, {"load_started"}, i)
       /\ \A i \in managed \cap DOMAIN accepted : Tells(o, Finishing, i)
       /\ \A i \in With("succeeded") : Tells(o, {"snapshot_applied"}, i)

(* A step that changes neither what is announced nor what is to be covered *)
(* keeps the cover.                                                        *)
LEMMA CoverKept ==
  ASSUME CoverInv, UNCHANGED <<nextAttemptID, accepted, managed>>,
         LoadInProgress' <=> LoadInProgress,
         \A o \in Observers : \A x : Announced(o, x)' <=> Announced(o, x)
  PROVE  CoverInv'
<1>1. With("succeeded")' = With("succeeded")
  BY DEF With
<1>2. ASSUME NEW o \in Observers, NEW kinds, NEW i, Tells(o, kinds, i)
      PROVE  Tells(o, kinds, i)'
  BY <1>2 DEF Tells
<1> QED BY <1>1, <1>2 DEF CoverInv

(* The start of a load is announced when the load is numbered.             *)
LEMMA CoverStarts ==
  ASSUME ManagerInv, CoverInv, NEW c \in Callers, ObservedStart(c)
  PROVE  CoverInv'
<1>1. PICK l \in Nat : l = Len(accepted) /\ DOMAIN accepted = 1 .. l
  BY DEF ManagerInv, BaseInv, ManagerTypeOK
<1>2. StartLoad(c) /\ managed' = managed \cup {nextAttemptID'}
  BY DEF ObservedStart
<1>3. Settled /\ ~LoadInProgress /\ LoadInProgress'
  BY <1>2, AnnouncementsFindSettled DEF ManagerInv
<1>4. nextAttemptID = l /\ nextAttemptID' = l + 1 /\ UNCHANGED <<accepted, turn, delivered>>
  BY <1>1, <1>2, <1>3 DEF ManagerInv, IDsDense, StartLoad, state
<1>5. PICK e \in Event : /\ e.kind = "load_started" /\ e.id = l + 1
                         /\ events' = [events EXCEPT ![c] = <<e>>]
  <2> DEFINE e == [kind |-> "load_started", id |-> nextAttemptID', state |-> managerState]
  <2>1. e \in Event
    BY <1>4, LifecycleStateType DEF Event, EventKinds, managerState
  <2>2. events' = [events EXCEPT ![c] = <<e>>]
    BY <1>2 DEF StartLoad
  <2>3. e.kind = "load_started" /\ e.id = l + 1
    BY <1>4
  <2> HIDE DEF e
  <2> QED BY <2>1, <2>2, <2>3
<1>6. PICK more \in Seq(Event) : more = <<e>> /\ Len(more) = 1 /\ more[1] = e
  <2>1. <<e>> \in Seq(Event) /\ Len(<<e>>) = 1 /\ <<e>>[1] = e
    OBVIOUS
  <2> QED BY <2>1
<1>7. \A x : (\E i \in 1 .. Len(more) : more[i] = x) <=> x = e
  <2>1. 1 \in 1 .. 1 /\ \A i \in 1 .. 1 : i = 1
    OBVIOUS
  <2> QED BY <1>6, <2>1
<1>8. ASSUME NEW o \in Observers, NEW x
      PROVE  Announced(o, x)' <=> Announced(o, x) \/ x = e
  <2>1. events' = [events EXCEPT ![c] = more]
    BY <1>5, <1>6
  <2>2. Announced(o, x)' <=> Announced(o, x) \/ \E i \in 1 .. Len(more) : more[i] = x
    BY <1>3, <1>4, <2>1, EventsAnnounced
  <2> QED BY <1>7, <2>2
<1>9. ASSUME NEW o \in Observers, NEW kinds, NEW i, Tells(o, kinds, i)
      PROVE  Tells(o, kinds, i)'
  BY <1>8, <1>9 DEF Tells
<1>10. \A o \in Observers : Tells(o, {"load_started"}, l + 1)'
  BY <1>5, <1>8 DEF Tells
<1>11. With("succeeded")' = With("succeeded")
  BY <1>4 DEF With
<1>12. managed' = managed \cup {l + 1} /\ l + 1 \notin DOMAIN accepted
  BY <1>1, <1>2, <1>4
<1>13. managed' \subseteq 1 .. l + 1 /\ l + 1 \in managed'
  BY <1>4, <1>12 DEF CoverInv
<1>14. ASSUME NEW o \in Observers
       PROVE  /\ \A x \in Event : Announced(o, x)' /\ x.kind # "snapshot_applied" => x.id \in managed'
              /\ \A i \in managed' : Tells(o, {"load_started"}, i)'
              /\ \A i \in managed' \cap DOMAIN accepted' : Tells(o, Finishing, i)'
              /\ \A i \in With("succeeded")' : Tells(o, {"snapshot_applied"}, i)'
  <2>1. \A x \in Event : Announced(o, x)' /\ x.kind # "snapshot_applied" => x.id \in managed'
    BY <1>5, <1>8, <1>12 DEF CoverInv
  <2>2. \A i \in managed' : Tells(o, {"load_started"}, i)'
    BY <1>9, <1>10, <1>12 DEF CoverInv
  <2>3. \A i \in managed' \cap DOMAIN accepted' : Tells(o, Finishing, i)'
    BY <1>4, <1>9, <1>12 DEF CoverInv
  <2>4. \A i \in With("succeeded")' : Tells(o, {"snapshot_applied"}, i)'
    BY <1>9, <1>11 DEF CoverInv
  <2> QED BY <2>1, <2>2, <2>3, <2>4
<1> QED BY <1>4, <1>13, <1>14 DEF CoverInv

(* What a commit makes: a result r under the next number of the log, whose *)
(* events are f if a managed load ends with it, and a if it is published.  *)
CommitMakes(c, l, r, f, a, more) ==
  /\ ValidLoadResult(r) /\ Commit(r)
  /\ r.attempt.id = l + 1 /\ nextAttemptID' = l + 1
  /\ CommitLoad(c) => nextAttemptID = l + 1
  /\ AcceptExternal(c) => nextAttemptID = l
  /\ f.kind = IF r.attempt.status = "succeeded" THEN "load_succeeded" ELSE "load_failed"
  /\ f.id = l + 1
  /\ a.kind = "snapshot_applied" /\ a.id = l + 1
  /\ events' = [events EXCEPT ![c] = more]
  /\ \A x : (\E i \in 1 .. Len(more) : more[i] = x)
              <=> \/ CommitLoad(c) /\ x = f
                  \/ r.attempt.status = "succeeded" /\ x = a

(* Both commits do.                                                       *)
LEMMA CommitAnnounces ==
  ASSUME ManagerInv, NEW c \in Callers, CommitLoad(c) \/ AcceptExternal(c),
         NEW l \in Nat, l = Len(accepted)
  PROVE  \E r \in LoadResult, f, a \in Event, more \in Seq(Event) :
           CommitMakes(c, l, r, f, a, more)
<1>1. PICK r \in LoadResult :
           /\ ValidLoadResult(r) /\ Commit(r)
           /\ r.attempt.id = l + 1 /\ nextAttemptID' = l + 1
           /\ CommitLoad(c) =>
                /\ nextAttemptID = l + 1
                /\ events' = [events EXCEPT ![c] = Finished(r) \o SnapshotApplied(r)]
           /\ AcceptExternal(c) => /\ nextAttemptID = l
                                   /\ events' = [events EXCEPT ![c] = SnapshotApplied(r)]
  BY Acceptance DEF ManagerInv
<1>2. PICK f, a \in Event :
           /\ f.kind = IF r.attempt.status = "succeeded" THEN "load_succeeded" ELSE "load_failed"
           /\ f.id = r.attempt.id /\ f.state = Applied(current, r).state
           /\ a.kind = "snapshot_applied"
           /\ a.id = r.attempt.id /\ a.state = Applied(current, r).state
           /\ Finished(r) = <<f>>
           /\ SnapshotApplied(r) = IF r.attempt.status = "succeeded" THEN <<a>> ELSE <<>>
  BY <1>1, CompletionShape DEF ManagerInv
<1>3. PICK more \in Seq(Event) :
           /\ events' = [events EXCEPT ![c] = more]
           /\ \A x : (\E i \in 1 .. Len(more) : more[i] = x)
                       <=> \/ CommitLoad(c) /\ x = f
                           \/ r.attempt.status = "succeeded" /\ x = a
  <2>1. /\ \A i \in 1 .. 1 : i = 1
        /\ \A i \in 1 .. 2 : i = 1 \/ i = 2
        /\ 1 \in 1 .. 1 /\ 1 \in 1 .. 2 /\ 2 \in 1 .. 2
    OBVIOUS
  <2>2. ~(CommitLoad(c) /\ AcceptExternal(c))
    BY DEF CommitLoad, AcceptExternal
  <2>3. CASE CommitLoad(c) /\ r.attempt.status = "succeeded"
    <3>1. PICK more \in Seq(Event) : /\ more = <<f>> \o <<a>> /\ Len(more) = 2
                                     /\ more[1] = f /\ more[2] = a
      <4>1. /\ <<f>> \o <<a>> \in Seq(Event) /\ Len(<<f>> \o <<a>>) = 2
            /\ (<<f>> \o <<a>>)[1] = f /\ (<<f>> \o <<a>>)[2] = a
        OBVIOUS
      <4> QED BY <4>1
    <3>2. events' = [events EXCEPT ![c] = more]
      BY <1>1, <1>2, <2>3, <3>1
    <3> QED BY <2>1, <2>3, <3>1, <3>2
  <2>4. CASE CommitLoad(c) /\ r.attempt.status = "failed"
    <3>1. PICK more \in Seq(Event) : more = <<f>> \o <<>> /\ Len(more) = 1 /\ more[1] = f
      <4>1. <<f>> \o <<>> \in Seq(Event) /\ Len(<<f>> \o <<>>) = 1 /\ (<<f>> \o <<>>)[1] = f
        OBVIOUS
      <4> QED BY <4>1
    <3>2. events' = [events EXCEPT ![c] = more]
      BY <1>1, <1>2, <2>4, <3>1
    <3> QED BY <2>1, <2>4, <3>1, <3>2
  <2>5. CASE AcceptExternal(c) /\ r.attempt.status = "succeeded"
    <3>1. PICK more \in Seq(Event) : more = <<a>> /\ Len(more) = 1 /\ more[1] = a
      <4>1. <<a>> \in Seq(Event) /\ Len(<<a>>) = 1 /\ <<a>>[1] = a
        OBVIOUS
      <4> QED BY <4>1
    <3>2. events' = [events EXCEPT ![c] = more]
      BY <1>1, <1>2, <2>5, <3>1
    <3> QED BY <2>1, <2>2, <2>5, <3>1, <3>2
  <2>6. CASE AcceptExternal(c) /\ r.attempt.status = "failed"
    <3>1. PICK more \in Seq(Event) : more = <<>> /\ 1 .. Len(more) = {}
      <4>1. <<>> \in Seq(Event) /\ 1 .. Len(<<>>) = {}
        OBVIOUS
      <4> QED BY <4>1
    <3>2. events' = [events EXCEPT ![c] = more]
      BY <1>1, <1>2, <2>6, <3>1
    <3> QED BY <2>2, <2>6, <3>1, <3>2
  <2> QED BY <1>1, <2>3, <2>4, <2>5, <2>6 DEF ValidLoadResult
<1>4. f.id = l + 1 /\ a.id = l + 1
  BY <1>1, <1>2
<1>5. CommitMakes(c, l, r, f, a, more)
  BY <1>1, <1>2, <1>3, <1>4 DEF CommitMakes
<1> QED BY <1>5

(* The end of a load and a publication are announced when the result is    *)
(* accepted, and a result from elsewhere is not that of a managed load.    *)
LEMMA CoverCommits ==
  ASSUME ManagerInv, CoverInv, NEW c \in Callers, ObservedCommit(c)
  PROVE  CoverInv'
<1>1. PICK l \in Nat : l = Len(accepted) /\ DOMAIN accepted = 1 .. l
  BY DEF ManagerInv, BaseInv, ManagerTypeOK
<1>2. (CommitLoad(c) \/ AcceptExternal(c)) /\ UNCHANGED managed
  BY DEF ObservedCommit
<1>3. Settled /\ ~LoadInProgress' /\ (CommitLoad(c) => LoadInProgress)
  BY <1>2, AnnouncementsFindSettled DEF ManagerInv
<1>4. UNCHANGED <<turn, delivered>>
  BY <1>2 DEF CommitLoad, AcceptExternal
<1>5. PICK r \in LoadResult, f, a \in Event, more \in Seq(Event) :
           CommitMakes(c, l, r, f, a, more)
  BY <1>1, <1>2, CommitAnnounces
<1>6. /\ Commit(r) /\ nextAttemptID' = l + 1
      /\ CommitLoad(c) => nextAttemptID = l + 1
      /\ AcceptExternal(c) => nextAttemptID = l
  BY <1>5 DEF CommitMakes
<1>7. /\ f.kind = (IF r.attempt.status = "succeeded" THEN "load_succeeded" ELSE "load_failed")
      /\ f.id = l + 1
      /\ a.kind = "snapshot_applied" /\ a.id = l + 1
  BY <1>5 DEF CommitMakes
<1>8. ASSUME NEW o \in Observers, NEW x
      PROVE  Announced(o, x)' <=> \/ Announced(o, x)
                                  \/ CommitLoad(c) /\ x = f
                                  \/ r.attempt.status = "succeeded" /\ x = a
  <2>1. events' = [events EXCEPT ![c] = more]
    BY <1>5 DEF CommitMakes
  <2>2. Announced(o, x)' <=> Announced(o, x) \/ \E i \in 1 .. Len(more) : more[i] = x
    BY <1>3, <1>4, <2>1, EventsAnnounced
  <2> QED BY <1>5, <2>2 DEF CommitMakes
<1>9. ASSUME NEW o \in Observers, NEW kinds, NEW i, Tells(o, kinds, i)
      PROVE  Tells(o, kinds, i)'
  BY <1>8, <1>9 DEF Tells
<1>10. /\ DOMAIN accepted' = 1 .. l + 1 /\ accepted'[l + 1] = r
       /\ \A i \in 1 .. l : accepted'[i] = accepted[i]
  BY <1>1, <1>6, AppendedLog DEF ManagerInv
<1>11. managed' = managed /\ (l + 1 \in managed <=> CommitLoad(c)) /\ managed \subseteq 1 .. l + 1
  <2>1. CASE CommitLoad(c)
    BY <1>2, <1>3, <1>6, <2>1 DEF CoverInv
  <2>2. CASE AcceptExternal(c)
    <3>1. managed \subseteq 1 .. l /\ ~CommitLoad(c)
      BY <1>6, <2>2 DEF CoverInv, CommitLoad, AcceptExternal
    <3> QED BY <1>2, <3>1
  <2> QED BY <1>2, <2>1, <2>2
<1>12. \A i \in With("succeeded")' : i \in With("succeeded")
                                      \/ (i = l + 1 /\ r.attempt.status = "succeeded")
  BY <1>1, <1>10 DEF With
<1>13. \A i \in 1 .. l + 1 : i \in 1 .. l \/ i = l + 1
  OBVIOUS
<1>14. ASSUME NEW o \in Observers
       PROVE  /\ \A x \in Event : Announced(o, x)' /\ x.kind # "snapshot_applied" => x.id \in managed'
              /\ \A i \in managed' : Tells(o, {"load_started"}, i)'
              /\ \A i \in managed' \cap DOMAIN accepted' : Tells(o, Finishing, i)'
              /\ \A i \in With("succeeded")' : Tells(o, {"snapshot_applied"}, i)'
  <2>1. \A x \in Event : Announced(o, x)' /\ x.kind # "snapshot_applied" => x.id \in managed'
    BY <1>7, <1>8, <1>11 DEF CoverInv
  <2>2. \A i \in managed' : Tells(o, {"load_started"}, i)'
    BY <1>9, <1>11 DEF CoverInv
  <2>3. CommitLoad(c) => Tells(o, Finishing, l + 1)'
    BY <1>7, <1>8 DEF Tells, Finishing
  <2>4. \A i \in managed' \cap DOMAIN accepted' : Tells(o, Finishing, i)'
    BY <1>1, <1>9, <1>10, <1>11, <1>13, <2>3 DEF CoverInv
  <2>5. r.attempt.status = "succeeded" => Tells(o, {"snapshot_applied"}, l + 1)'
    BY <1>7, <1>8 DEF Tells
  <2>6. \A i \in With("succeeded")' : Tells(o, {"snapshot_applied"}, i)'
    BY <1>9, <1>12, <2>5 DEF CoverInv
  <2> QED BY <2>1, <2>2, <2>4, <2>6
<1> QED BY <1>3, <1>6, <1>11, <1>14 DEF CoverInv

(* A quiet step of the manager, as seen by the observers.                  *)
LEMMA UnobservedKeeps ==
  ASSUME BaseInv, NEW c \in Callers, Unobserved(c)
  PROVE  /\ UNCHANGED <<nextAttemptID, accepted, events, turn, delivered, about, counters, spans,
                        managed>>
         /\ LoadInProgress' <=> LoadInProgress
<1>1. Quiet(c) /\ UNCHANGED otelVars
  BY DEF Unobserved, Quiet
<1>2. UNCHANGED <<events, turn, delivered>>
  BY DEF Unobserved, CallLoad, CallApply, Acquire, CancelCall, callVars, ReturnRefused, RunLoad,
         RejectExternal, Return
<1>3. /\ UNCHANGED <<nextAttemptID, accepted>>
      /\ \A d \in Callers : phase'[d] \in {"started", "loaded"} <=> phase[d] \in {"started", "loaded"}
  BY <1>1, QuietKeeps DEF state
<1> QED BY <1>1, <1>2, <1>3 DEF LoadInProgress, otelVars

(* Every step keeps the cover.                                             *)
LEMMA CoverInductive ==
  ASSUME ManagerInv, CoverInv, [OTelNext]_<<vars, otelVars>>
  PROVE  CoverInv'
<1>1. CASE UNCHANGED <<vars, otelVars>>
  BY <1>1, CoverKept DEF vars, otelVars, state, callVars, LoadInProgress, Announced, Pending
<1>2. ASSUME NEW c \in Callers, ObservedDelivery(c)
      PROVE  CoverInv'
  <2>1. Deliver(c) /\ UNCHANGED <<nextAttemptID, accepted, managed, phase>>
    BY <1>2 DEF ObservedDelivery, Deliver, state
  <2>2. \A o \in Observers : \A x : Announced(o, x)' <=> Announced(o, x)
    BY <2>1, DeliveryAnnounces DEF ManagerInv
  <2> QED BY <2>1, <2>2, CoverKept DEF LoadInProgress
<1>3. ASSUME NEW c \in Callers, Unobserved(c)
      PROVE  CoverInv'
  <2>1. /\ UNCHANGED <<nextAttemptID, accepted, managed, events, turn, delivered>>
        /\ LoadInProgress' <=> LoadInProgress
    BY <1>3, UnobservedKeeps DEF ManagerInv
  <2> QED BY <2>1, CoverKept DEF Announced, Pending
<1> QED BY <1>1, <1>2, <1>3, CoverStarts, CoverCommits DEF OTelNext

(***************************************************************************)
(* What an event points to: the attempt is in the log, and the apply       *)
(* result says what became of it there.                                    *)
(***************************************************************************)
Changed(i) == ChecksumBefore(i) # {accepted[i].snapshot.checksum}

AboutTrue(a, e) ==
  IF e.kind = "load_started" THEN a = Nil
  ELSE /\ a \in [attempt : AttemptRecord, apply : ApplyResult]
       /\ a.attempt = accepted[e.id].attempt
       /\ a.apply.published <=> accepted[e.id].attempt.status = "succeeded"
       /\ a.apply.published => a.apply.current = accepted[e.id].snapshot
       /\ a.apply.changed <=> a.apply.published /\ Changed(e.id)

AboutInv ==
  /\ DOMAIN about = Callers
  /\ about = [c \in Callers |-> about[c]]
  /\ \A c \in Callers : \A i \in 1 .. Len(events[c]) : AboutTrue(about[c], events[c][i])

(* The checksum published before an entry stays what it was.               *)
LEMMA ChecksumKept ==
  ASSUME BaseInv, BaseInv', LogGrows, NEW n \in 1 .. Len(accepted) + 1
  PROVE  ChecksumBefore(n)' = ChecksumBefore(n)
<1>1. PICK l \in Nat : l = Len(accepted) /\ DOMAIN accepted = 1 .. l
  BY DEF BaseInv, ManagerTypeOK
<1>2. DOMAIN accepted' \subseteq Nat
  BY DEF BaseInv, ManagerTypeOK
<1>3. \A j : j < n /\ j \in DOMAIN accepted' => j \in DOMAIN accepted
  <2>1. DOMAIN accepted' = 1 .. Len(accepted') /\ Len(accepted') \in Nat
    BY DEF BaseInv, ManagerTypeOK
  <2> QED BY <1>1, <2>1
<1>4. \A j : j < n => (j \in With("succeeded")' <=> j \in With("succeeded"))
  BY <1>3 DEF With, LogGrows
<1> DEFINE last  == {j \in With("succeeded") : j < n /\ ~\E k \in With("succeeded") : j < k /\ k < n}
           last2 == {j \in With("succeeded")' :
                       j < n /\ ~\E k \in With("succeeded")' : j < k /\ k < n}
<1>5. last2 = last
  BY <1>4
<1>6. \A j \in last : accepted'[j] = accepted[j]
  BY DEF With, LogGrows
<1>7. ChecksumBefore(n) = {accepted[j].snapshot.checksum : j \in last}
  BY DEF ChecksumBefore
<1>8. ChecksumBefore(n)' = {accepted'[j].snapshot.checksum : j \in last2}
  BY DEF ChecksumBefore
<1> HIDE DEF last, last2
<1> QED BY <1>5, <1>6, <1>7, <1>8

(* The checksum published before the next entry is that of what is current.*)
LEMMA ChecksumNow ==
  ASSUME BaseInv, LogValid, StatusFollowsLog
  PROVE  ChecksumBefore(Len(accepted) + 1) = IF current = Nil THEN {} ELSE {current.checksum}
<1>1. PICK l \in Nat : l = Len(accepted) /\ DOMAIN accepted = 1 .. l
  BY DEF BaseInv, ManagerTypeOK
<1> DEFINE last == {j \in With("succeeded") : j < l + 1 /\ ~\E k \in With("succeeded") : j < k /\ k < l + 1}
<1>2. ChecksumBefore(l + 1) = {accepted[j].snapshot.checksum : j \in last}
  BY DEF ChecksumBefore
<1>3. CASE NoneWith("succeeded") /\ current = Nil
  <2>1. last = {}
    BY <1>3 DEF NoneWith, With
  <2> QED BY <1>1, <1>2, <1>3, <2>1
<1>4. ASSUME NEW i \in DOMAIN accepted, LatestWith(i, "succeeded"), current = accepted[i].snapshot
      PROVE  ChecksumBefore(l + 1) = {current.checksum} /\ current # Nil
  <2>1. accepted[i].attempt.status = "succeeded" /\ ValidLoadResult(accepted[i])
    BY <1>4 DEF LatestWith, LogValid
  <2>2. current # Nil
    BY <1>4, <2>1 DEF ValidLoadResult, ValidSucceeded
  <2>3. i \in last
    BY <1>1, <1>4, <2>1 DEF LatestWith, With
  <2>4. \A j \in last : j = i
    BY <1>1, <1>4, <2>1 DEF LatestWith, With
  <2>5. last = {i}
    BY <2>3, <2>4
  <2> QED BY <1>2, <1>4, <2>2, <2>5
<1> QED BY <1>1, <1>3, <1>4 DEF StatusFollowsLog

(* The events of a start point to nothing, as no attempt is recorded yet.  *)
LEMMA AboutStarts ==
  ASSUME ManagerInv, AboutInv, NEW c \in Callers, ObservedStart(c)
  PROVE  AboutInv'
<1>1. StartLoad(c) /\ about' = [about EXCEPT ![c] = Nil]
  BY DEF ObservedStart
<1>2. Settled
  BY <1>1, AnnouncementsFindSettled DEF ManagerInv
<1>3. PICK e : e.kind = "load_started" /\ events' = [events EXCEPT ![c] = <<e>>]
  BY <1>1 DEF StartLoad
<1>4. events'[c] = <<e>> /\ \A d \in Callers \ {c} : events'[d] = <<>>
  BY <1>2, <1>3 DEF Settled, ManagerInv, BaseInv, ManagerTypeOK
<1>5. about' = [d \in Callers |-> about'[d]] /\ DOMAIN about' = Callers /\ about'[c] = Nil
  BY <1>1 DEF AboutInv
<1>6. \A i \in 1 .. Len(events'[c]) : AboutTrue(about[c], events[c][i])'
  <2>1. \A i \in 1 .. Len(<<e>>) : <<e>>[i] = e
    OBVIOUS
  <2> QED BY <1>3, <1>4, <1>5, <2>1 DEF AboutTrue
<1>7. \A d \in Callers \ {c} : \A i \in 1 .. Len(events'[d]) : FALSE
  BY <1>4
<1> QED BY <1>5, <1>6, <1>7 DEF AboutInv

(* The events of a commit point to what was committed.                     *)
LEMMA AboutCommits ==
  ASSUME ManagerInv, AboutInv, BaseInv', NEW c \in Callers, ObservedCommit(c)
  PROVE  AboutInv'
<1>1. PICK l \in Nat : l = Len(accepted) /\ DOMAIN accepted = 1 .. l
  BY DEF ManagerInv, BaseInv, ManagerTypeOK
<1>2. /\ CommitLoad(c) \/ AcceptExternal(c)
      /\ about' = [about EXCEPT ![c] = [attempt |-> lastAttempt', apply |-> lastApply']]
  BY DEF ObservedCommit
<1>3. Settled
  BY <1>2, AnnouncementsFindSettled DEF ManagerInv
<1>4. LogGrows
  <2>1. ManagerNext
    BY <1>2 DEF ManagerNext, Work
  <2> QED BY <2>1, ManagerStepGrowsLog DEF ManagerInv
<1>5. PICK r \in LoadResult, f, a \in Event, more \in Seq(Event) :
           CommitMakes(c, l, r, f, a, more)
  BY <1>1, <1>2, CommitAnnounces
<1>6. ValidLoadResult(r) /\ Commit(r) /\ events' = [events EXCEPT ![c] = more]
  BY <1>5 DEF CommitMakes
<1>7. /\ DOMAIN accepted' = 1 .. l + 1 /\ accepted'[l + 1] = r
      /\ lastAttempt' = r.attempt /\ lastApply' = Applied(current, r)
  BY <1>1, <1>6, AppendedLog, CommitEffect DEF ManagerInv
<1>8. PICK b \in [attempt : AttemptRecord, apply : ApplyResult] :
           b = about'[c] /\ b.attempt = r.attempt /\ b.apply = Applied(current, r)
  <2>1. r.attempt \in AttemptRecord /\ Applied(current, r) \in ApplyResult
    BY AppliedType DEF LoadResult, ManagerInv, BaseInv, ManagerTypeOK
  <2>2. about'[c] = [attempt |-> r.attempt, apply |-> Applied(current, r)]
    BY <1>2, <1>7 DEF AboutInv
  <2> QED BY <2>1, <2>2
<1>9. /\ b.apply.published <=> r.attempt.status = "succeeded"
      /\ b.apply.published => b.apply.current = r.snapshot
      /\ b.apply.changed <=> /\ b.apply.published
                             /\ current # Nil => current.checksum # r.snapshot.checksum
  <2> DEFINE published == r.attempt.status = "succeeded" /\ r.snapshot # Nil
             changed   == published /\ (current # Nil => current.checksum # r.snapshot.checksum)
             after     == IF published THEN r.snapshot ELSE current
  <2>1. published <=> r.attempt.status = "succeeded"
    BY <1>6 DEF ValidLoadResult, ValidSucceeded
  <2>2. /\ Applied(current, r).published = published
        /\ Applied(current, r).changed = changed
        /\ Applied(current, r).current = after
    BY Zenon DEF Applied
  <2>3. /\ b.apply.published = published
        /\ b.apply.changed = changed
        /\ b.apply.current = after
    BY <1>8, <2>2, Zenon
  <2> QED BY <2>1, <2>3
<1>10. Changed(l + 1)' <=> (current # Nil => current.checksum # r.snapshot.checksum)
  <2>1. ChecksumBefore(l + 1)' = ChecksumBefore(l + 1)
    BY <1>1, <1>4, ChecksumKept DEF ManagerInv
  <2>2. ChecksumBefore(l + 1) = IF current = Nil THEN {} ELSE {current.checksum}
    BY <1>1, ChecksumNow DEF ManagerInv
  <2> QED BY <1>7, <2>1, <2>2 DEF Changed
<1>11. ASSUME NEW i \in 1 .. Len(more) PROVE AboutTrue(b, more[i])'
  <2>1. more[i].kind # "load_started" /\ more[i].id = l + 1
    BY <1>5 DEF CommitMakes
  <2> QED BY <1>7, <1>8, <1>9, <1>10, <2>1 DEF AboutTrue
<1>12. events'[c] = more /\ \A d \in Callers \ {c} : events'[d] = <<>>
  BY <1>3, <1>6 DEF Settled, ManagerInv, BaseInv, ManagerTypeOK
<1>13. about' = [d \in Callers |-> about'[d]] /\ DOMAIN about' = Callers
  BY <1>2 DEF AboutInv
<1>14. \A d \in Callers \ {c} : \A i \in 1 .. Len(events'[d]) : FALSE
  BY <1>12
<1> QED BY <1>8, <1>11, <1>12, <1>13, <1>14 DEF AboutInv

(* Every step keeps what the events point to.                              *)
LEMMA AboutInductive ==
  ASSUME ManagerInv, AboutInv, BaseInv', [OTelNext]_<<vars, otelVars>>
  PROVE  AboutInv'
<1>1. ASSUME UNCHANGED <<about, accepted>>,
             \A d \in Callers : \A i \in 1 .. Len(events'[d]) :
               \E j \in 1 .. Len(events[d]) : events'[d][i] = events[d][j]
      PROVE  AboutInv'
  <2>1. ASSUME NEW a, NEW e, AboutTrue(a, e) PROVE AboutTrue(a, e)'
    <3>1. accepted' = accepted
      BY <1>1
    <3>2. With("succeeded")' = With("succeeded")
      BY <3>1, Zenon DEF With
    <3>3. ChecksumBefore(e.id)' = ChecksumBefore(e.id)
      BY <3>1, <3>2, Zenon DEF ChecksumBefore
    <3>4. Changed(e.id)' <=> Changed(e.id)
      BY <3>1, <3>3, Zenon DEF Changed
    <3> QED BY <2>1, <3>1, <3>4, Zenon DEF AboutTrue
  <2>2. ASSUME NEW d \in Callers, NEW i \in 1 .. Len(events'[d])
        PROVE  AboutTrue(about[d], events[d][i])'
    <3>1. PICK j \in 1 .. Len(events[d]) : events'[d][i] = events[d][j]
      BY <1>1, <2>2
    <3>2. PICK a, e : a = about[d] /\ e = events[d][j]
      OBVIOUS
    <3>3. AboutTrue(a, e)'
      BY <2>1, <3>2 DEF AboutInv
    <3>4. about'[d] = a /\ events'[d][i] = e
      BY <1>1, <3>1, <3>2
    <3> QED BY <3>3, <3>4
  <2> QED BY <1>1, <2>2 DEF AboutInv
<1>2. CASE UNCHANGED <<vars, otelVars>>
  BY <1>1, <1>2 DEF vars, otelVars, state, callVars
<1>3. ASSUME NEW c \in Callers, Unobserved(c)
      PROVE  AboutInv'
  BY <1>1, <1>3, UnobservedKeeps DEF ManagerInv
<1>4. ASSUME NEW c \in Callers, ObservedDelivery(c)
      PROVE  AboutInv'
  <2>1. Deliver(c) /\ UNCHANGED <<about, accepted>>
    BY <1>4 DEF ObservedDelivery, Deliver, state
  <2>2. ASSUME NEW d \in Callers, NEW i \in 1 .. Len(events'[d])
        PROVE  \E j \in 1 .. Len(events[d]) : events'[d][i] = events[d][j]
    <3>1. events[d] \in Seq(Event)
      BY DEF ManagerInv, BaseInv, ManagerTypeOK
    <3>2. events'[d] = events[d] \/ (events[d] # <<>> /\ events'[d] = Tail(events[d]))
      <4>1. events[c] # <<>>
        BY <2>1, Zenon DEF Deliver
      <4>2. events' = events \/ events' = [events EXCEPT ![c] = Tail(events[c])]
        BY <2>1, Zenon DEF Deliver
      <4>3. events \in [Callers -> Seq(Event)]
        BY Zenon DEF ManagerInv, BaseInv, ManagerTypeOK
      <4>4. ASSUME events' = [events EXCEPT ![c] = Tail(events[c])]
            PROVE  events'[d] = IF d = c THEN Tail(events[c]) ELSE events[d]
        BY <4>3, <4>4
      <4> QED BY <4>1, <4>2, <4>4, Zenon
    <3>3. CASE events'[d] = events[d]
      BY <2>2, <3>3
    <3>4. CASE events[d] # <<>> /\ events'[d] = Tail(events[d])
      <4>1. PICK n \in Nat : n = Len(events[d]) /\ n >= 1
        BY <3>1, <3>4
      <4>2. Len(Tail(events[d])) = n - 1 /\ \A j \in 1 .. n - 1 : Tail(events[d])[j] = events[d][j + 1]
        BY <3>1, <3>4, <4>1
      <4>3. i \in 1 .. n - 1 /\ i + 1 \in 1 .. n
        BY <2>2, <3>4, <4>1, <4>2
      <4> QED BY <3>4, <4>1, <4>2, <4>3
    <3> QED BY <3>2, <3>3, <3>4
  <2> QED BY <1>1, <2>1, <2>2
<1> QED BY <1>2, <1>3, <1>4, AboutStarts, AboutCommits DEF OTelNext

(***************************************************************************)
(* What an observer has heard.                                             *)
(***************************************************************************)
HeardIDs(o, kinds) ==
  {delivered[o][i].id : i \in {j \in 1 .. Len(delivered[o]) : delivered[o][j].kind \in kinds}}

HeardInOrder ==
  \A o \in Observers : \A i, j \in 1 .. Len(delivered[o]) :
    i < j => Before(delivered[o][i], delivered[o][j])

(* A longer sequence.                                                      *)
LEMMA OneMore ==
  ASSUME NEW S, NEW s \in Seq(S), NEW x \in S, NEW n \in Nat, n = Len(s)
  PROVE  /\ Append(s, x) \in Seq(S) /\ s \o <<x>> = Append(s, x)
         /\ Len(Append(s, x)) = n + 1 /\ DOMAIN Append(s, x) = 1 .. n + 1
         /\ Append(s, x)[n + 1] = x
         /\ \A i \in 1 .. n : Append(s, x)[i] = s[i]
         /\ n + 1 \in 1 .. n + 1 /\ 1 .. n + 1 = (1 .. n) \cup {n + 1}
OBVIOUS

(* After a step too, what was heard first comes first.                     *)
LEMMA HeardInOrderNext == ManagerInv' => HeardInOrder'
<1>1. ManagerInv => HeardInOrder
  BY StoryTold DEF HeardInOrder
<1> QED BY <1>1, PTL

(* A delivery tells one observer something true, later than all it heard.  *)
LEMMA Hearing ==
  ASSUME ManagerInv, ManagerInv', AboutInv, NEW c \in Callers, ObservedDelivery(c),
         NEW o \in Observers
  PROVE  \E e \in Event, d \in Seq(Event) :
           /\ e = Head(events[c]) /\ EventTrue(e) /\ AboutTrue(about[c], e)
           /\ d = delivered[o]
           /\ delivered'[o] = IF turn[c] = o THEN Append(d, e) ELSE d
           /\ turn[c] = o => \A i \in 1 .. Len(d) : Before(d[i], e)
<1>1. /\ events \in [Callers -> Seq(Event)] /\ turn \in [Callers -> Observers]
      /\ delivered \in [Observers -> Seq(Event)]
  BY DEF ManagerInv, BaseInv, ManagerTypeOK
<1>2. /\ events[c] # <<>>
      /\ delivered' = [delivered EXCEPT ![turn[c]] = Append(@, Head(events[c]))]
  BY DEF ObservedDelivery, Deliver
<1>3. 1 \in 1 .. Len(events[c]) /\ Head(events[c]) = events[c][1] /\ Head(events[c]) \in Event
  <2>1. events[c] \in Seq(Event)
    BY <1>1
  <2> QED BY <1>2, <2>1
<1>4. PICK e \in Event : e = Head(events[c]) /\ e = events[c][1]
  BY <1>3
<1>5. EventTrue(e)
  BY <1>3, <1>4, StoryTold
<1>6. AboutTrue(about[c], e)
  BY <1>3, <1>4 DEF AboutInv
<1>7. PICK d \in Seq(Event) : d = delivered[o]
  BY <1>1
<1>8. delivered'[o] = IF turn[c] = o THEN Append(d, e) ELSE d
  BY <1>1, <1>2, <1>4, <1>7
<1>9. ASSUME turn[c] = o, NEW i \in 1 .. Len(d) PROVE Before(d[i], e)
  <2>1. PICK n \in Nat : n = Len(d)
    BY <1>7
  <2>2. /\ Len(Append(d, e)) = n + 1 /\ Append(d, e)[n + 1] = e /\ Append(d, e)[i] = d[i]
        /\ i \in 1 .. n + 1 /\ n + 1 \in 1 .. n + 1 /\ i < n + 1
    BY <1>9, <2>1
  <2>3. HeardInOrder'
    BY HeardInOrderNext
  <2>4. PICK next : next = Append(d, e)
    OBVIOUS
  <2>5. delivered'[o] = next /\ Len(next) = n + 1
    BY <1>8, <1>9, <2>2, <2>4
  <2>6. \A a, b \in 1 .. Len(delivered'[o]) :
          a < b => Before(delivered'[o][a], delivered'[o][b])
    BY <2>3, Zenon DEF HeardInOrder, Before
  <2>7. \A a, b \in 1 .. n + 1 : a < b => Before(next[a], next[b])
    BY <2>5, <2>6, Zenon
  <2>8. Before(next[i], next[n + 1])
    BY <2>2, <2>7, Zenon
  <2> QED BY <2>2, <2>4, <2>8, Zenon
<1> QED BY <1>4, <1>5, <1>6, <1>7, <1>8, <1>9

(* When no event is under way, everybody has heard everything.             *)
LEMMA HeardWhenSettled ==
  ASSUME ManagerInv, CoverInv, Settled, NEW o \in Observers
  PROVE  /\ HeardIDs(o, {"load_started"}) = managed
         /\ HeardIDs(o, Finishing) = managed \cap DOMAIN accepted
         /\ HeardIDs(o, {"load_failed"}) = With("failed") \cap managed
         /\ HeardIDs(o, {"snapshot_applied"}) = With("succeeded")
<1>1. \A x : Announced(o, x) <=> \E i \in 1 .. Len(delivered[o]) : delivered[o][i] = x
  <2>1. \A d \in Callers : events[d] = <<>>
    BY DEF Settled
  <2>2. \A i \in 1 .. Len(<<>>) : FALSE
    OBVIOUS
  <2> QED BY <2>1, <2>2 DEF Announced
<1>2. \A i \in 1 .. Len(delivered[o]) : delivered[o][i] \in Event /\ EventTrue(delivered[o][i])
  BY StoryTold
<1>3. ASSUME NEW kinds, NEW i
      PROVE  i \in HeardIDs(o, kinds) <=> Tells(o, kinds, i)
  BY <1>1, <1>2 DEF HeardIDs, Tells
<1>4. ASSUME NEW x \in Event, Announced(o, x)
      PROVE  EventTrue(x) /\ (x.kind # "snapshot_applied" => x.id \in managed)
  BY <1>1, <1>2, <1>4 DEF CoverInv
<1>5. PICK l \in Nat : l = Len(accepted) /\ DOMAIN accepted = 1 .. l
  BY DEF ManagerInv, BaseInv, ManagerTypeOK
<1>6. HeardIDs(o, {"load_started"}) = managed
  <2>1. \A i \in managed : Tells(o, {"load_started"}, i)
    BY DEF CoverInv
  <2>2. \A i : Tells(o, {"load_started"}, i) => i \in managed
    BY <1>4 DEF Tells
  <2> QED BY <1>3, <2>1, <2>2
<1>7. HeardIDs(o, Finishing) = managed \cap DOMAIN accepted
  <2>1. \A i \in managed \cap DOMAIN accepted : Tells(o, Finishing, i)
    BY DEF CoverInv
  <2>2. \A i : Tells(o, Finishing, i) => i \in managed \cap DOMAIN accepted
    BY <1>4, <1>5 DEF Tells, Finishing, EventTrue
  <2> QED BY <1>3, <2>1, <2>2
<1>8. HeardIDs(o, {"load_failed"}) = With("failed") \cap managed
  <2>1. ASSUME NEW i \in With("failed") \cap managed PROVE Tells(o, {"load_failed"}, i)
    <3>1. i \in managed \cap DOMAIN accepted /\ accepted[i].attempt.status = "failed"
      BY DEF With
    <3>2. PICK x \in Event : Announced(o, x) /\ x.kind \in Finishing /\ x.id = i
      BY <3>1 DEF CoverInv, Tells
    <3>3. x.kind # "load_succeeded"
      BY <1>4, <3>1, <3>2 DEF EventTrue
    <3> QED BY <3>2, <3>3 DEF Tells, Finishing
  <2>2. \A i : Tells(o, {"load_failed"}, i) => i \in With("failed") \cap managed
    BY <1>4, <1>5 DEF Tells, EventTrue, With
  <2> QED BY <1>3, <2>1, <2>2
<1>9. HeardIDs(o, {"snapshot_applied"}) = With("succeeded")
  <2>1. \A i \in With("succeeded") : Tells(o, {"snapshot_applied"}, i)
    BY DEF CoverInv
  <2>2. \A i : Tells(o, {"snapshot_applied"}, i) => i \in With("succeeded")
    BY <1>4, <1>5 DEF Tells, EventTrue, With
  <2> QED BY <1>3, <2>1, <2>2
<1> QED BY <1>6, <1>7, <1>8, <1>9

(***************************************************************************)
(* The spans: one for each event that the observer has heard, but for the  *)
(* starts, in the order of what they tell.                                 *)
(***************************************************************************)
SpanRecord == [name : {"load", "apply"}, id : Nat, ok : BOOLEAN]

SpanOf(e) == Span(IF e.kind = "snapshot_applied" THEN "apply" ELSE "load",
                  e.id, e.kind # "load_failed")

SpanBefore(a, b) == a.id < b.id \/ (a.id = b.id /\ a.name = "load" /\ b.name = "apply")

SpansInv ==
  /\ spans \in Seq(SpanRecord)
  /\ \A n \in 1 .. Len(spans) : \E i \in 1 .. Len(delivered[OTel]) :
       delivered[OTel][i].kind # "load_started" /\ spans[n] = SpanOf(delivered[OTel][i])
  /\ \A i \in 1 .. Len(delivered[OTel]) : delivered[OTel][i].kind # "load_started" =>
       \E n \in 1 .. Len(spans) : spans[n] = SpanOf(delivered[OTel][i])
  /\ \A m, n \in 1 .. Len(spans) : m < n => SpanBefore(spans[m], spans[n])

(* A span ends with every event but the start of a load.                   *)
LEMMA EndedSpan ==
  ASSUME NEW e \in Event
  PROVE  /\ Ended(e) = IF e.kind = "load_started" THEN <<>> ELSE <<SpanOf(e)>>
         /\ SpanOf(e) \in SpanRecord
         /\ \A f \in Event : /\ Before(f, e) /\ f.kind # "load_started" /\ e.kind # "load_started"
                             => SpanBefore(SpanOf(f), SpanOf(e))
<1>1. e.kind \in EventKinds /\ e.id \in Nat
  BY DEF Event
<1>2. Ended(e) = IF e.kind = "load_started" THEN <<>> ELSE <<SpanOf(e)>>
  BY <1>1 DEF EventKinds, Ended, SpanOf
<1>3. SpanOf(e) \in SpanRecord
  BY <1>1 DEF SpanOf, Span, SpanRecord
<1>4. ASSUME NEW f \in Event, Before(f, e), f.kind # "load_started", e.kind # "load_started"
      PROVE  SpanBefore(SpanOf(f), SpanOf(e))
  <2>1. f.kind \in EventKinds
    BY DEF Event
  <2> QED BY <1>1, <1>4, <2>1 DEF EventKinds, Before, Rank, SpanBefore, SpanOf, Span
<1> QED BY <1>2, <1>3, <1>4

(* What the observer hears makes its span.                                 *)
LEMMA SpansHear ==
  ASSUME ManagerInv, ManagerInv', AboutInv, SpansInv, NEW c \in Callers, ObservedDelivery(c)
  PROVE  SpansInv'
<1>1. PICK e \in Event, d \in Seq(Event) :
           /\ e = Head(events[c]) /\ EventTrue(e) /\ AboutTrue(about[c], e)
           /\ d = delivered[OTel]
           /\ delivered'[OTel] = IF turn[c] = OTel THEN Append(d, e) ELSE d
           /\ turn[c] = OTel => \A i \in 1 .. Len(d) : Before(d[i], e)
  BY Hearing, OTelAssumption
<1>2. PICK k \in Nat : k = Len(d) /\ \A i \in 1 .. k : d[i] \in Event
  BY <1>1
<1>3. PICK m \in Nat : m = Len(spans)
  BY DEF SpansInv
<1>4. CASE turn[c] # OTel
  <2>1. spans' = spans /\ delivered'[OTel] = delivered[OTel]
    BY <1>1, <1>4 DEF ObservedDelivery
  <2> QED BY <2>1 DEF SpansInv
<1>5. ASSUME turn[c] = OTel
      PROVE  /\ spans' = spans \o Ended(e) /\ delivered'[OTel] = Append(d, e)
             /\ Len(Append(d, e)) = k + 1 /\ Append(d, e)[k + 1] = e /\ k + 1 \in 1 .. k + 1
             /\ 1 .. k + 1 = (1 .. k) \cup {k + 1}
             /\ \A i \in 1 .. k : Append(d, e)[i] = d[i] /\ Before(d[i], e)
  <2>1. spans' = spans \o Ended(e)
    BY <1>1, <1>5 DEF ObservedDelivery, Observe
  <2> QED BY <1>1, <1>2, <1>5, <2>1, OneMore
<1>6. CASE turn[c] = OTel /\ e.kind = "load_started"
  <2>1. spans' = spans
    <3>1. spans' = spans \o <<>>
      BY <1>5, <1>6, EndedSpan
    <3> QED BY <3>1 DEF SpansInv
  <2>2. PICK next : next = delivered'[OTel]
    OBVIOUS
  <2>3. /\ Len(next) = k + 1 /\ 1 .. k + 1 = (1 .. k) \cup {k + 1}
        /\ next[k + 1].kind = "load_started" /\ \A i \in 1 .. k : next[i] = d[i]
    BY <1>5, <1>6, <2>2
  <2>4. ASSUME NEW n \in 1 .. Len(spans)
        PROVE  \E i \in 1 .. k + 1 : next[i].kind # "load_started" /\ spans[n] = SpanOf(next[i])
    <3>1. PICK i \in 1 .. k : d[i].kind # "load_started" /\ spans[n] = SpanOf(d[i])
      BY <1>1, <1>2 DEF SpansInv
    <3>2. i \in 1 .. k + 1 /\ next[i] = d[i]
      BY <2>3
    <3> QED BY <3>1, <3>2, Zenon
  <2>5. ASSUME NEW i \in 1 .. k + 1, next[i].kind # "load_started"
        PROVE  \E n \in 1 .. Len(spans) : spans[n] = SpanOf(next[i])
    <3>1. i \in 1 .. k /\ next[i] = d[i]
      BY <2>3, <2>5
    <3>2. \E n \in 1 .. Len(spans) : spans[n] = SpanOf(d[i])
      BY <1>1, <1>2, <2>5, <3>1 DEF SpansInv
    <3> QED BY <3>1, <3>2, Zenon
  <2>6. \A n \in 1 .. Len(spans') : \E i \in 1 .. Len(delivered'[OTel]) :
          delivered'[OTel][i].kind # "load_started" /\ spans'[n] = SpanOf(delivered'[OTel][i])
    BY <2>1, <2>2, <2>3, <2>4, Zenon
  <2>7. \A i \in 1 .. Len(delivered'[OTel]) : delivered'[OTel][i].kind # "load_started" =>
          \E n \in 1 .. Len(spans') : spans'[n] = SpanOf(delivered'[OTel][i])
    BY <2>1, <2>2, <2>3, <2>5, Zenon
  <2>8. \A a, b \in 1 .. Len(spans') : a < b => SpanBefore(spans'[a], spans'[b])
    BY <2>1, Zenon DEF SpansInv
  <2>9. spans' \in Seq(SpanRecord)
    BY <2>1, Zenon DEF SpansInv
  <2> QED BY <2>6, <2>7, <2>8, <2>9, Zenon DEF SpansInv, SpanOf, SpanBefore
<1>7. CASE turn[c] = OTel /\ e.kind # "load_started"
  <2>1. PICK s \in SpanRecord : s = SpanOf(e)
    BY EndedSpan
  <2>2. /\ spans' = Append(spans, s) /\ spans' \in Seq(SpanRecord)
        /\ Len(spans') = m + 1 /\ spans'[m + 1] = s /\ m + 1 \in 1 .. m + 1
        /\ 1 .. m + 1 = (1 .. m) \cup {m + 1}
        /\ \A n \in 1 .. m : spans'[n] = spans[n]
    <3>1. spans' = spans \o <<s>>
      BY <1>5, <1>7, <2>1, EndedSpan
    <3> QED BY <1>3, <3>1, OneMore DEF SpansInv
  <2>3. ASSUME NEW n \in 1 .. m
        PROVE  \E i \in 1 .. k : d[i].kind # "load_started" /\ spans[n] = SpanOf(d[i])
    BY <1>1, <1>2, <1>3 DEF SpansInv
  <2>4. ASSUME NEW i \in 1 .. k, d[i].kind # "load_started"
        PROVE  \E n \in 1 .. m : spans[n] = SpanOf(d[i])
    BY <1>1, <1>2, <1>3, <2>4 DEF SpansInv
  <2>5. \A n \in 1 .. m + 1 : \E i \in 1 .. k + 1 :
          /\ delivered'[OTel][i].kind # "load_started"
          /\ spans'[n] = SpanOf(delivered'[OTel][i])
    <3>1. ASSUME NEW n \in 1 .. m
          PROVE  \E i \in 1 .. k + 1 : /\ delivered'[OTel][i].kind # "load_started"
                                       /\ spans'[n] = SpanOf(delivered'[OTel][i])
      <4>1. PICK i \in 1 .. k : d[i].kind # "load_started" /\ spans[n] = SpanOf(d[i])
        BY <2>3
      <4>2. i \in 1 .. k + 1 /\ delivered'[OTel][i] = d[i] /\ spans'[n] = spans[n]
        BY <1>5, <1>7, <2>2
      <4> QED BY <4>1, <4>2
    <3>2. /\ delivered'[OTel][k + 1].kind # "load_started"
          /\ spans'[m + 1] = SpanOf(delivered'[OTel][k + 1])
      BY <1>5, <1>7, <2>1, <2>2
    <3> QED BY <1>5, <1>7, <2>2, <3>1, <3>2
  <2>6. \A i \in 1 .. k + 1 : delivered'[OTel][i].kind # "load_started" =>
          \E n \in 1 .. m + 1 : spans'[n] = SpanOf(delivered'[OTel][i])
    <3>1. ASSUME NEW i \in 1 .. k, delivered'[OTel][i].kind # "load_started"
          PROVE  \E n \in 1 .. m + 1 : spans'[n] = SpanOf(delivered'[OTel][i])
      <4>1. delivered'[OTel][i] = d[i]
        BY <1>5, <1>7
      <4>2. PICK n \in 1 .. m : spans[n] = SpanOf(d[i])
        BY <2>4, <3>1, <4>1
      <4>3. n \in 1 .. m + 1 /\ spans'[n] = spans[n]
        BY <2>2
      <4> QED BY <4>1, <4>2, <4>3, Zenon
    <3>2. delivered'[OTel][k + 1] = e
      BY <1>5, <1>7
    <3>3. spans'[m + 1] = SpanOf(delivered'[OTel][k + 1])
      BY <2>1, <2>2, <3>2
    <3>4. m + 1 \in 1 .. m + 1 /\ 1 .. k + 1 = (1 .. k) \cup {k + 1}
      BY <1>5, <1>7, <2>2
    <3> QED BY <3>1, <3>3, <3>4
  <2>7. ASSUME NEW a \in 1 .. m + 1, NEW b \in 1 .. m + 1, a < b
        PROVE  SpanBefore(spans'[a], spans'[b])
    <3>1. a \in 1 .. m
      BY <2>7
    <3>2. CASE b \in 1 .. m
      BY <1>3, <2>2, <2>7, <3>1, <3>2 DEF SpansInv
    <3>3. CASE b = m + 1
      <4>1. PICK i \in 1 .. k : d[i].kind # "load_started" /\ spans[a] = SpanOf(d[i])
        BY <2>3, <3>1
      <4>2. SpanBefore(SpanOf(d[i]), SpanOf(e))
        BY <1>2, <1>5, <1>7, <4>1, EndedSpan
      <4> QED BY <2>1, <2>2, <3>1, <3>3, <4>1, <4>2
    <3> QED BY <2>2, <3>2, <3>3
  <2>8. Len(delivered'[OTel]) = k + 1
    BY <1>5, <1>7
  <2>9. /\ \A n \in 1 .. Len(spans') : \E i \in 1 .. Len(delivered'[OTel]) :
             /\ delivered'[OTel][i].kind # "load_started"
             /\ spans'[n] = SpanOf(delivered'[OTel][i])
        /\ \A i \in 1 .. Len(delivered'[OTel]) : delivered'[OTel][i].kind # "load_started" =>
             \E n \in 1 .. Len(spans') : spans'[n] = SpanOf(delivered'[OTel][i])
    <3>1. 1 .. Len(spans') = 1 .. m + 1 /\ 1 .. Len(delivered'[OTel]) = 1 .. k + 1
      BY <2>2, <2>8
    <3> QED BY <2>5, <2>6, <3>1, Zenon
  <2>10. \A a, b \in 1 .. Len(spans') : a < b => SpanBefore(spans'[a], spans'[b])
    BY <2>2, <2>7
  <2> QED BY <2>2, <2>9, <2>10 DEF SpansInv, SpanOf, SpanBefore
<1> QED BY <1>4, <1>6, <1>7

(* Every step keeps the spans.                                             *)
LEMMA SpansInductive ==
  ASSUME ManagerInv, ManagerInv', AboutInv, SpansInv, [OTelNext]_<<vars, otelVars>>
  PROVE  SpansInv'
<1>1. ASSUME UNCHANGED <<spans, delivered>> PROVE SpansInv'
  BY <1>1 DEF SpansInv
<1>2. CASE UNCHANGED <<vars, otelVars>>
  BY <1>1, <1>2 DEF vars, otelVars
<1>3. ASSUME NEW c \in Callers, ObservedStart(c) \/ ObservedCommit(c) PROVE SpansInv'
  BY <1>1, <1>3 DEF ObservedStart, StartLoad, ObservedCommit, CommitLoad, AcceptExternal
<1>4. ASSUME NEW c \in Callers, Unobserved(c) PROVE SpansInv'
  BY <1>1, <1>4, UnobservedKeeps DEF ManagerInv
<1> QED BY <1>2, <1>3, <1>4, SpansHear DEF OTelNext

(***************************************************************************)
(* The counters: each has an entry for each event it counts that was       *)
(* heard, and these are of different attempts.                             *)
(***************************************************************************)
Attributes == [event     : EventKinds,
               state     : LifecycleStates,
               status    : {"", "succeeded", "failed", "unknown"},
               stage     : Stages \cup {""},
               code      : Failures,
               published : BOOLEAN,
               changed   : BOOLEAN]

FailedIDs(code) == {i \in HeardIDs(OTel, {"load_failed"}) : accepted[i].attempt.failure = code}

ChangedIDs == {i \in HeardIDs(OTel, {"snapshot_applied"}) : Changed(i)}

CountsInv ==
  /\ counters \in [Instruments -> Seq(Attributes)]
  /\ Total("started") = Cardinality(HeardIDs(OTel, {"load_started"}))
  /\ Total("completed") = Cardinality(HeardIDs(OTel, Finishing))
  /\ Total("duration") = Cardinality(HeardIDs(OTel, Finishing) \ backward)
  /\ Total("failed") = Cardinality(HeardIDs(OTel, {"load_failed"}))
  /\ \A code \in FailureCodes : FailedWith(code) = Cardinality(FailedIDs(code))
  /\ Total("published") = Cardinality(HeardIDs(OTel, {"snapshot_applied"}))
  /\ Total("changed") = Cardinality(ChangedIDs)

(* What is counted is finite, and of accepted attempts unless it is starts.*)
LEMMA HeardIDsBounded ==
  ASSUME ManagerInv, NEW o \in Observers, NEW kinds
  PROVE  /\ IsFiniteSet(HeardIDs(o, kinds))
         /\ "load_started" \notin kinds => HeardIDs(o, kinds) \subseteq DOMAIN accepted
<1>1. PICK l \in Nat : l = Len(accepted) /\ DOMAIN accepted = 1 .. l
  BY DEF ManagerInv, BaseInv, ManagerTypeOK
<1>2. \A i \in 1 .. Len(delivered[o]) : EventTrue(delivered[o][i])
  BY StoryTold
<1>3. HeardIDs(o, kinds) \subseteq 1 .. l + 1
  <2>1. \A e : EventTrue(e) => e.id \in 1 .. l + 1
    BY <1>1 DEF EventTrue
  <2> QED BY <1>2, <2>1 DEF HeardIDs
<1>4. IsFiniteSet(HeardIDs(o, kinds))
  <2>1. IsFiniteSet(1 .. l + 1)
    BY FS_Interval
  <2> QED BY <1>3, <2>1, FS_Subset
<1>5. "load_started" \notin kinds => HeardIDs(o, kinds) \subseteq DOMAIN accepted
  BY <1>1, <1>2 DEF HeardIDs, EventTrue
<1> QED BY <1>4, <1>5

(* One more.                                                               *)
LEMMA CountOneMore ==
  ASSUME NEW S, IsFiniteSet(S), NEW x, x \notin S
  PROVE  Cardinality(S \cup {x}) = Cardinality(S) + 1
BY FS_AddElement

(* An event that comes after all that was heard is not counted yet.        *)
LEMMA HeardIDsGrow ==
  ASSUME NEW o \in Observers, NEW d \in Seq(Event), d = delivered[o], NEW e \in Event,
         delivered'[o] = Append(d, e), \A i \in 1 .. Len(d) : Before(d[i], e)
  PROVE  /\ \A kinds : HeardIDs(o, kinds)' = HeardIDs(o, kinds)
                                               \cup (IF e.kind \in kinds THEN {e.id} ELSE {})
         /\ e.id \notin HeardIDs(o, {e.kind})
         /\ e.kind \in Finishing => e.id \notin HeardIDs(o, Finishing)
<1>1. PICK k \in Nat : k = Len(d) /\ \A i \in 1 .. k : d[i] \in Event
  OBVIOUS
<1>2. /\ Len(Append(d, e)) = k + 1 /\ Append(d, e)[k + 1] = e
      /\ \A i \in 1 .. k : Append(d, e)[i] = d[i]
      /\ k + 1 \in 1 .. k + 1 /\ 1 .. k + 1 = (1 .. k) \cup {k + 1}
  BY <1>1, OneMore
<1>3. ASSUME NEW kinds
      PROVE  HeardIDs(o, kinds)' = HeardIDs(o, kinds)
                                     \cup (IF e.kind \in kinds THEN {e.id} ELSE {})
  <2>1. HeardIDs(o, kinds) = {d[i].id : i \in {j \in 1 .. k : d[j].kind \in kinds}}
    BY <1>1 DEF HeardIDs
  <2>2. HeardIDs(o, kinds)' =
          {Append(d, e)[i].id : i \in {j \in 1 .. k + 1 : Append(d, e)[j].kind \in kinds}}
    BY <1>2 DEF HeardIDs
  <2> QED BY <1>2, <2>1, <2>2
<1>4. ASSUME NEW i \in 1 .. k, d[i].id = e.id
      PROVE  Rank(d[i].kind) < Rank(e.kind)
  BY <1>1, <1>4 DEF Before, Event
<1>5. e.id \notin HeardIDs(o, {e.kind})
  <2>1. Rank(e.kind) \in Nat
    BY DEF Rank
  <2>2. ASSUME NEW i \in 1 .. k, d[i].id = e.id PROVE d[i].kind # e.kind
    BY <1>4, <2>1, <2>2
  <2>3. HeardIDs(o, {e.kind}) = {d[i].id : i \in {j \in 1 .. k : d[j].kind \in {e.kind}}}
    BY <1>1, Zenon DEF HeardIDs
  <2> QED BY <2>2, <2>3, Zenon
<1>6. e.kind \in Finishing => e.id \notin HeardIDs(o, Finishing)
  <2>1. \A kind \in Finishing : Rank(kind) = 1
    BY DEF Rank, Finishing
  <2>2. ASSUME e.kind \in Finishing, NEW i \in 1 .. k, d[i].id = e.id
        PROVE  d[i].kind \notin Finishing
    BY <1>4, <2>1, <2>2
  <2>3. HeardIDs(o, Finishing) = {d[i].id : i \in {j \in 1 .. k : d[j].kind \in Finishing}}
    BY <1>1, Zenon DEF HeardIDs
  <2> QED BY <2>2, <2>3, Zenon
<1> QED BY <1>3, <1>5, <1>6

(* A longer log changes nothing of what was counted.                       *)
LEMMA CountsKept ==
  ASSUME ManagerInv, ManagerInv', LogGrows, CountsInv, UNCHANGED <<counters, delivered>>,
         HeardIDs(OTel, Finishing) \ backward' = HeardIDs(OTel, Finishing) \ backward
  PROVE  CountsInv'
<1>1. \A kinds : HeardIDs(OTel, kinds)' = HeardIDs(OTel, kinds)
  BY DEF HeardIDs
<1>2. /\ HeardIDs(OTel, {"load_failed"}) \subseteq DOMAIN accepted
      /\ HeardIDs(OTel, {"snapshot_applied"}) \subseteq DOMAIN accepted
  BY HeardIDsBounded, OTelAssumption
<1>3. \A i \in DOMAIN accepted : accepted'[i] = accepted[i]
  BY DEF LogGrows
<1>4. \A code : FailedIDs(code)' = FailedIDs(code)
  BY <1>1, <1>2, <1>3 DEF FailedIDs
<1>5. \A i \in DOMAIN accepted : Changed(i)' = Changed(i)
  <2>1. DOMAIN accepted = 1 .. Len(accepted) /\ Len(accepted) \in Nat
    BY DEF ManagerInv, BaseInv, ManagerTypeOK
  <2>2. \A i \in DOMAIN accepted : ChecksumBefore(i)' = ChecksumBefore(i)
    BY <2>1, ChecksumKept DEF ManagerInv
  <2> QED BY <1>3, <2>2 DEF Changed
<1>6. ChangedIDs' = ChangedIDs
  BY <1>1, <1>2, <1>5 DEF ChangedIDs
<1> QED BY <1>1, <1>4, <1>6 DEF CountsInv, Total, FailedWith

(* The instruments an event is added to.                                   *)
Counts(e, added) ==
  /\ "started" \in added <=> e.kind = "load_started"
  /\ "completed" \in added <=> e.kind \in Finishing
  /\ "failed" \in added <=> e.kind = "load_failed"
  /\ "duration" \in added <=> e.kind \in Finishing /\ e.id \notin backward
  /\ "published" \in added <=> e.kind = "snapshot_applied"
  /\ "changed" \in added <=> e.kind = "snapshot_applied" /\ Changed(e.id)

(* Observe adds an event, with its attributes, to those it counts for.     *)
LEMMA ObserveCounts ==
  ASSUME NEW e \in Event, NEW a, EventTrue(e), AboutTrue(a, e), Observe(e, a)
  PROVE  /\ \E added \in SUBSET Instruments :
              /\ Counts(e, added)
              /\ counters' = [i \in Instruments |-> IF i \in added THEN Append(counters[i], attrs(e, a))
                                                                   ELSE counters[i]]
         /\ attrs(e, a) \in Attributes
         /\ e.kind = "load_failed" => attrs(e, a).code = accepted[e.id].attempt.failure
<1>1. e.kind \in EventKinds /\ e.state \in LifecycleStates
  BY DEF Event
<1>2. IF e.kind = "load_started" THEN a = Nil
      ELSE a # Nil /\ a \in [attempt : AttemptRecord, apply : ApplyResult]
  BY OTelAssumption DEF AboutTrue
<1>3. attrs(e, a) \in Attributes
  <2>1. CASE a = Nil
    BY <1>1, <2>1 DEF attrs, Attributes, Failures
  <2>2. CASE a # Nil
    <3>1. a.attempt \in AttemptRecord /\ a.apply \in ApplyResult
      BY <1>2, <2>2
    <3> QED BY <1>1, <2>2, <3>1 DEF attrs, Attributes, AttemptRecord, ApplyResult
  <2> QED BY <2>1, <2>2
<1>4. e.kind = "load_failed" => attrs(e, a).code = accepted[e.id].attempt.failure
  BY <1>2 DEF attrs, AboutTrue
<1>5. e.kind = "snapshot_applied" => (a.apply.changed <=> Changed(e.id))
  BY DEF AboutTrue, EventTrue
<1> DEFINE also  == IF e.kind = "snapshot_applied" /\ a.apply.changed THEN {"changed"} ELSE {}
           timed == e.id \notin backward
           added == Added(e, timed) \cup also
<1>6. Counts(e, added)
  <2>1. "changed" \notin Added(e, timed)
    BY <1>1 DEF EventKinds, Added
  <2>2. "changed" \in added <=> e.kind = "snapshot_applied" /\ Changed(e.id)
    BY <1>5, <2>1
  <2>3. \A i : i # "changed" => (i \in added <=> i \in Added(e, timed))
    OBVIOUS
  <2>4. CASE e.kind = "load_started"
    BY <2>2, <2>3, <2>4 DEF Added, Counts, Finishing
  <2>5. CASE e.kind = "load_succeeded"
    BY <2>2, <2>3, <2>5 DEF Added, Counts, Finishing
  <2>6. CASE e.kind = "load_failed"
    BY <2>2, <2>3, <2>6 DEF Added, Counts, Finishing
  <2>7. CASE e.kind = "snapshot_applied"
    BY <2>2, <2>3, <2>7 DEF Added, Counts, Finishing
  <2> QED BY <1>1, <2>4, <2>5, <2>6, <2>7 DEF EventKinds
<1>7. counters' = [i \in Instruments |-> IF i \in added THEN Append(counters[i], attrs(e, a))
                                                        ELSE counters[i]]
  BY DEF Observe
<1>8. added \in SUBSET Instruments
  BY <1>1 DEF EventKinds, Added, Instruments
<1> HIDE DEF added
<1> QED BY <1>3, <1>4, <1>6, <1>7, <1>8

(* What the observer hears is counted.                                     *)
LEMMA CountsHear ==
  ASSUME ManagerInv, ManagerInv', AboutInv, CountsInv, NEW c \in Callers, ObservedDelivery(c)
  PROVE  CountsInv'
<1>1. PICK e \in Event, d \in Seq(Event) :
           /\ e = Head(events[c]) /\ EventTrue(e) /\ AboutTrue(about[c], e)
           /\ d = delivered[OTel]
           /\ delivered'[OTel] = IF turn[c] = OTel THEN Append(d, e) ELSE d
           /\ turn[c] = OTel => \A i \in 1 .. Len(d) : Before(d[i], e)
  BY Hearing, OTelAssumption
<1>2. UNCHANGED accepted
  BY DEF ObservedDelivery, Deliver, state
<1>3. \A i : Changed(i)' = Changed(i)
  BY <1>2 DEF Changed, ChecksumBefore, With
<1>4. CASE turn[c] # OTel
  <2>1. counters' = counters /\ delivered'[OTel] = delivered[OTel]
    BY <1>1, <1>4 DEF ObservedDelivery
  <2>2. \A kinds : HeardIDs(OTel, kinds)' = HeardIDs(OTel, kinds)
    BY <2>1 DEF HeardIDs
  <2>3. ChangedIDs' = ChangedIDs /\ \A code : FailedIDs(code)' = FailedIDs(code)
    BY <1>2, <1>3, <2>2 DEF FailedIDs, ChangedIDs
  <2>4. backward' = backward
    BY DEF ObservedDelivery
  <2> QED BY <2>1, <2>2, <2>3, <2>4 DEF CountsInv, Total, FailedWith
<1>5. CASE turn[c] = OTel
  <2>1. Observe(e, about[c])
    BY <1>1, <1>5 DEF ObservedDelivery
  <2>2. PICK x \in Attributes, added \in SUBSET Instruments :
             /\ Counts(e, added)
             /\ counters' = [i \in Instruments |-> IF i \in added THEN Append(counters[i], x)
                                                                  ELSE counters[i]]
             /\ e.kind = "load_failed" => x.code = accepted[e.id].attempt.failure
    BY <1>1, <2>1, ObserveCounts
  <2>3. counters' \in [Instruments -> Seq(Attributes)]
    BY <2>2 DEF CountsInv
  <2>4. ASSUME NEW i \in Instruments
        PROVE  /\ Total(i) \in Nat
               /\ Total(i)' = Total(i) + IF i \in added THEN 1 ELSE 0
    BY <2>2 DEF CountsInv, Total
  <2>5. {"started", "completed", "failed", "duration", "published", "changed"} \subseteq Instruments
    BY DEF Instruments
  <2>6. /\ \A kinds : HeardIDs(OTel, kinds)' = HeardIDs(OTel, kinds)
                                                 \cup (IF e.kind \in kinds THEN {e.id} ELSE {})
        /\ e.id \notin HeardIDs(OTel, {e.kind})
        /\ e.kind \in Finishing => e.id \notin HeardIDs(OTel, Finishing)
    <3>1. /\ OTel \in Observers /\ d = delivered[OTel] /\ delivered'[OTel] = Append(d, e)
          /\ \A i \in 1 .. Len(d) : Before(d[i], e)
      BY <1>1, <1>5, OTelAssumption, Zenon
    <3> QED BY <3>1, HeardIDsGrow, Zenon
  <2>7. \A kinds : IsFiniteSet(HeardIDs(OTel, kinds))
    BY HeardIDsBounded, OTelAssumption
  <2>8. ASSUME NEW kinds, e.kind \in kinds => e.id \notin HeardIDs(OTel, kinds)
        PROVE  Cardinality(HeardIDs(OTel, kinds))' =
                 Cardinality(HeardIDs(OTel, kinds)) + IF e.kind \in kinds THEN 1 ELSE 0
    <3>1. Cardinality(HeardIDs(OTel, kinds)) \in Nat
      BY <2>7, FS_CardinalityType
    <3>2. CASE e.kind \in kinds
      BY <2>6, <2>7, <2>8, <3>2, CountOneMore
    <3>3. CASE e.kind \notin kinds
      <4>1. HeardIDs(OTel, kinds)' = HeardIDs(OTel, kinds)
        <5>1. HeardIDs(OTel, kinds)' = HeardIDs(OTel, kinds) \cup {}
          BY <2>6, <3>3
        <5>2. \A S : S \cup {} = S
          OBVIOUS
        <5> QED BY <5>1, <5>2, Zenon
      <4> QED BY <3>1, <3>3, <4>1
    <3> QED BY <3>2, <3>3
  <2>9. Total("started")' = Cardinality(HeardIDs(OTel, {"load_started"}))'
    <3>1. Total("started")' = Total("started") + IF e.kind = "load_started" THEN 1 ELSE 0
      BY <2>2, <2>4, <2>5 DEF Counts
    <3>2. Cardinality(HeardIDs(OTel, {"load_started"}))' =
            Cardinality(HeardIDs(OTel, {"load_started"})) + IF e.kind = "load_started" THEN 1 ELSE 0
      BY <2>6, <2>8
    <3> QED BY <3>1, <3>2 DEF CountsInv
  <2>10. Total("completed")' = Cardinality(HeardIDs(OTel, Finishing))'
    <3>1. Total("completed")' = Total("completed") + IF e.kind \in Finishing THEN 1 ELSE 0
      BY <2>2, <2>4, <2>5 DEF Counts
    <3>2. Cardinality(HeardIDs(OTel, Finishing))' =
            Cardinality(HeardIDs(OTel, Finishing)) + IF e.kind \in Finishing THEN 1 ELSE 0
      BY <2>6, <2>8
    <3> QED BY <3>1, <3>2 DEF CountsInv
  <2>11. Total("duration")' = Cardinality(HeardIDs(OTel, Finishing) \ backward)'
    <3>1. PICK S, T : /\ S = HeardIDs(OTel, Finishing) \ backward
                      /\ T = (HeardIDs(OTel, Finishing) \ backward)'
      OBVIOUS
    <3>2. T = S \cup (IF "duration" \in added THEN {e.id} ELSE {})
      <4>1. backward' = backward
        BY DEF ObservedDelivery
      <4>2. "duration" \in added <=> e.kind \in Finishing /\ e.id \notin backward
        BY <2>2 DEF Counts
      <4> QED BY <2>6, <3>1, <4>1, <4>2
    <3>3. IsFiniteSet(S)
      BY <2>7, <3>1, FS_Subset
    <3>4. "duration" \in added => e.id \notin S
      BY <2>2, <2>6, <3>1 DEF Counts
    <3>5. Cardinality(S) \in Nat
      BY <3>3, FS_CardinalityType
    <3>6. Cardinality(T) = Cardinality(S) + IF "duration" \in added THEN 1 ELSE 0
      <4>1. CASE "duration" \in added
        BY <3>2, <3>3, <3>4, <4>1, CountOneMore
      <4>2. CASE "duration" \notin added
        BY <3>2, <3>5, <4>2
      <4> QED BY <4>1, <4>2
    <3>7. Total("duration") = Cardinality(S)
      BY <3>1 DEF CountsInv
    <3>8. Total("duration")' = Total("duration") + IF "duration" \in added THEN 1 ELSE 0
      BY <2>4, <2>5
    <3> QED BY <3>1, <3>6, <3>7, <3>8
  <2>12. Total("published")' = Cardinality(HeardIDs(OTel, {"snapshot_applied"}))'
    <3>1. Total("published")' = Total("published") + IF e.kind = "snapshot_applied" THEN 1 ELSE 0
      BY <2>2, <2>4, <2>5 DEF Counts
    <3>2. Cardinality(HeardIDs(OTel, {"snapshot_applied"}))' =
            Cardinality(HeardIDs(OTel, {"snapshot_applied"}))
              + IF e.kind = "snapshot_applied" THEN 1 ELSE 0
      BY <2>6, <2>8
    <3> QED BY <3>1, <3>2 DEF CountsInv
  <2>13. Total("failed")' = Cardinality(HeardIDs(OTel, {"load_failed"}))'
    <3>1. Total("failed")' = Total("failed") + IF e.kind = "load_failed" THEN 1 ELSE 0
      BY <2>2, <2>4, <2>5 DEF Counts
    <3>2. Cardinality(HeardIDs(OTel, {"load_failed"}))' =
            Cardinality(HeardIDs(OTel, {"load_failed"})) + IF e.kind = "load_failed" THEN 1 ELSE 0
      BY <2>6, <2>8
    <3> QED BY <3>1, <3>2 DEF CountsInv
  <2>14. Total("changed")' = Cardinality(ChangedIDs)'
    <3>1. ChangedIDs' = ChangedIDs \cup (IF "changed" \in added THEN {e.id} ELSE {})
      BY <1>3, <2>2, <2>6 DEF ChangedIDs, Counts
    <3>2. IsFiniteSet(ChangedIDs)
      BY <2>7, FS_Subset DEF ChangedIDs
    <3>3. "changed" \in added => e.id \notin ChangedIDs
      BY <2>2, <2>6 DEF ChangedIDs, Counts
    <3>4. Cardinality(ChangedIDs) \in Nat
      BY <3>2, FS_CardinalityType
    <3>5. Cardinality(ChangedIDs') = Cardinality(ChangedIDs) + IF "changed" \in added THEN 1 ELSE 0
      <4>1. CASE "changed" \in added
        BY <3>1, <3>2, <3>3, <4>1, CountOneMore
      <4>2. CASE "changed" \notin added
        BY <3>1, <3>4, <4>2
      <4> QED BY <4>1, <4>2
    <3> QED BY <2>4, <2>5, <3>5 DEF CountsInv
  <2>15. ASSUME NEW code \in FailureCodes
         PROVE  FailedWith(code)' = Cardinality(FailedIDs(code))'
    <3> DEFINE more == e.kind = "load_failed" /\ x.code = code
               old  == {n \in DOMAIN counters["failed"] : counters["failed"][n].code = code}
               new  == {n \in DOMAIN counters'["failed"] : counters'["failed"][n].code = code}
    <3>1. FailedIDs(code)' = FailedIDs(code) \cup (IF more THEN {e.id} ELSE {})
      BY <1>2, <2>2, <2>6 DEF FailedIDs
    <3>2. IsFiniteSet(FailedIDs(code))
      BY <2>7, FS_Subset DEF FailedIDs
    <3>3. more => e.id \notin FailedIDs(code)
      BY <2>6 DEF FailedIDs
    <3>4. PICK s \in Seq(Attributes), n \in Nat :
               s = counters["failed"] /\ n = Len(s) /\ DOMAIN s = 1 .. n
      BY <2>5 DEF CountsInv
    <3>5. counters'["failed"] = IF e.kind = "load_failed" THEN Append(s, x) ELSE s
      BY <2>2, <2>5, <3>4 DEF Counts
    <3>6. new = old \cup (IF more THEN {n + 1} ELSE {})
      <4>1. CASE e.kind = "load_failed"
        <5>1. /\ DOMAIN Append(s, x) = (1 .. n) \cup {n + 1} /\ Append(s, x)[n + 1] = x
              /\ \A i \in 1 .. n : Append(s, x)[i] = s[i]
          BY <3>4, OneMore
        <5> QED BY <3>4, <3>5, <4>1, <5>1
      <4>2. CASE e.kind # "load_failed"
        BY <3>4, <3>5, <4>2
      <4> QED BY <4>1, <4>2
    <3>7. old \subseteq 1 .. n /\ n + 1 \notin old /\ IsFiniteSet(old)
      <4>1. old \subseteq 1 .. n
        BY <3>4
      <4>2. IsFiniteSet(1 .. n)
        BY FS_Interval
      <4> QED BY <4>1, <4>2, FS_Subset
    <3>8. FailedWith(code) = Cardinality(old) /\ FailedWith(code)' = Cardinality(new)
      BY DEF FailedWith
    <3>9. Cardinality(old) = Cardinality(FailedIDs(code))
      BY <3>8 DEF CountsInv
    <3> HIDE DEF old, new
    <3>10. CASE more
      BY <3>1, <3>2, <3>3, <3>6, <3>7, <3>8, <3>9, <3>10, CountOneMore
    <3>11. CASE ~more
      BY <3>1, <3>6, <3>8, <3>9, <3>11
    <3> QED BY <3>10, <3>11
  <2> QED BY <2>3, <2>9, <2>10, <2>11, <2>12, <2>13, <2>14, <2>15 DEF CountsInv
<1> QED BY <1>4, <1>5

(* The attempt that a commit logs has a number that none before it had.    *)
LEMMA CommitsNewID ==
  ASSUME ManagerInv, ManagerInv', NEW c \in Callers, ObservedCommit(c)
  PROVE  lastAttempt'.id \notin DOMAIN accepted
<1>1. PICK r \in LoadResult : lastAttempt' = r.attempt /\ accepted' = Append(accepted, r)
  <2>1. CASE CommitLoad(c)
    <3>1. job[c] \in LoadResult /\ ValidLoadResult(job[c]) /\ Commit(job[c])
      BY <2>1, CommitLoadCommits DEF ManagerInv
    <3> QED BY <3>1, CommitEffect DEF Commit
  <2>2. CASE AcceptExternal(c)
    <3>1. PICK r : r \in LoadResult /\ ValidLoadResult(r) /\ Commit(r)
      BY <2>2, AcceptExternalCommits DEF ManagerInv
    <3> QED BY <3>1, CommitEffect DEF Commit
  <2> QED BY <2>1, <2>2 DEF ObservedCommit
<1>2. PICK l \in Nat : l = Len(accepted) /\ DOMAIN accepted = 1 .. l /\ accepted \in Seq(LoadResult)
  BY DEF ManagerInv, BaseInv, ManagerTypeOK
<1>3. l + 1 \in DOMAIN accepted' /\ accepted'[l + 1] = r
  BY <1>1, <1>2
<1>4. r.attempt.id = l + 1
  BY <1>3 DEF ManagerInv, IDsDense
<1> QED BY <1>1, <1>2, <1>4

(* Every step keeps the counters.                                          *)
LEMMA CountsInductive ==
  ASSUME ManagerInv, ManagerInv', AboutInv, CountsInv, [OTelNext]_<<vars, otelVars>>
  PROVE  CountsInv'
<1>1. LogGrows
  BY OTelStepIsManagerStep, ManagerStepGrowsLog DEF ManagerInv
<1>2. CASE UNCHANGED <<vars, otelVars>>
  BY <1>1, <1>2, CountsKept DEF vars, otelVars
<1>3. ASSUME NEW c \in Callers, ObservedStart(c) PROVE CountsInv'
  BY <1>1, <1>3, CountsKept DEF ObservedStart, StartLoad
<1>4. ASSUME NEW c \in Callers, ObservedCommit(c) PROVE CountsInv'
  <2>1. UNCHANGED <<counters, delivered>> /\ backward' \in {backward, backward \cup {lastAttempt'.id}}
    BY <1>4 DEF ObservedCommit, CommitLoad, AcceptExternal
  <2>2. lastAttempt'.id \notin DOMAIN accepted
    BY <1>4, CommitsNewID
  <2>3. HeardIDs(OTel, Finishing) \subseteq DOMAIN accepted
    BY HeardIDsBounded, OTelAssumption DEF Finishing
  <2>4. HeardIDs(OTel, Finishing) \ backward' = HeardIDs(OTel, Finishing) \ backward
    BY <2>1, <2>2, <2>3
  <2> QED BY <1>1, <2>1, <2>4, CountsKept
<1>5. ASSUME NEW c \in Callers, Unobserved(c) PROVE CountsInv'
  <2>1. backward' = backward
    BY <1>5 DEF Unobserved, otelVars
  <2> QED BY <1>1, <1>5, <2>1, UnobservedKeeps, CountsKept DEF ManagerInv
<1> QED BY <1>2, <1>3, <1>4, <1>5, CountsHear DEF OTelNext

(***************************************************************************)
(* The OpenTelemetry observer.                                             *)
(***************************************************************************)
OTelInv == ManagerInv /\ CoverInv /\ AboutInv /\ SpansInv /\ CountsInv

(* With a new manager, nothing is announced, heard or counted yet.         *)
LEMMA OTelInitial == OTelInit => OTelInv
<1> SUFFICES ASSUME OTelInit PROVE OTelInv
  OBVIOUS
<1>1. ManagerInv
  BY ManagerInitial DEF OTelInit
<1>2. /\ nextAttemptID = 0 /\ accepted = <<>> /\ managed = {} /\ spans = <<>>
      /\ events = [c \in Callers |-> <<>>] /\ delivered = [o \in Observers |-> <<>>]
      /\ about = [c \in Callers |-> Nil] /\ counters = [i \in Instruments |-> <<>>]
      /\ phase = [c \in Callers |-> "idle"]
  BY DEF OTelInit, ManagerInit
<1>3. /\ Len(<<>>) = 0 /\ DOMAIN <<>> = {} /\ 1 .. 0 = {}
      /\ <<>> \in Seq(SpanRecord) /\ <<>> \in Seq(Attributes)
  OBVIOUS
<1>4. OTel \in Observers
  BY OTelAssumption
<1>5. CoverInv
  <2>1. ~LoadInProgress
    BY <1>2 DEF LoadInProgress
  <2>2. \A o \in Observers : \A x : ~Announced(o, x)
    BY <1>2, <1>3 DEF Announced
  <2>3. With("succeeded") = {}
    BY <1>2, <1>3 DEF With
  <2> QED BY <1>2, <1>3, <2>1, <2>2, <2>3 DEF CoverInv
<1>6. AboutInv
  BY <1>2, <1>3 DEF AboutInv
<1>7. SpansInv
  BY <1>2, <1>3, <1>4 DEF SpansInv
<1>8. CountsInv
  <2>1. \A kinds : HeardIDs(OTel, kinds) = {}
    BY <1>2, <1>3, <1>4 DEF HeardIDs
  <2>2. ChangedIDs = {} /\ \A code : FailedIDs(code) = {}
    BY <2>1 DEF ChangedIDs, FailedIDs
  <2>3. \A i \in Instruments : Total(i) = 0
    BY <1>2, <1>3 DEF Total
  <2>4. {"started", "completed", "failed", "duration", "published", "changed"} \subseteq Instruments
    BY DEF Instruments
  <2>5. \A code : FailedWith(code) = Cardinality({})
    <3>1. DOMAIN counters["failed"] = {}
      BY <1>2, <1>3, <2>4
    <3> QED BY <3>1 DEF FailedWith
  <2>6. Cardinality({}) = 0
    BY FS_EmptySet
  <2>7. counters \in [Instruments -> Seq(Attributes)]
    BY <1>2, <1>3
  <2>8. \A code : FailedWith(code) = 0 /\ Cardinality(FailedIDs(code)) = 0
    BY <2>2, <2>5, <2>6, Zenon
  <2>9. Cardinality(ChangedIDs) = 0 /\ \A kinds : Cardinality(HeardIDs(OTel, kinds)) = 0
    BY <2>1, <2>2, <2>6, Zenon
  <2>10. Cardinality(HeardIDs(OTel, Finishing) \ backward) = 0
    <3>1. HeardIDs(OTel, Finishing) \ backward = {}
      BY <2>1
    <3> QED BY <2>6, <3>1
  <2> QED BY <2>3, <2>4, <2>7, <2>8, <2>9, <2>10 DEF CountsInv
<1> QED BY <1>1, <1>5, <1>6, <1>7, <1>8 DEF OTelInv

(* Every step keeps the invariant.                                         *)
LEMMA OTelInductive == OTelInv /\ [OTelNext]_<<vars, otelVars>> => OTelInv'
<1> SUFFICES ASSUME OTelInv, [OTelNext]_<<vars, otelVars>> PROVE OTelInv'
  OBVIOUS
<1>1. ManagerInv'
  BY OTelStepIsManagerStep, ManagerInductive DEF OTelInv
<1>2. BaseInv'
  BY <1>1 DEF ManagerInv
<1> QED BY <1>1, <1>2, CoverInductive, AboutInductive, SpansInductive, CountsInductive DEF OTelInv

(* The spans that ended retell the log of the manager, in its order.       *)
THEOREM OTelSpansTellLog == OTelSpec => []SpansTellLog
<1>1. OTelInv => SpansTellLog
  <2> SUFFICES ASSUME OTelInv, Settled
               PROVE  /\ ToSet(spans) =
                           {Span("load", i, i \in With("succeeded")) :
                              i \in managed \cap DOMAIN accepted}
                             \cup {Span("apply", i, TRUE) : i \in With("succeeded")}
                      /\ \A m, n \in DOMAIN spans : m < n =>
                           \/ spans[m].id < spans[n].id
                           \/ spans[m].id = spans[n].id /\ spans[m].name = "load"
                                                        /\ spans[n].name = "apply"
    BY DEF SpansTellLog
  <2>1. OTel \in Observers
    BY OTelAssumption
  <2>2. /\ HeardIDs(OTel, Finishing) = managed \cap DOMAIN accepted
        /\ HeardIDs(OTel, {"snapshot_applied"}) = With("succeeded")
    BY <2>1, HeardWhenSettled DEF OTelInv
  <2>3. DOMAIN spans = 1 .. Len(spans)
    BY DEF OTelInv, SpansInv
  <2> DEFINE d == delivered[OTel]
             k == Len(delivered[OTel])
  <2>4. \A i \in 1 .. k : d[i] \in Event /\ EventTrue(d[i])
    BY <2>1, StoryTold DEF OTelInv
  <2>5. ASSUME NEW e \in Event, EventTrue(e), e.kind # "load_started"
        PROVE  IF e.kind = "snapshot_applied" THEN SpanOf(e) = Span("apply", e.id, TRUE)
               ELSE /\ e.kind \in Finishing
                    /\ SpanOf(e) = Span("load", e.id, e.id \in With("succeeded"))
    <3>1. e.kind \in EventKinds
      BY DEF Event
    <3>2. e.id \in DOMAIN accepted
      <4>1. DOMAIN accepted = 1 .. Len(accepted)
        BY DEF OTelInv, ManagerInv, BaseInv, ManagerTypeOK
      <4> QED BY <2>5, <4>1 DEF EventTrue
    <3>3. CASE e.kind = "snapshot_applied"
      BY <3>3 DEF SpanOf
    <3>4. CASE e.kind # "snapshot_applied"
      <4>1. e.kind \in Finishing
        BY <2>5, <3>1, <3>4 DEF EventKinds, Finishing
      <4>2. (e.kind # "load_failed") = (e.id \in With("succeeded"))
        BY <2>5, <3>2 DEF EventTrue, With
      <4> QED BY <3>4, <4>1, <4>2 DEF SpanOf
    <3> QED BY <3>3, <3>4
  <2>6. ASSUME NEW n \in 1 .. Len(spans)
        PROVE  \/ \E i \in managed \cap DOMAIN accepted :
                    spans[n] = Span("load", i, i \in With("succeeded"))
               \/ \E i \in With("succeeded") : spans[n] = Span("apply", i, TRUE)
    <3>1. PICK i \in 1 .. k : d[i].kind # "load_started" /\ spans[n] = SpanOf(d[i])
      BY DEF OTelInv, SpansInv
    <3>2. PICK e \in Event : e = d[i] /\ EventTrue(e)
      BY <2>4
    <3>3. CASE e.kind = "snapshot_applied"
      <4>1. e.id \in HeardIDs(OTel, {"snapshot_applied"})
        BY <3>2, <3>3 DEF HeardIDs
      <4> QED BY <2>2, <2>5, <3>1, <3>2, <3>3, <4>1
    <3>4. CASE e.kind # "snapshot_applied"
      <4>1. e.kind \in Finishing /\ spans[n] = Span("load", e.id, e.id \in With("succeeded"))
        BY <2>5, <3>1, <3>2, <3>4
      <4>2. e.id \in HeardIDs(OTel, Finishing)
        BY <3>2, <4>1 DEF HeardIDs
      <4> QED BY <2>2, <4>1, <4>2
    <3> QED BY <3>3, <3>4
  <2>7. ASSUME NEW i \in managed \cap DOMAIN accepted
        PROVE  \E n \in 1 .. Len(spans) : spans[n] = Span("load", i, i \in With("succeeded"))
    <3>1. PICK j \in 1 .. k : d[j].kind \in Finishing /\ d[j].id = i
      BY <2>2 DEF HeardIDs
    <3>2. d[j].kind # "load_started" /\ d[j].kind # "snapshot_applied"
      BY <3>1 DEF Finishing
    <3>3. PICK n \in 1 .. Len(spans) : spans[n] = SpanOf(d[j])
      BY <3>2 DEF OTelInv, SpansInv
    <3> QED BY <2>4, <2>5, <3>1, <3>2, <3>3
  <2>8. ASSUME NEW i \in With("succeeded")
        PROVE  \E n \in 1 .. Len(spans) : spans[n] = Span("apply", i, TRUE)
    <3>1. PICK j \in 1 .. k : d[j].kind = "snapshot_applied" /\ d[j].id = i
      BY <2>2 DEF HeardIDs
    <3>2. PICK n \in 1 .. Len(spans) : spans[n] = SpanOf(d[j])
      BY <3>1 DEF OTelInv, SpansInv
    <3> QED BY <2>4, <2>5, <3>1, <3>2
  <2>9. \A m, n \in DOMAIN spans : m < n =>
          \/ spans[m].id < spans[n].id
          \/ spans[m].id = spans[n].id /\ spans[m].name = "load" /\ spans[n].name = "apply"
    BY <2>3 DEF OTelInv, SpansInv, SpanBefore
  <2>10. ToSet(spans) = {spans[n] : n \in 1 .. Len(spans)}
    BY <2>3 DEF ToSet
  <2> DEFINE loads   == {Span("load", i, i \in With("succeeded")) :
                           i \in managed \cap DOMAIN accepted}
             applies == {Span("apply", i, TRUE) : i \in With("succeeded")}
  <2>11. \A x : x \in ToSet(spans) => x \in loads \/ x \in applies
    BY <2>6, <2>10, Zenon
  <2>12. \A x : x \in loads \/ x \in applies => x \in ToSet(spans)
    BY <2>7, <2>8, <2>10, Zenon
  <2> HIDE DEF loads, applies
  <2>13. ToSet(spans) = loads \cup applies
    BY <2>11, <2>12
  <2> QED BY <2>9, <2>13 DEF loads, applies
<1> QED BY <1>1, OTelInitial, OTelInductive, PTL DEF OTelSpec

(* The counters agree with the log of the manager.                         *)
THEOREM OTelCountersTellLog == OTelSpec => []CountersTellLog
<1>1. OTelInv => CountersTellLog
  <2> SUFFICES ASSUME OTelInv, Settled PROVE CountersTellLog
    BY DEF CountersTellLog
  <2>1. /\ HeardIDs(OTel, {"load_started"}) = managed
        /\ HeardIDs(OTel, Finishing) = managed \cap DOMAIN accepted
        /\ HeardIDs(OTel, {"load_failed"}) = With("failed") \cap managed
        /\ HeardIDs(OTel, {"snapshot_applied"}) = With("succeeded")
    BY OTelAssumption, HeardWhenSettled DEF OTelInv
  <2>2. \A code : FailedIDs(code) = {i \in With("failed") \cap managed :
                                       accepted[i].attempt.failure = code}
    BY <2>1 DEF FailedIDs
  <2>3. ChangedIDs = {i \in With("succeeded") :
                        ChecksumBefore(i) # {accepted[i].snapshot.checksum}}
    BY <2>1 DEF ChangedIDs, Changed
  <2> QED BY <2>1, <2>2, <2>3 DEF OTelInv, CountsInv, CountersTellLog
<1> QED BY <1>1, OTelInitial, OTelInductive, PTL DEF OTelSpec

(* At every moment, and not only when no event is under way, the counters  *)
(* are in step: one load at most is started and not completed, so that     *)
(* their difference is the number of loads in flight and never negative,   *)
(* and neither failures nor changes outnumber what they are part of.       *)
CountersInStep ==
  /\ Total("started") - Total("completed") \in {0, 1}
  /\ Total("failed") <= Total("completed")
  /\ Total("changed") <= Total("published")

(* An observer has heard the start of all it heard finish, and the finish  *)
(* of all it heard start but the last.                                     *)
LEMMA StartsAndFinishes ==
  ASSUME ManagerInv, NEW o \in Observers
  PROVE  /\ HeardIDs(o, Finishing) \subseteq HeardIDs(o, {"load_started"})
         /\ \E x : HeardIDs(o, {"load_started"}) \subseteq HeardIDs(o, Finishing) \cup {x}
<1>1. delivered[o] \in Seq(Event)
  BY DEF ManagerInv, BaseInv, ManagerTypeOK
<1>2. PICK d \in Seq(Event), k \in Nat : d = delivered[o] /\ k = Len(d)
  BY <1>1
<1>3. /\ d # <<>> => d[1].kind \in {"load_started", "snapshot_applied"}
      /\ \A i \in 1 .. k - 1 : Follows(d[i], d[i + 1])
  BY <1>2, DeliveryOrder, Zenon DEF DeliveredInOrder
<1>4. /\ \A e, f : Follows(e, f) /\ f.kind \in Finishing => e.kind = "load_started" /\ e.id = f.id
      /\ \A e, f : Follows(e, f) /\ e.kind = "load_started" => f.kind \in Finishing /\ f.id = e.id
  BY DEF Follows, Finishing
<1>5. \A kinds : HeardIDs(o, kinds) = {d[i].id : i \in {j \in 1 .. k : d[j].kind \in kinds}}
  BY <1>2, Zenon DEF HeardIDs
<1>6. ASSUME NEW i \in 1 .. k, d[i].kind \in Finishing
      PROVE  \E j \in 1 .. k : d[j].kind \in {"load_started"} /\ d[j].id = d[i].id
  <2>1. i # 1
    <3>1. d # <<>>
      BY <1>2
    <3> QED BY <1>3, <1>6, <3>1 DEF Finishing
  <2>2. PICK j \in 1 .. k - 1 : j + 1 = i /\ j \in 1 .. k
    <3>1. i - 1 \in 1 .. k - 1 /\ (i - 1) + 1 = i /\ i - 1 \in 1 .. k
      BY <2>1
    <3> QED BY <3>1
  <2>3. Follows(d[j], d[i])
    BY <1>3, <2>2
  <2> QED BY <1>4, <1>6, <2>2, <2>3, Zenon
<1>7. ASSUME NEW i \in 1 .. k, d[i].kind = "load_started", i # k
      PROVE  \E j \in 1 .. k : d[j].kind \in Finishing /\ d[j].id = d[i].id
  <2>1. i \in 1 .. k - 1 /\ i + 1 \in 1 .. k
    BY <1>7
  <2>2. Follows(d[i], d[i + 1])
    BY <1>3, <2>1
  <2> QED BY <1>4, <1>7, <2>1, <2>2, Zenon
<1>8. HeardIDs(o, Finishing) \subseteq HeardIDs(o, {"load_started"})
  <2>1. ASSUME NEW y \in HeardIDs(o, Finishing) PROVE y \in HeardIDs(o, {"load_started"})
    <3>1. PICK i \in 1 .. k : d[i].kind \in Finishing /\ y = d[i].id
      BY <1>5, <2>1
    <3>2. PICK j \in 1 .. k : d[j].kind \in {"load_started"} /\ d[j].id = d[i].id
      BY <1>6, <3>1
    <3>3. y \in {d[n].id : n \in {m \in 1 .. k : d[m].kind \in {"load_started"}}}
      BY <3>1, <3>2
    <3> QED BY <1>5, <3>3, Zenon
  <2> QED BY <2>1
<1>9. PICK x : x = d[k].id
  OBVIOUS
<1>10. HeardIDs(o, {"load_started"}) \subseteq HeardIDs(o, Finishing) \cup {x}
  <2>1. ASSUME NEW y \in HeardIDs(o, {"load_started"}), y # x PROVE y \in HeardIDs(o, Finishing)
    <3>1. PICK i \in 1 .. k : d[i].kind \in {"load_started"} /\ y = d[i].id
      BY <1>5, <2>1
    <3>2. i # k
      BY <1>9, <2>1, <3>1
    <3>3. PICK j \in 1 .. k : d[j].kind \in Finishing /\ d[j].id = d[i].id
      BY <1>7, <3>1, <3>2
    <3>4. y \in {d[n].id : n \in {m \in 1 .. k : d[m].kind \in Finishing}}
      BY <3>1, <3>3
    <3> QED BY <1>5, <3>4, Zenon
  <2> QED BY <2>1
<1> QED BY <1>8, <1>10, Zenon

(* What a dashboard makes of the counters is never impossible, whenever it *)
(* reads them (Observe under one load at a time).                          *)
THEOREM OTelCountersInStep == OTelSpec => []CountersInStep
<1>1. OTelInv => CountersInStep
  <2> SUFFICES ASSUME OTelInv PROVE CountersInStep
    OBVIOUS
  <2>1. PICK S, F : S = HeardIDs(OTel, {"load_started"}) /\ F = HeardIDs(OTel, Finishing)
    OBVIOUS
  <2>2. PICK x : F \subseteq S /\ S \subseteq F \cup {x}
    BY <2>1, StartsAndFinishes, OTelAssumption DEF OTelInv
  <2>3. /\ \A kinds : IsFiniteSet(HeardIDs(OTel, kinds))
        /\ IsFiniteSet(S) /\ IsFiniteSet(F)
    BY <2>1, HeardIDsBounded, OTelAssumption DEF OTelInv
  <2>4. Total("started") - Total("completed") \in {0, 1}
    <3>1. Total("started") = Cardinality(S) /\ Total("completed") = Cardinality(F)
      BY <2>1 DEF OTelInv, CountsInv
    <3>2. Cardinality(S) \in Nat /\ Cardinality(F) \in Nat
      BY <2>3, FS_CardinalityType
    <3>3. Cardinality(F) <= Cardinality(S)
      BY <2>2, <2>3, FS_Subset
    <3>4. /\ IsFiniteSet(F \cup {x})
          /\ Cardinality(F \cup {x}) = IF x \in F THEN Cardinality(F) ELSE Cardinality(F) + 1
      BY <2>3, FS_AddElement
    <3>5. Cardinality(S) <= Cardinality(F \cup {x})
      BY <2>2, <3>4, FS_Subset
    <3> QED BY <3>1, <3>2, <3>3, <3>4, <3>5
  <2>5. Total("failed") <= Total("completed")
    <3>1. HeardIDs(OTel, {"load_failed"}) \subseteq F
      BY <2>1 DEF HeardIDs, Finishing
    <3>2. Cardinality(HeardIDs(OTel, {"load_failed"})) <= Cardinality(F)
      BY <2>3, <3>1, FS_Subset
    <3> QED BY <2>1, <3>2 DEF OTelInv, CountsInv
  <2>6. Total("changed") <= Total("published")
    <3>1. ChangedIDs \subseteq HeardIDs(OTel, {"snapshot_applied"})
      BY DEF ChangedIDs
    <3>2. Cardinality(ChangedIDs) <= Cardinality(HeardIDs(OTel, {"snapshot_applied"}))
      BY <2>3, <3>1, FS_Subset
    <3> QED BY <3>2 DEF OTelInv, CountsInv
  <2> QED BY <2>4, <2>5, <2>6 DEF CountersInStep
<1> QED BY <1>1, OTelInitial, OTelInductive, PTL DEF OTelSpec

(***************************************************************************)
(* The structured log: a record for each event that was heard, which says  *)
(* what the log of the manager says of it.                                 *)
(***************************************************************************)
LogAttributes == [event     : EventKinds,
                  state     : LifecycleStates,
                  id        : Nat,
                  status    : {"", "succeeded", "failed", "unknown"},
                  stage     : Stages \cup {""},
                  code      : Failures,
                  attempted : Checksums \cup {""},
                  snapshot  : Checksums \cup {""},
                  published : BOOLEAN,
                  changed   : BOOLEAN]

LogRecord == [level : {"info", "error"}, attrs : LogAttributes]

RecordOf(e) == IF e.kind = "load_started" THEN LogStarted(e.id)
               ELSE IF e.kind = "snapshot_applied" THEN LogPublished(e.id) ELSE LogFinished(e.id)

RecordsInv ==
  /\ records \in Seq(LogRecord)
  /\ Len(records) = Len(delivered[Slog])
  /\ \A n \in 1 .. Len(delivered[Slog]) : records[n] = RecordOf(delivered[Slog][n])

(* The kinds of the events that tell of an entry of the log.               *)
LEMMA TrueKinds ==
  ASSUME ManagerInv, NEW e \in Event, EventTrue(e), e.kind # "load_started"
  PROVE  /\ e.id \in DOMAIN accepted /\ e.id # 0
         /\ e.kind = "snapshot_applied" => e.id \in With("succeeded")
         /\ e.kind # "snapshot_applied" =>
              e.kind = IF e.id \in With("succeeded") THEN "load_succeeded" ELSE "load_failed"
<1>1. DOMAIN accepted = 1 .. Len(accepted) /\ Len(accepted) \in Nat
  BY DEF ManagerInv, BaseInv, ManagerTypeOK
<1>2. /\ e.id \in DOMAIN accepted /\ e.id # 0
      /\ accepted[e.id].attempt.status = IF e.kind = "load_failed" THEN "failed" ELSE "succeeded"
  BY <1>1 DEF EventTrue
<1>3. e.id \in With("succeeded") <=> e.kind # "load_failed"
  BY <1>2 DEF With
<1>4. e.kind \in EventKinds
  BY DEF Event
<1> QED BY <1>2, <1>3, <1>4 DEF EventKinds

(* The record of an event, and what of the log it says.                    *)
LEMMA RecordSays ==
  ASSUME ManagerInv, NEW e \in Event, EventTrue(e)
  PROVE  EventOf(RecordOf(e)) = [kind |-> e.kind, id |-> e.id]
<1>1. CASE e.kind = "load_started"
  BY <1>1 DEF RecordOf, LogStarted, EventOf
<1>2. CASE e.kind = "snapshot_applied"
  BY <1>2 DEF RecordOf, LogPublished, LoggedOf, EventOf
<1>3. CASE e.kind # "load_started" /\ e.kind # "snapshot_applied"
  BY <1>3, TrueKinds DEF RecordOf, LogFinished, LoggedOf, EventOf
<1> QED BY <1>1, <1>2, <1>3

(* The observer logs the record of the event it is called with.            *)
LEMMA LogsRecord ==
  ASSUME ManagerInv, NEW e \in Event, NEW a, EventTrue(e), AboutTrue(a, e)
  PROVE  /\ [level |-> Level(e), attrs |-> slogEventAttrs(e, a)] = RecordOf(e)
         /\ RecordOf(e) \in LogRecord
<1>1. e.kind \in EventKinds /\ e.state \in LifecycleStates /\ e.id \in Nat
  BY DEF Event
<1>2. CASE e.kind = "load_started"
  <2>1. e.state = StateAfter(e.id - 1) /\ e.id # 0 /\ a = Nil
    BY <1>2 DEF EventTrue, AboutTrue
  <2>2. slogEventAttrs(e, a) = LogStarted(e.id).attrs
    BY <1>2, <2>1 DEF slogEventAttrs, EventSnapshot, LogStarted
  <2>3. Level(e) = "info"
    BY <1>2 DEF Level
  <2>4. [level |-> Level(e), attrs |-> slogEventAttrs(e, a)] = RecordOf(e)
    BY <1>2, <2>2, <2>3 DEF RecordOf, LogStarted
  <2>5. slogEventAttrs(e, a) \in LogAttributes
    BY <1>1, <2>1 DEF slogEventAttrs, EventSnapshot, Failures, LogAttributes
  <2>6. [level |-> Level(e), attrs |-> slogEventAttrs(e, a)] \in LogRecord
    BY <2>3, <2>5 DEF LogRecord
  <2> QED BY <2>4, <2>6
<1>3. CASE e.kind # "load_started"
  <2>1. PICK i \in DOMAIN accepted, r \in LoadResult :
             /\ i = e.id /\ r = accepted[i] /\ i # 0
             /\ ValidLoadResult(r) /\ (i \in With("succeeded") <=> r.attempt.status = "succeeded")
    <3>1. e.id \in DOMAIN accepted /\ e.id # 0
      BY <1>3, TrueKinds
    <3>2. accepted[e.id] \in LoadResult /\ ValidLoadResult(accepted[e.id])
      BY <3>1 DEF ManagerInv, BaseInv, ManagerTypeOK, LogValid
    <3> QED BY <3>1, <3>2 DEF With
  <2>2. e.state = StateAfter(i)
    BY <1>3, <2>1 DEF EventTrue
  <2>3. /\ a # Nil /\ a.attempt \in AttemptRecord /\ a.apply \in ApplyResult
        /\ a.attempt = r.attempt
        /\ a.apply.published <=> i \in With("succeeded")
        /\ a.apply.published => a.apply.current = r.snapshot
        /\ a.apply.changed <=> i \in With("succeeded") /\ Changed(i)
    BY <1>3, <2>1, OTelAssumption DEF AboutTrue
  <2>4. /\ a.apply.published = (i \in With("succeeded"))
        /\ a.apply.changed = (i \in With("succeeded") /\ ChecksumBefore(i) # {r.snapshot.checksum})
    BY <2>1, <2>3 DEF ApplyResult, Changed
  <2>5. (IF EventSnapshot(a) = Nil THEN "" ELSE EventSnapshot(a).checksum)
          = IF i \in With("succeeded") THEN r.snapshot.checksum ELSE ""
    <3>1. i \in With("succeeded") => r.snapshot # Nil
      BY <2>1 DEF ValidLoadResult, ValidSucceeded
    <3> QED BY <2>3, <3>1 DEF EventSnapshot
  <2>6. slogEventAttrs(e, a) = LoggedOf(e.kind, i)
    <3>1. e.id = i /\ (IF e.id = 0 /\ a # Nil THEN a.attempt.id ELSE e.id) = i
      BY <2>1
    <3>2. /\ (IF a = Nil THEN "" ELSE a.attempt.status) = accepted[i].attempt.status
          /\ (IF a = Nil THEN "" ELSE a.attempt.stage) = accepted[i].attempt.stage
          /\ (IF a = Nil THEN Nil ELSE a.attempt.failure) = accepted[i].attempt.failure
          /\ (IF a = Nil THEN "" ELSE a.attempt.checksum) = accepted[i].attempt.checksum
      BY <2>1, <2>3
    <3>3. (IF EventSnapshot(a) = Nil THEN "" ELSE EventSnapshot(a).checksum)
            = IF i \in With("succeeded") THEN accepted[i].snapshot.checksum ELSE ""
      BY <2>1, <2>5
    <3>4. (a # Nil /\ a.apply.published) = (i \in With("succeeded"))
      BY <2>3
    <3>5. (a # Nil /\ a.apply.changed)
            = (i \in With("succeeded") /\ ChecksumBefore(i) # {accepted[i].snapshot.checksum})
      BY <2>1, <2>3, <2>4
    <3> QED BY <2>2, <3>1, <3>2, <3>3, <3>4, <3>5, Zenon DEF slogEventAttrs, LoggedOf
  <2>7. [level |-> Level(e), attrs |-> slogEventAttrs(e, a)] = RecordOf(e)
    <3>1. CASE e.kind = "snapshot_applied"
      BY <2>1, <2>6, <3>1 DEF Level, RecordOf, LogPublished
    <3>2. CASE e.kind # "snapshot_applied"
      <4>1. e.kind = IF i \in With("succeeded") THEN "load_succeeded" ELSE "load_failed"
        BY <1>3, <2>1, <3>2, TrueKinds
      <4>2. Level(e) = IF i \in With("succeeded") THEN "info" ELSE "error"
        BY <4>1 DEF Level
      <4>3. RecordOf(e) = LogFinished(i)
        BY <1>3, <2>1, <3>2 DEF RecordOf
      <4>4. LogFinished(i) = IF i \in With("succeeded")
                             THEN [level |-> "info",  attrs |-> LoggedOf("load_succeeded", i)]
                             ELSE [level |-> "error", attrs |-> LoggedOf("load_failed", i)]
        BY DEF LogFinished
      <4> QED BY <2>6, <4>1, <4>2, <4>3, <4>4, Zenon
    <3> QED BY <3>1, <3>2
  <2>8. /\ (IF EventSnapshot(a) = Nil THEN "" ELSE EventSnapshot(a).checksum) \in Checksums \cup {""}
        /\ r.attempt.checksum \in Checksums \cup {""} /\ r.attempt.stage \in Stages \cup {""}
        /\ r.attempt.status \in {"", "succeeded", "failed", "unknown"}
        /\ r.attempt.failure \in Failures
    <3>1. i \in With("succeeded") => r.snapshot \in Metadata
      BY <2>1 DEF ValidLoadResult, ValidSucceeded, LoadResult
    <3>2. r.attempt \in AttemptRecord
      BY DEF LoadResult
    <3> QED BY <2>5, <3>1, <3>2 DEF Metadata, AttemptRecord
  <2>9. slogEventAttrs(e, a) \in LogAttributes
    BY <1>1, <2>1, <2>3, <2>4, <2>8 DEF slogEventAttrs, LogAttributes
  <2>10. Level(e) \in {"info", "error"}
    BY DEF Level
  <2>11. [level |-> Level(e), attrs |-> slogEventAttrs(e, a)] \in LogRecord
    BY <2>9, <2>10 DEF LogRecord
  <2> QED BY <2>7, <2>11
<1> QED BY <1>2, <1>3

(* A longer log makes the same record of an event.                         *)
LEMMA RecordKept ==
  ASSUME ManagerInv, ManagerInv', LogGrows, NEW e \in Event, EventTrue(e)
  PROVE  RecordOf(e)' = RecordOf(e)
<1>1. EventTrue(e)'
  BY EventTrueKept DEF ManagerInv
<1>2. CASE e.kind = "load_started"
  <2>1. StateAfter(e.id - 1)' = StateAfter(e.id - 1)
    BY <1>1, <1>2 DEF EventTrue
  <2> QED BY <1>2, <2>1 DEF RecordOf, LogStarted
<1>3. CASE e.kind # "load_started"
  <2>1. StateAfter(e.id)' = StateAfter(e.id)
    BY <1>1, <1>3 DEF EventTrue
  <2>2. e.id \in DOMAIN accepted /\ e.id \in DOMAIN accepted' /\ accepted'[e.id] = accepted[e.id]
    BY <1>3, TrueKinds DEF LogGrows
  <2>3. (e.id \in With("succeeded"))' <=> e.id \in With("succeeded")
    BY <2>2 DEF With
  <2>4. ChecksumBefore(e.id)' = ChecksumBefore(e.id)
    <3>1. e.id \in 1 .. Len(accepted) + 1
      BY <2>2 DEF ManagerInv, BaseInv, ManagerTypeOK
    <3> QED BY <3>1, ChecksumKept DEF ManagerInv
  <2>5. ASSUME NEW kind PROVE LoggedOf(kind, e.id)' = LoggedOf(kind, e.id)
    <3>1. (e.id \in With("succeeded")
             /\ ChecksumBefore(e.id) # {accepted[e.id].snapshot.checksum})'
            = (e.id \in With("succeeded")
                 /\ ChecksumBefore(e.id) # {accepted[e.id].snapshot.checksum})
      BY <2>2, <2>3, <2>4
    <3>2. (e.id \in With("succeeded"))' = (e.id \in With("succeeded"))
      BY <2>3
    <3> QED BY <2>1, <2>2, <3>1, <3>2, Zenon DEF LoggedOf
  <2> QED BY <1>3, <2>3, <2>5 DEF RecordOf, LogPublished, LogFinished
<1> QED BY <1>2, <1>3

(* What the log observer hears is logged.                                  *)
LEMMA RecordsHear ==
  ASSUME ManagerInv, ManagerInv', LogGrows, AboutInv, RecordsInv,
         NEW c \in Callers, ObservedDelivery(c),
         IF turn[c] = Slog THEN Log(Head(events[c]), about[c]) ELSE UNCHANGED records
  PROVE  RecordsInv'
<1>1. PICK e \in Event, d \in Seq(Event) :
           /\ e = Head(events[c]) /\ EventTrue(e) /\ AboutTrue(about[c], e)
           /\ d = delivered[Slog]
           /\ delivered'[Slog] = IF turn[c] = Slog THEN Append(d, e) ELSE d
  BY Hearing, SlogAssumption
<1>2. PICK k \in Nat : k = Len(d) /\ \A i \in 1 .. k : d[i] \in Event /\ EventTrue(d[i])
  <2>1. Len(d) \in Nat /\ \A i \in 1 .. Len(d) : d[i] \in Event /\ EventTrue(d[i])
    BY <1>1, SlogAssumption, StoryTold
  <2> QED BY <2>1
<1>3. \A i \in 1 .. k : RecordOf(d[i])' = RecordOf(d[i])
  <2>1. ASSUME NEW x \in Event, EventTrue(x) PROVE RecordOf(x)' = RecordOf(x)
    BY <2>1, RecordKept
  <2>2. ASSUME NEW i \in 1 .. k PROVE RecordOf(d[i])' = RecordOf(d[i])
    <3>1. PICK x \in Event : x = d[i] /\ EventTrue(x)
      BY <1>2
    <3> QED BY <2>1, <3>1
  <2> QED BY <2>2
<1>4. RecordOf(e)' = RecordOf(e)
  BY <1>1, RecordKept
<1>5. records \in Seq(LogRecord) /\ Len(records) = k /\ \A i \in 1 .. k : records[i] = RecordOf(d[i])
  BY <1>1, <1>2 DEF RecordsInv
<1>6. CASE turn[c] # Slog
  <2>1. records' = records /\ delivered'[Slog] = d
    BY <1>1, <1>6
  <2> QED BY <1>2, <1>3, <1>5, <2>1 DEF RecordsInv
<1>7. CASE turn[c] = Slog
  <2>1. PICK x \in LogRecord : x = RecordOf(e) /\ records' = Append(records, x)
    <3>1. records' = Append(records, [level |-> Level(e), attrs |-> slogEventAttrs(e, about[c])])
      BY <1>1, <1>7 DEF Log
    <3> QED BY <1>1, <3>1, LogsRecord
  <2>2. /\ Append(records, x) \in Seq(LogRecord) /\ Len(Append(records, x)) = k + 1
        /\ Append(records, x)[k + 1] = x
        /\ \A i \in 1 .. k : Append(records, x)[i] = records[i]
    BY <1>5, OneMore
  <2>3. /\ delivered'[Slog] = Append(d, e) /\ Len(Append(d, e)) = k + 1
        /\ Append(d, e)[k + 1] = e /\ \A i \in 1 .. k : Append(d, e)[i] = d[i]
        /\ 1 .. k + 1 = (1 .. k) \cup {k + 1}
    BY <1>1, <1>2, <1>7, OneMore
  <2>4. ASSUME NEW i \in 1 .. k + 1
        PROVE  records'[i] = RecordOf(delivered[Slog][i])'
    <3>1. CASE i \in 1 .. k
      <4>1. PICK y : y = d[i] /\ RecordOf(y)' = RecordOf(y)
        BY <1>3, <3>1
      <4>2. delivered'[Slog][i] = y /\ records'[i] = RecordOf(y)
        BY <1>5, <2>1, <2>2, <2>3, <3>1, <4>1
      <4> QED BY <4>1, <4>2
    <3>2. CASE i = k + 1
      BY <1>4, <2>1, <2>2, <2>3, <3>2
    <3> QED BY <2>3, <3>1, <3>2
  <2> QED BY <2>1, <2>2, <2>3, <2>4 DEF RecordsInv
<1> QED BY <1>6, <1>7

(* Every step keeps the records.                                           *)
LEMMA RecordsInductive ==
  ASSUME ManagerInv, ManagerInv', AboutInv, RecordsInv, [SlogNext]_<<vars, otelVars, records>>
  PROVE  RecordsInv'
<1>1. LogGrows
  BY SlogStepIsOTelStep, OTelStepIsManagerStep, ManagerStepGrowsLog DEF ManagerInv
<1>2. ASSUME UNCHANGED <<records, delivered>> PROVE RecordsInv'
  <2>1. Slog \in Observers
    BY SlogAssumption
  <2>2. ASSUME NEW n \in 1 .. Len(delivered[Slog])
        PROVE  RecordOf(delivered[Slog][n])' = RecordOf(delivered[Slog][n])
    <3>1. PICK x \in Event : x = delivered[Slog][n] /\ EventTrue(x)
      BY <2>1, StoryTold
    <3>2. RecordOf(x)' = RecordOf(x)
      BY <1>1, <3>1, RecordKept
    <3>3. delivered'[Slog][n] = x
      BY <1>2, <3>1
    <3> QED BY <3>1, <3>2, <3>3
  <2> QED BY <1>2, <2>2 DEF RecordsInv
<1>3. CASE UNCHANGED <<vars, otelVars, records>>
  BY <1>2, <1>3 DEF vars
<1>4. ASSUME NEW c \in Callers, ObservedStart(c) \/ ObservedCommit(c), UNCHANGED records
      PROVE  RecordsInv'
  BY <1>2, <1>4 DEF ObservedStart, StartLoad, ObservedCommit, CommitLoad, AcceptExternal
<1>5. ASSUME NEW c \in Callers, Unobserved(c), UNCHANGED records
      PROVE  RecordsInv'
  BY <1>2, <1>5, UnobservedKeeps DEF ManagerInv
<1> QED BY <1>1, <1>3, <1>4, <1>5, RecordsHear DEF SlogNext

(* The structured log retells what happened, in order.                     *)
THEOREM SlogRecordsTellLog == SlogSpec => []RecordsTellLog
<1>1. SlogInit => OTelInv /\ RecordsInv
  <2> SUFFICES ASSUME SlogInit PROVE OTelInv /\ RecordsInv
    OBVIOUS
  <2>1. Slog \in Observers /\ records = <<>> /\ delivered = [o \in Observers |-> <<>>]
    BY SlogAssumption DEF SlogInit, OTelInit, ManagerInit
  <2>2. Len(<<>>) = 0 /\ 1 .. 0 = {} /\ <<>> \in Seq(LogRecord)
    OBVIOUS
  <2>3. RecordsInv
    BY <2>1, <2>2 DEF RecordsInv
  <2> QED BY <2>3, OTelInitial DEF SlogInit
<1>2. OTelInv /\ RecordsInv /\ [SlogNext]_<<vars, otelVars, records>> => OTelInv' /\ RecordsInv'
  <2> SUFFICES ASSUME OTelInv, RecordsInv, [SlogNext]_<<vars, otelVars, records>>
               PROVE  OTelInv' /\ RecordsInv'
    OBVIOUS
  <2>1. OTelInv'
    BY SlogStepIsOTelStep, OTelInductive
  <2>2. ManagerInv'
    BY <2>1 DEF OTelInv
  <2> QED BY <2>1, <2>2, RecordsInductive DEF OTelInv
<1>3. OTelInv /\ RecordsInv => RecordsTellLog
  <2> SUFFICES ASSUME OTelInv, RecordsInv, Settled
               PROVE  /\ ToSet(records) = {LogStarted(i) : i \in managed}
                           \cup {LogFinished(i) : i \in managed \cap DOMAIN accepted}
                           \cup {LogPublished(i) : i \in With("succeeded")}
                      /\ \A m, n \in DOMAIN records : m < n =>
                           Before(EventOf(records[m]), EventOf(records[n]))
    BY DEF RecordsTellLog
  <2>1. Slog \in Observers /\ ManagerInv
    BY SlogAssumption DEF OTelInv
  <2>2. /\ HeardIDs(Slog, {"load_started"}) = managed
        /\ HeardIDs(Slog, Finishing) = managed \cap DOMAIN accepted
        /\ HeardIDs(Slog, {"snapshot_applied"}) = With("succeeded")
    BY <2>1, HeardWhenSettled DEF OTelInv
  <2> DEFINE d == delivered[Slog]
             k == Len(delivered[Slog])
  <2>3. DOMAIN records = 1 .. k /\ \A n \in 1 .. k : records[n] = RecordOf(d[n])
    BY DEF RecordsInv
  <2>4. \A i \in 1 .. k : d[i] \in Event /\ EventTrue(d[i])
    BY <2>1, StoryTold
  <2>5. ASSUME NEW m \in 1 .. k, NEW n \in 1 .. k, m < n
        PROVE  Before(EventOf(records[m]), EventOf(records[n]))
    <3>1. Before(d[m], d[n])
      BY <2>1, <2>5, StoryTold
    <3>2. /\ EventOf(records[m]) = [kind |-> d[m].kind, id |-> d[m].id]
          /\ EventOf(records[n]) = [kind |-> d[n].kind, id |-> d[n].id]
      BY <2>1, <2>3, <2>4, RecordSays
    <3> QED BY <3>1, <3>2 DEF Before
  <2> DEFINE began     == {LogStarted(i) : i \in managed}
             ended     == {LogFinished(i) : i \in managed \cap DOMAIN accepted}
             published == {LogPublished(i) : i \in With("succeeded")}
  <2>6. ASSUME NEW n \in 1 .. k
        PROVE  records[n] \in began \/ records[n] \in ended \/ records[n] \in published
    <3>1. d[n].kind \in EventKinds /\ records[n] = RecordOf(d[n])
      BY <2>3, <2>4 DEF Event
    <3>2. CASE d[n].kind = "load_started"
      <4>1. d[n].id \in HeardIDs(Slog, {"load_started"})
        BY <3>2 DEF HeardIDs
      <4> QED BY <2>2, <3>1, <3>2, <4>1 DEF RecordOf
    <3>3. CASE d[n].kind = "snapshot_applied"
      <4>1. d[n].id \in HeardIDs(Slog, {"snapshot_applied"})
        BY <3>3 DEF HeardIDs
      <4> QED BY <2>2, <3>1, <3>3, <4>1 DEF RecordOf
    <3>4. CASE d[n].kind \in Finishing
      <4>1. d[n].id \in HeardIDs(Slog, Finishing)
        BY <3>4 DEF HeardIDs
      <4> QED BY <2>2, <3>1, <3>4, <4>1 DEF RecordOf, Finishing
    <3> QED BY <3>1, <3>2, <3>3, <3>4 DEF EventKinds, Finishing
  <2>7. ASSUME NEW kinds, NEW i \in HeardIDs(Slog, kinds)
        PROVE  \E n \in 1 .. k : d[n].kind \in kinds /\ d[n].id = i
    BY <2>7 DEF HeardIDs
  <2>8. ASSUME NEW i \in managed PROVE \E n \in 1 .. k : records[n] = LogStarted(i)
    <3>1. PICK n \in 1 .. k : d[n].kind = "load_started" /\ d[n].id = i
      BY <2>2, <2>7
    <3> QED BY <2>3, <3>1 DEF RecordOf
  <2>9. ASSUME NEW i \in managed \cap DOMAIN accepted
        PROVE  \E n \in 1 .. k : records[n] = LogFinished(i)
    <3>1. PICK n \in 1 .. k : d[n].kind \in Finishing /\ d[n].id = i
      BY <2>2, <2>7
    <3> QED BY <2>3, <3>1 DEF RecordOf, Finishing
  <2>10. ASSUME NEW i \in With("succeeded")
         PROVE  \E n \in 1 .. k : records[n] = LogPublished(i)
    <3>1. PICK n \in 1 .. k : d[n].kind = "snapshot_applied" /\ d[n].id = i
      BY <2>2, <2>7
    <3> QED BY <2>3, <3>1 DEF RecordOf
  <2>11. \A x : x \in ToSet(records) <=> \E n \in 1 .. k : x = records[n]
    BY <2>3 DEF ToSet
  <2>12. \A x : x \in ToSet(records) => x \in began \/ x \in ended \/ x \in published
    BY <2>6, <2>11, Zenon
  <2>13. \A x : x \in began \/ x \in ended \/ x \in published => x \in ToSet(records)
    BY <2>8, <2>9, <2>10, <2>11, Zenon
  <2> HIDE DEF began, ended, published
  <2>14. ToSet(records) = began \cup ended \cup published
    BY <2>12, <2>13
  <2> QED BY <2>3, <2>5, <2>14 DEF began, ended, published
<1> QED BY <1>1, <1>2, <1>3, PTL DEF SlogSpec
================================================================================
