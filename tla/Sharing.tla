------------------------------- MODULE Sharing -------------------------------
(***************************************************************************)
(* A Manager in memory: which cells its own records, the results and       *)
(* events in its callers' hands and the answers it has given away are in.  *)
(*                                                                         *)
(* Go hands out structs that hold pointers, slices and maps, and whoever   *)
(* gets one may write to it.  The code copies on the way in and on the way *)
(* out (cloneAttemptRecord, cloneApplyResult, cloneEvent, NewSnapshot,     *)
(* Redacted, BytesSource); here every copy is a fresh cell, and a holder   *)
(* may edit every cell it was given.  A cell is an attempt with its        *)
(* failure, an apply result with its two metadata, an event, a redacted    *)
(* map, or a byte slice: the code copies each of them as a whole.          *)
(*                                                                         *)
(* The redacted map inside a Snapshot is not exported, and the copies of a *)
(* Snapshot share it.  The configuration value, and what a redacted map    *)
(* contains, are documented as shared, and are left out.                   *)
(***************************************************************************)
EXTENDS Manager, FiniteSets

CONSTANTS
  MaxReads,  \* bound on the number of answers asked for
  MaxEdits   \* bound on the number of cells that are edited

ASSUME SharingAssumption == MaxReads \in Nat /\ MaxEdits \in Nat

(* The goroutines of the application and the observers keep what they get. *)
Holders == Callers \cup Observers

VARIABLES
  heap,    \* the content of every cell, in the order of allocation
  own,     \* the cells of the manager's fields, and of a BytesSource
  result,  \* the cells of the load result each call has in hand
  sent,    \* those of the events each call has built, in the order of delivery
  answer,  \* that of the apply result each call will return
  holds,   \* the cells each holder was given
  reads    \* number of answers asked for

memVars    == <<heap, own, result, sent, answer, holds, reads>>
sharedVars == <<vars, memVars>>

None == 0  \* the nil pointer

SourceBytes   == [bytes |-> "data"]
View(r)       == [view |-> r.snapshot]
EditedBy(h)   == [editor |-> h]

(* What the code writes to a cell.                                         *)
Contents == AttemptRecord \cup ApplyResult \cup Event
              \cup [view : Metadata \cup {Nil}] \cup {SourceBytes}

ASSUME ContentsAssumption == Nil \notin Contents

SharingInit ==
  /\ ManagerInit
  /\ heap = <<SourceBytes, SourceBytes>>
  /\ own  = [lastAttempt |-> None, lastSuccess |-> None, lastFailure |-> None,
             lastApply |-> None, history |-> <<>>, redacted |-> None, bytes |-> 1]
  /\ result = [c \in Callers |-> [attempt |-> None, redacted |-> None]]
  /\ sent   = [c \in Callers |-> <<>>]
  /\ answer = [c \in Callers |-> None]
  /\ \E c \in Callers :  \* who called NewBytesSource has its own bytes still
       holds = [h \in Holders |-> IF h = c THEN {2} ELSE {}]
  /\ reads = 0

Put(values)  == heap' = heap \o values
Fresh(s)     == [i \in DOMAIN s |-> Len(heap) + i]
Cells(s)     == {s[i] : i \in DOMAIN s} \ {None}
Give(h, s)   == holds' = [holds EXCEPT ![h] = @ \cup Cells(s)]
Copies(s)    == [i \in DOMAIN s |-> heap[s[i]]]

(***************************************************************************)
(* The results of a load: an attempt, the map that the redactor returned,  *)
(* which it may keep, the snapshot's copy of it, and the bytes the source  *)
(* copied for the decoder, which may keep them.                            *)
(***************************************************************************)
LoadInto(c, r) ==
  LET at == Fresh(<<"attempt", "redactor's", "redacted", "decoder's">>)
  IN  /\ Put(<<r.attempt, View(r), View(r), heap[own.bytes]>>)
      /\ result' = [result EXCEPT ![c] =
           [attempt  |-> at[1],
            redacted |-> IF r.snapshot = Nil THEN None ELSE at[3]]]
      /\ Give(c, IF phase[c] = "idle" THEN <<at[1], at[2], at[4]>> ELSE <<at[2], at[4]>>)

RunSharedLoad(c) ==
  /\ RunLoad(c)
  /\ LoadInto(c, job'[c])
  /\ UNCHANGED <<own, sent, answer, reads>>

(* The application loads, and passes the result it has to Apply.           *)
CallSharedApply(c) ==
  /\ \E k \in Contexts : \E r \in ExternalResults :
       CallApply(c, k, r) /\ LoadInto(c, r)
  /\ UNCHANGED <<own, sent, answer, reads>>

(***************************************************************************)
(* apply copies the attempt for each field that keeps it, and the apply    *)
(* result for the one it returns; the events are built from copies too.    *)
(***************************************************************************)
Recorded(cell) ==
  LET longer == Append(own.history, cell)
  IN  SubSeq(longer, Len(longer) - Len(attemptHistory') + 1, Len(longer))

CommitShared(c) ==
  LET records == <<lastAttempt', lastAttempt', lastAttempt', lastApply', lastApply'>>
      at      == Fresh(records \o events'[c])
  IN  /\ CommitLoad(c) \/ AcceptExternal(c)
      /\ Put(records \o events'[c])
      /\ own' = [own EXCEPT
           !.lastAttempt = at[1],
           !.lastSuccess = IF lastApply'.published THEN at[2] ELSE @,
           !.lastFailure = IF lastApply'.published THEN @ ELSE at[2],
           !.history     = Recorded(at[3]),
           !.lastApply   = at[4],
           !.redacted    = IF lastApply'.published THEN result[c].redacted ELSE @]
      /\ answer' = [answer EXCEPT ![c] = at[5]]
      /\ sent' = [sent EXCEPT ![c] = SubSeq(at, 6, Len(at))]
      /\ UNCHANGED <<result, holds, reads>>

StartSharedLoad(c) ==
  /\ StartLoad(c)
  /\ Put(events'[c])
  /\ sent' = [sent EXCEPT ![c] = Fresh(events'[c])]
  /\ UNCHANGED <<own, result, answer, holds, reads>>

(* A faulty variant, no part of the specification, is here and before      *)
(* Attempts.                                                               *)
EventForAll(c) == <<Head(sent[c])>>  \* every observer gets the same event

(* notify: every observer gets its own copy of the event.                  *)
EventFor(c) == Fresh(<<Head(sent[c])>>)

DeliverShared(c) ==
  /\ Deliver(c)
  /\ Put(Copies(<<Head(sent[c])>>))
  /\ Give(turn[c], EventFor(c))
  /\ sent' = [sent EXCEPT ![c] = IF events'[c] = events[c] THEN @ ELSE Tail(@)]
  /\ UNCHANGED <<own, result, answer, reads>>

Forget(c) ==
  /\ result' = [result EXCEPT ![c] = [attempt |-> None, redacted |-> None]]
  /\ answer' = [answer EXCEPT ![c] = None]

ReturnShared(c) ==
  /\ Return(c)
  /\ Give(c, <<result[c].attempt, answer[c]>>)
  /\ Forget(c)
  /\ UNCHANGED <<heap, own, sent, reads>>

OtherCallStep(c) ==
  /\ \/ \E k \in Contexts : CallLoad(c, k)
     \/ Acquire(c)
     \/ \E k \in Dead : CancelCall(c, k)
     \/ RejectExternal(c)
  /\ UNCHANGED memVars

ReturnSharedRefused(c) ==
  /\ ReturnRefused(c)
  /\ Forget(c)
  /\ UNCHANGED <<heap, own, sent, holds, reads>>

(***************************************************************************)
(* The answers of the readers, copies of what the manager has.             *)
(***************************************************************************)
NotNil(cell) == IF cell = None THEN <<>> ELSE <<cell>>

StatusCells == NotNil(own.lastAttempt) \o NotNil(own.lastSuccess)
                 \o NotNil(own.lastFailure) \o NotNil(own.lastApply)

Answer(h, cells) ==
  /\ reads < MaxReads
  /\ reads' = reads + 1
  /\ Put(Copies(cells))
  /\ Give(h, Fresh(cells))
  /\ UNCHANGED <<vars, own, result, sent, answer>>

AttemptsItself(h) ==  \* the slice itself, not a copy
  /\ reads < MaxReads
  /\ reads' = reads + 1
  /\ Give(h, own.history)
  /\ UNCHANGED <<vars, heap, own, result, sent, answer>>

LifecycleStatus(h)     == Answer(h, StatusCells)
Attempts(h)            == Answer(h, own.history)
LifecycleInspection(h) == Answer(h, StatusCells \o NotNil(own.redacted))
Redacted(h)            == Answer(h, NotNil(own.redacted))

(***************************************************************************)
(* A holder writes to what it holds.  Its own call's argument it leaves    *)
(* alone until the call returns, as Go asks of it.                         *)
(***************************************************************************)
Lent(h) == IF h \in Callers THEN {result[h].attempt} ELSE {}

Edit(h) ==
  /\ Cardinality({p \in DOMAIN heap : \E g \in Holders : heap[p] = EditedBy(g)}) < MaxEdits
  /\ \E p \in holds[h] \ Lent(h) : heap' = [heap EXCEPT ![p] = EditedBy(h)]
  /\ UNCHANGED <<vars, own, result, sent, answer, holds, reads>>

SharingNext ==
  \/ \E c \in Callers :
       \/ RunSharedLoad(c) \/ CallSharedApply(c) \/ CommitShared(c)
       \/ StartSharedLoad(c) \/ DeliverShared(c)
       \/ ReturnShared(c) \/ ReturnSharedRefused(c) \/ OtherCallStep(c)
  \/ \E h \in Holders :
       \/ LifecycleStatus(h) \/ Attempts(h) \/ LifecycleInspection(h) \/ Redacted(h)
       \/ Edit(h)

SharingSpec == SharingInit /\ [][SharingNext]_sharedVars

(***************************************************************************)
(* Properties.                                                             *)
(***************************************************************************)
At(cell, value) == IF value = Nil THEN cell = None
                                  ELSE cell # None /\ heap[cell] = value

(* What the manager's pointers lead to is the state Manager says it has,   *)
(* and a BytesSource still has its bytes, whatever its observers, its      *)
(* callers and their callbacks have written to all they were ever given.   *)
MemoryTellsState ==
  /\ At(own.lastAttempt, lastAttempt)
  /\ At(own.lastSuccess, lastSuccess)
  /\ At(own.lastFailure, lastFailure)
  /\ At(own.lastApply, lastApply)
  /\ Copies(own.history) = attemptHistory
  /\ At(own.redacted, IF current = Nil THEN Nil ELSE [view |-> current])
  /\ At(own.bytes, SourceBytes)

(* Nobody reads what another one wrote: neither an observer in its events, *)
(* nor a caller in its results and answers, nor the later answers that are *)
(* copied from the manager.                                                *)
AnswersAreOwn ==
  \A h \in Holders : \A p \in holds[h] : \A g \in Holders \ {h} : heap[p] # EditedBy(g)
=============================================================================
