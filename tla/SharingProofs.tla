----------------------------- MODULE SharingProofs -----------------------------
(***************************************************************************)
(* Proofs about Sharing, for any callers, observers, results and limits,   *)
(* and for any number of answers and edits.                                *)
(***************************************************************************)
EXTENDS Sharing, ManagerProofs

(* The cells are hidden from the manager: its theorems hold here.          *)
LEMMA SharingStepIsManagerStep == [SharingNext]_sharedVars => [ManagerNext]_vars
<1> SUFFICES ASSUME [SharingNext]_sharedVars PROVE [ManagerNext]_vars
  OBVIOUS
<1>1. CASE UNCHANGED sharedVars
  BY <1>1 DEF sharedVars
<1>2. ASSUME NEW c \in Callers,
             \/ RunSharedLoad(c) \/ CallSharedApply(c) \/ CommitShared(c) \/ StartSharedLoad(c)
             \/ DeliverShared(c) \/ ReturnShared(c) \/ ReturnSharedRefused(c) \/ OtherCallStep(c)
      PROVE  ManagerNext
  BY <1>2 DEF RunSharedLoad, CallSharedApply, CommitShared, StartSharedLoad, DeliverShared,
              ReturnShared, ReturnSharedRefused, OtherCallStep, ManagerNext, Work
<1>3. ASSUME NEW h \in Holders,
             \/ LifecycleStatus(h) \/ Attempts(h) \/ LifecycleInspection(h) \/ Redacted(h) \/ Edit(h)
      PROVE  UNCHANGED vars
  BY <1>3 DEF LifecycleStatus, Attempts, LifecycleInspection, Redacted, Answer, Edit
<1> QED BY <1>1, <1>2, <1>3 DEF SharingNext

(* Whatever is copied, given away and edited, the manager is Manager.      *)
THEOREM SharingIsManager == SharingSpec => ManagerSpec
<1>1. SharingInit => ManagerInit
  BY DEF SharingInit
<1> QED BY <1>1, SharingStepIsManagerStep, PTL DEF SharingSpec, ManagerSpec

(***************************************************************************)
(* The inductive invariant.  The cells in use are of three sorts: those    *)
(* the manager keeps, its records and the results and events on their way; *)
(* those due to a caller when its call returns; and those somebody holds.  *)
(* No cell is of two sorts, but for the attempt of a result that its       *)
(* caller holds while it applies it, and nobody holds what another holds.  *)
(***************************************************************************)
Used == 1 .. Len(heap)

Kept == ({own.lastAttempt, own.lastSuccess, own.lastFailure, own.lastApply, own.redacted, own.bytes}
           \cup {own.history[i] : i \in DOMAIN own.history}
           \cup {result[c].redacted : c \in Callers}
           \cup UNION {{sent[c][i] : i \in DOMAIN sent[c]} : c \in Callers}) \ {None}

Due == [c \in Callers |-> {result[c].attempt, answer[c]} \ {None}]

Cell == Nat \ {None}

OwnType == [lastAttempt : Nat, lastSuccess : Nat, lastFailure : Nat, lastApply : Nat,
            history : Seq(Cell), redacted : Nat, bytes : Nat]

Edits == {EditedBy(h) : h \in Holders}

MemType ==
  /\ heap \in Seq(Contents \cup Edits)
  /\ own \in OwnType
  /\ result \in [Callers -> [attempt : Nat, redacted : Nat]]
  /\ sent \in [Callers -> Seq(Cell)]
  /\ answer \in [Callers -> Nat]
  /\ holds \in [Holders -> SUBSET Nat]

Sorted ==
  /\ Kept \subseteq Used
  /\ \A c \in Callers : Due[c] \subseteq Used /\ Due[c] \cap Kept = {}
  /\ \A c, d \in Callers : c # d => Due[c] \cap Due[d] = {}
  /\ \A h \in Holders : holds[h] \subseteq Used /\ holds[h] \cap Kept = {}
  /\ \A c \in Callers, h \in Holders : h # c => Due[c] \cap holds[h] = {}
  /\ \A g, h \in Holders : g # h => holds[g] \cap holds[h] = {}

OwnEdits == \A p \in Used, g \in Holders : heap[p] = EditedBy(g) => p \in holds[g]

(* A result in hand has its map, and an event under way its cell.          *)
InHandInv ==
  \A c \in Callers :
    /\ Len(sent[c]) = Len(events[c])
    /\ phase[c] \in {"apply", "loaded"} /\ job[c].snapshot # Nil =>
         result[c].redacted # None /\ heap[result[c].redacted] = View(job[c])

MemInv == MemType /\ Sorted /\ OwnEdits

SharingInv == MemInv /\ InHandInv /\ MemoryTellsState

(***************************************************************************)
(* Cells.                                                                  *)
(***************************************************************************)
LEMMA ContentsAreNoEdits ==
  ASSUME NEW v \in Contents, NEW h
  PROVE  v # EditedBy(h)
<1>1. DOMAIN EditedBy(h) = {"editor"}
  BY DEF EditedBy
<1>2. CASE v \in AttemptRecord
  BY <1>1, <1>2 DEF AttemptRecord
<1>3. CASE v \in ApplyResult
  BY <1>1, <1>3 DEF ApplyResult
<1>4. CASE v \in Event
  BY <1>1, <1>4 DEF Event
<1>5. CASE v \in [view : Metadata \cup {Nil}]
  BY <1>1, <1>5
<1>6. CASE v = SourceBytes
  BY <1>1, <1>6 DEF SourceBytes
<1> QED BY <1>2, <1>3, <1>4, <1>5, <1>6 DEF Contents

(* A cell that is neither edited nor free has one of the code's contents.  *)
LEMMA KeptIsContents ==
  ASSUME MemInv, NEW p \in Kept
  PROVE  heap[p] \in Contents
<1>1. p \in Used /\ \A h \in Holders : p \notin holds[h]
  BY DEF MemInv, Sorted
<1>2. heap[p] \in Contents \cup Edits
  BY <1>1 DEF MemInv, MemType, Used
<1>3. heap[p] \notin Edits
  BY <1>1 DEF MemInv, OwnEdits, Edits
<1> QED BY <1>2, <1>3

(* Putting cells leaves those there are alone.                             *)
LEMMA HeapGrows ==
  ASSUME MemInv, NEW vs \in Seq(Contents), heap' = heap \o vs
  PROVE  /\ heap' \in Seq(Contents \cup Edits)
         /\ Used' = 1 .. Len(heap) + Len(vs) /\ Used \subseteq Used'
         /\ Len(heap) \in Nat /\ Len(vs) \in Nat
         /\ \A p \in Used : heap'[p] = heap[p]
         /\ \A i \in 1 .. Len(vs) : heap'[Len(heap) + i] = vs[i]
         /\ \A p \in Used' \ Used : heap'[p] \in Contents
<1>1. PICK q \in Seq(Contents \cup Edits) : q = heap
  BY DEF MemInv, MemType
<1>2. vs \in Seq(Contents \cup Edits)
  OBVIOUS
<1>3. /\ q \o vs \in Seq(Contents \cup Edits) /\ Len(q \o vs) = Len(q) + Len(vs)
      /\ Len(q) \in Nat /\ Len(vs) \in Nat
      /\ \A p \in 1 .. Len(q) : (q \o vs)[p] = q[p]
      /\ \A i \in 1 .. Len(vs) : (q \o vs)[Len(q) + i] = vs[i]
  BY <1>2
<1>4. ASSUME NEW p \in (1 .. Len(q) + Len(vs)) \ (1 .. Len(q))
      PROVE  (q \o vs)[p] \in Contents
  <2>1. PICK i \in 1 .. Len(vs) : p = Len(q) + i
    <3>1. Len(q) \in Nat /\ Len(vs) \in Nat
      OBVIOUS
    <3>2. p - Len(q) \in 1 .. Len(vs) /\ p = Len(q) + (p - Len(q))
      BY <3>1
    <3> QED BY <3>2, Zenon
  <2>2. vs[i] \in Contents
    OBVIOUS
  <2> QED BY <1>3, <2>1, <2>2
<1> QED BY <1>1, <1>3, <1>4 DEF Used

(***************************************************************************)
(* A step that puts new cells: every cell it keeps, owes or gives is one   *)
(* that was kept, owed or held before, or a new one, of one sort only.     *)
(***************************************************************************)
New == Used' \ Used

(* Such a step keeps the memory's invariant.                               *)
LEMMA NewCellsSorted ==
  ASSUME MemInv, MemType', Used \subseteq Used',
         \A p \in Used : heap'[p] = heap[p], \A p \in New : heap'[p] \in Contents,
         Kept' \subseteq Kept \cup New,
         \A c \in Callers : Due'[c] \subseteq Due[c] \cup New,
         \A h \in Holders : holds'[h] \subseteq holds[h] \cup New /\ holds[h] \subseteq holds'[h],
         \A c \in Callers : New \cap Due'[c] \cap Kept' = {},
         \A h \in Holders : New \cap holds'[h] \cap Kept' = {},
         \A c, d \in Callers : c # d => New \cap Due'[c] \cap Due'[d] = {},
         \A c \in Callers, h \in Holders : h # c => New \cap Due'[c] \cap holds'[h] = {},
         \A g, h \in Holders : g # h => New \cap holds'[g] \cap holds'[h] = {}
  PROVE  MemInv'
<1>1. ASSUME NEW c \in Callers PROVE Due'[c] \subseteq Used' /\ Due'[c] \cap Kept' = {}
  BY DEF MemInv, Sorted, New
<1>2. ASSUME NEW h \in Holders PROVE holds'[h] \subseteq Used' /\ holds'[h] \cap Kept' = {}
  BY DEF MemInv, Sorted, New
<1>3. ASSUME NEW c \in Callers, NEW d \in Callers, c # d PROVE Due'[c] \cap Due'[d] = {}
  <2>1. Due[c] \cap Due[d] = {} /\ Due[c] \subseteq Used /\ Due[d] \subseteq Used
    BY <1>3 DEF MemInv, Sorted
  <2> QED BY <1>3, <2>1 DEF New
<1>4. ASSUME NEW c \in Callers, NEW h \in Holders, h # c PROVE Due'[c] \cap holds'[h] = {}
  <2>1. Due[c] \cap holds[h] = {} /\ Due[c] \subseteq Used /\ holds[h] \subseteq Used
    BY <1>4 DEF MemInv, Sorted
  <2> QED BY <1>4, <2>1 DEF New
<1>5. ASSUME NEW g \in Holders, NEW h \in Holders, g # h PROVE holds'[g] \cap holds'[h] = {}
  <2>1. holds[g] \cap holds[h] = {} /\ holds[g] \subseteq Used /\ holds[h] \subseteq Used
    BY <1>5 DEF MemInv, Sorted
  <2> QED BY <1>5, <2>1 DEF New
<1>6. Kept' \subseteq Used'
  BY DEF MemInv, Sorted, New
<1>7. OwnEdits'
  <2>1. ASSUME NEW p \in Used', NEW g \in Holders, heap'[p] = EditedBy(g)
        PROVE  p \in holds'[g]
    <3>1. p \in Used
      BY <2>1, ContentsAreNoEdits DEF New
    <3>2. p \in holds[g]
      BY <2>1, <3>1 DEF MemInv, OwnEdits
    <3> QED BY <3>2
  <2> QED BY <2>1 DEF OwnEdits
<1> QED BY <1>1, <1>2, <1>3, <1>4, <1>5, <1>6, <1>7 DEF MemInv, Sorted

(* What the manager's pointers lead to stays the same, as long as they and *)
(* the manager's state do.                                                 *)
OwnCells == {own.lastAttempt, own.lastSuccess, own.lastFailure, own.lastApply, own.redacted, own.bytes}
              \cup {own.history[i] : i \in DOMAIN own.history}

(* The manager's cells are kept cells.                                     *)
LEMMA OwnCellsKept ==
  ASSUME MemInv
  PROVE  /\ OwnCells \ {None} \subseteq Kept
         /\ OwnCells \ {None} \subseteq Used
         /\ \A i \in DOMAIN own.history : own.history[i] \in Kept
         /\ \A c \in Callers : \A i \in DOMAIN sent[c] : sent[c][i] \in Kept
<1>1. OwnCells \ {None} \subseteq Kept
  BY DEF OwnCells, Kept
<1>2. Kept \subseteq Used
  BY DEF MemInv, Sorted
<1>3. \A i \in DOMAIN own.history : own.history[i] \in Cell
  BY DEF MemInv, MemType, OwnType
<1>4. \A c \in Callers : \A i \in DOMAIN sent[c] : sent[c][i] \in Cell
  BY DEF MemInv, MemType
<1> QED BY <1>1, <1>2, <1>3, <1>4 DEF Kept, Cell

(* A step that changes neither state nor kept cells keeps it.              *)
LEMMA SameMemory ==
  ASSUME MemInv, MemoryTellsState, UNCHANGED <<state, own>>,
         \A p \in Kept : heap'[p] = heap[p]
  PROVE  MemoryTellsState'
<1>1. \A p \in OwnCells \ {None} : heap'[p] = heap[p]
  BY OwnCellsKept
<1>2. \A i \in DOMAIN own.history : heap'[own.history[i]] = heap[own.history[i]]
  BY OwnCellsKept
<1>3. Copies(own.history)' = Copies(own.history)
  BY <1>2 DEF Copies
<1>4. ASSUME NEW v, NEW p \in OwnCells, At(p, v)
      PROVE  IF v = Nil THEN p = None ELSE p # None /\ heap'[p] = v
  BY <1>1, <1>4 DEF At
<1>5. own.redacted \in OwnCells /\ own.bytes \in OwnCells /\ own.lastApply \in OwnCells
      /\ own.lastAttempt \in OwnCells /\ own.lastSuccess \in OwnCells /\ own.lastFailure \in OwnCells
  BY DEF OwnCells
<1>6. /\ At(own.lastAttempt, lastAttempt) /\ At(own.lastSuccess, lastSuccess)
      /\ At(own.lastFailure, lastFailure) /\ At(own.lastApply, lastApply)
      /\ At(own.redacted, IF current = Nil THEN Nil ELSE [view |-> current])
      /\ At(own.bytes, SourceBytes) /\ Copies(own.history) = attemptHistory
  BY DEF MemoryTellsState
<1>7. /\ lastAttempt' = lastAttempt /\ lastSuccess' = lastSuccess /\ lastFailure' = lastFailure
      /\ lastApply' = lastApply /\ current' = current /\ attemptHistory' = attemptHistory /\ own' = own
  BY DEF state
<1>8. /\ At(own.lastAttempt, lastAttempt)' /\ At(own.lastSuccess, lastSuccess)'
      /\ At(own.lastFailure, lastFailure)' /\ At(own.lastApply, lastApply)'
  BY <1>4, <1>5, <1>6, <1>7 DEF At
<1>9. At(own.bytes, SourceBytes)'
  BY <1>4, <1>5, <1>6, <1>7 DEF At
<1>10. At(own.redacted, IF current = Nil THEN Nil ELSE [view |-> current])'
  BY <1>4, <1>5, <1>6, <1>7 DEF At
<1> QED BY <1>3, <1>6, <1>7, <1>8, <1>9, <1>10 DEF MemoryTellsState

(* The invariant holds of a new manager.                                   *)
LEMMA SharingInitial == SharingInit => SharingInv
<1> SUFFICES ASSUME SharingInit PROVE SharingInv
  OBVIOUS
<1>1. /\ heap = <<SourceBytes, SourceBytes>>
      /\ own = [lastAttempt |-> None, lastSuccess |-> None, lastFailure |-> None,
                lastApply |-> None, history |-> <<>>, redacted |-> None, bytes |-> 1]
      /\ result = [c \in Callers |-> [attempt |-> None, redacted |-> None]]
      /\ sent = [c \in Callers |-> <<>>] /\ answer = [c \in Callers |-> None]
  BY DEF SharingInit
<1>2. PICK c \in Callers : holds = [h \in Holders |-> IF h = c THEN {2} ELSE {}]
  BY DEF SharingInit
<1>3. /\ heap \in Seq(Contents \cup Edits) /\ Len(heap) = 2 /\ heap[1] = SourceBytes
      /\ \A p \in 1 .. 2 : heap[p] \in Contents
  BY <1>1 DEF Contents
<1>4. MemType
  <2>1. <<>> \in Seq(Cell)
    OBVIOUS
  <2>2. own \in OwnType
    BY <1>1, <2>1 DEF OwnType, None
  <2>3. /\ result \in [Callers -> [attempt : Nat, redacted : Nat]] /\ answer \in [Callers -> Nat]
        /\ sent \in [Callers -> Seq(Cell)]
    BY <1>1, <2>1 DEF None
  <2> QED BY <1>2, <1>3, <2>2, <2>3 DEF MemType
<1>5. Kept \subseteq {1} /\ \A d \in Callers : Due[d] = {}
  BY <1>1 DEF Kept, Due, None
<1>6. Sorted
  BY <1>2, <1>3, <1>5 DEF Sorted, Used
<1>7. OwnEdits
  BY <1>3, ContentsAreNoEdits DEF OwnEdits, Used
<1>8. InHandInv
  BY <1>1 DEF InHandInv, SharingInit, ManagerInit
<1>9. MemoryTellsState
  <2>1. SourceBytes # Nil
    BY ContentsAssumption DEF Contents
  <2>2. Copies(<<>>) = <<>>
    BY DEF Copies
  <2>3. /\ lastAttempt = Nil /\ lastSuccess = Nil /\ lastFailure = Nil /\ lastApply = Nil
        /\ current = Nil /\ attemptHistory = <<>>
    BY DEF SharingInit, ManagerInit
  <2> QED BY <1>1, <1>3, <2>1, <2>2, <2>3 DEF MemoryTellsState, At, None
<1> QED BY <1>4, <1>6, <1>7, <1>8, <1>9 DEF SharingInv, MemInv

(***************************************************************************)
(* A result comes into hand.                                               *)
(***************************************************************************)
LEMMA LoadIntoKeeps ==
  ASSUME MemInv, MemoryTellsState, NEW c \in Callers, NEW r \in LoadResult, LoadInto(c, r),
         UNCHANGED <<state, own, sent, answer>>
  PROVE  /\ MemInv' /\ MemoryTellsState'
         /\ r.snapshot # Nil =>
              result'[c].redacted # None /\ heap'[result'[c].redacted] = View(r)
         /\ \A d \in Callers \ {c} : result'[d] = result[d]
         /\ \A p \in Kept : heap'[p] = heap[p]
<1> DEFINE vs == <<r.attempt, View(r), View(r), heap[own.bytes]>>
<1>1. PICK n \in Nat : n = Len(heap)
  BY DEF MemInv, MemType
<1>2. vs \in Seq(Contents) /\ Len(vs) = 4 /\ vs[3] = View(r)
  <2>1. r.attempt \in Contents /\ View(r) \in Contents
    BY DEF LoadResult, View, Contents
  <2>2. heap[own.bytes] \in Contents
    <3>1. heap[own.bytes] = SourceBytes
      BY ContentsAssumption DEF MemoryTellsState, At, Contents
    <3> QED BY <3>1 DEF Contents
  <2> QED BY <2>1, <2>2
<1>3. heap' = heap \o vs
  BY DEF LoadInto, Put
<1> HIDE DEF vs
<1>4. /\ heap' \in Seq(Contents \cup Edits) /\ Used' = 1 .. n + 4 /\ Used = 1 .. n
      /\ \A p \in Used : heap'[p] = heap[p]
      /\ \A p \in New : heap'[p] \in Contents
      /\ heap'[n + 3] = View(r)
  <2>1. /\ heap' \in Seq(Contents \cup Edits) /\ Used' = 1 .. Len(heap) + Len(vs)
        /\ \A p \in Used : heap'[p] = heap[p]
        /\ \A p \in Used' \ Used : heap'[p] \in Contents
        /\ \A i \in 1 .. Len(vs) : heap'[Len(heap) + i] = vs[i]
    BY <1>2, <1>3, HeapGrows
  <2>2. heap'[n + 3] = View(r)
    BY <1>1, <1>2, <2>1
  <2> QED BY <1>1, <1>2, <2>1, <2>2 DEF New, Used
<1>5. New = {n + 1, n + 2, n + 3, n + 4}
  BY <1>4 DEF New
<1> DEFINE at == Fresh(<<"attempt", "redactor's", "redacted", "decoder's">>)
<1>6. at[1] = n + 1 /\ at[2] = n + 2 /\ at[3] = n + 3 /\ at[4] = n + 4
  BY <1>1 DEF Fresh
<1>handed. /\ result' = [result EXCEPT ![c] = [attempt  |-> at[1],
                                            redacted |-> IF r.snapshot = Nil THEN None ELSE at[3]]]
       /\ Give(c, IF phase[c] = "idle" THEN <<at[1], at[2], at[4]>> ELSE <<at[2], at[4]>>)
  BY Zenon DEF LoadInto
<1> HIDE DEF at
<1>7. PICK m \in {0, n + 3} :
        /\ r.snapshot # Nil => m = n + 3
        /\ result' = [result EXCEPT ![c] = [attempt |-> n + 1, redacted |-> m]]
  BY <1>6, <1>handed DEF None
<1>8. PICK given \in SUBSET {n + 1, n + 2, n + 4} : holds' = [holds EXCEPT ![c] = @ \cup given]
  <2>1. Cells(<<n + 1, n + 2, n + 4>>) = {n + 1, n + 2, n + 4} /\ Cells(<<n + 2, n + 4>>) = {n + 2, n + 4}
    BY DEF Cells, None
  <2>2. holds' = [holds EXCEPT ![c] = @ \cup Cells(IF phase[c] = "idle" THEN <<n + 1, n + 2, n + 4>>
                                                                      ELSE <<n + 2, n + 4>>)]
    BY <1>6, <1>handed DEF Give
  <2> QED BY <2>1, <2>2
<1>9. c \in Holders /\ holds \in [Holders -> SUBSET Nat]
      /\ result \in [Callers -> [attempt : Nat, redacted : Nat]]
  BY DEF Holders, MemInv, MemType
<1>10. MemType'
  <2>1. result' \in [Callers -> [attempt : Nat, redacted : Nat]]
    BY <1>7, <1>9
  <2>2. holds' \in [Holders -> SUBSET Nat]
    <3>1. holds[c] \in SUBSET Nat /\ {n + 1, n + 2, n + 4} \in SUBSET Nat
      BY <1>9
    <3>2. holds[c] \cup given \in SUBSET Nat
      BY <3>1
    <3> QED BY <1>8, <1>9, <3>2
  <2> QED BY <1>4, <2>1, <2>2 DEF MemInv, MemType
<1>11. result'[c].attempt = n + 1 /\ result'[c].redacted = m
       /\ \A d \in Callers \ {c} : result'[d] = result[d]
  BY <1>7, <1>9
<1>12. Kept' \subseteq Kept \cup {n + 3}
  BY <1>11 DEF Kept, None
<1>13. Due'[c] \subseteq Due[c] \cup {n + 1} /\ \A d \in Callers \ {c} : Due'[d] = Due[d]
  BY <1>11 DEF Due, None
<1>14. /\ holds'[c] = holds[c] \cup given
       /\ \A h \in Holders \ {c} : holds'[h] = holds[h]
  BY <1>8, <1>9
<1>15. \A p \in New : p \notin Kept /\ (\A d \in Callers : p \notin Due[d]) /\ \A h \in Holders : p \notin holds[h]
  BY DEF New, MemInv, Sorted
<1>16. MemInv'
  <2>1. \A d \in Callers : New \cap Due'[d] \cap Kept' = {}
    BY <1>1, <1>12, <1>13, <1>15
  <2>2. \A h \in Holders : New \cap holds'[h] \cap Kept' = {}
    BY <1>1, <1>12, <1>14, <1>15
  <2>3. \A d, e \in Callers : d # e => New \cap Due'[d] \cap Due'[e] = {}
    BY <1>13, <1>15
  <2>4. \A d \in Callers, h \in Holders : h # d => New \cap Due'[d] \cap holds'[h] = {}
    BY <1>13, <1>14, <1>15
  <2>5. \A g, h \in Holders : g # h => New \cap holds'[g] \cap holds'[h] = {}
    BY <1>14, <1>15
  <2>6. Kept' \subseteq Kept \cup New /\ Used \subseteq Used'
    BY <1>4, <1>5, <1>12
  <2>7. \A d \in Callers : Due'[d] \subseteq Due[d] \cup New
    BY <1>5, <1>13
  <2>8. \A h \in Holders : holds'[h] \subseteq holds[h] \cup New /\ holds[h] \subseteq holds'[h]
    BY <1>5, <1>14
  <2> QED BY <1>4, <1>10, <2>1, <2>2, <2>3, <2>4, <2>5, <2>6, <2>7, <2>8, NewCellsSorted
<1>17. \A p \in Kept : heap'[p] = heap[p]
  BY <1>4 DEF MemInv, Sorted
<1>18. MemoryTellsState'
  BY <1>17, SameMemory
<1> QED BY <1>1, <1>4, <1>7, <1>11, <1>16, <1>17, <1>18 DEF None

(***************************************************************************)
(* What the other steps need.                                              *)
(***************************************************************************)
LEMMA NewIsNew ==
  ASSUME MemInv, NEW p \in New
  PROVE  /\ p \notin Kept /\ (\A d \in Callers : p \notin Due[d])
         /\ \A h \in Holders : p \notin holds[h]
BY DEF New, MemInv, Sorted

(* Only the heap grows, and one holder gets the new cells, or nobody does. *)
LEMMA NewCellsGiven ==
  ASSUME MemInv, MemType', NEW vs \in Seq(Contents), heap' = heap \o vs,
         Kept' \subseteq Kept, Due' = Due,
         NEW g \in Holders, holds' = [holds EXCEPT ![g] = @ \cup New]
  PROVE  MemInv' /\ \A p \in Kept : heap'[p] = heap[p]
<1>1. Used \subseteq Used' /\ (\A p \in Used : heap'[p] = heap[p]) /\ \A p \in New : heap'[p] \in Contents
  BY HeapGrows DEF New
<1>2. holds'[g] = holds[g] \cup New /\ \A h \in Holders \ {g} : holds'[h] = holds[h]
  BY DEF MemInv, MemType
<1>3. /\ \A c \in Callers : Due'[c] = Due[c] /\ New \cap Due'[c] = {}
      /\ New \cap Kept' = {}
  BY NewIsNew
<1>4. \A h, i \in Holders : h # i => New \cap holds'[h] \cap holds'[i] = {}
  BY <1>2, NewIsNew
<1>5. \A h \in Holders : holds'[h] \subseteq holds[h] \cup New /\ holds[h] \subseteq holds'[h]
  BY <1>2
<1>6. MemInv'
  BY <1>1, <1>3, <1>4, <1>5, NewCellsSorted
<1> QED BY <1>1, <1>6 DEF MemInv, Sorted

(* Nothing is written, and callers may get what they are due.              *)
LEMMA DueGiven ==
  ASSUME MemInv, MemType', heap' = heap, Kept' \subseteq Kept,
         \A c \in Callers : Due'[c] \subseteq Due[c],
         \A h \in Holders : holds[h] \subseteq holds'[h],
         \A h \in Holders \ Callers : holds'[h] = holds[h],
         \A c \in Callers : holds'[c] = holds[c] \/ (Due'[c] = {} /\ holds'[c] = holds[c] \cup Due[c])
  PROVE  MemInv'
<1>1. Callers \subseteq Holders /\ Used' = Used
  BY DEF Holders, Used
<1>2. Kept' \subseteq Used' /\ \A c \in Callers : Due'[c] \subseteq Used' /\ Due'[c] \cap Kept' = {}
  BY <1>1 DEF MemInv, Sorted
<1>3. \A c, d \in Callers : c # d => Due'[c] \cap Due'[d] = {}
  <2> SUFFICES ASSUME NEW c \in Callers, NEW d \in Callers, c # d PROVE Due'[c] \cap Due'[d] = {}
    OBVIOUS
  <2>1. Due[c] \cap Due[d] = {}
    BY DEF MemInv, Sorted
  <2> QED BY <2>1
<1>4. ASSUME NEW h \in Holders PROVE holds'[h] \subseteq Used' /\ holds'[h] \cap Kept' = {}
  <2>1. holds[h] \subseteq Used /\ holds[h] \cap Kept = {}
    BY DEF MemInv, Sorted
  <2>2. h \in Callers => Due[h] \subseteq Used /\ Due[h] \cap Kept = {}
    BY DEF MemInv, Sorted
  <2> QED BY <1>1, <2>1, <2>2
<1>5. ASSUME NEW c \in Callers, NEW h \in Holders, h # c PROVE Due'[c] \cap holds'[h] = {}
  <2>1. Due[c] \cap holds[h] = {} /\ (h \in Callers => Due[c] \cap Due[h] = {})
    BY <1>5 DEF MemInv, Sorted
  <2> QED BY <2>1
<1>6. ASSUME NEW g \in Holders, NEW h \in Holders, g # h PROVE holds'[g] \cap holds'[h] = {}
  <2>1. holds[g] \cap holds[h] = {}
    BY <1>6 DEF MemInv, Sorted
  <2>2. /\ g \in Callers => Due[g] \cap holds[h] = {}
        /\ h \in Callers => Due[h] \cap holds[g] = {}
        /\ g \in Callers /\ h \in Callers => Due[g] \cap Due[h] = {}
    BY <1>6 DEF MemInv, Sorted
  <2>3. holds'[g] \subseteq holds[g] \cup (IF g \in Callers THEN Due[g] ELSE {})
    OBVIOUS
  <2>4. holds'[h] \subseteq holds[h] \cup (IF h \in Callers THEN Due[h] ELSE {})
    OBVIOUS
  <2> QED BY <2>1, <2>2, <2>3, <2>4
<1>7. OwnEdits'
  BY <1>1 DEF MemInv, OwnEdits
<1> QED BY <1>2, <1>3, <1>4, <1>5, <1>6, <1>7 DEF MemInv, Sorted

(* The results in hand keep their maps as long as they are in hand.        *)
LEMMA InHandStays ==
  ASSUME MemInv, InHandInv, \A p \in Kept : heap'[p] = heap[p],
         \A c \in Callers : Len(sent'[c]) = Len(events'[c]),
         \A c \in Callers : phase'[c] \in {"apply", "loaded"} =>
           phase[c] \in {"apply", "loaded"} /\ job'[c] = job[c] /\ result'[c] = result[c]
  PROVE  InHandInv'
<1>1. ASSUME NEW c \in Callers, phase'[c] \in {"apply", "loaded"}, job'[c].snapshot # Nil
      PROVE  result'[c].redacted # None /\ heap'[result'[c].redacted] = View(job'[c])
  <2>1. result[c].redacted # None /\ heap[result[c].redacted] = View(job[c]) /\ result'[c] = result[c]
    BY <1>1 DEF InHandInv
  <2>2. result[c].redacted \in Kept
    BY <2>1 DEF Kept
  <2> QED BY <1>1, <2>1, <2>2
<1> QED BY <1>1 DEF InHandInv, View

(* The new cells are the fresh ones, one for each value.                   *)
LEMMA FreshCells ==
  ASSUME MemInv, NEW vs \in Seq(Contents), heap' = heap \o vs
  PROVE  /\ Fresh(vs) \in Seq(Cell) /\ Len(Fresh(vs)) = Len(vs)
         /\ \A i \in DOMAIN Fresh(vs) : Fresh(vs)[i] \in New
         /\ Cells(Fresh(vs)) = New
<1>1. PICK n \in Nat, m \in Nat : n = Len(heap) /\ m = Len(vs)
  BY DEF MemInv, MemType
<1>2. DOMAIN vs = 1 .. m
  BY <1>1
<1>3. Fresh(vs) = [i \in 1 .. m |-> n + i]
  BY <1>1, <1>2 DEF Fresh
<1>4. Used' = 1 .. n + m /\ Used = 1 .. n
  BY <1>1, HeapGrows DEF Used
<1>5. New = n + 1 .. n + m
  BY <1>4 DEF New
<1>6. [i \in 1 .. m |-> n + i] \in Seq(Cell) /\ Len([i \in 1 .. m |-> n + i]) = m
  BY DEF Cell, None
<1>7. \A p \in New : p - n \in 1 .. m /\ p = n + (p - n)
  BY <1>5
<1>8. {n + i : i \in 1 .. m} = New
  BY <1>5, <1>7
<1> DEFINE f == [i \in 1 .. m |-> n + i]
<1>9. DOMAIN f = 1 .. m /\ \A i \in 1 .. m : f[i] = n + i /\ f[i] \in New
  BY <1>5
<1>10. Cells(f) = New
  <2>1. {f[i] : i \in DOMAIN f} = New
    BY <1>8, <1>9
  <2>2. None \notin New
    BY <1>5 DEF None
  <2> QED BY <2>1, <2>2 DEF Cells
<1> HIDE DEF f
<1>11. Fresh(vs) = f /\ f \in Seq(Cell) /\ Len(f) = Len(vs)
  BY <1>1, <1>3, <1>6 DEF f
<1> QED BY <1>9, <1>10, <1>11

(***************************************************************************)
(* The steps.                                                              *)
(***************************************************************************)
LEMMA OtherKeepsSharing ==
  ASSUME SharingInv, BaseInv, NEW c \in Callers, OtherCallStep(c)
  PROVE  SharingInv'
<1>1. UNCHANGED <<state, memVars, events>>
  BY DEF OtherCallStep, CallLoad, Acquire, CancelCall, RejectExternal, callVars
<1>2. \A d \in Callers : phase'[d] \in {"apply", "loaded"} =>
        phase[d] \in {"apply", "loaded"} /\ job'[d] = job[d]
  BY DEF OtherCallStep, CallLoad, Acquire, CancelCall, RejectExternal, callVars, BaseInv, ManagerTypeOK
<1>3. MemInv'
  <2>1. MemType' /\ Kept' = Kept /\ Due' = Due /\ heap' = heap /\ holds' = holds
    BY <1>1 DEF memVars, SharingInv, MemInv, MemType, Kept, Due
  <2> QED BY <2>1, DueGiven DEF SharingInv
<1>4. InHandInv'
  BY <1>1, <1>2, InHandStays DEF memVars, SharingInv, InHandInv
<1>5. MemoryTellsState'
  BY <1>1, SameMemory DEF memVars, SharingInv
<1> QED BY <1>3, <1>4, <1>5 DEF SharingInv

(* Nothing happens.                                                        *)
LEMMA StutterKeepsSharing ==
  ASSUME SharingInv, UNCHANGED sharedVars
  PROVE  SharingInv'
<1>1. UNCHANGED <<state, memVars, events, phase, job>>
  BY DEF sharedVars, vars, callVars
<1>2. MemInv'
  <2>1. MemType' /\ Kept' = Kept /\ Due' = Due /\ heap' = heap /\ holds' = holds
    BY <1>1 DEF memVars, SharingInv, MemInv, MemType, Kept, Due
  <2> QED BY <2>1, DueGiven DEF SharingInv
<1>3. InHandInv'
  BY <1>1, InHandStays DEF memVars, SharingInv, InHandInv
<1>4. MemoryTellsState'
  BY <1>1, SameMemory DEF memVars, SharingInv
<1> QED BY <1>2, <1>3, <1>4 DEF SharingInv

(* A call returns, and its caller gets what it is due.                     *)
LEMMA ReturnKeepsSharing ==
  ASSUME SharingInv, BaseInv, NEW c \in Callers, ReturnShared(c) \/ ReturnSharedRefused(c)
  PROVE  SharingInv'
<1>1. /\ UNCHANGED <<state, heap, own, sent, events>>
      /\ result' = [result EXCEPT ![c] = [attempt |-> None, redacted |-> None]]
      /\ answer' = [answer EXCEPT ![c] = None]
      /\ phase' = [phase EXCEPT ![c] = "idle"] /\ job' = [job EXCEPT ![c] = Nil]
  BY DEF ReturnShared, ReturnSharedRefused, Return, ReturnRefused, Forget
<1>2. holds' = holds \/ holds' = [holds EXCEPT ![c] = @ \cup Due[c]]
  <2>1. Cells(<<result[c].attempt, answer[c]>>) = Due[c]
    BY DEF Cells, Due
  <2> QED BY <2>1 DEF ReturnShared, ReturnSharedRefused, Give
<1>3. /\ result \in [Callers -> [attempt : Nat, redacted : Nat]] /\ answer \in [Callers -> Nat]
      /\ holds \in [Holders -> SUBSET Nat] /\ c \in Holders /\ Due[c] \in SUBSET Nat
  BY DEF SharingInv, MemInv, MemType, Holders, Due
<1>4. /\ Due'[c] = {} /\ \A d \in Callers \ {c} : Due'[d] = Due[d] /\ result'[d] = result[d]
  BY <1>1, <1>3 DEF Due
<1>5. Kept' \subseteq Kept
  BY <1>1, <1>3 DEF Kept
<1>6. MemType'
  <2>1. result' \in [Callers -> [attempt : Nat, redacted : Nat]] /\ answer' \in [Callers -> Nat]
    BY <1>1, <1>3 DEF None
  <2>2. holds' \in [Holders -> SUBSET Nat]
    BY <1>2, <1>3
  <2> QED BY <1>1, <2>1, <2>2 DEF SharingInv, MemInv, MemType
<1>7. /\ \A h \in Holders : holds[h] \subseteq holds'[h]
      /\ \A h \in Holders \ {c} : holds'[h] = holds[h]
      /\ holds'[c] = holds[c] \/ holds'[c] = holds[c] \cup Due[c]
  BY <1>2, <1>3
<1>8. MemInv'
  <2>1. \A d \in Callers : Due'[d] \subseteq Due[d]
    BY <1>4
  <2>2. \A h \in Holders \ Callers : holds'[h] = holds[h]
    BY <1>7
  <2>3. \A d \in Callers : holds'[d] = holds[d] \/ (Due'[d] = {} /\ holds'[d] = holds[d] \cup Due[d])
    BY <1>4, <1>7 DEF Holders
  <2>4. MemInv /\ heap' = heap /\ \A h \in Holders : holds[h] \subseteq holds'[h]
    BY <1>1, <1>7 DEF SharingInv
  <2> QED BY <1>5, <1>6, <2>1, <2>2, <2>3, <2>4, DueGiven
<1>9. InHandInv'
  <2>1. \A d \in Callers : phase'[d] \in {"apply", "loaded"} => d # c /\ phase'[d] = phase[d] /\ job'[d] = job[d]
    BY <1>1 DEF BaseInv, ManagerTypeOK
  <2> QED BY <1>1, <1>4, <2>1, InHandStays DEF SharingInv, InHandInv
<1>10. MemoryTellsState'
  BY <1>1, SameMemory DEF SharingInv
<1> QED BY <1>8, <1>9, <1>10 DEF SharingInv

(* A holder writes to a cell, which is neither kept nor another's.         *)
LEMMA EditKeepsSharing ==
  ASSUME SharingInv, NEW h \in Holders, Edit(h)
  PROVE  SharingInv'
<1>1. PICK p \in holds[h] : heap' = [heap EXCEPT ![p] = EditedBy(h)]
  BY DEF Edit
<1>2. UNCHANGED <<state, own, result, sent, answer, holds, events, phase, job>>
  BY DEF Edit, vars, callVars
<1>3. p \in Used /\ p \notin Kept /\ heap \in Seq(Contents \cup Edits) /\ EditedBy(h) \in Edits
  BY DEF SharingInv, MemInv, MemType, Sorted, Edits
<1>4. /\ heap' \in Seq(Contents \cup Edits) /\ Used' = Used /\ heap'[p] = EditedBy(h)
      /\ \A q \in Used \ {p} : heap'[q] = heap[q]
  BY <1>1, <1>3 DEF Used
<1>5. \A q \in Kept : heap'[q] = heap[q]
  BY <1>3, <1>4 DEF SharingInv, MemInv, Sorted
<1>6. MemInv'
  <2>1. MemType' /\ Kept' = Kept /\ Due' = Due
    BY <1>2, <1>4 DEF SharingInv, MemInv, MemType, Kept, Due
  <2>2. Sorted'
    BY <1>2, <1>4, <2>1 DEF SharingInv, MemInv, Sorted
  <2>3. ASSUME NEW q \in Used, NEW g \in Holders, heap'[q] = EditedBy(g)
        PROVE  q \in holds[g]
    <3>1. CASE q = p
      <4>1. g = h
        BY <1>4, <2>3, <3>1 DEF EditedBy
      <4> QED BY <3>1, <4>1
    <3>2. CASE q # p
      BY <1>4, <2>3, <3>2 DEF SharingInv, MemInv, OwnEdits
    <3> QED BY <3>1, <3>2
  <2> QED BY <1>2, <1>4, <2>1, <2>2, <2>3 DEF MemInv, OwnEdits
<1>7. InHandInv'
  BY <1>2, <1>5, InHandStays DEF SharingInv, InHandInv
<1>8. MemoryTellsState'
  BY <1>2, <1>5, SameMemory DEF SharingInv
<1> QED BY <1>6, <1>7, <1>8 DEF SharingInv

(* A holder gets copies of kept cells.                                     *)
LEMMA AnswerKeepsSharing ==
  ASSUME SharingInv, NEW h \in Holders, NEW cells \in Seq(Kept), Answer(h, cells)
  PROVE  SharingInv'
<1>1. /\ UNCHANGED <<state, own, result, sent, answer, events, phase, job>>
      /\ heap' = heap \o Copies(cells) /\ holds' = [holds EXCEPT ![h] = @ \cup Cells(Fresh(cells))]
  BY DEF Answer, vars, callVars, Put, Give
<1>2. Copies(cells) \in Seq(Contents)
  <2>1. \A i \in DOMAIN cells : heap[cells[i]] \in Contents
    BY KeptIsContents DEF SharingInv
  <2>2. DOMAIN cells = 1 .. Len(cells) /\ Len(cells) \in Nat
    OBVIOUS
  <2> QED BY <2>1, <2>2 DEF Copies
<1>3. Fresh(cells) = Fresh(Copies(cells))
  BY DEF Fresh, Copies
<1>4. Cells(Fresh(cells)) = New
  BY <1>1, <1>2, <1>3, FreshCells DEF SharingInv
<1>5. holds' \in [Holders -> SUBSET Nat]
  <2>1. New \in SUBSET Nat /\ holds \in [Holders -> SUBSET Nat]
    BY DEF New, Used, SharingInv, MemInv, MemType
  <2> QED BY <1>1, <1>4, <2>1
<1>6. MemType'
  BY <1>1, <1>2, <1>5, HeapGrows DEF SharingInv, MemInv, MemType
<1>7. Kept' = Kept /\ Due' = Due
  BY <1>1 DEF Kept, Due
<1>8. MemInv' /\ \A p \in Kept : heap'[p] = heap[p]
  BY <1>1, <1>2, <1>4, <1>6, <1>7, NewCellsGiven DEF SharingInv
<1>9. InHandInv'
  BY <1>1, <1>8, InHandStays DEF SharingInv, InHandInv
<1>10. MemoryTellsState'
  BY <1>1, <1>8, SameMemory DEF SharingInv
<1> QED BY <1>8, <1>9, <1>10 DEF SharingInv

(* A load ends, or a caller brings a result of its own.                    *)
LEMMA LoadedKeepsSharing ==
  ASSUME SharingInv, BaseInv, BaseInv', NEW c \in Callers, RunSharedLoad(c) \/ CallSharedApply(c)
  PROVE  SharingInv'
<1>1. UNCHANGED <<state, own, sent, answer, events>>
  BY DEF RunSharedLoad, CallSharedApply, RunLoad, CallApply
<1>2. PICK r \in LoadResult : LoadInto(c, r) /\ job'[c] = r
  <2>1. CASE RunSharedLoad(c)
    <3>1. job'[c] \in LoadResult
      <4>1. phase'[c] = "loaded"
        BY <2>1 DEF RunSharedLoad, RunLoad, BaseInv, ManagerTypeOK
      <4> QED BY <4>1 DEF BaseInv, CallInv
    <3> QED BY <2>1, <3>1 DEF RunSharedLoad
  <2>2. CASE CallSharedApply(c)
    BY <2>2, ManagerAssumption DEF CallSharedApply, CallApply, BaseInv, ManagerTypeOK
  <2> QED BY <2>1, <2>2
<1>3. \A d \in Callers \ {c} : phase'[d] = phase[d] /\ job'[d] = job[d]
  BY DEF RunSharedLoad, CallSharedApply, RunLoad, CallApply, BaseInv, ManagerTypeOK
<1>4. /\ MemInv' /\ MemoryTellsState'
      /\ r.snapshot # Nil => result'[c].redacted # None /\ heap'[result'[c].redacted] = View(r)
      /\ \A d \in Callers \ {c} : result'[d] = result[d]
      /\ \A p \in Kept : heap'[p] = heap[p]
  BY <1>1, <1>2, LoadIntoKeeps DEF SharingInv
<1>5. InHandInv'
  <2>1. ASSUME NEW d \in Callers \ {c}, phase'[d] \in {"apply", "loaded"}, job'[d].snapshot # Nil
        PROVE  result'[d].redacted # None /\ heap'[result'[d].redacted] = View(job'[d])
    <3>1. result[d].redacted # None /\ heap[result[d].redacted] = View(job[d])
      BY <1>3, <2>1 DEF SharingInv, InHandInv
    <3>2. result[d].redacted \in Kept
      BY <3>1 DEF Kept
    <3> QED BY <1>3, <1>4, <3>1, <3>2
  <2>2. \A d \in Callers : Len(sent'[d]) = Len(events'[d])
    BY <1>1 DEF SharingInv, InHandInv
  <2> QED BY <1>2, <1>4, <2>1, <2>2 DEF InHandInv, View
<1> QED BY <1>4, <1>5 DEF SharingInv

(* The manager keeps what is put, or a caller is due it.                   *)
LEMMA NewCellsKept ==
  ASSUME MemInv, MemType', NEW vs \in Seq(Contents), heap' = heap \o vs, holds' = holds,
         Kept' \subseteq Kept \cup New, \A d \in Callers : Due'[d] \subseteq Due[d] \cup New,
         \A d \in Callers : New \cap Due'[d] \cap Kept' = {},
         \A d, e \in Callers : d # e => New \cap Due'[d] \cap Due'[e] = {}
  PROVE  MemInv' /\ \A p \in Kept : heap'[p] = heap[p]
<1>1. Used \subseteq Used' /\ (\A p \in Used : heap'[p] = heap[p]) /\ \A p \in New : heap'[p] \in Contents
  BY HeapGrows DEF New
<1>2. \A h \in Holders : New \cap holds'[h] = {}
  BY NewIsNew
<1>3. \A h \in Holders : holds'[h] \subseteq holds[h] \cup New /\ holds[h] \subseteq holds'[h]
  OBVIOUS
<1>4. MemInv'
  BY <1>1, <1>2, <1>3, NewCellsSorted
<1> QED BY <1>1, <1>4 DEF MemInv, Sorted

(* A load is announced.                                                    *)
LEMMA StartKeepsSharing ==
  ASSUME SharingInv, BaseInv, BaseInv', NEW c \in Callers, StartSharedLoad(c)
  PROVE  SharingInv'
<1>1. PICK vs \in Seq(Contents) : vs = events'[c]
  <2>1. events'[c] \in Seq(Event) /\ Event \subseteq Contents
    BY DEF BaseInv, ManagerTypeOK, Contents
  <2> QED BY <2>1
<1>2. /\ UNCHANGED <<state, own, result, answer, holds, job>> /\ heap' = heap \o vs
      /\ sent' = [sent EXCEPT ![c] = Fresh(vs)]
      /\ phase' = [phase EXCEPT ![c] = "started"]
  BY <1>1 DEF StartSharedLoad, StartLoad, Put, Fresh
<1>3. /\ Fresh(vs) \in Seq(Cell) /\ Len(Fresh(vs)) = Len(vs)
      /\ \A i \in DOMAIN Fresh(vs) : Fresh(vs)[i] \in New
  BY <1>2, FreshCells DEF SharingInv
<1>4. /\ sent \in [Callers -> Seq(Cell)] /\ sent' \in [Callers -> Seq(Cell)]
      /\ sent'[c] = Fresh(vs) /\ \A d \in Callers \ {c} : sent'[d] = sent[d]
  BY <1>2, <1>3 DEF SharingInv, MemInv, MemType
<1>5. MemType'
  BY <1>2, <1>4, HeapGrows DEF SharingInv, MemInv, MemType
<1>6. Kept' \subseteq Kept \cup New /\ Due' = Due
  BY <1>2, <1>3, <1>4 DEF Kept, Due
<1>7. MemInv' /\ \A p \in Kept : heap'[p] = heap[p]
  <2>1. \A d \in Callers : New \cap Due'[d] = {}
    BY <1>6, NewIsNew DEF SharingInv
  <2> QED BY <1>2, <1>5, <1>6, <2>1, NewCellsKept DEF SharingInv
<1>8. InHandInv'
  <2>1. \A d \in Callers : phase'[d] \in {"apply", "loaded"} => phase[d] \in {"apply", "loaded"}
    BY <1>2 DEF BaseInv, ManagerTypeOK
  <2>2. \A d \in Callers \ {c} : events'[d] = events[d]
    BY DEF StartSharedLoad, StartLoad, BaseInv, ManagerTypeOK
  <2>3. \A d \in Callers : Len(sent'[d]) = Len(events'[d])
    BY <1>1, <1>3, <1>4, <2>2 DEF SharingInv, InHandInv
  <2> QED BY <1>2, <1>7, <2>1, <2>3, InHandStays DEF SharingInv
<1>9. MemoryTellsState'
  BY <1>2, <1>7, SameMemory DEF SharingInv
<1> QED BY <1>7, <1>8, <1>9 DEF SharingInv

(* An observer gets its copy of an event.                                  *)
LEMMA DeliverKeepsSharing ==
  ASSUME SharingInv, BaseInv, NEW c \in Callers, DeliverShared(c)
  PROVE  SharingInv'
<1>1. PICK g \in Holders : g = turn[c]
  BY DEF Holders, BaseInv, ManagerTypeOK
<1>2. PICK q \in Seq(Cell) : q = sent[c] /\ Len(q) = Len(events[c]) /\ q # <<>>
  <2>1. sent[c] \in Seq(Cell) /\ Len(sent[c]) = Len(events[c]) /\ events[c] # <<>>
        /\ events[c] \in Seq(Event)
    BY DEF SharingInv, MemInv, MemType, InHandInv, DeliverShared, Deliver, BaseInv, ManagerTypeOK
  <2>2. Len(events[c]) # 0
    BY <2>1
  <2> QED BY <2>1, <2>2
<1>3. Head(q) \in Kept /\ Tail(q) \in Seq(Cell) /\ \A i \in DOMAIN Tail(q) : Tail(q)[i] \in Kept
  <2>1. \A i \in DOMAIN q : q[i] \in Kept
    BY <1>2, OwnCellsKept DEF SharingInv
  <2>2. \A i \in DOMAIN Tail(q) : i + 1 \in DOMAIN q /\ Tail(q)[i] = q[i + 1]
    BY <1>2
  <2> QED BY <1>2, <2>1, <2>2
<1>4. PICK vs \in Seq(Contents) : vs = <<heap[Head(q)]>> /\ Len(vs) = 1
  <2>1. heap[Head(q)] \in Contents
    BY <1>3, KeptIsContents DEF SharingInv
  <2>2. \A v \in Contents : <<v>> \in Seq(Contents) /\ Len(<<v>>) = 1
    OBVIOUS
  <2> QED BY <2>1, <2>2
<1>5. /\ UNCHANGED <<state, own, result, answer, phase, job>> /\ heap' = heap \o vs
      /\ holds' = [holds EXCEPT ![g] = @ \cup Cells(EventFor(c))]
      /\ sent' = [sent EXCEPT ![c] = IF events'[c] = events[c] THEN q ELSE Tail(q)]
  <2>1. Copies(<<Head(q)>>) = <<heap[Head(q)]>>
    BY DEF Copies
  <2> QED BY <1>1, <1>2, <1>4, <2>1 DEF DeliverShared, Deliver, Put, Give
<1>6. Cells(EventFor(c)) = New
  <2>1. EventFor(c) = Fresh(vs)
    BY <1>4 DEF EventFor, Fresh
  <2> QED BY <1>5, <2>1, FreshCells DEF SharingInv
<1>7. /\ sent \in [Callers -> Seq(Cell)] /\ sent' \in [Callers -> Seq(Cell)]
      /\ \A d \in Callers \ {c} : sent'[d] = sent[d]
      /\ sent'[c] = IF events'[c] = events[c] THEN q ELSE Tail(q)
  BY <1>3, <1>5 DEF SharingInv, MemInv, MemType
<1>8. Kept' \subseteq Kept /\ Due' = Due
  <2>1. \A d \in Callers : \A i \in DOMAIN sent'[d] : sent'[d][i] \in Kept
    BY <1>2, <1>3, <1>7, OwnCellsKept DEF SharingInv
  <2>2. ASSUME NEW p \in Kept' PROVE p \in Kept
    <3>1. CASE \E d \in Callers : \E i \in DOMAIN sent'[d] : p = sent'[d][i]
      BY <2>1, <3>1
    <3>2. CASE ~\E d \in Callers : \E i \in DOMAIN sent'[d] : p = sent'[d][i]
      BY <1>5, <2>2, <3>2 DEF Kept
    <3> QED BY <3>1, <3>2
  <2>3. Due' = Due
    BY <1>5 DEF Due
  <2> QED BY <2>2, <2>3
<1>9. holds' \in [Holders -> SUBSET Nat]
  <2>1. New \in SUBSET Nat /\ holds \in [Holders -> SUBSET Nat]
    BY DEF New, Used, SharingInv, MemInv, MemType
  <2> QED BY <1>5, <1>6, <2>1
<1>10. MemType'
  BY <1>5, <1>7, <1>9, HeapGrows DEF SharingInv, MemInv, MemType
<1>11. MemInv' /\ \A p \in Kept : heap'[p] = heap[p]
  BY <1>5, <1>6, <1>8, <1>10, NewCellsGiven DEF SharingInv
<1>12. InHandInv'
  <2>1. events' = events \/ events' = [events EXCEPT ![c] = Tail(@)]
    BY DEF DeliverShared, Deliver
  <2>2. events[c] \in Seq(Event) /\ events[c] # <<>> /\ events \in [Callers -> Seq(Event)]
    BY DEF DeliverShared, Deliver, BaseInv, ManagerTypeOK
  <2>3. Len(Tail(q)) = Len(Tail(events[c])) /\ Tail(events[c]) # events[c]
    <3>1. Len(Tail(events[c])) = Len(events[c]) - 1 /\ Len(events[c]) \in Nat
      BY <2>2
    <3>2. Len(Tail(q)) = Len(q) - 1
      BY <1>2
    <3>3. \A n \in Nat : n - 1 # n
      OBVIOUS
    <3> QED BY <1>2, <3>1, <3>2, <3>3, Zenon
  <2>4. Len(sent'[c]) = Len(events'[c])
    BY <1>2, <1>7, <2>1, <2>2, <2>3
  <2>5. \A d \in Callers \ {c} : events'[d] = events[d]
    BY <2>1, <2>2
  <2>6. \A d \in Callers : Len(sent'[d]) = Len(events'[d])
    BY <1>7, <2>4, <2>5 DEF SharingInv, InHandInv
  <2> QED BY <1>5, <1>11, <2>6, InHandStays DEF SharingInv
<1>13. MemoryTellsState'
  BY <1>5, <1>11, SameMemory DEF SharingInv
<1> QED BY <1>11, <1>12, <1>13 DEF SharingInv

(* The readers answer with copies of kept cells.                           *)
LEMMA ReadKeepsSharing ==
  ASSUME SharingInv, NEW h \in Holders,
         LifecycleStatus(h) \/ Attempts(h) \/ LifecycleInspection(h) \/ Redacted(h)
  PROVE  SharingInv'
<1>1. ASSUME NEW p \in {own.lastAttempt, own.lastSuccess, own.lastFailure, own.lastApply, own.redacted}
      PROVE  NotNil(p) \in Seq(Kept)
  <2>1. p # None => p \in Kept
    BY DEF Kept
  <2>2. <<>> \in Seq(Kept)
    OBVIOUS
  <2> QED BY <2>1, <2>2 DEF NotNil
<1>2. \A s, t \in Seq(Kept) : s \o t \in Seq(Kept)
  OBVIOUS
<1>3. StatusCells \in Seq(Kept)
  BY <1>1, <1>2, Zenon DEF StatusCells
<1>4. own.history \in Seq(Kept)
  <2>1. own.history \in Seq(Cell) /\ \A i \in DOMAIN own.history : own.history[i] \in Kept
    BY OwnCellsKept DEF SharingInv, MemInv, MemType, OwnType
  <2>2. DOMAIN own.history = 1 .. Len(own.history) /\ Len(own.history) \in Nat
    BY <2>1
  <2> QED BY <2>1, <2>2
<1>5. NotNil(own.redacted) \in Seq(Kept) /\ StatusCells \o NotNil(own.redacted) \in Seq(Kept)
  BY <1>1, <1>2, <1>3, Zenon
<1> QED BY <1>3, <1>4, <1>5, AnswerKeepsSharing
        DEF LifecycleStatus, Attempts, LifecycleInspection, Redacted

(***************************************************************************)
(* A commit.  The cells of the history are those of the log's latest       *)
(* attempts, cut as the history is.                                        *)
(***************************************************************************)
LastOf(s, k) == SubSeq(s, Len(s) - k + 1, Len(s))

(* The last k elements of a sequence.                                      *)
LEMMA LastOfProperties ==
  ASSUME NEW S, NEW s \in Seq(S), NEW n \in Nat, n = Len(s), NEW k \in 0 .. n
  PROVE  /\ LastOf(s, k) \in Seq(S) /\ Len(LastOf(s, k)) = k
         /\ \A i \in 1 .. k : LastOf(s, k)[i] = s[n - k + i] /\ n - k + i \in 1 .. n
<1>1. PICK m \in Int : m = n - k + 1 /\ 1 <= m
  <2>1. n - k + 1 \in Int /\ 1 <= n - k + 1
    OBVIOUS
  <2> QED BY <2>1, Zenon
<1>2. LastOf(s, k) = SubSeq(s, m, n)
  BY <1>1, Zenon DEF LastOf
<1>3. \A i \in m .. n : s[i] \in S
  BY <1>1
<1>4. /\ SubSeq(s, m, n) \in Seq(S)
      /\ Len(SubSeq(s, m, n)) = IF m <= n THEN n - m + 1 ELSE 0
      /\ \A i \in 1 .. n - m + 1 : SubSeq(s, m, n)[i] = s[m + i - 1]
  BY <1>1, <1>3, SubSeqProperties
<1>5. (IF m <= n THEN n - m + 1 ELSE 0) = k /\ n - m + 1 = k
  BY <1>1
<1>6. \A i \in 1 .. k : m + i - 1 = n - k + i /\ n - k + i \in 1 .. n
  BY <1>1
<1> QED BY <1>2, <1>4, <1>5, <1>6

(* All the elements of a sequence are the sequence.                        *)
LEMMA LastOfWhole ==
  ASSUME NEW S, NEW s \in Seq(S), NEW n \in Nat, n = Len(s)
  PROVE  LastOf(s, n) = s
<1>1. n - n + 1 = 1 /\ (IF 1 <= n THEN n - 1 + 1 ELSE 0) = n /\ n - 1 + 1 = n
  OBVIOUS
<1>2. LastOf(s, n) = SubSeq(s, 1, n)
  BY <1>1, Zenon DEF LastOf
<1>3. \A i \in 1 .. n : s[i] \in S
  OBVIOUS
<1>4. /\ SubSeq(s, 1, n) \in Seq(S) /\ Len(SubSeq(s, 1, n)) = n
      /\ \A i \in 1 .. n : SubSeq(s, 1, n)[i] = s[1 + i - 1]
  BY <1>1, <1>3, SubSeqProperties
<1>5. \A i \in 1 .. n : 1 + i - 1 = i
  OBVIOUS
<1>6. SubSeq(s, 1, n) = s
  BY <1>4, <1>5
<1> QED BY <1>2, <1>6, Zenon

(* The history after a commit is an end of the longer one.                 *)
LEMMA CutHistory ==
  ASSUME BaseInv, HistoryIsRecentLog, NEW a \in AttemptRecord
  PROVE  \E k \in 0 .. Len(attemptHistory) + 1 :
           /\ RecordAttempt(a) = LastOf(Append(attemptHistory, a), k)
           /\ Len(RecordAttempt(a)) = k
<1>1. PICK limit \in Int : limit = historyLimit /\ limit # 0
  BY ManagerAssumption DEF historyLimit, BaseInv, ManagerTypeOK
<1>2. PICK h \in Seq(AttemptRecord) : h = attemptHistory
  BY DEF BaseInv, ManagerTypeOK
<1>3. PICK n \in Nat : n = Len(h) + 1
  OBVIOUS
<1>4. PICK s \in Seq(AttemptRecord) : s = Append(h, a) /\ Len(s) = n
  BY <1>3, AppendProperties
<1>5. RecordAttempt(a) = IF limit < 0 THEN h
                         ELSE IF n <= limit THEN s ELSE LastOf(s, limit)
  BY <1>1, <1>2, <1>4, Zenon DEF RecordAttempt, LastOf
<1>6. CASE limit < 0
  <2>1. h = <<>>
    BY <1>1, <1>2, <1>6 DEF HistoryIsRecentLog, retained
  <2>2. LastOf(s, 0) = <<>>
    <3>1. 0 \in 0 .. n /\ n = Len(s)
      BY <1>4
    <3>2. LastOf(s, 0) \in Seq(AttemptRecord) /\ Len(LastOf(s, 0)) = 0
      BY <3>1, LastOfProperties, SMT
    <3> QED BY <3>2
  <2>3. RecordAttempt(a) = LastOf(s, 0) /\ Len(RecordAttempt(a)) = 0
    BY <1>5, <1>6, <2>1, <2>2
  <2> QED BY <1>2, <1>3, <1>4, <2>3
<1>7. CASE limit > 0 /\ n <= limit
  <2>1. LastOf(s, n) = s
    BY <1>4, LastOfWhole, Zenon
  <2>2. RecordAttempt(a) = s
    BY <1>5, <1>7
  <2> QED BY <1>2, <1>3, <1>4, <2>1, <2>2
<1>8. CASE limit > 0 /\ n > limit
  <2>1. limit \in 0 .. n
    BY <1>8
  <2>2. RecordAttempt(a) = LastOf(s, limit)
    BY <1>5, <1>8
  <2>3. Len(LastOf(s, limit)) = limit
    BY <1>4, <2>1, LastOfProperties
  <2> QED BY <1>2, <1>3, <1>4, <2>1, <2>2, <2>3
<1> QED BY <1>1, <1>3, <1>6, <1>7, <1>8

(* What is left of a sequence without its first five.                      *)
LEMMA AfterFive ==
  ASSUME NEW S, NEW s, NEW m \in Nat, \A i \in 6 .. 5 + m : s[i] \in S,
         NEW t, t = SubSeq(s, 6, 5 + m)
  PROVE  t \in Seq(S) /\ Len(t) = m /\ \A i \in 1 .. m : t[i] = s[5 + i]
<1>1. PICK first \in Int, last \in Int : first = 6 /\ last = 5 + m
  OBVIOUS
<1>2. \A i \in first .. last : s[i] \in S
  BY <1>1, Zenon
<1>3. /\ SubSeq(s, first, last) \in Seq(S)
      /\ Len(SubSeq(s, first, last)) = IF first <= last THEN last - first + 1 ELSE 0
      /\ \A i \in 1 .. last - first + 1 : SubSeq(s, first, last)[i] = s[first + i - 1]
  BY <1>2, SubSeqProperties, SMT
<1>4. t = SubSeq(s, first, last)
  BY <1>1, Zenon
<1>5. /\ last - first + 1 = m /\ (IF first <= last THEN last - first + 1 ELSE 0) = m
      /\ \A i \in 1 .. m : first + i - 1 = 5 + i
  BY <1>1
<1> QED BY <1>3, <1>4, <1>5, Zenon

(* Two sequences of one length, and what is left of them after one more.   *)
LEMMA CutTogether ==
  ASSUME NEW S, NEW T, NEW h \in Seq(S), NEW o \in Seq(T), Len(o) = Len(h),
         NEW a \in S, NEW p \in T, NEW k \in 0 .. Len(h) + 1,
         NEW g, \A i \in 1 .. Len(h) : g[o[i]] = h[i], g[p] = a,
         NEW t, t = LastOf(Append(h, a), k), NEW q, q = LastOf(Append(o, p), k)
  PROVE  /\ q \in Seq(T) /\ Len(q) = k
         /\ \A i \in 1 .. k : q[i] = p \/ \E j \in 1 .. Len(o) : q[i] = o[j]
         /\ [i \in DOMAIN q |-> g[q[i]]] = t
<1>1. PICK l \in Nat : l = Len(h)
  OBVIOUS
<1>2. PICK s \in Seq(S) : /\ s = Append(h, a) /\ Len(s) = l + 1
                          /\ s[l + 1] = a /\ \A i \in 1 .. l : s[i] = h[i]
  <2>1. /\ Append(h, a) \in Seq(S) /\ Len(Append(h, a)) = Len(h) + 1
        /\ \A i \in 1 .. Len(h) : Append(h, a)[i] = h[i]
        /\ Append(h, a)[Len(h) + 1] = a
    BY AppendProperties
  <2> QED BY <1>1, <2>1, Zenon
<1>3. PICK r \in Seq(T) : /\ r = Append(o, p) /\ Len(r) = l + 1
                          /\ r[l + 1] = p /\ \A i \in 1 .. l : r[i] = o[i]
  <2>1. /\ Append(o, p) \in Seq(T) /\ Len(Append(o, p)) = Len(o) + 1
        /\ \A i \in 1 .. Len(o) : Append(o, p)[i] = o[i]
        /\ Append(o, p)[Len(o) + 1] = p
    BY AppendProperties
  <2> QED BY <1>1, <2>1, Zenon
<1>4. t = LastOf(s, k) /\ q = LastOf(r, k)
  BY <1>2, <1>3
<1>5. PICK n \in Nat : n = l + 1 /\ k \in 0 .. n
  BY <1>1
<1>6. /\ t \in Seq(S) /\ Len(t) = k
      /\ \A i \in 1 .. k : t[i] = s[n - k + i] /\ n - k + i \in 1 .. n
  <2>1. n = Len(s)
    BY <1>2, <1>5
  <2>2. /\ LastOf(s, k) \in Seq(S) /\ Len(LastOf(s, k)) = k
        /\ \A i \in 1 .. k : LastOf(s, k)[i] = s[n - k + i] /\ n - k + i \in 1 .. n
    BY <1>5, <2>1, LastOfProperties
  <2> QED BY <1>4, <2>2, Zenon
<1>7. /\ q \in Seq(T) /\ Len(q) = k
      /\ \A i \in 1 .. k : q[i] = r[n - k + i]
  <2>1. n = Len(r)
    BY <1>3, <1>5
  <2>2. /\ LastOf(r, k) \in Seq(T) /\ Len(LastOf(r, k)) = k
        /\ \A i \in 1 .. k : LastOf(r, k)[i] = r[n - k + i] /\ n - k + i \in 1 .. n
    BY <1>5, <2>1, LastOfProperties
  <2> QED BY <1>4, <2>2, Zenon
<1>8. \A j \in 1 .. n : j = n \/ j \in 1 .. l
  BY <1>5
<1>9. \A j \in 1 .. n : g[r[j]] = s[j] /\ (r[j] = p \/ \E i \in 1 .. l : r[j] = o[i])
  BY <1>1, <1>2, <1>3, <1>5, <1>8
<1>10. DOMAIN t = 1 .. k /\ DOMAIN q = 1 .. k
  BY <1>6, <1>7
<1>11. \A i \in 1 .. k : g[q[i]] = t[i] /\ (q[i] = p \/ \E j \in 1 .. l : q[i] = o[j])
  <2> SUFFICES ASSUME NEW i \in 1 .. k
               PROVE  g[q[i]] = t[i] /\ (q[i] = p \/ \E j \in 1 .. l : q[i] = o[j])
    OBVIOUS
  <2>1. PICK j \in 1 .. n : t[i] = s[j] /\ q[i] = r[j]
    BY <1>6, <1>7, Zenon
  <2> QED BY <1>9, <2>1, Zenon
<1>12. [i \in DOMAIN q |-> g[q[i]]] = t
  BY <1>6, <1>10, <1>11
<1> QED BY <1>1, <1>2, <1>3, <1>4, <1>7, <1>11, <1>12

(* The manager and its caller get a copy each, and none is shared.         *)
LEMMA CommitKeepsSharing ==
  ASSUME SharingInv, BaseInv, HistoryIsRecentLog, BaseInv', NEW c \in Callers, CommitShared(c)
  PROVE  SharingInv'
<1>1. PICK r \in LoadResult :
        /\ ValidLoadResult(r) /\ Commit(r) /\ r.snapshot = job[c].snapshot
        /\ phase[c] \in {"apply", "loaded"} /\ phase' = [phase EXCEPT ![c] = "finishing"] /\ job' = job
        /\ \A d \in Callers \ {c} : events'[d] = events[d]
  <2>1. CASE CommitLoad(c)
    BY <2>1, CommitLoadCommits DEF CommitLoad, BaseInv, ManagerTypeOK
  <2>2. CASE AcceptExternal(c)
    <3>1. WithID(job[c], nextAttemptID + 1).snapshot = job[c].snapshot
      BY DEF WithID
    <3> QED BY <2>2, <3>1, AcceptExternalCommits DEF AcceptExternal, BaseInv, ManagerTypeOK
  <2> QED BY <2>1, <2>2 DEF CommitShared
<1>2. PICK a \in AttemptRecord, y \in ApplyResult, published \in BOOLEAN :
        /\ a = lastAttempt' /\ a = r.attempt /\ y = lastApply' /\ published = y.published
        /\ published => /\ current' = r.snapshot /\ r.snapshot \in Metadata
                        /\ lastSuccess' = a /\ lastFailure' = lastFailure
        /\ ~published => current' = current /\ lastSuccess' = lastSuccess /\ lastFailure' = a
  <2>1. r.attempt \in AttemptRecord /\ Applied(current, r) \in ApplyResult
    BY AppliedType DEF LoadResult, BaseInv, ManagerTypeOK
  <2>2. Applied(current, r).published \in BOOLEAN
    BY <2>1 DEF ApplyResult
  <2>3. /\ lastAttempt' = r.attempt /\ lastApply' = Applied(current, r)
        /\ \/ /\ Applied(current, r).published /\ r.snapshot \in Metadata
              /\ current' = r.snapshot /\ lastSuccess' = r.attempt /\ lastFailure' = lastFailure
           \/ /\ ~Applied(current, r).published
              /\ current' = current /\ lastSuccess' = lastSuccess /\ lastFailure' = r.attempt
    BY <1>1, CommitEffect
  <2> QED BY <2>1, <2>2, <2>3
<1>3. a \in Contents /\ y \in Contents /\ Nil \notin Contents
  BY ContentsAssumption DEF Contents
<1>4. PICK ev \in Seq(Contents) : ev = events'[c]
  <2>1. events'[c] \in Seq(Event) /\ Event \subseteq Contents
    BY DEF BaseInv, ManagerTypeOK, Contents
  <2> QED BY <2>1
<1>5. PICK n \in Nat, m \in Nat : n = Len(heap) /\ m = Len(ev)
  BY DEF SharingInv, MemInv, MemType
<1>6. PICK vs \in Seq(Contents) : /\ vs = <<a, a, a, y, y>> \o ev /\ Len(vs) = 5 + m
                                  /\ vs[1] = a /\ vs[2] = a /\ vs[3] = a /\ vs[4] = y /\ vs[5] = y
  <2>1. PICK rs \in Seq(Contents) : /\ rs = <<a, a, a, y, y>> /\ Len(rs) = 5
                                    /\ rs[1] = a /\ rs[2] = a /\ rs[3] = a /\ rs[4] = y /\ rs[5] = y
    <3>1. <<a, a, a, y, y>> \in Seq(Contents)
      BY <1>3
    <3>2. Len(<<a, a, a, y, y>>) = 5 /\ <<a, a, a, y, y>>[1] = a /\ <<a, a, a, y, y>>[2] = a
          /\ <<a, a, a, y, y>>[3] = a /\ <<a, a, a, y, y>>[4] = y /\ <<a, a, a, y, y>>[5] = y
      OBVIOUS
    <3> QED BY <3>1, <3>2, Zenon
  <2>2. rs \o ev \in Seq(Contents) /\ Len(rs \o ev) = 5 + m
        /\ \A i \in 1 .. 5 : (rs \o ev)[i] = rs[i]
    BY <1>5, <2>1
  <2>3. {1, 2, 3, 4, 5} \subseteq 1 .. 5
    OBVIOUS
  <2>4. /\ (rs \o ev)[1] = a /\ (rs \o ev)[2] = a /\ (rs \o ev)[3] = a
        /\ (rs \o ev)[4] = y /\ (rs \o ev)[5] = y
    BY <2>1, <2>2, <2>3
  <2>5. rs \o ev = <<a, a, a, y, y>> \o ev
    BY <2>1, Zenon
  <2> QED BY <2>2, <2>4, <2>5, Zenon
<1>7. PICK at \in Seq(Cell) :
        /\ at = Fresh(vs) /\ Len(at) = 5 + m /\ \A i \in 1 .. 5 + m : at[i] = n + i
  <2>1. Fresh(vs) = [i \in 1 .. 5 + m |-> n + i]
    BY <1>5, <1>6 DEF Fresh
  <2>2. [i \in 1 .. 5 + m |-> n + i] \in Seq(Cell) /\ Len([i \in 1 .. 5 + m |-> n + i]) = 5 + m
    BY DEF Cell, None
  <2> QED BY <2>1, <2>2
<1>8. PICK hist : hist = LastOf(Append(own.history, n + 3), Len(attemptHistory'))
  OBVIOUS
<1>9. PICK sq : sq = SubSeq(at, 6, 5 + m)
  OBVIOUS
<1>10. /\ heap' = heap \o vs
       /\ own' = [own EXCEPT !.lastAttempt = n + 1,
                             !.lastSuccess = IF published THEN n + 2 ELSE own.lastSuccess,
                             !.lastFailure = IF published THEN own.lastFailure ELSE n + 2,
                             !.history     = hist,
                             !.lastApply   = n + 4,
                             !.redacted    = IF published THEN result[c].redacted ELSE own.redacted]
       /\ answer' = [answer EXCEPT ![c] = n + 5]
       /\ sent' = [sent EXCEPT ![c] = sq]
       /\ UNCHANGED <<result, holds>>
  <2>1. <<lastAttempt', lastAttempt', lastAttempt', lastApply', lastApply'>> \o events'[c] = vs
    BY <1>2, <1>4, <1>6
  <2>2. at[1] = n + 1 /\ at[2] = n + 2 /\ at[3] = n + 3 /\ at[4] = n + 4 /\ at[5] = n + 5
    BY <1>7
  <2>3. Recorded(n + 3) = hist
    BY <1>8, Zenon DEF Recorded, LastOf
  <2>4. lastApply'.published = published
    BY <1>2
  <2>5. LET at1 == Fresh(vs)
        IN  /\ Put(vs)
            /\ own' = [own EXCEPT
                 !.lastAttempt = at1[1],
                 !.lastSuccess = IF lastApply'.published THEN at1[2] ELSE @,
                 !.lastFailure = IF lastApply'.published THEN @ ELSE at1[2],
                 !.history     = Recorded(at1[3]),
                 !.lastApply   = at1[4],
                 !.redacted    = IF lastApply'.published THEN result[c].redacted ELSE @]
            /\ answer' = [answer EXCEPT ![c] = at1[5]]
            /\ sent' = [sent EXCEPT ![c] = SubSeq(at1, 6, Len(at1))]
            /\ UNCHANGED <<result, holds>>
    BY <2>1, Zenon DEF CommitShared
  <2> QED BY <1>7, <1>9, <2>2, <2>3, <2>4, <2>5 DEF Put
<1>11. /\ own' = [lastAttempt |-> n + 1,
                  lastSuccess |-> IF published THEN n + 2 ELSE own.lastSuccess,
                  lastFailure |-> IF published THEN own.lastFailure ELSE n + 2,
                  lastApply   |-> n + 4,
                  history     |-> hist,
                  redacted    |-> IF published THEN result[c].redacted ELSE own.redacted,
                  bytes       |-> own.bytes]
       /\ own'.lastAttempt = n + 1 /\ own'.lastApply = n + 4
       /\ own'.lastSuccess = (IF published THEN n + 2 ELSE own.lastSuccess)
       /\ own'.lastFailure = (IF published THEN own.lastFailure ELSE n + 2)
       /\ own'.redacted = (IF published THEN result[c].redacted ELSE own.redacted)
       /\ own'.history = hist /\ own'.bytes = own.bytes
  <2>1. PICK o \in OwnType : o = own
    BY DEF SharingInv, MemInv, MemType
  <2>2. PICK ls, lf, re : /\ ls = (IF published THEN n + 2 ELSE own.lastSuccess)
                          /\ lf = (IF published THEN own.lastFailure ELSE n + 2)
                          /\ re = (IF published THEN result[c].redacted ELSE own.redacted)
    OBVIOUS
  <2>3. own' = [o EXCEPT !.lastAttempt = n + 1, !.lastSuccess = ls, !.lastFailure = lf,
                         !.history = hist, !.lastApply = n + 4, !.redacted = re]
    BY <1>10, <2>1, <2>2
  <2>4. own' = [lastAttempt |-> n + 1, lastSuccess |-> ls, lastFailure |-> lf, lastApply |-> n + 4,
                history |-> hist, redacted |-> re, bytes |-> o.bytes]
    BY <2>3 DEF OwnType
  <2> QED BY <2>1, <2>2, <2>4
<1>12. /\ Used = 1 .. n /\ Used' = 1 .. n + (5 + m) /\ \A p \in Used : heap'[p] = heap[p]
       /\ heap'[n + 1] = a /\ heap'[n + 2] = a /\ heap'[n + 3] = a /\ heap'[n + 4] = y /\ heap'[n + 5] = y
  <2>1. /\ Used' = 1 .. Len(heap) + Len(vs)
        /\ \A p \in Used : heap'[p] = heap[p]
        /\ \A i \in 1 .. Len(vs) : heap'[Len(heap) + i] = vs[i]
    BY <1>10, HeapGrows DEF SharingInv
  <2>2. {1, 2, 3, 4, 5} \subseteq 1 .. Len(vs)
    BY <1>6
  <2> QED BY <1>5, <1>6, <2>1, <2>2 DEF Used
<1>13. \A p \in Kept : heap'[p] = heap[p]
  BY <1>12 DEF SharingInv, MemInv, Sorted
<1>14. /\ New = n + 1 .. n + (5 + m) /\ New \in SUBSET Nat
       /\ {n + 1, n + 2, n + 3, n + 4, n + 5} \subseteq New
  <2>1. New = (1 .. n + (5 + m)) \ (1 .. n)
    BY <1>12, Zenon DEF New
  <2>2. (1 .. n + (5 + m)) \ (1 .. n) = n + 1 .. n + (5 + m)
    OBVIOUS
  <2>3. {n + 1, n + 2, n + 3, n + 4, n + 5} \subseteq n + 1 .. n + (5 + m)
    OBVIOUS
  <2>4. n + 1 .. n + (5 + m) \in SUBSET Nat
    OBVIOUS
  <2> QED BY <2>1, <2>2, <2>3, <2>4
<1>15. /\ sq \in Seq(Cell)
       /\ \A i \in DOMAIN sq : sq[i] \in New \ {n + 5}
       /\ Len(sq) = m
  <2>1. \A i \in 6 .. 5 + m : at[i] \in Cell
    BY <1>7
  <2>2. sq \in Seq(Cell) /\ Len(sq) = m /\ \A i \in 1 .. m : sq[i] = at[5 + i]
    BY <1>9, <2>1, AfterFive
  <2>3. \A i \in 1 .. m : 5 + i \in 1 .. 5 + m /\ n + (5 + i) \in New \ {n + 5}
    BY <1>14
  <2>4. DOMAIN sq = 1 .. m
    BY <2>2
  <2>5. ASSUME NEW i \in 1 .. m PROVE sq[i] \in New \ {n + 5}
    <3>1. sq[i] = n + (5 + i)
      BY <1>7, <2>2, <2>3, Zenon
    <3> QED BY <2>3, <3>1, Zenon
  <2> QED BY <2>2, <2>4, <2>5, Zenon
<1>16. /\ hist \in Seq(Cell) /\ \A i \in DOMAIN hist : hist[i] \in Kept \cup {n + 3}
       /\ [i \in DOMAIN hist |-> heap'[hist[i]]] = attemptHistory'
  <2>1. PICK h \in Seq(AttemptRecord), o \in Seq(Cell) :
          /\ h = attemptHistory /\ o = own.history /\ Len(o) = Len(h)
          /\ \A i \in 1 .. Len(h) : o[i] \in Kept /\ heap'[o[i]] = h[i]
    <3>1. attemptHistory \in Seq(AttemptRecord) /\ own.history \in Seq(Cell)
      BY DEF BaseInv, ManagerTypeOK, SharingInv, MemInv, MemType, OwnType
    <3>2. attemptHistory = [i \in DOMAIN own.history |-> heap[own.history[i]]]
      BY DEF SharingInv, MemoryTellsState, Copies
    <3>3. DOMAIN attemptHistory = DOMAIN own.history
          /\ \A i \in DOMAIN own.history : attemptHistory[i] = heap[own.history[i]]
      BY <3>2
    <3>4. \A i \in DOMAIN own.history : own.history[i] \in Kept
      BY OwnCellsKept DEF SharingInv
    <3>5. PICK h \in Seq(AttemptRecord), o \in Seq(Cell) : h = attemptHistory /\ o = own.history
      BY <3>1, Zenon
    <3>6. DOMAIN h = 1 .. Len(h) /\ DOMAIN o = 1 .. Len(o) /\ Len(h) \in Nat /\ Len(o) \in Nat
      OBVIOUS
    <3>7. DOMAIN h = DOMAIN o
      BY <3>3, <3>5, Zenon
    <3>8. Len(o) = Len(h)
      <4>1. PICK l \in Nat, k \in Nat : l = Len(h) /\ k = Len(o)
        BY <3>6, Zenon
      <4>2. 1 .. l = 1 .. k
        BY <3>6, <3>7, <4>1, Zenon
      <4>3. CASE l < k
        <5>1. k \in 1 .. k /\ k \notin 1 .. l
          BY <4>3
        <5> QED BY <4>2, <5>1, Zenon
      <4>4. CASE k < l
        <5>1. l \in 1 .. l /\ l \notin 1 .. k
          BY <4>4
        <5> QED BY <4>2, <5>1, Zenon
      <4>5. l < k \/ k < l \/ l = k
        OBVIOUS
      <4> QED BY <4>1, <4>3, <4>4, <4>5, Zenon
    <3>9. \A i \in 1 .. Len(h) : o[i] \in Kept /\ heap'[o[i]] = h[i]
      BY <1>13, <3>3, <3>4, <3>5, <3>6, <3>7
    <3> QED BY <3>5, <3>8, <3>9, Zenon
  <2>2. PICK k \in 0 .. Len(h) + 1 : attemptHistory' = LastOf(Append(h, a), k) /\ Len(attemptHistory') = k
    <3>1. attemptHistory' = RecordAttempt(a)
      BY <1>1, <1>2 DEF Commit
    <3> QED BY <2>1, <3>1, CutHistory
  <2>3. n + 3 \in Cell
    BY DEF Cell, None
  <2>4. PICK g : g = heap'
    OBVIOUS
  <2>5. PICK t, q : t = LastOf(Append(h, a), k) /\ q = LastOf(Append(o, n + 3), k)
    OBVIOUS
  <2>6. hist = q
    BY <1>8, <2>1, <2>2, <2>5
  <2>7. /\ hist \in Seq(Cell) /\ Len(hist) = k
        /\ \A i \in 1 .. k : hist[i] = n + 3 \/ \E j \in 1 .. Len(o) : hist[i] = o[j]
        /\ [i \in DOMAIN hist |-> g[hist[i]]] = attemptHistory'
    <3>1. PICK p \in Cell : p = n + 3
      BY <2>3
    <3>2. /\ \A i \in 1 .. Len(h) : g[o[i]] = h[i]
          /\ g[p] = a /\ a \in AttemptRecord /\ Len(o) = Len(h)
      BY <1>2, <1>12, <2>1, <2>4, <3>1
    <3>3. t = LastOf(Append(h, a), k) /\ q = LastOf(Append(o, p), k)
      BY <2>5, <3>1
    <3>4. /\ q \in Seq(Cell) /\ Len(q) = k
          /\ \A i \in 1 .. k : q[i] = p \/ \E j \in 1 .. Len(o) : q[i] = o[j]
          /\ [i \in DOMAIN q |-> g[q[i]]] = t
      BY <3>2, <3>3, CutTogether, SMT
    <3> QED BY <2>2, <2>5, <2>6, <3>1, <3>4, Zenon
  <2>8. DOMAIN hist = 1 .. k
    BY <2>7
  <2> QED BY <2>1, <2>4, <2>7, <2>8
<1>17. /\ sent \in [Callers -> Seq(Cell)] /\ sent' \in [Callers -> Seq(Cell)]
       /\ sent'[c] = sq /\ \A d \in Callers \ {c} : sent'[d] = sent[d]
       /\ answer \in [Callers -> Nat] /\ answer' \in [Callers -> Nat]
       /\ answer'[c] = n + 5 /\ \A d \in Callers \ {c} : answer'[d] = answer[d]
  <2>1. sent \in [Callers -> Seq(Cell)] /\ answer \in [Callers -> Nat]
    BY Zenon DEF SharingInv, MemInv, MemType
  <2>2. sent' = [sent EXCEPT ![c] = sq] /\ answer' = [answer EXCEPT ![c] = n + 5]
    BY <1>10
  <2>3. n + 5 \in Nat
    OBVIOUS
  <2>4. PICK x \in Nat : x = n + 5
    BY <2>3
  <2>5. answer' = [answer EXCEPT ![c] = x]
    BY <2>2, <2>4, Zenon
  <2>6. answer' \in [Callers -> Nat] /\ answer'[c] = x /\ \A d \in Callers \ {c} : answer'[d] = answer[d]
    BY <2>1, <2>5
  <2>7. sent' \in [Callers -> Seq(Cell)] /\ sent'[c] = sq /\ \A d \in Callers \ {c} : sent'[d] = sent[d]
    BY <1>15, <2>1, <2>2
  <2> QED BY <2>1, <2>4, <2>6, <2>7, Zenon
<1>18. MemType'
  <2>1. /\ own.lastSuccess \in Nat /\ own.lastFailure \in Nat /\ own.redacted \in Nat /\ own.bytes \in Nat
        /\ result[c].redacted \in Nat
    BY DEF SharingInv, MemInv, MemType, OwnType
  <2>2. n + 1 \in Nat /\ n + 2 \in Nat /\ n + 4 \in Nat
    OBVIOUS
  <2>3. own' \in OwnType
    BY <1>11, <1>16, <2>1, <2>2 DEF OwnType
  <2>4. heap' \in Seq(Contents \cup Edits)
    BY <1>10, HeapGrows DEF SharingInv
  <2> QED BY <1>10, <1>17, <2>3, <2>4 DEF SharingInv, MemInv, MemType
<1>19. Kept' \subseteq Kept \cup (New \ {n + 5})
  <2>1. ASSUME NEW p \in Kept' PROVE p \in Kept \cup (New \ {n + 5})
    <3>1. CASE \E d \in Callers : \E i \in DOMAIN sent'[d] : p = sent'[d][i]
      <4>1. PICK d \in Callers : \E i \in DOMAIN sent'[d] : p = sent'[d][i]
        BY <3>1
      <4>2. CASE d = c
        BY <1>15, <1>17, <4>1, <4>2
      <4>3. CASE d # c
        <5>1. \E i \in DOMAIN sent[d] : p = sent[d][i]
          BY <1>17, <4>1, <4>3
        <5> QED BY <5>1, OwnCellsKept DEF SharingInv
      <4> QED BY <4>2, <4>3
    <3>2. CASE \E i \in DOMAIN own'.history : p = own'.history[i]
      BY <1>11, <1>14, <1>16, <3>2
    <3>3. CASE p \in {own'.lastAttempt, own'.lastSuccess, own'.lastFailure, own'.lastApply,
                      own'.redacted, own'.bytes} \cup {result[d].redacted : d \in Callers}
      <4>1. p \in {n + 1, n + 2, n + 4} \/ p \in {own.lastSuccess, own.lastFailure, own.redacted, own.bytes}
              \cup {result[d].redacted : d \in Callers}
        BY <1>11, <3>3
      <4>2. p # None
        BY <2>1 DEF Kept
      <4>3. p \in {n + 1, n + 2, n + 4} \/ p \in Kept
        BY <4>1, <4>2 DEF Kept
      <4> QED BY <1>14, <4>3
    <3> QED BY <1>10, <2>1, <3>1, <3>2, <3>3 DEF Kept
  <2> QED BY <2>1
<1>20. Due'[c] \subseteq Due[c] \cup {n + 5} /\ \A d \in Callers \ {c} : Due'[d] = Due[d]
  BY <1>10, <1>17 DEF Due
<1>21. MemInv'
  <2>1. Kept' \subseteq Kept \cup New /\ \A d \in Callers : Due'[d] \subseteq Due[d] \cup New
    <3>1. n + 5 \in New
      BY <1>14, Zenon
    <3>2. Kept' \subseteq Kept \cup New
      BY <1>19, Zenon
    <3>3. ASSUME NEW d \in Callers PROVE Due'[d] \subseteq Due[d] \cup New
      BY <1>20, <3>1, Zenon
    <3> QED BY <3>2, <3>3, Zenon
  <2>2. \A d \in Callers : New \cap Due[d] = {} /\ New \cap Kept = {}
    BY NewIsNew DEF SharingInv
  <2>3. \A d \in Callers : New \cap Due'[d] \cap Kept' = {}
    BY <1>19, <1>20, <2>2
  <2>4. \A d, e \in Callers : d # e => New \cap Due'[d] \cap Due'[e] = {}
    BY <1>20, <2>2
  <2> QED BY <1>10, <1>18, <2>1, <2>3, <2>4, NewCellsKept DEF SharingInv
<1>22. InHandInv'
  <2>1. \A d \in Callers : phase'[d] \in {"apply", "loaded"} => phase[d] \in {"apply", "loaded"}
    BY <1>1 DEF BaseInv, ManagerTypeOK
  <2>2. \A d \in Callers : Len(sent'[d]) = Len(events'[d])
    BY <1>1, <1>4, <1>5, <1>15, <1>17 DEF SharingInv, InHandInv
  <2> QED BY <1>1, <1>10, <1>13, <2>1, <2>2, InHandStays DEF SharingInv
<1>23. MemoryTellsState'
  <2>1. /\ At(own.lastSuccess, lastSuccess) /\ At(own.lastFailure, lastFailure)
        /\ At(own.redacted, IF current = Nil THEN Nil ELSE [view |-> current])
        /\ At(own.bytes, SourceBytes)
    BY DEF SharingInv, MemoryTellsState
  <2>2. ASSUME NEW v, NEW p \in {own.lastSuccess, own.lastFailure, own.redacted, own.bytes}, At(p, v)
        PROVE  IF v = Nil THEN p = None ELSE p # None /\ heap'[p] = v
    <3>1. p # None => p \in Kept
      BY DEF Kept
    <3> QED BY <1>13, <2>2, <3>1 DEF At
  <2>3. n + 1 # None /\ n + 2 # None /\ n + 4 # None
    BY DEF None
  <2>4. At(own.lastAttempt, lastAttempt)' /\ At(own.lastApply, lastApply)'
    BY <1>2, <1>3, <1>11, <1>12, <2>3 DEF At
  <2>5. At(own.lastSuccess, lastSuccess)' /\ At(own.lastFailure, lastFailure)'
    <3>1. CASE published
      <4>1. lastSuccess' = a /\ own'.lastSuccess = n + 2
        BY <1>2, <1>11, <3>1
      <4>2. lastFailure' = lastFailure /\ own'.lastFailure = own.lastFailure
        BY <1>2, <1>11, <3>1
      <4>3. At(own.lastSuccess, lastSuccess)'
        BY <1>3, <1>12, <2>3, <4>1 DEF At
      <4>4. At(own.lastFailure, lastFailure)'
        BY <2>1, <2>2, <4>2, Zenon DEF At
      <4> QED BY <4>3, <4>4
    <3>2. CASE ~published
      <4>1. lastFailure' = a /\ own'.lastFailure = n + 2
        BY <1>2, <1>11, <3>2
      <4>2. lastSuccess' = lastSuccess /\ own'.lastSuccess = own.lastSuccess
        BY <1>2, <1>11, <3>2
      <4>3. At(own.lastFailure, lastFailure)'
        BY <1>3, <1>12, <2>3, <4>1 DEF At
      <4>4. At(own.lastSuccess, lastSuccess)'
        BY <2>1, <2>2, <4>2, Zenon DEF At
      <4> QED BY <4>3, <4>4
    <3> QED BY <3>1, <3>2
  <2>6. At(own.bytes, SourceBytes)'
    BY <1>11, <2>1, <2>2 DEF At
  <2>7. At(own.redacted, IF current = Nil THEN Nil ELSE [view |-> current])'
    <3>1. CASE published
      <4>1. result[c].redacted # None /\ heap[result[c].redacted] = [view |-> r.snapshot]
        BY <1>1, <1>2, <3>1, NilAssumption DEF SharingInv, InHandInv, View
      <4>2. heap'[result[c].redacted] = [view |-> r.snapshot]
        BY <1>13, <4>1 DEF Kept
      <4>3. current' = r.snapshot /\ r.snapshot # Nil /\ own'.redacted = result[c].redacted
        BY <1>2, <1>11, <3>1, NilAssumption
      <4>4. [view |-> r.snapshot] # Nil
        BY <1>3 DEF Contents, LoadResult
      <4> QED BY <4>1, <4>2, <4>3, <4>4 DEF At
    <3>2. CASE ~published
      <4>1. current' = current /\ own'.redacted = own.redacted
        BY <1>2, <1>11, <3>2
      <4> QED BY <2>1, <2>2, <4>1 DEF At
    <3> QED BY <3>1, <3>2
  <2>8. (Copies(own.history) = attemptHistory)'
    BY <1>11, <1>16 DEF Copies
  <2> QED BY <2>4, <2>5, <2>6, <2>7, <2>8 DEF MemoryTellsState
<1> QED BY <1>21, <1>22, <1>23 DEF SharingInv

(***************************************************************************)
(* The theorems.                                                           *)
(***************************************************************************)
LEMMA SharingInductive ==
  ASSUME SharingInv, BaseInv, HistoryIsRecentLog, BaseInv', [SharingNext]_sharedVars
  PROVE  SharingInv'
<1>1. CASE UNCHANGED sharedVars
  BY <1>1, StutterKeepsSharing
<1>2. ASSUME NEW c \in Callers,
             \/ RunSharedLoad(c) \/ CallSharedApply(c) \/ CommitShared(c) \/ StartSharedLoad(c)
             \/ DeliverShared(c) \/ ReturnShared(c) \/ ReturnSharedRefused(c) \/ OtherCallStep(c)
      PROVE  SharingInv'
  BY <1>2, LoadedKeepsSharing, CommitKeepsSharing, StartKeepsSharing, DeliverKeepsSharing,
     ReturnKeepsSharing, OtherKeepsSharing
<1>3. ASSUME NEW h \in Holders,
             \/ LifecycleStatus(h) \/ Attempts(h) \/ LifecycleInspection(h) \/ Redacted(h) \/ Edit(h)
      PROVE  SharingInv'
  BY <1>3, ReadKeepsSharing, EditKeepsSharing
<1> QED BY <1>1, <1>2, <1>3 DEF SharingNext

(* Nothing that a holder writes to what it was given reaches a cell of the *)
(* manager, so its pointers lead to what Manager says, always.             *)
THEOREM SharingMemoryTellsState == SharingSpec => []MemoryTellsState
<1>1. SharingInv => MemoryTellsState
  BY DEF SharingInv
<1>2. SharingSpec => []BaseInv
  BY SharingIsManager, BaseInitial, BaseInductive, PTL DEF ManagerSpec
<1>3. SharingSpec => []HistoryIsRecentLog
  BY SharingIsManager, ManagerHistoryIsRecent, PTL
<1> QED BY SharingInitial, SharingInductive, <1>1, <1>2, <1>3, PTL DEF SharingSpec

(* Nobody holds a cell that another holds or may write to.                 *)
THEOREM SharingAnswersAreOwn == SharingSpec => []AnswersAreOwn
<1>1. SharingInv => AnswersAreOwn
  <2> SUFFICES ASSUME SharingInv, NEW h \in Holders, NEW p \in holds[h], NEW g \in Holders \ {h}
               PROVE  heap[p] # EditedBy(g)
    BY DEF AnswersAreOwn
  <2>1. p \in Used /\ p \notin holds[g]
    BY DEF SharingInv, MemInv, Sorted
  <2> QED BY <2>1 DEF SharingInv, MemInv, OwnEdits
<1>2. SharingSpec => []BaseInv
  BY SharingIsManager, BaseInitial, BaseInductive, PTL DEF ManagerSpec
<1>3. SharingSpec => []HistoryIsRecentLog
  BY SharingIsManager, ManagerHistoryIsRecent, PTL
<1> QED BY SharingInitial, SharingInductive, <1>1, <1>2, <1>3, PTL DEF SharingSpec
=============================================================================
