--------------------------- MODULE FileReloadProofs ---------------------------
(***************************************************************************)
(* Proofs about FileReload, for any callers, observers and history limit,  *)
(* and for files of any number of blocks rewritten any number of times.    *)
(***************************************************************************)
EXTENDS FileReload, ManagerProofs

(***************************************************************************)
(* Files and readers are hidden from the manager: its theorems hold here.  *)
(***************************************************************************)
LEMMA ReloadStepIsManagerStep == [ReloadNext]_reloadVars => [ManagerNext]_vars
<1> SUFFICES ASSUME [ReloadNext]_reloadVars PROVE [ManagerNext]_vars
  OBVIOUS
<1>1. CASE UNCHANGED reloadVars
  BY <1>1 DEF reloadVars
<1>2. CASE Truncate \/ WriteBlock \/ FinishWrite
  BY <1>2 DEF Truncate, WriteBlock, FinishWrite
<1>3. ASSUME NEW c \in Callers,
             Open(c) \/ ReadBlock(c) \/ ReadEnds(c) \/ ReadStops(c) \/ ReadFails(c) \/ DropData(c)
      PROVE  UNCHANGED vars
  BY <1>3 DEF Open, ReadBlock, ReadEnds, ReadStops, ReadFails, DropData
<1>4. ASSUME NEW c \in Callers,
             CallLoadFromSource(c) \/ CallLoadData(c) \/ ApplyFileLoad(c)
      PROVE  ManagerNext
  BY <1>4 DEF CallLoadFromSource, CallLoadData, ApplyFileLoad, ManagerNext
<1>5. ASSUME NEW c \in Callers,
             RunFileLoad(c) \/ CommitFileLoad(c) \/ OtherStep(c)
      PROVE  ManagerNext
  BY <1>5 DEF RunFileLoad, CommitFileLoad, OtherStep, ManagerNext, Work
<1> QED BY <1>1, <1>2, <1>3, <1>4, <1>5 DEF ReloadNext

(* However a file is written and read, the manager is Manager.             *)
THEOREM ReloadIsManager == ReloadSpec => ManagerSpec
<1>1. ReloadInit => ManagerInit
  BY DEF ReloadInit
<1> QED BY <1>1, ReloadStepIsManagerStep, PTL DEF ReloadSpec, ManagerSpec

(***************************************************************************)
(* Contents.                                                               *)
(***************************************************************************)
Blocks == 1 .. MaxWrites

IsContent(b) == b \in Seq(Blocks) /\ Len(b) <= NumBlocks

(* A content is a sequence of at most as many blocks as a file has.        *)
LEMMA ContentsAreSequences == \A b : b \in Contents <=> IsContent(b)
<1>1. Seq(Blocks) = UNION {[1 .. n -> Blocks] : n \in Nat}
  BY SeqDef
<1>2. ASSUME NEW b, b \in Contents PROVE IsContent(b)
  <2>1. PICK n \in 0 .. NumBlocks : b \in [1 .. n -> Blocks]
    BY <1>2 DEF Contents, Blocks
  <2>2. n \in Nat /\ n <= NumBlocks
    BY <2>1, FileAssumption
  <2>3. b \in Seq(Blocks)
    BY <1>1, <2>1, <2>2
  <2>4. Len(b) = n
    BY <2>1, <2>2, <2>3, LenProperties
  <2> QED BY <2>2, <2>3, <2>4 DEF IsContent
<1>3. ASSUME NEW b, IsContent(b) PROVE b \in Contents
  <2>1. b \in [1 .. Len(b) -> Blocks] /\ Len(b) \in 0 .. NumBlocks
    BY <1>3, FileAssumption, LenProperties DEF IsContent
  <2> QED BY <2>1 DEF Contents, Blocks
<1> QED BY <1>2, <1>3

(* A revision tells its content: distinct contents have distinct hashes.   *)
LEMMA RevisionTellsContent ==
  ASSUME NEW b, IsContent(b)
  PROVE  Content(Hash[b]) = b
<1>1. b \in Contents
  BY ContentsAreSequences
<1>2. \A d \in Contents : Hash[d] = Hash[b] => d = b
  BY <1>1, FileAssumption
<1> QED BY <1>1, <1>2 DEF Content

(***************************************************************************)
(* The inductive invariant.  Every block of the file is of the latest      *)
(* write, so whatever is read now is at least as new as all that was ever  *)
(* read; and what LoadFromSource has read remains so until it is logged,   *)
(* since nothing else can be logged meanwhile.                             *)
(***************************************************************************)
Latest == IF writing = 0 THEN written ELSE writing

Older(b, d)   == \A n \in DOMAIN b \cap DOMAIN d : b[n] <= d[n]
AtLeast(b, w) == \A n \in DOMAIN b : w <= b[n]
AtMost(b, w)  == \A n \in DOMAIN b : b[n] <= w

LoggedReads   == {i \in DOMAIN asks : TellsContent(i)}
LogContent(i) == Content(accepted[i].attempt.revision)

(* At least as new as all that is logged.                                  *)
Ahead(b) == \A i \in LoggedReads : Older(LogContent(i), b)

(* What a result may tell of a content that was asked for as a says.       *)
Sound(b, a, status) ==
  /\ IsContent(b) /\ AtMost(b, Latest) /\ AtLeast(b, a.write)
  /\ status = "succeeded" => Whole(b)

FileInv ==
  /\ writing \in Nat /\ written \in Nat /\ written >= 1 /\ Latest <= MaxWrites
  /\ writing # 0 => writing = written + 1
  /\ IsContent(file)
  /\ \A i \in DOMAIN file : file[i] = Latest

Asked == [by : {"load", "caller"}, write : Nat]

ReadTypeOK ==
  /\ reading \in [Callers -> {"out", "reading", "read", "failed", "stopped"}]
  /\ bytes \in [Callers -> Seq(Blocks)]
  /\ asked \in [Callers -> Asked]

(* A caller in phase ph that is at rd in its read, has read b, and asked   *)
(* for it as a says.                                                       *)
ReaderOK(ph, rd, b, a) ==
  /\ a.write <= written
  /\ Len(b) <= NumBlocks /\ AtMost(b, Latest) /\ AtLeast(b, a.write)
  /\ rd = "out" => b = <<>>
  /\ a.by = "load" /\ ph # "started" => rd = "out"
  /\ a.by = "caller" /\ ph # "idle" => rd \in {"read", "failed"}
  /\ a.by = "caller" => rd # "stopped"

(* A call in phase ph that has the result r in hand.                       *)
WorkOK(ph, b, a, r) ==
  /\ ph = "started" /\ a.by = "load" => Ahead(b)
  /\ ph = "apply" => a.by = "caller"
  /\ ph \in {"loaded", "apply"} /\ r.attempt.revision # "" =>
       /\ Sound(Content(r.attempt.revision), a, r.attempt.status)
       /\ a.by = "load" => Ahead(Content(r.attempt.revision))

LogInv ==
  /\ asks \in Seq(Asked) /\ Len(asks) = Len(accepted)
  /\ \A i \in LoggedReads : Sound(LogContent(i), asks[i], accepted[i].attempt.status)
  /\ \A i, j \in LoggedReads :
       i < j /\ asks[j].by = "load" => Older(LogContent(i), LogContent(j))

ReloadInv ==
  /\ BaseInv /\ FileInv /\ ReadTypeOK /\ LogInv
  /\ \A c \in Callers : /\ ReaderOK(phase[c], reading[c], bytes[c], asked[c])
                        /\ WorkOK(phase[c], bytes[c], asked[c], job[c])

(* The blocks of a content are numbers.                                    *)
LEMMA BlocksAreNaturals ==
  ASSUME NEW b \in Seq(Blocks), NEW n \in DOMAIN b
  PROVE  b[n] \in Nat
<1>1. b[n] \in Blocks
  OBVIOUS
<1> QED BY <1>1, FileAssumption DEF Blocks

(* Older writes are older than newer ones.                                 *)
LEMMA AtMostGrows ==
  ASSUME NEW b \in Seq(Blocks), NEW w \in Nat, NEW x \in Nat, AtMost(b, w), w <= x
  PROVE  AtMost(b, x)
BY BlocksAreNaturals DEF AtMost

(* Nothing is not older than anything.                                     *)
LEMMA NothingRead ==
  /\ <<>> \in Seq(Blocks) /\ Len(<<>>) = 0 /\ Len(<<>>) <= NumBlocks
  /\ \A w : AtMost(<<>>, w) /\ AtLeast(<<>>, w)
  /\ Ahead(<<>>)
<1>1. <<>> \in Seq(Blocks) /\ Len(<<>>) = 0 /\ DOMAIN <<>> = {}
  OBVIOUS
<1> QED BY <1>1, FileAssumption DEF AtMost, AtLeast, Ahead, Older

(* The invariant holds of a new manager and a complete file.               *)
LEMMA ReloadInitial == ReloadInit => ReloadInv
<1> SUFFICES ASSUME ReloadInit PROVE ReloadInv
  OBVIOUS
<1>1. BaseInv
  BY BaseInitial DEF ReloadInit
<1>2. /\ file = [i \in 1 .. NumBlocks |-> 1] /\ writing = 0 /\ written = 1 /\ asks = <<>>
      /\ reading = [c \in Callers |-> "out"] /\ bytes = [c \in Callers |-> <<>>]
      /\ asked = [c \in Callers |-> [by |-> "load", write |-> 0]] /\ accepted = <<>>
      /\ phase = [c \in Callers |-> "idle"]
  BY Zenon DEF ReloadInit, ManagerInit
<1>3. Latest = 1
  BY <1>2 DEF Latest
<1>4. FileInv
  <2>1. file \in Seq(Blocks) /\ Len(file) = NumBlocks
    BY <1>2, FileAssumption DEF Blocks
  <2> QED BY <1>2, <1>3, <2>1, FileAssumption DEF FileInv, IsContent
<1>5. ReadTypeOK
  <2>1. bytes \in [Callers -> Seq(Blocks)]
    BY <1>2, NothingRead
  <2> QED BY <1>2, <2>1 DEF ReadTypeOK, Asked
<1>6. LogInv
  BY <1>2 DEF LogInv, LoggedReads
<1>7. ASSUME NEW c \in Callers
      PROVE  /\ ReaderOK(phase[c], reading[c], bytes[c], asked[c])
             /\ WorkOK(phase[c], bytes[c], asked[c], job[c])
  <2>1. phase[c] = "idle" /\ reading[c] = "out" /\ bytes[c] = <<>> /\ asked[c] = [by |-> "load", write |-> 0]
    BY <1>2
  <2> QED BY <1>2, <2>1, NothingRead DEF ReaderOK, WorkOK
<1> QED BY <1>1, <1>4, <1>5, <1>6, <1>7 DEF ReloadInv

(* Manager's own invariant holds throughout.                               *)
LEMMA ReloadBase ==
  ASSUME BaseInv, [ReloadNext]_reloadVars
  PROVE  BaseInv'
BY ReloadStepIsManagerStep, BaseInductive

(* What is true of a content stays true of it when the file goes on.       *)
LEMMA SoundStays ==
  ASSUME Latest \in Nat, Latest' \in Nat, Latest <= Latest',
         NEW b, NEW a, NEW status, Sound(b, a, status)
  PROVE  Sound(b, a, status)'
<1>1. b \in Seq(Blocks) /\ AtMost(b, Latest)
  BY DEF Sound, IsContent
<1>2. AtMost(b, Latest')
  BY <1>1, AtMostGrows
<1> QED BY <1>2 DEF Sound, IsContent, AtMost, AtLeast, Whole

(* A step that logs nothing keeps what the log says of contents.           *)
LEMMA SameLog ==
  ASSUME LogInv, accepted' = accepted, asks' = asks,
         Latest \in Nat, Latest' \in Nat, Latest <= Latest'
  PROVE  LogInv' /\ \A b : Ahead(b)' <=> Ahead(b)
<1>1. LoggedReads' = LoggedReads /\ \A i : LogContent(i)' = LogContent(i)
  BY DEF LoggedReads, LogContent, TellsContent
<1>2. \A b : Ahead(b)' <=> Ahead(b)
  BY <1>1 DEF Ahead, Older
<1>3. ASSUME NEW i \in LoggedReads'
      PROVE  Sound(LogContent(i), asks[i], accepted[i].attempt.status)'
  <2>1. Sound(LogContent(i), asks[i], accepted[i].attempt.status)
    BY <1>1, <1>3 DEF LogInv
  <2>2. PICK b, a, status : b = LogContent(i) /\ a = asks[i] /\ status = accepted[i].attempt.status
    OBVIOUS
  <2>3. Sound(b, a, status)'
    BY <2>1, <2>2, SoundStays
  <2>4. b = LogContent(i)' /\ a = asks'[i] /\ status = accepted'[i].attempt.status
    BY <1>1, <2>2
  <2> QED BY <2>3, <2>4 DEF Sound, IsContent, AtMost, AtLeast, Whole
<1>4. \A i, j \in LoggedReads' :
        i < j /\ asks'[j].by = "load" => Older(LogContent(i)', LogContent(j)')
  BY <1>1 DEF LogInv
<1>5. asks' \in Seq(Asked) /\ Len(asks') = Len(accepted')
  BY DEF LogInv
<1> QED BY <1>2, <1>3, <1>4, <1>5 DEF LogInv

(* A caller that does nothing stays as it should be.                       *)
LEMMA CallerStays ==
  ASSUME Latest \in Nat, Latest' \in Nat, Latest <= Latest',
         written \in Nat, written' \in Nat, written <= written',
         \A b : Ahead(b)' <=> Ahead(b),
         NEW ph, NEW rd, NEW b \in Seq(Blocks), NEW a \in Asked, NEW r
  PROVE  /\ ReaderOK(ph, rd, b, a) => ReaderOK(ph, rd, b, a)'
         /\ WorkOK(ph, b, a, r) => WorkOK(ph, b, a, r)'
<1>1. ASSUME ReaderOK(ph, rd, b, a) PROVE ReaderOK(ph, rd, b, a)'
  <2>1. AtMost(b, Latest) => AtMost(b, Latest')
    BY AtMostGrows
  <2>2. a.write \in Nat
    BY DEF Asked
  <2>3. a.write <= written'
    BY <1>1, <2>2 DEF ReaderOK
  <2> QED BY <1>1, <2>1, <2>3 DEF ReaderOK, AtMost, AtLeast
<1>2. ASSUME WorkOK(ph, b, a, r) PROVE WorkOK(ph, b, a, r)'
  <2>1. PICK d, status : d = Content(r.attempt.revision) /\ status = r.attempt.status
    OBVIOUS
  <2>2. Sound(d, a, status) => Sound(d, a, status)'
    BY SoundStays
  <2>3. (Ahead(b)' <=> Ahead(b)) /\ (Ahead(d)' <=> Ahead(d))
    OBVIOUS
  <2>4. Content(r.attempt.revision)' = d
    BY <2>1 DEF Content
  <2> QED BY <1>2, <2>1, <2>2, <2>3, <2>4 DEF WorkOK, Sound, IsContent, AtMost, AtLeast, Whole, Ahead
<1> QED BY <1>1, <1>2

(***************************************************************************)
(* Steps of the file.                                                      *)
(***************************************************************************)
LEMMA WriteKeepsFile ==
  ASSUME FileInv, Truncate \/ WriteBlock \/ FinishWrite
  PROVE  /\ FileInv' /\ Latest \in Nat /\ Latest' \in Nat /\ Latest <= Latest'
         /\ written <= written'
<1>1. CASE Truncate
  <2>1. IsContent(file')
    BY <1>1, FileAssumption DEF Truncate, IsContent
  <2> QED BY <1>1, <2>1, FileAssumption DEF FileInv, Truncate, Latest
<1>2. CASE WriteBlock
  <2>1. Latest' = Latest /\ Latest = writing /\ writing \in Blocks
    BY <1>2, FileAssumption DEF FileInv, WriteBlock, Latest, Blocks
  <2>2. file \in Seq(Blocks) /\ Len(file) <= NumBlocks
    BY DEF FileInv, IsContent
  <2>3. IsContent(file')
    BY <1>2, <2>1, <2>2, FileAssumption DEF WriteBlock, IsContent
  <2>4. \A i \in DOMAIN file' : file'[i] = Latest'
    BY <1>2, <2>1, <2>2 DEF FileInv, WriteBlock
  <2> QED BY <1>2, <2>1, <2>3, <2>4, FileAssumption DEF FileInv, WriteBlock
<1>3. CASE FinishWrite
  BY <1>3, FileAssumption DEF FileInv, FinishWrite, Latest
<1> QED BY <1>1, <1>2, <1>3

(* The writer keeps the invariant.                                         *)
LEMMA WriteKeepsReload ==
  ASSUME ReloadInv, Truncate \/ WriteBlock \/ FinishWrite
  PROVE  ReloadInv'
<1>1. /\ FileInv' /\ Latest \in Nat /\ Latest' \in Nat /\ Latest <= Latest'
      /\ written <= written' /\ written \in Nat /\ written' \in Nat
  BY WriteKeepsFile DEF ReloadInv, FileInv
<1>2. UNCHANGED <<vars, readVars, asked, asks>>
  BY DEF Truncate, WriteBlock, FinishWrite
<1>3. LogInv' /\ \A b : Ahead(b)' <=> Ahead(b)
  BY <1>1, <1>2, SameLog DEF ReloadInv, vars, state
<1>4. ReadTypeOK'
  BY <1>2 DEF ReloadInv, ReadTypeOK, readVars
<1>5. ASSUME NEW c \in Callers
      PROVE  /\ ReaderOK(phase[c], reading[c], bytes[c], asked[c])'
             /\ WorkOK(phase[c], bytes[c], asked[c], job[c])'
  <2>1. PICK ph, rd, b, a, r :
          /\ ph = phase[c] /\ rd = reading[c] /\ b = bytes[c] /\ a = asked[c] /\ r = job[c]
          /\ b \in Seq(Blocks) /\ a \in Asked
    BY DEF ReloadInv, ReadTypeOK
  <2>2. ReaderOK(ph, rd, b, a) /\ WorkOK(ph, b, a, r)
    BY <2>1 DEF ReloadInv
  <2>3. ReaderOK(ph, rd, b, a)' /\ WorkOK(ph, b, a, r)'
    BY <1>1, <1>3, <2>1, <2>2, CallerStays
  <2>4. ph = phase'[c] /\ rd = reading'[c] /\ b = bytes'[c] /\ a = asked'[c] /\ r = job'[c]
    BY <1>2, <2>1 DEF vars, callVars, readVars
  <2> QED BY <2>3, <2>4 DEF ReaderOK, WorkOK, Sound, AtMost, AtLeast, Ahead, Older, IsContent, Whole, Content
<1>6. BaseInv'
  BY ReloadBase DEF ReloadInv, ReloadNext
<1> QED BY <1>1, <1>3, <1>4, <1>5, <1>6 DEF ReloadInv

(***************************************************************************)
(* Steps of a caller.                                                      *)
(***************************************************************************)
LEMMA SameFile ==
  ASSUME FileInv, UNCHANGED fileVars
  PROVE  /\ FileInv' /\ Latest' = Latest /\ Latest \in Nat /\ Latest <= Latest'
         /\ written' = written /\ written \in Nat /\ written <= Latest
BY DEF FileInv, fileVars, Latest

(* A caller's step that logs nothing keeps the invariant if it leaves that *)
(* caller as it should be.                                                 *)
LEMMA CallerStepKeeps ==
  ASSUME ReloadInv, NEW c \in Callers, BaseInv', ReadTypeOK',
         UNCHANGED <<fileVars, asks>>, accepted' = accepted,
         \A d \in Callers \ {c} :
           /\ phase'[d] = phase[d] /\ reading'[d] = reading[d] /\ bytes'[d] = bytes[d]
           /\ asked'[d] = asked[d] /\ job'[d] = job[d],
         ReaderOK(phase'[c], reading'[c], bytes'[c], asked'[c]),
         WorkOK(phase'[c], bytes'[c], asked'[c], job'[c])
  PROVE  ReloadInv'
<1>1. /\ FileInv' /\ Latest' = Latest /\ Latest \in Nat /\ Latest' \in Nat /\ Latest <= Latest'
      /\ written \in Nat /\ written' \in Nat /\ written <= written'
  BY SameFile DEF ReloadInv
<1>2. LogInv' /\ \A b : Ahead(b)' <=> Ahead(b)
  BY <1>1, SameLog DEF ReloadInv
<1>3. ASSUME NEW d \in Callers
      PROVE  /\ ReaderOK(phase[d], reading[d], bytes[d], asked[d])'
             /\ WorkOK(phase[d], bytes[d], asked[d], job[d])'
  <2>1. PICK ph, rd, b, a, r :
          /\ ph = phase'[d] /\ rd = reading'[d] /\ b = bytes'[d] /\ a = asked'[d] /\ r = job'[d]
          /\ b \in Seq(Blocks) /\ a \in Asked
    BY DEF ReadTypeOK
  <2>2. ReaderOK(ph, rd, b, a) /\ WorkOK(ph, b, a, r)
    <3>1. CASE d = c
      BY <2>1, <3>1
    <3>2. CASE d # c
      BY <2>1, <3>2 DEF ReloadInv
    <3> QED BY <3>1, <3>2
  <2>3. ReaderOK(ph, rd, b, a)' /\ WorkOK(ph, b, a, r)'
    BY <1>1, <1>2, <2>1, <2>2, CallerStays
  <2> QED
    BY <2>1, <2>3, ZenonT(40)
    DEF ReaderOK, WorkOK, Sound, AtMost, AtLeast, Ahead, Older, IsContent, Whole, Content
<1> QED BY <1>1, <1>2, <1>3 DEF ReloadInv

(* Between any two steps, what is known of a caller.                       *)
LEMMA CallerFacts ==
  ASSUME ReloadInv, NEW c \in Callers
  PROVE  /\ phase \in [Callers -> Phases] /\ ReadTypeOK
         /\ bytes[c] \in Seq(Blocks) /\ IsContent(bytes[c]) /\ asked[c] \in Asked
         /\ ReaderOK(phase[c], reading[c], bytes[c], asked[c])
         /\ WorkOK(phase[c], bytes[c], asked[c], job[c])
         /\ Latest \in Nat /\ written \in Nat /\ written <= Latest
BY DEF ReloadInv, BaseInv, ManagerTypeOK, ReadTypeOK, ReaderOK, IsContent, FileInv, Latest

(* A block is read: what was read so far stays as fresh.                   *)
LEMMA ReadBlockKeeps ==
  ASSUME ReloadInv, NEW c \in Callers, ReadBlock(c)
  PROVE  /\ bytes' \in [Callers -> Seq(Blocks)]
         /\ \A e \in Callers \ {c} : bytes'[e] = bytes[e]
         /\ Len(bytes'[c]) <= NumBlocks
         /\ AtMost(bytes'[c], Latest) /\ AtLeast(bytes'[c], asked[c].write)
         /\ Ahead(bytes[c]) => Ahead(bytes'[c])
<1>1. /\ bytes[c] \in Seq(Blocks) /\ AtMost(bytes[c], Latest) /\ AtLeast(bytes[c], asked[c].write)
      /\ Latest \in Nat /\ asked[c].write \in Nat /\ asked[c].write <= Latest
  BY CallerFacts DEF ReaderOK, Asked
<1>2. file \in Seq(Blocks) /\ Len(file) <= NumBlocks /\ bytes \in [Callers -> Seq(Blocks)]
  BY DEF ReloadInv, ReadTypeOK, FileInv, IsContent
<1>3. PICK b \in Blocks : b = file[Len(bytes[c]) + 1] /\ b = Latest
  <2>1. Len(bytes[c]) + 1 \in DOMAIN file
    BY <1>1, <1>2 DEF ReadBlock
  <2> QED BY <1>2, <2>1 DEF ReloadInv, FileInv
<1>4. PICK d \in Seq(Blocks) : d = Append(bytes[c], b)
  <2>1. Append(bytes[c], b) \in Seq(Blocks)
    BY <1>1, <1>3
  <2> QED BY <2>1, Zenon
<1>5. bytes' = [bytes EXCEPT ![c] = d]
  BY <1>3, <1>4 DEF ReadBlock
<1>6. Len(d) = Len(bytes[c]) + 1
  BY <1>1, <1>4
<1>7. \A n \in DOMAIN d : (n \in DOMAIN bytes[c] /\ d[n] = bytes[c][n]) \/ d[n] = Latest
  BY <1>1, <1>3, <1>4
<1>8. AtMost(d, Latest) /\ AtLeast(d, asked[c].write)
  BY <1>1, <1>7 DEF AtMost, AtLeast
<1>9. ASSUME Ahead(bytes[c]), NEW i \in LoggedReads
      PROVE  Older(LogContent(i), d)
  <2>1. Older(LogContent(i), bytes[c]) /\ AtMost(LogContent(i), Latest)
    BY <1>9 DEF Ahead, ReloadInv, LogInv, Sound
  <2> QED BY <1>7, <2>1 DEF Older, AtMost
<1>10. Len(d) <= NumBlocks
  BY <1>1, <1>2, <1>6, FileAssumption DEF ReadBlock
<1>11. bytes'[c] = d /\ bytes' \in [Callers -> Seq(Blocks)] /\ \A e \in Callers \ {c} : bytes'[e] = bytes[e]
  BY <1>2, <1>5
<1>12. Ahead(bytes[c]) => Ahead(d)
  BY <1>9 DEF Ahead
<1> QED BY <1>8, <1>10, <1>11, <1>12

(* Between a read's blocks nothing is read.                                *)
LEMMA ReadOnKeeps ==
  ASSUME ReloadInv, NEW c \in Callers, Open(c) \/ ReadEnds(c) \/ ReadStops(c) \/ ReadFails(c)
  PROVE  ReloadInv'
<1> DEFINE Reads(d) == phase[d] = "started" /\ asked[d].by = "load"
<1>1. UNCHANGED <<vars, fileVars, bytes, asks>>
  BY DEF Open, ReadEnds, ReadStops, ReadFails
<1>2. /\ phase' = phase /\ job' = job /\ accepted' = accepted /\ bytes' = bytes
      /\ UNCHANGED <<fileVars, asks>>
  BY <1>1 DEF vars, callVars, state
<1>3. /\ ReadTypeOK /\ asked[c] \in Asked /\ written \in Nat
      /\ ReaderOK(phase[c], reading[c], bytes[c], asked[c])
      /\ WorkOK(phase[c], bytes[c], asked[c], job[c])
  BY CallerFacts
<1>4. /\ reading' \in [Callers -> {"out", "reading", "read", "failed", "stopped"}]
      /\ \A d \in Callers \ {c} : reading'[d] = reading[d]
      /\ reading'[c] # "out"
  BY <1>3 DEF Open, ReadEnds, ReadStops, ReadFails, ReadStep, ReadTypeOK
<1>5. \/ asked' = asked /\ (phase[c] = "idle" \/ Reads(c))
      \/ /\ asked' = [asked EXCEPT ![c] = [by |-> "caller", write |-> written]]
         /\ phase[c] = "idle" /\ bytes[c] = <<>>
  <2>1. CASE Open(c)
    BY <1>3, <2>1 DEF Open, LoadReads, CallerReads, Asking, ReadStep, ReaderOK
  <2>2. CASE ReadEnds(c) \/ ReadStops(c) \/ ReadFails(c)
    <3>1. asked' = asked /\ reading[c] \in {"out", "reading"}
      BY <2>2 DEF ReadEnds, ReadStops, ReadFails, ReadStep
    <3>2. ReadStops(c) => Reads(c)
      BY DEF ReadStops, Ended, LoadReads
    <3>3. ReadEnds(c) \/ ReadFails(c) => reading[c] = "reading"
      BY DEF ReadEnds, ReadFails, ReadStep
    <3>4. asked[c].by = "load" \/ asked[c].by = "caller"
      BY <1>3 DEF Asked
    <3>5. reading[c] = "reading" => phase[c] = "idle" \/ Reads(c)
      BY <1>3, <3>4 DEF ReaderOK
    <3> QED BY <2>2, <3>1, <3>2, <3>3, <3>5
  <2> QED BY <2>1, <2>2
<1>6. ReadTypeOK' /\ \A d \in Callers \ {c} : asked'[d] = asked[d]
  <2>1. asked \in [Callers -> Asked] /\ bytes \in [Callers -> Seq(Blocks)]
    BY <1>3 DEF ReadTypeOK
  <2>2. [by |-> "caller", write |-> written] \in Asked
    BY <1>3 DEF Asked
  <2>3. asked' \in [Callers -> Asked] /\ \A d \in Callers \ {c} : asked'[d] = asked[d]
    BY <1>5, <2>1, <2>2
  <2> QED BY <1>2, <1>4, <2>1, <2>3 DEF ReadTypeOK
<1>7. ReaderOK(phase'[c], reading'[c], bytes'[c], asked'[c])
  <2>1. CASE asked' = asked /\ (phase[c] = "idle" \/ Reads(c))
    <3>1. phase[c] = "idle" /\ asked[c].by = "load" => reading[c] = "out"
      BY <1>3 DEF ReaderOK
    <3>2. phase[c] = "idle" /\ asked[c].by = "load" => Open(c)
      BY <3>1 DEF ReadEnds, ReadStops, ReadFails, ReadStep, Ended, LoadReads
    <3>3. Open(c) /\ phase[c] = "idle" => asked' = [asked EXCEPT ![c] = [by |-> "caller", write |-> written]]
      BY DEF Open, LoadReads, CallerReads, Asking
    <3>4. ~(phase[c] = "idle" /\ asked[c].by = "load")
      <4> SUFFICES ASSUME phase[c] = "idle", asked[c].by = "load" PROVE FALSE
        OBVIOUS
      <4>1. asked' = [asked EXCEPT ![c] = [by |-> "caller", write |-> written]]
        BY <3>2, <3>3
      <4>2. asked'[c].by = "caller"
        BY <1>3, <4>1 DEF ReadTypeOK
      <4> QED BY <2>1, <4>2
    <3>5. ReadStops(c) => asked[c].by = "load"
      BY DEF ReadStops, Ended, LoadReads
    <3>6. asked[c].by = "caller" => reading'[c] # "stopped"
      BY <1>3, <3>5 DEF Open, ReadEnds, ReadFails, ReadStep, ReadTypeOK
    <3> QED BY <1>2, <1>3, <1>4, <2>1, <3>4, <3>6 DEF ReaderOK
  <2>2. CASE /\ asked' = [asked EXCEPT ![c] = [by |-> "caller", write |-> written]]
             /\ phase[c] = "idle" /\ bytes[c] = <<>>
    <3>1. asked'[c] = [by |-> "caller", write |-> written]
      BY <1>3, <2>2 DEF ReadTypeOK
    <3>2. reading'[c] # "stopped"
      <4>1. ReadStops(c) => asked' = asked /\ phase[c] = "started"
        BY DEF ReadStops, Ended, LoadReads
      <4> QED BY <1>3, <2>2, <4>1 DEF Open, ReadEnds, ReadFails, ReadStep, ReadTypeOK
    <3> QED BY <1>2, <1>3, <1>4, <2>2, <3>1, <3>2, NothingRead DEF ReaderOK
  <2> QED BY <1>5, <2>1, <2>2
<1>8. WorkOK(phase'[c], bytes'[c], asked'[c], job'[c])
  BY <1>2, <1>3, <1>5 DEF WorkOK
<1>9. BaseInv'
  BY ReloadBase DEF ReloadInv, ReloadNext
<1> QED BY <1>2, <1>4, <1>6, <1>7, <1>8, <1>9, CallerStepKeeps

(* A block is read.                                                        *)
LEMMA ReadBlockKeepsReload ==
  ASSUME ReloadInv, NEW c \in Callers, ReadBlock(c)
  PROVE  ReloadInv'
<1>1. /\ UNCHANGED <<fileVars, asks>> /\ accepted' = accepted /\ phase' = phase /\ job' = job
      /\ reading' = reading /\ asked' = asked /\ reading[c] = "reading"
  BY DEF ReadBlock, vars, state, callVars
<1>2. /\ ReaderOK(phase[c], reading[c], bytes[c], asked[c])
      /\ WorkOK(phase[c], bytes[c], asked[c], job[c]) /\ ReadTypeOK /\ asked[c] \in Asked
  BY CallerFacts
<1>3. /\ bytes' \in [Callers -> Seq(Blocks)] /\ \A d \in Callers \ {c} : bytes'[d] = bytes[d]
      /\ Len(bytes'[c]) <= NumBlocks
      /\ AtMost(bytes'[c], Latest) /\ AtLeast(bytes'[c], asked[c].write)
      /\ Ahead(bytes[c]) => Ahead(bytes'[c])
  BY ReadBlockKeeps
<1>4. ReaderOK(phase'[c], reading'[c], bytes'[c], asked'[c])
  BY <1>1, <1>2, <1>3 DEF ReaderOK
<1>5. phase[c] \notin {"loaded", "apply"}
  BY <1>1, <1>2 DEF ReaderOK, Asked
<1>6. WorkOK(phase'[c], bytes'[c], asked'[c], job'[c])
  BY <1>1, <1>2, <1>3, <1>5 DEF WorkOK
<1>7. BaseInv' /\ ReadTypeOK'
  BY <1>1, <1>2, <1>3, ReloadBase DEF ReloadInv, ReloadNext, ReadTypeOK
<1> QED BY <1>1, <1>3, <1>4, <1>6, <1>7, CallerStepKeeps

(* A caller drops what it has read.                                        *)
LEMMA DropKeepsReload ==
  ASSUME ReloadInv, NEW c \in Callers, DropData(c)
  PROVE  ReloadInv'
<1>1. /\ UNCHANGED <<fileVars, asks>> /\ accepted' = accepted /\ phase' = phase /\ job' = job
      /\ asked' = asked /\ phase[c] = "idle"
      /\ reading' = [reading EXCEPT ![c] = "out"] /\ bytes' = [bytes EXCEPT ![c] = <<>>]
  BY DEF DropData, FinishRead, vars, state, callVars
<1>2. ReadTypeOK /\ ReaderOK(phase[c], reading[c], bytes[c], asked[c])
  BY CallerFacts
<1>3. reading'[c] = "out" /\ bytes'[c] = <<>> /\ ReadTypeOK'
  BY <1>1, <1>2, NothingRead DEF ReadTypeOK
<1>4. ReaderOK(phase'[c], reading'[c], bytes'[c], asked'[c])
  BY <1>1, <1>2, <1>3, NothingRead DEF ReaderOK
<1>5. WorkOK(phase'[c], bytes'[c], asked'[c], job'[c])
  BY <1>1 DEF WorkOK
<1>6. BaseInv'
  BY ReloadBase DEF ReloadInv, ReloadNext
<1>7. \A d \in Callers \ {c} : reading'[d] = reading[d] /\ bytes'[d] = bytes[d]
  BY <1>1, <1>2 DEF ReadTypeOK
<1> QED BY <1>1, <1>3, <1>4, <1>5, <1>6, <1>7, CallerStepKeeps

(***************************************************************************)
(* What is made of a read.                                                 *)
(***************************************************************************)
LEMMA MadeOfIsSound ==
  ASSUME ReloadInv, NEW c \in Callers, NEW r, MadeOf(r, c), r.attempt.revision # ""
  PROVE  /\ Content(r.attempt.revision) = bytes[c]
         /\ Sound(bytes[c], asked[c], r.attempt.status)
<1>1. r.attempt.revision = Hash[bytes[c]] /\ (r.attempt.status = "succeeded" => Whole(bytes[c]))
  BY DEF MadeOf
<1>2. IsContent(bytes[c]) /\ ReaderOK(phase[c], reading[c], bytes[c], asked[c])
  BY CallerFacts
<1> QED BY <1>1, <1>2, RevisionTellsContent DEF Sound, ReaderOK

LEMMA WithIDKeepsRevision ==
  ASSUME NEW r \in LoadResult, NEW n
  PROVE  /\ WithID(r, n).attempt.revision = r.attempt.revision
         /\ WithID(r, n).attempt.status = r.attempt.status
BY DEF WithID, LoadResult, AttemptRecord

(* A load that returns keeps the invariant.                                *)
LEMMA RunKeepsReload ==
  ASSUME ReloadInv, NEW c \in Callers, RunFileLoad(c)
  PROVE  ReloadInv'
<1>1. /\ MadeOf(job'[c], c) /\ UNCHANGED <<fileVars, asks>> /\ asked' = asked
      /\ accepted' = accepted /\ phase[c] = "started" /\ phase' = [phase EXCEPT ![c] = "loaded"]
      /\ \A d \in Callers \ {c} : job'[d] = job[d]
  BY DEF RunFileLoad, RunLoad, state, ReloadInv, BaseInv, ManagerTypeOK
<1>2. /\ ReaderOK(phase[c], reading[c], bytes[c], asked[c]) /\ phase \in [Callers -> Phases]
      /\ WorkOK(phase[c], bytes[c], asked[c], job[c]) /\ ReadTypeOK /\ asked[c] \in Asked
  BY CallerFacts
<1>3. phase'[c] = "loaded" /\ \A d \in Callers \ {c} : phase'[d] = phase[d]
  BY <1>1, <1>2
<1>4. /\ ReadTypeOK' /\ \A d \in Callers \ {c} : reading'[d] = reading[d] /\ bytes'[d] = bytes[d]
      /\ ReaderOK(phase'[c], reading'[c], bytes'[c], asked'[c])
  <2>1. CASE asked[c].by = "load"
    <3>1. reading' = [reading EXCEPT ![c] = "out"] /\ bytes' = [bytes EXCEPT ![c] = <<>>]
      BY <2>1 DEF RunFileLoad, FinishRead
    <3>2. reading'[c] = "out" /\ bytes'[c] = <<>> /\ ReadTypeOK'
      BY <1>1, <1>2, <3>1, NothingRead DEF ReadTypeOK
    <3>3. \A d \in Callers \ {c} : reading'[d] = reading[d] /\ bytes'[d] = bytes[d]
      BY <1>2, <3>1 DEF ReadTypeOK
    <3> QED BY <1>1, <1>2, <2>1, <3>2, <3>3, NothingRead DEF ReaderOK
  <2>2. CASE asked[c].by # "load"
    <3>1. reading' = reading /\ bytes' = bytes
      BY <2>2 DEF RunFileLoad, readVars
    <3> QED BY <1>1, <1>2, <1>3, <2>2, <3>1 DEF ReaderOK, ReadTypeOK
  <2> QED BY <2>1, <2>2
<1>5. WorkOK(phase'[c], bytes'[c], asked'[c], job'[c])
  <2>1. asked[c].by = "load" => Ahead(bytes[c])
    BY <1>1, <1>2 DEF WorkOK
  <2>2. job'[c].attempt.revision # "" =>
          /\ Content(job'[c].attempt.revision) = bytes[c]
          /\ Sound(bytes[c], asked[c], job'[c].attempt.status)
    BY <1>1, MadeOfIsSound
  <2> QED BY <1>1, <1>3, <2>1, <2>2 DEF WorkOK
<1>6. BaseInv'
  BY ReloadBase DEF ReloadInv, ReloadNext
<1> QED BY <1>1, <1>3, <1>4, <1>5, <1>6, CallerStepKeeps

(***************************************************************************)
(* Calls.                                                                  *)
(***************************************************************************)
LEMMA ApplyKeepsReload ==
  ASSUME ReloadInv, NEW c \in Callers, ApplyFileLoad(c)
  PROVE  ReloadInv'
<1>1. /\ UNCHANGED <<fileVars, asks>> /\ reading' = reading /\ bytes' = bytes /\ asked' = asked
      /\ accepted' = accepted /\ phase[c] = "idle" /\ phase' = [phase EXCEPT ![c] = "apply"]
      /\ \E r \in ExternalResults : MadeOf(r, c) /\ job' = [job EXCEPT ![c] = r]
  BY DEF ApplyFileLoad, CallApply, state, readVars
<1>2. /\ ReaderOK(phase[c], reading[c], bytes[c], asked[c]) /\ phase \in [Callers -> Phases]
      /\ ReadTypeOK /\ asked[c] \in Asked
  BY CallerFacts
<1>3. PICK r \in ExternalResults : MadeOf(r, c) /\ job' = [job EXCEPT ![c] = r]
  BY <1>1
<1>4. /\ job'[c] = r /\ phase'[c] = "apply"
      /\ \A d \in Callers \ {c} : job'[d] = job[d] /\ phase'[d] = phase[d]
  BY <1>1, <1>2, <1>3 DEF ReloadInv, BaseInv, ManagerTypeOK
<1>5. reading[c] # "out" /\ asked[c].by = "caller"
  <2>1. reading[c] # "out"
    BY <1>3 DEF MadeOf
  <2> QED BY <1>1, <1>2, <2>1 DEF ReaderOK, Asked
<1>6. reading[c] \in {"read", "failed"}
  BY <1>2, <1>3, <1>5 DEF MadeOf, ReaderOK
<1>7. ReaderOK(phase'[c], reading'[c], bytes'[c], asked'[c])
  BY <1>1, <1>2, <1>4, <1>5, <1>6 DEF ReaderOK
<1>8. WorkOK(phase'[c], bytes'[c], asked'[c], job'[c])
  <2>1. r.attempt.revision # "" =>
          /\ Content(r.attempt.revision) = bytes[c]
          /\ Sound(bytes[c], asked[c], r.attempt.status)
    BY <1>3, MadeOfIsSound
  <2> QED BY <1>1, <1>4, <1>5, <2>1 DEF WorkOK
<1>9. BaseInv' /\ ReadTypeOK'
  BY <1>1, <1>2, ReloadBase DEF ReloadInv, ReloadNext, ReadTypeOK
<1> QED BY <1>1, <1>4, <1>7, <1>8, <1>9, CallerStepKeeps

(* A caller calls LoadFromSource after the writes it knows of, or Load     *)
(* with what it has read.                                                  *)
LEMMA CallKeepsReload ==
  ASSUME ReloadInv, NEW c \in Callers, CallLoadFromSource(c) \/ CallLoadData(c)
  PROVE  ReloadInv'
<1>1. /\ UNCHANGED <<fileVars, asks>> /\ reading' = reading /\ bytes' = bytes /\ job' = job
      /\ accepted' = accepted /\ phase[c] = "idle" /\ phase' = [phase EXCEPT ![c] = "load"]
  BY DEF CallLoadFromSource, CallLoadData, CallLoad, state, readVars
<1>2. /\ ReaderOK(phase[c], reading[c], bytes[c], asked[c]) /\ phase \in [Callers -> Phases]
      /\ ReadTypeOK /\ asked[c] \in Asked /\ written \in Nat
  BY CallerFacts
<1>3. phase'[c] = "load" /\ \A d \in Callers \ {c} : phase'[d] = phase[d]
  BY <1>1, <1>2
<1>4. /\ ReadTypeOK' /\ \A d \in Callers \ {c} : asked'[d] = asked[d]
      /\ ReaderOK(phase'[c], reading'[c], bytes'[c], asked'[c])
  <2>1. CASE CallLoadFromSource(c)
    <3>1. asked' = [asked EXCEPT ![c] = [by |-> "load", write |-> written]] /\ reading[c] = "out"
      BY <2>1 DEF CallLoadFromSource, Asking
    <3>2. asked'[c] = [by |-> "load", write |-> written] /\ bytes[c] = <<>>
      BY <1>2, <3>1 DEF ReadTypeOK, ReaderOK
    <3>3. ReadTypeOK' /\ \A d \in Callers \ {c} : asked'[d] = asked[d]
      BY <1>1, <1>2, <3>1 DEF ReadTypeOK, Asked
    <3> QED BY <1>1, <1>2, <3>1, <3>2, <3>3, NothingRead DEF ReaderOK
  <2>2. CASE CallLoadData(c)
    <3>1. asked' = asked /\ reading[c] = "read"
      BY <2>2 DEF CallLoadData
    <3> QED BY <1>1, <1>2, <1>3, <3>1 DEF ReaderOK, ReadTypeOK
  <2> QED BY <2>1, <2>2
<1>5. WorkOK(phase'[c], bytes'[c], asked'[c], job'[c])
  BY <1>3 DEF WorkOK
<1>6. BaseInv'
  BY ReloadBase DEF ReloadInv, ReloadNext
<1> QED BY <1>1, <1>3, <1>4, <1>5, <1>6, CallerStepKeeps

(* The steps that touch no file: a call moves on, or is back to idle.      *)
LEMMA OtherKeepsReload ==
  ASSUME ReloadInv, NEW c \in Callers, OtherStep(c)
  PROVE  ReloadInv'
<1>1. /\ UNCHANGED <<fileVars, asks>> /\ reading' = reading /\ bytes' = bytes /\ asked' = asked
      /\ accepted' = accepted
  BY DEF OtherStep, Acquire, CancelCall, ReturnRefused, StartLoad, RejectExternal, Deliver, Return,
         state, readVars
<1>2. /\ ReaderOK(phase[c], reading[c], bytes[c], asked[c]) /\ phase \in [Callers -> Phases]
      /\ WorkOK(phase[c], bytes[c], asked[c], job[c]) /\ ReadTypeOK /\ asked[c] \in Asked
  BY CallerFacts
<1>3. \/ phase' = phase /\ job' = job
      \/ phase' = [phase EXCEPT ![c] = "idle"] /\ job' = [job EXCEPT ![c] = Nil]
         /\ phase[c] # "started"
      \/ phase' = [phase EXCEPT ![c] = "started"] /\ job' = job /\ phase[c] = "load"
      \/ phase' = [phase EXCEPT ![c] = "finishing"] /\ job' = job /\ phase[c] = "apply"
  <2>1. CASE Acquire(c) \/ (\E k \in Dead : CancelCall(c, k)) \/ Deliver(c)
    BY <2>1 DEF Acquire, CancelCall, Deliver, callVars
  <2>2. CASE ReturnRefused(c) \/ Return(c)
    <3>1. Return(c) => phase[c] = "finishing"
      BY DEF Return
    <3>2. ReturnRefused(c) => phase[c] # "started"
      BY DEF ReturnRefused, Leave, ReloadInv, BaseInv, CallInv
    <3> QED BY <2>2, <3>1, <3>2 DEF ReturnRefused, Return
  <2>3. CASE StartLoad(c) \/ RejectExternal(c)
    BY <2>3 DEF StartLoad, RejectExternal
  <2> QED BY <2>1, <2>2, <2>3 DEF OtherStep
<1>4. \A d \in Callers \ {c} : phase'[d] = phase[d] /\ job'[d] = job[d]
  BY <1>2, <1>3 DEF ReloadInv, BaseInv, ManagerTypeOK
<1>5. \/ phase'[c] = phase[c] /\ job'[c] = job[c]
      \/ phase'[c] = "idle" /\ phase[c] # "started"
      \/ phase'[c] = "started" /\ phase[c] = "load"
      \/ phase'[c] = "finishing" /\ phase[c] = "apply"
  BY <1>2, <1>3
<1>6. ReaderOK(phase'[c], reading'[c], bytes'[c], asked'[c])
  BY <1>1, <1>2, <1>5 DEF ReaderOK
<1>7. WorkOK(phase'[c], bytes'[c], asked'[c], job'[c])
  <2>1. phase[c] = "load" /\ asked[c].by = "load" => bytes[c] = <<>>
    BY <1>2 DEF ReaderOK
  <2> QED BY <1>1, <1>2, <1>5, <2>1, NothingRead DEF WorkOK
<1>8. BaseInv' /\ ReadTypeOK'
  BY <1>1, <1>2, ReloadBase DEF ReloadInv, ReloadNext, ReadTypeOK
<1> QED BY <1>1, <1>4, <1>6, <1>7, <1>8, CallerStepKeeps

(***************************************************************************)
(* A result is logged.                                                     *)
(***************************************************************************)
LEMMA LoggedIsCommit ==
  ASSUME ReloadInv, NEW c \in Callers, CommitFileLoad(c)
  PROVE  \E r \in LoadResult :
           /\ accepted' = Append(accepted, r)
           /\ r.attempt.revision # "" =>
                /\ Sound(Content(r.attempt.revision), asked[c], r.attempt.status)
                /\ asked[c].by = "load" => Ahead(Content(r.attempt.revision))
<1>1. /\ phase[c] \in {"loaded", "apply"} /\ WorkOK(phase[c], bytes[c], asked[c], job[c])
      /\ BaseInv
  BY CallerFacts DEF CommitFileLoad, CommitLoad, AcceptExternal, ReloadInv
<1>2. CASE CommitLoad(c)
  <2>1. job[c] \in LoadResult /\ accepted' = Append(accepted, job[c])
    BY <1>1, <1>2, CommitLoadCommits DEF Commit
  <2> QED BY <1>1, <2>1 DEF WorkOK
<1>3. CASE AcceptExternal(c)
  <2>1. PICK r \in LoadResult : r = WithID(job[c], nextAttemptID + 1) /\ accepted' = Append(accepted, r)
    BY <1>1, <1>3, AcceptExternalCommits DEF Commit
  <2>2. job[c] \in LoadResult
    BY <1>3 DEF AcceptExternal, ReloadInv, BaseInv, CallInv
  <2>3. r.attempt.revision = job[c].attempt.revision /\ r.attempt.status = job[c].attempt.status
    BY <2>1, <2>2, WithIDKeepsRevision
  <2> QED BY <1>1, <2>1, <2>3 DEF WorkOK
<1> QED BY <1>2, <1>3 DEF CommitFileLoad

(* A longer log.                                                           *)
LEMMA Appended ==
  ASSUME NEW S, NEW q \in Seq(S), NEW e \in S, NEW n, n = Len(q) + 1
  PROVE  /\ Append(q, e) \in Seq(S) /\ Len(Append(q, e)) = n /\ Append(q, e)[n] = e
         /\ DOMAIN Append(q, e) = DOMAIN q \cup {n}
         /\ \A i \in DOMAIN q : i \in Nat /\ i < n /\ Append(q, e)[i] = q[i]
<1>1. /\ Append(q, e) \in Seq(S) /\ Len(Append(q, e)) = n /\ Append(q, e)[n] = e
      /\ DOMAIN q = 1 .. Len(q) /\ Len(q) \in Nat
  OBVIOUS
<1>2. \A i \in DOMAIN q : i \in Nat /\ i < n /\ Append(q, e)[i] = q[i]
  OBVIOUS
<1>3. DOMAIN Append(q, e) = 1 .. n
  BY <1>1
<1>4. 1 .. n = (1 .. Len(q)) \cup {n}
  BY <1>1
<1> QED BY <1>1, <1>2, <1>3, <1>4

(* The log with one more read, as sound as those before.                   *)
LEMMA CommitKeepsLog ==
  ASSUME ReloadInv, NEW c \in Callers, CommitFileLoad(c), Latest \in Nat, Latest' = Latest
  PROVE  LogInv'
<1>1. asks' = Append(asks, asked[c]) /\ asked[c] \in Asked
  BY CallerFacts DEF CommitFileLoad
<1>2. PICK r \in LoadResult :
        /\ accepted' = Append(accepted, r)
        /\ r.attempt.revision # "" =>
             /\ Sound(Content(r.attempt.revision), asked[c], r.attempt.status)
             /\ asked[c].by = "load" => Ahead(Content(r.attempt.revision))
  BY LoggedIsCommit
<1>3. accepted \in Seq(LoadResult) /\ asks \in Seq(Asked) /\ Len(asks) = Len(accepted)
  BY DEF ReloadInv, LogInv, BaseInv, ManagerTypeOK
<1>4. PICK new \in Nat : new = Len(asks) + 1
  BY <1>3
<1>5. /\ DOMAIN asks' = DOMAIN asks \cup {new} /\ asks'[new] = asked[c] /\ accepted'[new] = r
      /\ \A i \in DOMAIN asks : i \in Nat /\ i < new /\ asks'[i] = asks[i] /\ accepted'[i] = accepted[i]
      /\ asks' \in Seq(Asked) /\ Len(asks') = Len(accepted')
  <2>1. /\ Append(asks, asked[c]) \in Seq(Asked) /\ Len(Append(asks, asked[c])) = new
        /\ Append(asks, asked[c])[new] = asked[c]
        /\ DOMAIN Append(asks, asked[c]) = DOMAIN asks \cup {new}
        /\ \A i \in DOMAIN asks : i \in Nat /\ i < new /\ Append(asks, asked[c])[i] = asks[i]
    BY <1>1, <1>3, <1>4, Appended
  <2>2. /\ Len(Append(accepted, r)) = new /\ Append(accepted, r)[new] = r
        /\ \A i \in DOMAIN accepted : Append(accepted, r)[i] = accepted[i]
    <3>1. new = Len(accepted) + 1
      BY <1>3, <1>4
    <3> QED BY <1>3, <3>1, Appended
  <2>3. DOMAIN accepted = DOMAIN asks
    BY <1>3
  <2> QED BY <1>1, <1>2, <2>1, <2>2, <2>3, Zenon
<1>6. ASSUME NEW i \in LoggedReads', i # new
      PROVE  i \in LoggedReads /\ i < new /\ LogContent(i)' = LogContent(i)
  BY <1>5, <1>6 DEF LoggedReads, TellsContent, LogContent
<1>7. ASSUME new \in LoggedReads'
      PROVE  /\ Sound(LogContent(new)', asked[c], r.attempt.status)
             /\ asked[c].by = "load" => Ahead(LogContent(new)')
  <2>1. r.attempt.revision # ""
    BY <1>5, <1>7 DEF LoggedReads, TellsContent
  <2>2. LogContent(new)' = Content(r.attempt.revision)
    BY <1>5 DEF LogContent
  <2> QED BY <1>2, <2>1, <2>2
<1>8. ASSUME NEW i \in LoggedReads'
      PROVE  Sound(LogContent(i)', asks'[i], accepted'[i].attempt.status)
  <2>1. CASE i = new
    BY <1>5, <1>7, <1>8, <2>1
  <2>2. CASE i # new
    <3>1. i \in LoggedReads /\ i \in DOMAIN asks /\ LogContent(i)' = LogContent(i)
      BY <1>6, <1>8, <2>2 DEF LoggedReads
    <3> QED BY <1>5, <3>1 DEF ReloadInv, LogInv
  <2> QED BY <2>1, <2>2
<1>9. ASSUME NEW i \in LoggedReads'
      PROVE  Sound(LogContent(i), asks[i], accepted[i].attempt.status)'
  BY <1>8 DEF Sound
<1>10. ASSUME NEW i \in LoggedReads', NEW j \in LoggedReads', i < j, asks'[j].by = "load"
       PROVE  Older(LogContent(i)', LogContent(j)')
  <2>1. new \in Nat /\ \A n \in LoggedReads' : n \in Nat /\ n <= new
    BY <1>5 DEF LoggedReads
  <2>2. i # new
    BY <1>10, <2>1
  <2>3. i \in LoggedReads /\ LogContent(i)' = LogContent(i)
    BY <1>6, <2>2
  <2>4. CASE j = new
    <3>1. Ahead(LogContent(j)')
      BY <1>5, <1>7, <1>10, <2>4
    <3> QED BY <2>3, <3>1 DEF Ahead
  <2>5. CASE j # new
    <3>1. j \in LoggedReads /\ j \in DOMAIN asks /\ LogContent(j)' = LogContent(j)
      BY <1>6, <2>5 DEF LoggedReads
    <3>2. asks[j].by = "load"
      BY <1>5, <1>10, <3>1
    <3> QED BY <1>10, <2>3, <3>1, <3>2 DEF ReloadInv, LogInv
  <2> QED BY <2>4, <2>5
<1> QED BY <1>5, <1>9, <1>10 DEF LogInv

(* A commit logs what its caller loaded.                                   *)
LEMMA CommitKeepsReload ==
  ASSUME ReloadInv, NEW c \in Callers, CommitFileLoad(c)
  PROVE  ReloadInv'
<1>1. /\ UNCHANGED fileVars /\ reading' = reading /\ bytes' = bytes /\ asked' = asked /\ job' = job
      /\ phase' = [phase EXCEPT ![c] = "finishing"] /\ phase[c] \in {"loaded", "apply"}
  BY DEF CommitFileLoad, CommitLoad, AcceptExternal, readVars
<1>2. FileInv' /\ Latest' = Latest /\ Latest \in Nat /\ written' = written
  BY <1>1, SameFile DEF ReloadInv
<1>3. BaseInv' /\ LogInv'
  BY <1>2, ReloadBase, CommitKeepsLog DEF ReloadInv, ReloadNext
<1>4. adm[c] = "admitted" /\ BaseInv /\ phase \in [Callers -> Phases]
  BY DEF CommitFileLoad, CommitLoad, AcceptExternal, ReloadInv, BaseInv, CallInv, ManagerTypeOK
<1>5. ASSUME NEW d \in Callers
      PROVE  /\ ReaderOK(phase'[d], reading[d], bytes[d], asked[d])
             /\ WorkOK(phase'[d], bytes[d], asked[d], job[d])
             /\ phase'[d] \notin {"started", "loaded"}
  <2>1. /\ ReaderOK(phase[d], reading[d], bytes[d], asked[d])
        /\ WorkOK(phase[d], bytes[d], asked[d], job[d])
    BY CallerFacts
  <2>2. CASE d = c
    <3>1. phase'[d] = "finishing"
      BY <1>1, <1>4, <2>2
    <3> QED BY <1>1, <2>1, <2>2, <3>1 DEF ReaderOK, WorkOK
  <2>3. CASE d # c
    <3>1. phase'[d] = phase[d] /\ phase[d] \notin {"started", "loaded"}
      BY <1>1, <1>4, <2>3, OneWorks
    <3> QED BY <2>1, <3>1
  <2> QED BY <2>2, <2>3
<1>6. ASSUME NEW d \in Callers
      PROVE  /\ ReaderOK(phase[d], reading[d], bytes[d], asked[d])'
             /\ WorkOK(phase[d], bytes[d], asked[d], job[d])'
  <2>1. ReaderOK(phase[d], reading[d], bytes[d], asked[d])'
    BY <1>1, <1>2, <1>5 DEF ReaderOK
  <2>2. phase'[d] = "apply" => asked[d].by = "caller"
    BY <1>5 DEF WorkOK
  <2>3. phase'[d] = "apply" /\ job[d].attempt.revision # "" =>
          Sound(Content(job[d].attempt.revision), asked[d], job[d].attempt.status)
    BY <1>5 DEF WorkOK
  <2>4. phase'[d] \notin {"started", "loaded"}
    BY <1>5
  <2> QED BY <1>1, <1>2, <2>1, <2>2, <2>3, <2>4 DEF WorkOK, Sound
<1>7. ReadTypeOK'
  BY <1>1 DEF ReloadInv, ReadTypeOK
<1> QED BY <1>2, <1>3, <1>6, <1>7 DEF ReloadInv

(***************************************************************************)
(* The invariant, and what follows from it.                                *)
(***************************************************************************)
LEMMA ReloadInductive == ReloadInv /\ [ReloadNext]_reloadVars => ReloadInv'
<1>1. ASSUME ReloadInv, UNCHANGED reloadVars
      PROVE  ReloadInv'
  <2>1. BaseInv'
    BY <1>1, ReloadBase DEF ReloadInv
  <2>2. /\ UNCHANGED <<fileVars, reading, bytes, asked, asks>>
        /\ phase' = phase /\ job' = job /\ accepted' = accepted
    BY <1>1 DEF reloadVars, readVars, vars, callVars, state
  <2>3. FileInv' /\ Latest' = Latest /\ Latest \in Nat /\ written' = written
    BY <1>1, <2>2, SameFile DEF ReloadInv
  <2>4. LogInv' /\ \A b : Ahead(b)' <=> Ahead(b)
    BY <1>1, <2>2, <2>3, SameLog DEF ReloadInv
  <2>5. ASSUME NEW c \in Callers
        PROVE  /\ ReaderOK(phase[c], reading[c], bytes[c], asked[c])'
               /\ WorkOK(phase[c], bytes[c], asked[c], job[c])'
    <3>1. /\ ReaderOK(phase[c], reading[c], bytes[c], asked[c])
          /\ WorkOK(phase[c], bytes[c], asked[c], job[c])
      BY <1>1, CallerFacts
    <3>2. ReaderOK(phase[c], reading[c], bytes[c], asked[c])'
      BY <2>2, <2>3, <3>1 DEF ReaderOK
    <3>3. Ahead(bytes[c])' <=> Ahead(bytes[c])
      BY <2>2, <2>4 DEF Ahead, LoggedReads, TellsContent, LogContent
    <3>4. Ahead(Content(job[c].attempt.revision))' <=> Ahead(Content(job[c].attempt.revision))
      BY <2>2, <2>4 DEF Ahead, LoggedReads, TellsContent, LogContent
    <3> QED BY <2>2, <2>3, <3>1, <3>2, <3>3, <3>4 DEF WorkOK, Sound
  <2>6. ReadTypeOK'
    BY <1>1, <2>2 DEF ReloadInv, ReadTypeOK
  <2> QED BY <2>1, <2>3, <2>4, <2>5, <2>6 DEF ReloadInv
<1>2. ASSUME ReloadInv, ReloadNext
      PROVE  ReloadInv'
  BY <1>2, WriteKeepsReload, ReadOnKeeps, ReadBlockKeepsReload, DropKeepsReload, RunKeepsReload,
     ApplyKeepsReload, CallKeepsReload, CommitKeepsReload, OtherKeepsReload DEF ReloadNext
<1> QED BY <1>1, <1>2

(* So the invariant always holds.                                          *)
LEMMA ReloadInvariant == ReloadSpec => []ReloadInv
BY ReloadInitial, ReloadInductive, PTL DEF ReloadSpec

(* LoadFromSource reads inside its admission, so that its content is no    *)
(* older than any logged before, by whatever way that came to the manager. *)
THEOREM FileReloadNeverGoesBack == ReloadSpec => []SourceLoadsNeverGoBack
<1>1. ReloadInv => SourceLoadsNeverGoBack
  BY DEF ReloadInv, LogInv, LoggedReads, LogContent, Older, SourceLoadsNeverGoBack
<1> QED BY <1>1, ReloadInvariant, PTL

(* Every attempt sees the writes its caller knew to be complete, when it   *)
(* called LoadFromSource or began the read that Load or Apply was given.   *)
THEOREM FileReloadSeesWrites == ReloadSpec => []AttemptsSeeWrites
<1>1. ReloadInv => AttemptsSeeWrites
  <2> SUFFICES ASSUME ReloadInv, NEW i \in DOMAIN asks, TellsContent(i)
               PROVE  /\ \A n \in DOMAIN LogContent(i) : LogContent(i)[n] >= asks[i].write
                      /\ accepted[i].attempt.status = "succeeded" => Whole(LogContent(i))
    BY DEF AttemptsSeeWrites, LogContent
  <2>1. Sound(LogContent(i), asks[i], accepted[i].attempt.status)
    BY DEF ReloadInv, LogInv, LoggedReads
  <2> QED BY <2>1 DEF Sound, AtLeast
<1> QED BY <1>1, ReloadInvariant, PTL
=============================================================================
