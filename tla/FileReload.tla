------------------------------ MODULE FileReload ------------------------------
(***************************************************************************)
(* A Manager whose loads read a FileSource (source.go) while the file is   *)
(* being rewritten in place.                                               *)
(*                                                                         *)
(* The file is a sequence of blocks, each of them the number of the write  *)
(* it is from.  A write truncates it and puts the new blocks one after     *)
(* another; a read takes the blocks one after another until the end.       *)
(* Neither is atomic and no lock is shared, so a read may see a short file *)
(* or a mixture.  LoadFromSource reads between its admission and its       *)
(* result.  Load is given what its caller read before the call, and so     *)
(* does Apply get the result of a load that read outside the admission: by *)
(* the time either is admitted, newer content may have been logged.        *)
(***************************************************************************)
EXTENDS Manager

CONSTANTS
  NumBlocks,
  MaxWrites,  \* bound on the number of writes
  Hash        \* the SHA-256 revision of a content

Contents == UNION {[1 .. n -> 1 .. MaxWrites] : n \in 0 .. NumBlocks}

ASSUME FileAssumption ==
  /\ NumBlocks \in Nat \ {0}
  /\ MaxWrites \in Nat \ {0}
  /\ Hash \in [Contents -> Revisions]
  /\ \A b, d \in Contents : Hash[b] = Hash[d] => b = d

VARIABLES
  file,
  writing,  \* the write in progress, 0 if there is none
  written,  \* the last write completed
  reading,  \* where each caller is in Read
  bytes,    \* what it has read
  asked,    \* who reads, a load or its caller, and the last write completed
            \* when the load was called, or the caller's read begun
  asks      \* history: that of each accepted result

fileVars   == <<file, writing, written>>
readVars   == <<reading, bytes>>
reloadVars == <<vars, fileVars, readVars, asked, asks>>

ReloadInit ==
  /\ ManagerInit
  /\ file = [i \in 1 .. NumBlocks |-> 1] /\ writing = 0 /\ written = 1
  /\ reading = [c \in Callers |-> "out"]
  /\ bytes   = [c \in Callers |-> <<>>]
  /\ asked   = [c \in Callers |-> [by |-> "load", write |-> 0]]
  /\ asks = <<>>

(***************************************************************************)
(* os.WriteFile.                                                           *)
(***************************************************************************)
Truncate ==
  /\ writing = 0
  /\ written < MaxWrites
  /\ writing' = written + 1
  /\ file' = <<>>
  /\ UNCHANGED <<vars, written, readVars, asked, asks>>

WriteBlock ==
  /\ writing # 0
  /\ Len(file) < NumBlocks
  /\ file' = Append(file, writing)
  /\ UNCHANGED <<vars, writing, written, readVars, asked, asks>>

FinishWrite ==
  /\ writing # 0
  /\ Len(file) = NumBlocks
  /\ written' = writing
  /\ writing' = 0
  /\ UNCHANGED <<vars, file, readVars, asked, asks>>

(***************************************************************************)
(* FileSource.Read: it looks at the context, reads the file, and looks at  *)
(* the context again.  That of a caller that reads for itself is left      *)
(* live: what a load does when it ends is in Load.                         *)
(***************************************************************************)
Asking(who) == [by |-> who, write |-> written]

CallerReads(c) ==
  /\ phase[c] = "idle"
  /\ calls < MaxCalls  \* nobody reads for a call it cannot make

LoadReadsUnadmitted(c) ==  \* reads before it waits for the admission
  /\ asked[c].by = "load"
  /\ phase[c] = "load" \/ (phase[c] = "started" /\ events[c] = <<>>)

LoadReads(c) == asked[c].by = "load" /\ phase[c] = "started" /\ events[c] = <<>>

Ended(c) == LoadReads(c) /\ ctx[c] \in Dead

ReadStep(c, from, to) == reading[c] = from /\ reading' = [reading EXCEPT ![c] = to]

OpenShared(c) ==  \* takes what another caller is reading, if one is
  /\ ~Ended(c)
  /\ \E d \in Callers :
       /\ reading' = [reading EXCEPT ![c] = IF d = c THEN "reading" ELSE reading[d]]
       /\ bytes' = [bytes EXCEPT ![c] = bytes[d]]
       /\ reading[c] = "out"
       /\ d # c => reading[d] \in {"reading", "read"}
  /\ \/ LoadReads(c) /\ UNCHANGED asked
     \/ CallerReads(c) /\ asked' = [asked EXCEPT ![c] = Asking("caller")]
  /\ UNCHANGED <<vars, fileVars, asks>>

Open(c) ==
  /\ ~Ended(c)
  /\ ReadStep(c, "out", "reading")
  /\ \/ LoadReads(c) /\ UNCHANGED asked
     \/ CallerReads(c) /\ asked' = [asked EXCEPT ![c] = Asking("caller")]
  /\ UNCHANGED <<vars, fileVars, bytes, asks>>

ReadBlock(c) ==
  /\ reading[c] = "reading"
  /\ Len(bytes[c]) < Len(file)
  /\ bytes' = [bytes EXCEPT ![c] = Append(@, file[Len(@) + 1])]
  /\ UNCHANGED <<vars, fileVars, reading, asked, asks>>

ReadEnds(c) ==
  /\ Len(bytes[c]) >= Len(file)
  /\ ~Ended(c)
  /\ ReadStep(c, "reading", "read")
  /\ UNCHANGED <<vars, fileVars, bytes, asked, asks>>

ReadStops(c) ==
  /\ Ended(c)
  /\ ReadStep(c, "out", "stopped") \/ ReadStep(c, "reading", "stopped")
  /\ UNCHANGED <<vars, fileVars, bytes, asked, asks>>

ReadFails(c) ==
  /\ ReadStep(c, "reading", "failed")
  /\ UNCHANGED <<vars, fileVars, bytes, asked, asks>>

(***************************************************************************)
(* What a load makes of a read.  A decoder refuses a file cut short: it    *)
(* wants one whole JSON value.  Anything else may fail in any later step.  *)
(***************************************************************************)
Whole(b) == Len(b) = NumBlocks

MadeOf(r, c) ==
  CASE reading[c] = "read" ->
         /\ r.attempt.stage # "source_read"
         /\ r.attempt.revision = Hash[bytes[c]]
         /\ r.attempt.status = "succeeded" => Whole(bytes[c])
    [] reading[c] = "failed" ->
         /\ r.attempt.stage = "source_read" /\ r.attempt.failure = "source_read"
         /\ r.attempt.revision = ""
    [] reading[c] = "stopped" ->
         /\ r.attempt.stage = "source_read" /\ r.attempt.failure = ctx[c]
         /\ r.attempt.revision = ""
    [] OTHER -> FALSE

FinishRead(c) ==
  /\ reading' = [reading EXCEPT ![c] = "out"]
  /\ bytes' = [bytes EXCEPT ![c] = <<>>]

(* A load forgets what it read; a caller keeps its data until it drops it, *)
(* and may load or apply what it made of them again.                       *)
RunFileLoad(c) ==
  /\ RunLoad(c)
  /\ MadeOf(job'[c], c)
  /\ IF asked[c].by = "load" THEN FinishRead(c) ELSE UNCHANGED readVars
  /\ UNCHANGED <<fileVars, asked, asks>>

DropData(c) ==
  /\ phase[c] = "idle"
  /\ reading[c] \in {"read", "failed"}
  /\ FinishRead(c)
  /\ UNCHANGED <<vars, fileVars, asked, asks>>

(***************************************************************************)
(* Calls: LoadFromSource, Load of what the caller has read, and Apply of   *)
(* the result of a stateless load of it, or of one that failed to read.    *)
(***************************************************************************)
CallLoadFromSource(c) ==
  /\ reading[c] = "out"
  /\ \E k \in Contexts : CallLoad(c, k)
  /\ asked' = [asked EXCEPT ![c] = Asking("load")]
  /\ UNCHANGED <<fileVars, readVars, asks>>

CallLoadData(c) ==
  /\ reading[c] = "read"
  /\ \E k \in Contexts : CallLoad(c, k)
  /\ UNCHANGED <<fileVars, readVars, asked, asks>>

ApplyFileLoad(c) ==
  /\ \E k \in Contexts : \E r \in ExternalResults : MadeOf(r, c) /\ CallApply(c, k, r)
  /\ UNCHANGED <<fileVars, readVars, asked, asks>>

(***************************************************************************)
(* The manager's own steps.                                                *)
(***************************************************************************)
CommitFileLoad(c) ==
  /\ CommitLoad(c) \/ AcceptExternal(c)
  /\ asks' = Append(asks, asked[c])
  /\ UNCHANGED <<fileVars, readVars, asked>>

OtherStep(c) ==
  /\ \/ Acquire(c)
     \/ \E k \in Dead : CancelCall(c, k)
     \/ ReturnRefused(c) \/ StartLoad(c) \/ RejectExternal(c)
     \/ Deliver(c) \/ Return(c)
  /\ UNCHANGED <<fileVars, readVars, asked, asks>>

ReloadNext ==
  \/ Truncate \/ WriteBlock \/ FinishWrite
  \/ \E c \in Callers :
       \/ Open(c) \/ ReadBlock(c) \/ ReadEnds(c) \/ ReadStops(c) \/ ReadFails(c)
       \/ CallLoadFromSource(c) \/ CallLoadData(c) \/ ApplyFileLoad(c) \/ DropData(c)
       \/ RunFileLoad(c) \/ CommitFileLoad(c) \/ OtherStep(c)

ReloadSpec == ReloadInit /\ [][ReloadNext]_reloadVars

(***************************************************************************)
(* Properties.  The revision of an attempt is all that it tells of the     *)
(* content it read.                                                        *)
(***************************************************************************)
Content(revision) == CHOOSE b \in Contents : Hash[b] = revision

TellsContent(i) == accepted[i].attempt.revision # ""

(* LoadFromSource never goes back: what it read is at least as new, block  *)
(* by block, as whatever was logged before it, by loads that waited for    *)
(* the admission or by results from outside, though callers wait, write    *)
(* and read as they like.  (Load and Apply may go back: they are given     *)
(* what was read before they were admitted.)                               *)
SourceLoadsNeverGoBack ==
  \A i, j \in DOMAIN asks :
    i < j /\ asks[j].by = "load" /\ TellsContent(i) /\ TellsContent(j) =>
      LET b == Content(accepted[i].attempt.revision)
          d == Content(accepted[j].attempt.revision)
      IN  \A n \in DOMAIN b \cap DOMAIN d : b[n] <= d[n]

(* No attempt is older than it may be: it tells of a content that holds    *)
(* the last write that was complete when LoadFromSource was called, or     *)
(* when the caller of Load or Apply began to read, or later ones, and      *)
(* never what another caller had read by then; and one that succeeded has  *)
(* published a whole file.                                                 *)
AttemptsSeeWrites ==
  \A i \in DOMAIN asks :
    TellsContent(i) =>
      LET b == Content(accepted[i].attempt.revision)
      IN  /\ \A n \in DOMAIN b : b[n] >= asks[i].write
          /\ accepted[i].attempt.status = "succeeded" => Whole(b)
=============================================================================
