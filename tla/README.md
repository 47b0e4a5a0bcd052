# Configkit: models and proofs

TLA+ models of [configkit](../src/README.md), a Go library that loads a
configuration from a source, turns it into a snapshot and publishes it through
a `Manager` that keeps the last known good one. The modules are translated from
the Go source; this file says which part is modelled where, what the model
checker and the prover establish about it, and what is left.

## The system

| Component | State | Operations | Talks to |
|---|---|---|---|
| Lifecycle admission (`manager.go`, `lifecycleAdmission`) | a channel of capacity one, made by a `sync.Once` | `acquire(ctx)`, `release` | callers' contexts |
| Manager (`manager.go`, `apply.go`, `status.go`, `snapshot.go`, `attempt.go`) | current snapshot, last attempt/success/failure/apply, attempt history and its limit, next attempt ID, state lock | `Load`, `LoadFromSource`, `Apply`; readers `LifecycleStatus`, `Attempts`, `LifecycleInspection`, `Snapshot`, `Value` | admission, stateless load, observers |
| Stateless load (`load.go`, `pipeline.go`) | local to one call | `Load`, `LoadFromSource`: metadata, read, then up to seven steps | source, callbacks of the pipeline, context |
| Observers (`observer.go`, `manager.go` `notify`) | none | called on the caller's goroutine, one after another, panics recovered | manager (readers only, by contract; follow-up loads from another goroutine) |
| AsyncObserver (`observer_async.go`) | bounded channel, closed flag under a RWMutex, once, dropped counter, worker goroutine | `Notify`, `Close`, `Dropped`, `run` | manager (as an observer), wrapped observer |
| Opskit adapter (`opskit.go`) | a `degradedReady` flag | `Status`, `Readiness`, `Inspect` | readers of the manager |
| Reload command (`reload_command.go`) | none after construction | `HandleCommand`, `Status`, `Commands` | `Manager.LoadFromSource` |
| HTTP endpoints (`opshttp/`) | none | `Mount`, `ReadinessCheck` | Opskit adapter |
| OTel observer (`otel/`), slog observer | instruments of the process / none | called with events | telemetry SDKs |
| Sources, steps (`source.go`, `steps.go`) | none | `Read`, `Metadata`; JSON decoding, SHA-256 | file system |

### What is hard

* **Serialization with cancellation.** A caller waits for the admission in a
  `select` with its context. Both branches may be ready; the code takes the
  token, looks at the context again and puts the token back. Everything that
  the manager does without a lock (numbering attempts, the order of events)
  rests on this protocol.
* **A commit and what is told about it.** State changes under the state lock,
  events are delivered after it is released, to several observers, while
  readers run. Status has six fields that must stay consistent over
  failed, successful, external and rejected results.
* **A load that can stop anywhere.** Nine stages, three of them optional
  callbacks, each of which may fail, be canceled from inside or panic, with a
  context that ends at any time. The manager validates its own loads' results:
  a result it refuses would be announced, numbered and lost.
* **What is told of an attempt later.** A command's reply is made after the
  admission is released; operational readers and HTTP routes run between any two
  steps; telemetry is made of the events one by one. Each has to agree with what
  the manager recorded, not with what it has come to since.
* **Shutdown of the asynchronous observer.** Senders look at a flag and then
  send on a channel that `Close` closes; the queue may be full, without
  capacity, or behind an observer that never returns, notifies or closes in turn.
* **Observers that act.** The observer behind an `AsyncObserver` may load: the
  worker that empties the queue then waits for an admission whose holder is
  filling it. A synchronous observer that does the same waits for itself.
* **Time between reading and publishing.** A file is rewritten in place while it
  is read; callers wait for their turn before or after they have read.
* **Memory handed out.** Results, events, records and maps leave the manager by
  pointer, slice and map, to observers and callers who may write to them.

`PROJECT.json` lists the hazards by line, with the properties aimed at each.

## Modules

| Module | Models | Correspondence |
|---|---|---|
| `Contexts` | Go contexts | `live`, `canceled`, `deadline_exceeded`: what `ctx.Err()` distinguishes |
| `Lifecycle` | records and pure functions | `AttemptRecord`, `LoadResult`, `ApplyResult`; `ValidLoadResult` is `validateLoadResult`, `LifecycleState` is `lifecycleStateLocked`, `Applied` is the result computed by `apply`, `AttemptFailure` is `attemptFailure`; `Outcome` is the promise of a load |
| `Admission` | `lifecycleAdmission` | `EntryCheck`, `Take` / `GiveUp` (the two branches of the select), `RecheckLive` / `RecheckDead`, `Release`; `adm[c]` is the place of a caller in the code, `held` the length of the channel |
| `Load` | `Load`, `LoadFromSource` of `load.go` | one action per way a piece of the function can end; `pending` is what is left of the pipeline, `value` the sequence of steps that produced the configuration value |
| `LoadContract` | abstract | a load returns once, any result that `Outcome` allows |
| `Manager` | `Manager`'s mutators | EXTENDS `Admission`; a call goes through `CallLoad`/`CallApply`, `Acquire`, then `StartLoad`, `RunLoad`, `CommitLoad`, or `AcceptExternal`/`RejectExternal`, with `Deliver` for each call of an observer, and `Return` with the deferred release. `RunLoad` uses `Outcome` in place of `Load` |
| `ManagerProperties` | properties of `Manager` | |
| `LastKnownGood` | abstract | what readers see: `Publish` or `Fail` |
| `AsyncObserver` | `AsyncObserver` | steps of `Notify` (read lock, closed, select, unlock), of `Close` (once, write lock, drained or expired) and of the worker (ready, parked in the receive, delivering, done) |
| `LossyQueue` | abstract | what `AsyncObserver` promises its users |
| `ObservedManager` | `Manager` with `AsyncObserver` | EXTENDS `ManagerProperties`, INSTANCE `AsyncObserver`: the last observer's delivery is a call of `Notify` (`BeginNotify` to `EndNotify`), `FollowUp` is the load of the wrapped observer on the worker, `CallBack` the call a synchronous observer makes into its manager, which the delivery waits for (`within`) |
| `FileReload` | `FileSource` and the writer of its file | EXTENDS `Manager`; `Open`, `ReadBlock`, `ReadEnds` are `os.ReadFile`, `Truncate`, `WriteBlock`, `FinishWrite` are `os.WriteFile`. `CallLoadFromSource` reads once it is admitted; a caller that reads for itself passes the data to `Load` (`CallLoadData`), applies the result of a stateless load of them (`ApplyFileLoad`), either more than once, or drops them (`DropData`). `RunFileLoad` makes a managed load's result of what was read; `asked[c]` tells who reads, and which write was complete by then |
| `Sharing` | the memory of `Manager`'s records | EXTENDS `Manager`; `own` are the cells of the manager's fields, `result`, `answer` and `sent` those of a call, `holds[h]` all that a holder was given; every copy the code makes is a fresh cell, and `Edit` writes to a held one |
| `Opskit` | `opskit.go`, `Mount`, routes and check of `opshttp` | EXTENDS `Manager`; `Mount` gives the routes; `Probe` is `Status` and `Readiness`, `Check` is `ReadinessCheck`, `Inspect`, `GetInspection` and `GetAttempts` (the two routes); `answer[p]` is the last a prober got |
| `ReloadCommand` | `ReloadCommandHandler.HandleCommand` | EXTENDS `Manager`; `RejectCommand`, `HandleCommand` (the call), `CommandCommits` and `CommandReturns` (the call's own steps, with its result), `Reply`, which notes the state of the command's context beside the failure it tells (`own`) |
| `OTelObserver` | the observer of `otel/` | EXTENDS `Manager`; one of its observers is `Observe`, `counters` has for each instrument the attributes it was added with, one addition after the other, `spans` the spans in the order they ended, `backward` the attempts that ended before they began, by a clock that was set back |
| `SlogObserver` | `SlogObserver` of `observer_slog.go` | EXTENDS `OTelObserver`, beside which it observes; `records` is what it logged |
| `MC*` | instances for TLC | |
| `AdapterProofs` | proofs about `Opskit` and `ReloadCommand` | |
| `TelemetryProofs` | proofs about `OTelObserver` and `SlogObserver` | |
| other `*Proofs` | proofs about the module they are named after; `ManagerProofs` also about `Admission` and `Lifecycle` | |

How they fit: `Load` implements `LoadContract`, whose only step is `Outcome`,
which is what `Manager` assumes of the load inside `RunLoad`. `Manager`'s
admission is `Admission` itself, and `ManagerProofs` shows that the manager's
behaviours are behaviours of `AdmSpec`. `Manager` implements `LastKnownGood`.
`Opskit`, `ReloadCommand` and `OTelObserver` each add variables to `Manager` and
leave its own steps as they are, and so do `FileReload` and `Sharing` with files
and with memory, and `SlogObserver` with its records to `OTelObserver`. That is
proved (`OpskitOnlyReads`, `CommandUsesManager`, `OTelOnlyObserves`,
`SlogOnlyObserves`, `ReloadIsManager`, `SharingIsManager`, and for the
composition `ObservedImplementsManager` and `ObservedImplementsAsyncObserver`).
`AsyncObserver` is a system of its own: to the manager it is an observer that
returns, which is what `NotifyReturns` shows, and `ObservedManager` puts the two
together, where the worker is one of the manager's callers.

Operators introduced by the words *faulty variant* are no part of a
specification. For each property there is one that breaks it when it takes the
place of the definition it varies; `PROJECT.json` pairs them.

### Abstractions

* Sources, revisions and checksums are members of small sets; `""` is the zero
  value. Snapshots are their metadata: no step looks into the value. Timestamps,
  messages, attempt kinds and component identity decide nothing and are left out.
* A panic of a callback or of an observer is recovered on the spot: the former
  is an error, the latter nothing. Other Go panics (a nil context) end the
  program by contract.
* A critical section of `mu` is one step. Readers take the read lock and copy,
  so a reader sees a state of the model; readers are therefore state functions
  (`managerState`, `current`, ...) and not actions.
* `closed = true; close(events)` is one step: it runs under the write lock, so
  no reader of `closed` is between the two, and the worker sees only the second.
* `Opskit`: each reader copies under one read lock, so it is one step and its
  answer one value. Answers carry the length of the log at the moment of the
  read (`moment`, `listed`), which only the properties look at. A redacted view
  is the metadata of its snapshot. A published snapshot may name no source, which
  `Status` then leaves out: a result applied from outside does in the run. A read that refuses an ended context leaves
  `Nil`.
* `ReloadCommand`: a call's result is what its commit returned. Other callers
  may call `Load`, or `Apply`, as in `Manager`. Messages and durations are left out.
* `OTelObserver`: times are taken with `UTC()`, which drops the monotonic clock,
  so that a duration may be negative and is then not recorded. Which attempts that
  befalls (`backward`) is chosen when they commit. `managed` is a history
  variable: the IDs given to managed loads.
* `SlogObserver`: an attribute that is left out of a record is `""`, `Nil` or
  `FALSE`. Records follow the events, and `StateAfter` in the property says what
  the manager reported at that point of the log.
* `FileReload`: a content is a sequence of blocks, each the number of the write
  it is from, and `Hash` is an injective function of contents, as SHA-256 is
  taken to be. A file cut short is refused by the decoder (`JSONDecoder` wants one
  whole value); a mixture of two writes of full length may decode, and the model
  lets it. A read fails at any moment; the context of a read that a caller makes
  for itself stays live, since what a load does when it ends is in `Load`.
* `Sharing`: an attempt with its failure, an apply result with its two metadata,
  an event, a redacted map and a byte slice are one cell each, because the code
  copies each as a whole. What the documentation shares on purpose is left out:
  the value of type `T` and what a redacted map contains. The redacted map of a
  `Snapshot` is unexported; copies of the snapshot share it and nobody can write
  to it. A caller leaves the argument of its call in progress alone.
* `ObservedManager`: the `AsyncObserver` is not closed (`Closers` is empty); its
  `Close` is in the module of its own. One nested call at a time.
* Attempt IDs do not wrap (64 bits), and `Dropped` does not.
* The stateless context checks after the last step, two in a row, are one: the
  second sees what the first would have seen or a later end of the context.

## Model checking

| Run | Instance | Shows |
|---|---|---|
| `admission` | 3 callers | `MutualExclusion`, `TokenHasOwner` |
| `admission_waiting` | 3 callers, no fairness of `Release` | `CanceledCallerReturns`, `EveryEntryDecided` |
| `load` | 2 sources, 2 checksums, all 64 pipelines | `SnapshotIsWhatWasInspected`, `CancellationHonoured`, `ResultTellsWhatHappened`, `KeepsContract`, `LoadReturns` |
| `manager` | 2 callers, 3 calls, 2 observers, history limits -1, 0 (default 2), 1 and 2 | `StatusFollowsLog`, `HistoryIsRecentLog`, `IDsDense`, `EventsMatchManager`, `DeliveredInOrder`, `EventsTellPublications`, `KeepsLastKnownGood` |
| `observed` | an application caller, the worker, a nested call; 3 calls, 2 observers, a buffer of 1 | `NestedNeverAdmitted`, `AsyncEventsTellLog`, `EveryCallReturns` |
| `file_reload` | 2 callers, 2 calls, a file of 2 blocks that is rewritten once | `SourceLoadsNeverGoBack`, `AttemptsSeeWrites` |
| `sharing` | 1 caller, 2 calls, 2 observers, 1 answer, 1 edit | `MemoryTellsState`, `AnswersAreOwn` |
| `async` | 3 notifiers (one is the observer itself), 2 events each, 2 calls of `Close`, from inside the observer or not, buffers 0, 1, 2 | `NeverSendsOnClosed`, `EveryEventAccounted`, `CloseMeansDrained`, `IsLossyQueue` |
| `async_liveness` | 2 notifiers, 2 calls of `Close`, buffers 0, 1 | `NotifyReturns`, `CloseReturns`, `AcceptedIsDelivered` |
| `opskit` | 2 callers, 3 calls, 1 prober, 2 sources, default history limit 2, zero and new managers, every set of routes | `ReadingsTellLog`, `PagesTellLog`, `ReadinessKept` |
| `reload_command` | 2 callers, 3 calls | `CompletedTellsPublication`, `FailedTellsFailure` |
| `otel` | 2 callers, 3 calls, both observers | `CountersTellLog`, `SpansTellLog`, `RecordsTellLog` |

The runs `manager` and `async` also check the type invariants of their modules.
What `observed` shows of the documented restriction on observers: a call back
into the manager can only be refused, when its context ends; until then every
other caller waits. `file_reload` tells the three entry points apart: only
`LoadFromSource` reads inside the admission, so only it never publishes an older
content than was there. `Load` is handed data, and `Apply` a result, that may have
been overtaken while the caller waited; they may go back, and all that is shown of
them is that they are no older than what was complete when their caller began to
read. It does not show that a publication is one write's content: the code does
not promise it, and a file that is replaced by a rename rather than rewritten in
place is what gives it.

**Why these bounds.** Three callers are a holder, a waiter and one that
overtakes or cancels. Three calls on two callers give every order of
success, failure, external and malformed results twice over, a history that
overflows a limit of 1 and of 2, and a degraded manager that recovers; two
observers are enough for one to lag. The manager never tells callers or
observers apart, and the proofs below hold for any number of either. Six events
against buffers of at most two, with one in hand, fill the queue, empty it and
drop; two closers are the one that shuts and the one that waits for it.
A prober keeps one answer, and probers do not see each other: one is as many as
any. Three calls are a command, its competitor that publishes before the reply,
and an earlier publication to differ from. Three calls in `observed` are the
application's, the follow-up to one of its events and a nested call, in any
order and number of each; a queue of one place is the smallest that holds an event,
and the notifier finds it full while the worker waits. That the queued events tell
the log, and that a nested call is never admitted, is proved for any buffer;
`EveryCallReturns` is checked with a buffer of one only. One rewriting over an old content and two calls
are enough for a read before, across and after the write by two callers, and for
data read before that are loaded or applied after another call has published. One
edit suffices in `sharing`, since a second would only hide the first, and one
answer, since an answer changes nothing; the observers are two because the second is the
one who would see what the first wrote. `file_reload` and `sharing` look at one
kind of ended context, which they do not tell from the other.
`MaxCalls`, `MaxEvents`, `MaxWrites`, `MaxReads` and `MaxEdits` are the only bounds on
unbounded counters.

**Stopping.** No run switches off deadlock checking where it is on by default:
the `MC` modules let the system stutter only where it is finished (every call
returned; the load returned; every `Close` returned or waiting for an observer
that never returns), and every other stop is an error. In `opskit` and
`reload_command` the check says little, since a prober may always read and an
unusable handler always be asked; that the manager does not stop is what the
run `manager` shows.

**Fairness.** A goroutine that can run, runs: weak fairness of the steps that
wait for nothing. Blocked senders of a Go channel are queued first in, first
out and a receive serves the head of the queue, which is the strong fairness of
`Take`. Nothing makes a context end. `admission_waiting` assumes nothing of
`Release`; that admitted attempts end is the hypothesis of `EveryEntryDecided`
(`AttemptsEnd`), and `load` and `observed` assume that callbacks and synchronous
observers return, which is the application's part. In the asynchronous
observer `ObserverSticks` may happen at any delivery and never has to; the
liveness properties say what still holds then. A writer that waits for the
RWMutex keeps new readers out, as `sync` documents. The run `observed`
is bounded in calls, so that overtaking for ever is excluded there by the
bound; that it is excluded without it is `EveryEntryDecided`.

## Proofs

TLAPS proves, for every value of the constants (any sets of callers, sources,
checksums, results; any number of observers; any history limit):

| Theorem | Statement |
|---|---|
| `AdmissionMutualExclusion`, `AdmissionKeepsToken` | `AdmSpec => []MutualExclusion`, `[]TokenHasOwner` |
| `LoadResultAccepted`, `LoadHonoursCancellation` | of `LoadSpec` |
| `LoadKeepsContract` | `LoadSpec => KeepsContract` |
| `LoadPublishesWhatItInspected`, `LoadTellsWhatHappened` | `LoadSpec => []SnapshotIsWhatWasInspected`, `[]ResultTellsWhatHappened` |
| `ManagerImplementsAdmission` | `ManagerSpec => AdmSpec` |
| `ManagerTypeCorrect`, `ManagerIDsDense`, `ManagerEventsMatch`, `ManagerStatusFollowsLog`, `ManagerHistoryIsRecent` | of `ManagerSpec` |
| `ManagerHistoryInTurn` | `ManagerSpec => []HistoryInTurn` |
| `ManagerDeliversInOrder`, `ManagerTellsPublications` | `ManagerSpec => []DeliveredInOrder`, `[]EventsTellPublications` |
| `ManagerKeepsLastKnownGood` | `ManagerSpec => KeepsLastKnownGood` |
| `ObservedImplementsManager`, `ObservedImplementsAsyncObserver` | `ObservedSpec => ManagerSpec`, `ObservedSpec => Async!AsyncSpec` |
| `ObservedNestedNeverAdmitted`, `ObservedTellsLog` | `ObservedSpec => []NestedNeverAdmitted`, `[]AsyncEventsTellLog` |
| `OpskitOnlyReads`, `OpskitReadinessKept` | `OpskitSpec => ManagerSpec`, `OpskitSpec => ReadinessKept` |
| `OpskitReadingsTellLog`, `OpskitPagesTellLog` | `OpskitSpec => []ReadingsTellLog`, `[]PagesTellLog` |
| `OpskitAnswersGoOn` | `OpskitSpec => AnswersGoOn` |
| `CommandUsesManager` | `CommandSpec => ManagerSpec` |
| `CommandTellsPublication`, `CommandTellsFailure` | of `CommandSpec` |
| `OTelOnlyObserves`, `SlogOnlyObserves` | `OTelSpec => ManagerSpec`, `SlogSpec => OTelSpec` |
| `OTelCountersTellLog`, `OTelSpansTellLog` | `OTelSpec => []CountersTellLog`, `[]SpansTellLog` |
| `OTelCountersInStep` | `OTelSpec => []CountersInStep` |
| `SlogRecordsTellLog` | `SlogSpec => []RecordsTellLog` |
| `AsyncTypeCorrect`, `AsyncNeverSendsOnClosed`, `AsyncCloseMeansDrained`, `AsyncKeepsOrder`, `AsyncEveryEventAccounted` | of `AsyncSpec` |
| `AsyncImplementsLossyQueue` | `AsyncSpec => IsLossyQueue` |
| `ReloadIsManager` | `ReloadSpec => ManagerSpec` |
| `FileReloadNeverGoesBack`, `FileReloadSeesWrites` | `ReloadSpec => []SourceLoadsNeverGoBack`, `[]AttemptsSeeWrites` |
| `SharingIsManager` | `SharingSpec => ManagerSpec` |
| `SharingMemoryTellsState`, `SharingAnswersAreOwn` | of `SharingSpec` |

*Assumptions.* Only those the modules name: the blank string is neither a
source nor a checksum, `Nil` is none of the values it stands in for (in
`Sharing`, none of the contents of a cell, in `OTelObserver` not what an event
points to), the hash of `FileReload` tells
contents apart, and the parameters have their types. The results that `Outcome` selects are
valid, which `LoadResultAccepted` establishes for `Load`.

*Admission.* Mutual exclusion alone is not inductive: nothing in it says that
the slot is full while somebody holds it. The invariant is types, mutual
exclusion and the token count together.

*Load.* The invariant says, of each place in the function, what the run has
done: the steps still pending are an upper part of the order, a checksum is
there once its step is not pending, a load that is past a dead context has not
gone on. The contract follows step by step, each step of `Load` being the
contract's one step or a stutter. That what is published is what was inspected
needs the history in full: `RanInv` says that the steps done are those planned
and not pending, in their order and before all that are pending, and that a
step that failed comes right after them; `ValueInv`, that the value was made by
the building steps among them, and what each inspecting step saw of it; `TellInv`,
what was known of the data and their source at each place, and that a result
tells it, with the code that the cause of its failure (`why`) is given.

*Manager.* `BaseInv` carries the argument: types, the admission's invariant, and
for each phase of a call what it may rely on (a call that works is admitted; the
load in progress carries the number `nextAttemptID`; the result in hand is
valid). Mutual exclusion then makes the working call the only one, so that a
commit appends number `Len(accepted) + 1` to the log, and each property is
preserved by the two steps that commit (`CommitLoad`, `AcceptExternal`), which
share one lemma each, while every other step leaves its variables alone
(`QuietKeeps`, `StepKinds`). That the retained history has no gap and ends with the
attempt the status reports (`HistoryInTurn`) follows from it being the latest of
the log, whose entries are numbered in turn.

*What observers are told.* No variable holds all that was and is yet to be told,
so `StoryInv` says that there is such a sequence of events, the story: it is in
order, each observer has heard a part of it from its beginning, the caller that
delivers holds the rest, and it agrees with the log. A start or a commit makes
it longer, and can only happen when nothing is left to deliver
(`AnnouncementsFindSettled`); a delivery moves one observer along it. What all
observers see, and that each publication is told once, is read off the story.

*Readers and commands.* Both modules refine `Manager` step by step, which makes
the manager's invariants theirs. Readiness follows from what a commit leaves of
the snapshot. For the commands the log is the witness: it only grows
(`ManagerStepGrowsLog`), so what is true of one of its entries stays true. `Told`
says that of the result a commit returned (`CommitLoadTold`, from
`StatusFollowsLog` and `IDsDense`), `CommandInv` that a command without a result
was refused because its own context had ended, and `RepliesTrue` that a reply made
of either is true; the two properties are read off it. The checksum published
before an entry is part of the log before it, hence does not change either
(`PublishedBeforeKept`). `AnswerInv` treats the answers of `Opskit` alike: each
is true of the log as long as it was at the moment of the read. That a log with
a success in it has a last one, which the readings name, is well-founded
induction on a set of natural numbers. A prober's answers never go back
(`AnswersGoOn`) because the log they are true of only grows, and its last attempt
at a later moment has a later number (`MomentsGoOn`, `PageAttempt`).

*Telemetry.* An event is *announced* to an observer when it was called with it,
or when a caller has still to call it: a delivery announces nothing new and takes
nothing back (`DeliveryAnnounces`). `CoverInv` says that what is announced covers
the log, the start and the end of each managed load and each publication, and
that only managed loads start and end; `AboutInv`, that what an event points to
is what the log has of its attempt. What an observer makes of what it heard is
said of the events it heard alone: the spans are one for each but the starts
(`SpansInv`), each counter has as many entries as there are attempts with an
event it counts, the durations as many as there are managed loads whose clock was
not set back, and the failures of all codes together as many as there are failed
loads (`CountsInv`), and the records are, one by one, what the log says
of the events (`RecordsInv`). An event is counted once because it comes after all
that was heard before (`Hearing`, from the story). The log grows without
changing what was said of it, the checksum published before an entry included
(`ChecksumKept`). When no event is under way, announced is heard
(`HeardWhenSettled`), and the three properties are read off. `CountersInStep` needs
no such moment: what was heard is the story's beginning, in which the start of an
attempt comes right before its end, so that the start of one attempt at most has
been heard without its end (`StartsAndFinishes`).

*Asynchronous observer.* That nobody sends on a closed channel needs the read
lock (whoever is between its look at `closed` and its send holds it), the `Once`
(one caller of `Close` at most is at the write lock, and only while the channel
is open), and both together in `ShutChannel`. `PlacesInv` says where each
accepted event is: the log is what was delivered, then what the worker has in
hand, then the queue. From it follow the order, what a `Close` that returned nil
means, and the refinement: the events that wait in `LossyQueue` are those in hand
and in the queue, which are one more than the buffer at most. The sum of
accepted, dropped and undecided events is kept by `CountInv` for any set of
notifiers, finite or not: only finitely many have begun an event, as each step
lets one begin at most.

*The composition.* Each step of `ObservedManager` is a step or a stutter of
both its parts, which makes their invariants hold of it. What it adds: a call
from inside a delivery finds the admission held by its own caller until the
delivery ends (`WithinInv`), a caller inside `Notify` is there with the event it
noted last, which is the first it has to deliver (`NotedInv`), and all that was
taken has been heard, or is being heard, in the order of the story (`TakenInv`).

*Files.* `Latest` is the write under way, or the last. `FileInv` says that all
blocks of the file are its, which bounds by it what callers have read and what the
log says; so what is read now is at least as new as all that is logged (`Ahead`).
`ReaderOK` adds, of each caller, that what it has read is no older than the write
it knew of when it asked (`asked`), and `WorkOK` that what a `LoadFromSource` under way
has read stays ahead of the log until its own commit: it reads inside the
admission, hence nobody else logs anything meanwhile, neither a load of data read
before nor a result from outside. That is what fails for `Load` and `Apply`, of
which `LogInv` says only what they share: each entry of the log is no older than
the write it was asked for after, and whole if it succeeded (`Sound`).

*Memory.* The cells in use are of three sorts: those the manager keeps (its
fields, and the maps and events on their way), those due to a caller when its
call returns, and those somebody holds. `Sorted` says that no cell is of two
sorts, and no held or due cell of two owners; `OwnEdits`, that only the holder
of a cell has written to it. One lemma (`NewCellsSorted`) reduces a step to
where its new cells go. `MemoryTellsState` then needs the history's cells to be
cut as the history is (`CutTogether`), which for an unlimited history of
nothing rests on `HistoryIsRecentLog`, and the redacted map of a result to stay
with its call until the commit (`InHandInv`).

## Only model-checked

Liveness (`CanceledCallerReturns`, `EveryEntryDecided`, `LoadReturns`,
`EveryCallReturns`, and the three of `async_liveness`) is beyond the prover.
Every invariant and every other action property that a run checks is a theorem.
For `HistoryInTurn`, `AnswersGoOn` and `CountersInStep` it is the other way round:
they are stated with their proofs, and no run checks them.

## Not modelled

What JSON and SHA-256 compute is library code on bytes; the models keep that the
decoder wants one whole value and that the checksum tells contents apart. The
built-in validators, defaults and redactors call the application and are the
nondeterminism of `Load`. Of the HTTP package, what makes a path prefix malformed
and the endpoint options; of the OTel observer, the creation of its instruments,
which may fail once before the observer exists; of the adapters, component
identity, messages and descriptors. Examples and the release check carry no logic
of the library, except for the writer of a file, which is in `FileReload`. In
`ObservedManager` the asynchronous observer is never closed. A callback that ends its
goroutine (`runtime.Goexit`), which runs the deferred calls and nothing more, is left
out, and so is a manager without observers (`NumObservers` is at least one): what
it does is what the manager's steps do without the deliveries. The `revision`
attribute of the log's records and the readiness that `Inspect` gives in its
summary and attributes are left out of the modelled answers; `Status` and
`Readiness` have it from the same functions. A reload command that is rejected is
decided in one step from its name and the handler's configuration, before it
reaches the manager, and no property speaks of it.

No disagreement between the code and its documentation was met.

## Plan

1. *Done:* admission, stateless load, manager, asynchronous observer, with the
   abstract specifications; Opskit's readers, the HTTP routes and their mounting,
   the reload command, the OTel and log observers; the composition of the manager
   with observers that call back (`ObservedManager`), with files (`FileReload`) and
   with memory (`Sharing`); the proofs above.
2. *Next:* `Close` of the asynchronous observer in the composition, with a manager
   that still notifies it.
