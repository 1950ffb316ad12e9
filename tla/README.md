# A verification project for WSMS

WSMS is a session memory for coding agents: an append-only ledger of events
(L4), a disposable warm index of pages compiled from it (L3), a bounded set of
resident pages (L2) and a small rendered working state (L1).  This directory
holds TLA+ modules translated from its Go source, the TLC configurations that
check them on small instances, and proofs that TLAPS checks.

Paths of Go files below are relative to `src/internal/`.

## 1. The system

| Component | State it keeps | Operations |
|---|---|---|
| **Session** `harness/session.go` | `appendMu`; closed and fail-stop flags; `IndexErr`; the maintenance queue and its flags (`maintenanceMu`); the embedding worker's status; a wait group of searches | `OpenSession`, `Append`, `Close`, `SemanticSearch`, `PageFault`, two background workers |
| **Ledger** `ledger/store.go` | SQLite table of events by append sequence | `Append` (one IMMEDIATE transaction), `Get`, `ListBySession` |
| **Artifacts** `artifacts/store.go` | content-addressed blobs | `Put`, `Get`, `Verify` |
| **Working state** `wsl/store.go` | records, evidence, known events | all-or-nothing `ApplyEventUpdates` |
| **Coherence** `coherence/state.go` | scopes and epochs, paths, bindings of records to evidence, a revision | `WithCandidate` (`BindUpdates`), `Prepare`/`Commit`, `RecordEligible`, `RawAllowed`, `Generation` |
| **Hierarchy** `memory/hierarchy.go` | resident pages, pins, a clock hand, ghosts and semantic shadows, byte accounts | `Admit*`, `Pin`/`Unpin`, `Use*`, `Invalidate`, `Shootdown`, `Revalidate`, `Reconcile`, `ObserveSemantic` and its settling |
| **Scheduler** `scheduler/scheduler.go` | `derivationMu` over coherence, working state and hierarchy | `AfterEvent`, `BeforeTurn`, `PageFault` |
| **Observers** `observers/` | the allocator of record ids | events to records |
| **Resolver** `faults/resolver.go` | none | page faults by address |
| **Indexer** `indexer/` | SQLite files, a lease, generations, watermarks, vectors | `Open`, `ApplyWithWatermark`, `Rebuild`, search |
| **Embedder** `embedder/` | circuit breaker, single-flight cache | `EmbedDocuments`, `EmbedQuery`, `SelfCheck` |
| **Operator** `operator/` | none | `Purge`, `Delete`, `Inspect`, `Export` |
| **serve, pirpc, tui, cmd** | HTTP server, RPC client with pending requests, UI | requests and streams |
| **pages, retrieval, renderer** | none | functions of events and text; `ResolveSemantic` runs two channels against the index |

**Interaction.**  `Append` holds `appendMu` from validation to the end of
`Scheduler.AfterEvent`, which changes coherence, working state and hierarchy
under `derivationMu`.  The event then goes to the index, on the same thread or
through the bounded queue of the maintenance worker.  A search embeds and
searches without the lock and revalidates what it found under it.  `Close`
sets `closed` under the lock, cancels and joins the workers without it, and
closes the stores.  The ledger survives everything; index, residency and
coherence are rebuilt from it by the replay of `OpenSession`.

**What is hard, and what would make each part correct.**

| Part | Hard behaviour | Correct means |
|---|---|---|
| Index maintenance | a lossy bounded queue, a wake channel of one token, a repair that takes in events whose units are still queued, two threads writing `IndexErr`, close and crash anywhere | the index is always the replay of a prefix of the ledger, catches up, and no status says it has when it has not |
| Hierarchy | accounts kept by differences, a hand in an order that is edited under it, a sweep that runs after the admission, estimators that outlive their page, a verdict reached without the lock | accounts equal the sums, caps hold, the order matches the residents, every shadow trial is counted once |
| Embedder | late answers against a probe, opposite lock orders of batches, early returns between claiming a flight and ending it | one leader a key, nobody waits for ever, half open always has its probe |
| Coherence | scopes left and entered again, epochs compared through one number, invalidation through several references, revalidation against moved scopes | nothing a scope's end took away comes back without being emitted or revalidated again |
| Scheduler | residents and a capsule made from bindings that later events change, a quota of pins | nothing that has lapsed is in front of the agent; the anchors are pinned, in their current text, as far as the quota goes |
| Embedding worker | texts embedded without a lock, five tables kept in step by hand, one wake token | no query meets a vector of an older page; the worker never sleeps on a page it owes |
| Index files | several renames with a crash between any two, handles of a superseded file, a rebuild undone | the next open finds a whole generation, the generation never goes back, every operation works on the file that serves |
| Search | the scope, the index and the pages move between capture, search and answer; two channels read different snapshots; Close | an answer as if the search had happened in one instant; the stores outlive it |
| RPC | timeouts against late answers, a blocked reader | planned (section 7) |

`PROJECT.json` lists every hazard at its line with the properties aimed at it.

## 2. The modules

| Module | Models | Source |
|---|---|---|
| `WarmPages` | what one event's page mutations do to the index, and the replay of a prefix of the ledger defined without the index | `indexer/apply.go` |
| `WarmIndex` | abstract: a durable ledger and a disposable view of one of its prefixes | |
| `IndexMaintenance` | how a session keeps that promise | `harness/session.go` |
| `IndexMaintenanceProofs` | types, prefix, refinement, and the four invariants about lag, wakes and status | |
| `DenseProjection` | the vector tables and the worker that fills them (extends `WarmPages`) | `indexer/dense.go`, `harness/session.go` |
| `DenseProjectionProofs` | tables that agree, vectors that are current, a worker that may sleep | |
| `IndexGeneration` | the index's files, lease, handles, rebuild and recovery | `indexer/index.go`, `rebuild.go`, `operator/purge.go` |
| `IndexGenerationProofs` | whole generations after a crash, operations on the file that serves, generations that advance | |
| `AtomicSearch` | abstract: what a search promises, as if it took one instant | |
| `SemanticSearch` | how a session's search keeps that promise | `harness/session.go`, `retrieval/hybrid.go` |
| `SemanticSearchProofs` | exact snapshots, stores that outlive searches, for every instance | |
| `BoundedFifo` | the bounded first-in-first-out store of ghosts and shadows (entries, order, bytes, caps) | `memory/hierarchy.go` |
| `Hierarchy` | residents, pins, clock hand, sweep, ghosts, shadows, reconcile | `memory/hierarchy.go` |
| `HierarchyProofs` | sums over tables, and that what `Excess` names is enough; order, caps, accounts, estimators, second chances and verdicts; what a sweep reclaims, and that it ends | |
| `Embedder` | circuit breaker and single-flight document cache under concurrent calls | `embedder/supervised.go`, `cache.go` |
| `EmbedderProofs` | flights that have leaders, a breaker that agrees with itself | |
| `Coherence` | scopes, epochs, paths, bindings, eligibility and the records an event derives | `coherence/state.go`, `observers/` |
| `CoherenceProofs` | the standing of bindings under every event, cascades, revalidation, round trips; generations are tokens | |
| `Scheduler` | composes `Coherence` with the residents, pins and capsule that follow it | `scheduler/scheduler.go`, `faults/resolver.go` |
| `SchedulerProofs` | only the eligible is served, pins are anchors | |
| `MC*` | small instances, and the constants TLC needs | |

**How the modules compose.**  `Scheduler` extends `Coherence`: each of its
actions is a transaction of `Coherence` and what follows it.  The others meet at
one module's promise taken as another's assumption: `SemanticSearch` takes the
index to be a number of events taken, which `IndexMaintenance` refines
(`WarmIndex`) and `IndexAlwaysPrefix` proves; `DenseProjection` applies the
mutations of `WarmPages`; `Scheduler` lets any unpinned page be reclaimed, which
includes whatever the sweep of `Hierarchy` picks, as `SweepsReclaimOnlyExcess`
proves; `DenseProjection` and
`SemanticSearch` let the embedder answer, fail or (the latter) never answer,
which includes everything `Embedder` does.

### IndexMaintenance

Two threads.  The *foreground* is whoever holds `appendMu`: `OpenSession`
while it replays, then one `Append` at a time; `fpc = "idle"` is the free
lock.  The *worker* is `indexMaintenanceWorker`; `wpc` is where it stands
between two critical sections of `maintenanceMu`.  Every critical section, and
every transaction of a store, is one action:

| Code | Actions |
|---|---|
| `Append`, `enqueueIndexMaintenance`, `wakeIndexMaintenance` | `AppendEvent`, `DeriveFails`, `SkipIndex`, `Enqueue`, `CompileFails`, `WakeWorker`, `SyncIndex` |
| `replay`, `indexAfterEvent`, `repairIndexFromLedger` on the foreground | `ReplayNext`, `ReplayFails`, `IndexNothing`, `IndexNext`, `IndexNeedsRepair`, `ForegroundRepairStep`, `ForegroundRepairEnds` |
| the worker's loop, drain, repair, apply, error paths and backoff | `WorkerWakes`, `DrainChooses`, `RepairBegins`, `RepairLists`, `RepairApplies`, `RepairCompletes`, `RepairFilters`, `RepairFails`, `ClearReconciling`, `MarkRepair`, `UnitApplies`, `UnitGap`, `MarkGap`, `UnitFails`, `UnitPops`, `RecordError`, `RecordOK`, `WorkerClearsErr`, `WorkerSetsErr`, `WorkerRetries`, `WorkerStops` |
| `OpenSession`, `Close`, a crash | `OpenSession`, `OpenReturns`, `CloseBegins`, `CloseCancels`, `CloseReturns`, `Crash` |

A page of the index is "no row", or the version and status its last mutation
left.  `IsReplayOf` says the same of a ledger prefix directly: each page is
what the *last* event of the prefix that touches it left.  The index's own
rule (an upsert never goes back, an invalidation has no version guard) is
`ApplyMutations`; that the two agree is what has to be shown.

### Hierarchy

Every operation runs under `mu` and is one action, except the two that take
several steps: the sweep, one scan of the clock hand at a time with the lock
held, and `Reconcile`, which lists the residents under the lock, evaluates
them without it, and applies each verdict under it.  A page is its exact
tuple (id, version), the size of its metadata and of its body, and whether it
is stale.  The number of uses of a resident is capped at 2, the threshold that
promotes it.

### Embedder

Calls of `EmbedDocuments`, `EmbedQuery` and `SelfCheck` interleave between the
locks they take: look up, claim flights, `allowBackend`, the backend itself,
finishing the flights, `recordSuccess`/`recordFailure`, waiting for others'
flights.  The clock is the flag `cooling`: whether the cooldown since the last
failure is still running.

### Coherence

One event is one transaction: `AfterEvent` runs it inside `WithCandidate`,
which replaces the snapshot only if the whole event succeeds.  The operators
map a snapshot to the next (`MarkStale`, `Bumped`, `EnterCommit`, `Bind`, ...)
and each event is one action that composes them in the code's order and
commits.  An event the code refuses is a disabled action.  What the observers
derive from an event (which record, with which gates, whether the newest task
is emitted again) is part of its action.

An event may name a branch and a commit of its own on its envelope, and its
bindings take those (`bindEvent`, `bindingForRecord`), entered before or not.  A
binding of a branch or a commit that the session has not been in has epoch 0
there, which `bindingMatchesCurrent` lets match the first entry.  `Envelopes` says
which an instance explores; an event that decides where the session is has to name
the current ones, or is refused.

### Scheduler

`AfterEvent`, `BeforeTurn` and `PageFault` hold `derivationMu` throughout, so
each is one action.  A resident is what `currentRecordPage` made of a record:
the descriptor of its binding then and the event its text came from.  After the
transaction come, in the code's order, `Reconciled`, `WithFailures` and
`SyncPinnedAnchors`; `AfterScopeChange` also drops the capsule, `AfterRecord`
does not.  A derivation that fails changes nothing here: the session stops.

### DenseProjection

The five tables (`map`, `rows`, `vec`, `shadow`, `suppressed`) are written by
operators that follow the statements of each transaction.  `wpc` is where the
worker is between two calls, none of which holds a lock across two of them:
`SelfCheck`, `MissingVectorPages`, `Embed`, `StoreBatch`, and for a batch with a
denied text `EmbedOne` for each.  A batch takes one new row a page it has no row
for, above every row there is, in the order the worker holds it: any order of a
set, which `RowsFor` leaves open.  `owed` is the append that has been applied and
has not sent its wake; `wake` is the channel's token.  `OpenSession` includes
what `ensureDenseTables` repairs of a generation written before the shadow table.

### IndexGeneration

A file is a database with its WAL, a name is bound to at most one, and a handle
keeps the file it opened whatever happens to the name.  One `Open` or `Rebuild`
has the lease alone and `xpc` follows it through every call of the file system;
each may fail, and `NewProcess` cuts it anywhere.  Operations share the lease
(`BeginOperation`, `EndOperation`); `Rebind` is what they do first.

### SemanticSearch

Each critical section of `appendMu`, each transaction of the index, each channel
goroutine's answer and each decision of `ResolveSemantic` is an action of the
call that makes it.  Every derived event raises the revision of coherence and
the last append sequence by one, so that one number stands for both, and an
event is told apart by the pages it compiles, makes ineligible, or leaves with
another text than they were compiled from.  `Atomic!Spec` is checked with the
corpus that could be served at that instant, and with the sequence that the
attempt under way has captured as its look.  An attempt that an event overtakes is
`Retry`: it starts over, or, if it was the last, ends in `ScopeMiss`
(`semanticScopeMiss`).

## 3. What the runs show

| Run | Instance | Shows |
|---|---|---|
| `index_maintenance` | 2 pages, queue of 1, 3 events, 2 failures, 2 sessions, each of either mode | the index is a prefix; nothing stranded; quiescence is clean; status honest but for one window; `IndexErr` covers every lag; refinement of `WarmIndex`; under fairness every append is indexed and `Close` returns |
| `index_status_window` | 1 event kind, 3 events, 1 failure | **violation**: see findings |
| `hierarchy_residency` | 3 pages with metadata of 1 or 2, 2 places, 4 bytes, 1 pin | accounts, caps, order and hand; easy victims leave first; an emptied body is a miss |
| `hierarchy_estimators` | 2 ids x 2 versions x 2 namespaces, 1 place, ghosts and shadows at their caps, horizon 1 | no hint outlives a version; each trial settles once; verdicts meet their page |
| `embedder` | 3 calls, batches in reversed orders, cache of 1, threshold 2 | one leader a key, no orphan flight and no waiter that owns one; breaker consistent under late answers; every call returns; half open ends |
| `coherence` | 4 events, 2 branches, 2 commits, 2 digests, a directory, a file in it and another path | lapsed means stale; generations are tokens; cascade complete; revalidation repairs all; terminal unless emitted again |
| `coherence_task` | 4 events, tasks and branches | **violation** |
| `scheduler` | 4 events over 2 repositories, 2 branches and 2 commits, turns and faults, 2 residents, 1 pin | nothing lapsed is served; anchors are pinned; a change of scope revives nothing but what names a branch or a commit entered for the first time |
| `dense_projection` | 3 pages, batch of 2, 4 events, 2 failures, 2 sessions, one denied tuple | tables agree; vectors match their pages; quiescent means covered; the backlog drains |
| `index_generation` | 2 handles, 4 files, 3 configurations, 3 generations, 2 failures, 2 processes | recovery finds a whole generation; generations advance; numbered operations serve |
| `index_generation_rebind` | 1 failure, 1 process | **violation** |
| `semantic_search` | 1 call of 2 attempts, 3 pages, 3 events of 2 kinds, 1 failure, budget 4 | universe exact; searches are atomic (refinement of `AtomicSearch`, the miss of a search that was overtaken twice included); stores outlive searches; `Close` returns |

**Why the bounds are enough.**  A queue of one overflows on the second of two
appends that meet a busy worker; the third event is then the one that finds a
hole, or is queued during the repair.  Two failures allow a failure of the
apply and of the repair it causes, and two sessions a crash and a replay.  Two
pages let one event touch one page and leave the other.  Three pages for two
places make every admission evict, with one pin in the way and the hand at
every position; two metadata sizes make the refresh of a page in place grow and
shrink the accounts.  Two versions are needed for a verdict to miss its page,
two namespaces for a shadow to be replaced.  Three calls give a probe, a late
answer and a caller that waits; two keys in both orders give the cyclic wait.
Four events are a task, a capture, a move and a return or a revalidation, the
longest shape the hazards need.  `MCEnvelopes` lets a failing command name a
branch or a commit or neither, of those entered and of the others; a rename name a
commit; and a decision of branch scope, in the scheduler run, another branch.  The
coherence run has one repository and three
paths, so that a directory can be renamed away from over its file; the scheduler
run, whose steps are those of `Coherence`, has two repositories and one path, and
checks the round trips.  `Inputs` says which events may come first, second and so
on: an event that only derives a record ends nothing and is not explored as the
last one, and an avoidance, which may refer to every address, comes first or
second.  With two places and one pin a second anchor
is refused and a fault evicts.  A batch of two of three pages leaves one behind;
the denied tuple is a second version, so that the page is embedded before and
after it; four events replace and invalidate a page while its batch is out, and
two sessions give a rebuild and a projection without shadow rows between them.
Four files are one per name and one held by a stale handle; two failures are one
of the cutover and one of its undoing; three generations let two rebuilds meet.
Two attempts are the code's number; three pages are one that the words find, one
the vector finds and one both, with a budget of four that the first two use up.
A search is not affected by another one, except through `semanticWG`, so one call
is enough for what it answers.

Bounds are in the guards: `MaxEvents`, `MaxFaults`, `MaxOpens`
(`IndexMaintenance`), `MaxEvents` and `Inputs` (`Coherence`, `Scheduler`),
`MaxSeq`, `MaxFaults`, `MaxOpens` (`DenseProjection`), `MaxGen`, `MaxFaults`,
`MaxProcesses` (`IndexGeneration`), `MaxSeq`, `MaxFaults` (`SemanticSearch`); a
call of the embedder, or of the search, happens once.  Where an instance stops
at such a bound, or where a closed session is not opened again,
`CHECK_DEADLOCK FALSE` says so; the hierarchy's runs check deadlock.

Every property of a passing run has a mutant in `PROJECT.json`: a definition of
the model with a plausible mistake in it (`Bug_...`), under which TLC finds the
property violated.  Those operators are used nowhere else.

## 4. Fairness

* **Index maintenance.**  Weak fairness of each thread's steps: a goroutine
  that can run does.  The backoff of the worker is a timer.  Strong fairness
  where the worker takes `appendMu` (`setIndexErr`): appends may keep taking
  the lock, but Go's mutex hands it to a waiter that has starved for a
  millisecond.  Nothing makes a caller append, close or reopen; the transient
  failures are finitely many (`MaxFaults`), which is what "transient" means: a
  store that fails for ever keeps the index behind for ever.
* **Embedder.**  Weak fairness of each call's steps, the answer of the backend
  included: `callContext` gives every backend call a deadline.  Weak fairness
  of `CoolDown`: time passes.
* **Embedding worker.**  Weak fairness of the worker's own steps, of the wake
  that follows an application, and of the cancelled worker's stop.  Successes
  are among those steps and failures are not: it drains once failures stop,
  which `MaxFaults` bounds, unless one has parked it (`embeddingWorkerShouldRetry`).
* **Search.**  Weak fairness of a search's own steps, its channels, the
  cancellation that `Close` causes, and `Close` itself; none of the embedder,
  which may never answer.
* `Hierarchy`, `Coherence`, `Scheduler` and `IndexGeneration` state safety only.

## 5. What is proved

TLAPS checks these for every value of the constants that the modules' named
assumptions allow.  An invariant or action property named in the table is one the
runs check, and the theorem says that it holds always; only `SweepReclaims` and
`SweepShrinks`, which belong to the argument below, stand in `HierarchyProofs` itself.

| Module | Theorem | Says |
|---|---|---|
| `IndexMaintenanceProofs` | `TypeCorrect` | `TypeOK`, for any pages, events, mode, depth and bounds |
| | `IndexAlwaysPrefix` | the index is exactly the replay of the prefix its watermark names |
| | `RefinesWarmIndex` | every step of the session, seen from ledger and index, is a durable append, the next event taken in, a discard, or nothing |
| | `AppendsAreOwed` | `NothingStranded`: behind the ledger, a repair is owed or a queued unit reaches its head |
| | `SleepIsClean` | `QuiescentIsClean`: a worker that sleeps with no wake pending left no lag and no error |
| | `StatusTellsLag` | `StatusIsHonest`: no status reads as caught up while behind, outside the window of finding 1 |
| | `LagHasError` | `ErrCoversLag`: without the worker, an index that is behind has `IndexErr` |
| `HierarchyProofs` | `ResidentsStayInOrder` | `OrderIsResidents`: types; the order lists each resident once; the tiers divide them |
| | `CapsAreKept` | `CapsHold`: no cap is exceeded while the lock is free, so a sweep never returns `ErrCapacity` |
| | `AccountsAreSums` | `AccountsBalance`: every account kept by differences is the sum it stands for |
| | `MissesHaveNoBody` | `EmptiedBodiesMiss` |
| | `HintsAreExact` | `EstimatorsExact`: no ghost or shadow outlives a version of its page |
| | `TrialsAreCounted` | `ShadowsConserved`: every trial is pending or was counted once |
| | `SecondChances` | `EasyVictimsFirst` |
| | `VerdictsKeepToTheirPage` | `VerdictsMeetTheirPage` |
| | `SweepsReclaimOnlyExcess` | `SweepReclaims`: a sweep takes a page only while a cap is exceeded, one at a time and never a pin, alters none of those it leaves, and ends with the caps kept |
| | `SweepsEnd` | `SweepShrinks`: every scan that does not end the sweep lowers a measure that cannot fall for ever |
| | `RoomIsWhatPinsLeave` | `preflightCapacityLocked` of a new page that is not to be pinned, and that has bytes enough beside the pins, asks for a place beside them and for nothing else |
| | `ExcessFits` | once the keys `Excess` names have left, both caps hold |
| `EmbedderProofs` | `FlightsHaveLeaders` | `NoOrphanFlight`: every flight waited for has landed, or its leader will end it; nobody waits while it leads |
| | `BreakerAgrees` | `BreakerConsistent`: the probe's slot is taken exactly while half open |
| `DenseProjectionProofs` | `TablesAgree` | `ProjectionsAgree`: the five tables describe the same pages |
| | `VectorsAreCurrent` | `VectorsMatchPages`: a vector a query can meet is of what its page holds now |
| | `SleepMeansCovered` | `QuiescentMeansCovered`: the worker sleeps on a page without a vector only after a failure it has recorded, or with a wake pending |
| `IndexGenerationProofs` | `CrashesLeaveWhole` | `RecoveryFindsWhole`: wherever an open or a rebuild stops, the next open finds a whole generation |
| | `OperationsServeCurrent` | `NumberedOperationsServe`: an operation works on the file that serves |
| | `GenerationsOnlyAdvance` | `GenerationsAdvance` |
| `SemanticSearchProofs` | `SearchesKeepTheirStores` | `Close` closes no store under a search |
| | `UniversesAreExact` | a search's eligibility snapshot is exactly the eligible pages, as long as nothing was appended since it began |
| | `SearchesImplementAtomic` | `SearchesAreAtomic`: a search that reads three moving stores implements `AtomicSearch`, whose hits and misses are of one instant that nothing overtook, and which reports a miss for the scope only after an event overtook each look it may take |
| `CoherenceProofs` | `InvariantStands` | the invariant below: the standing of every binding between events, of those that name another branch or commit too |
| | `TypeCorrect` | `TypeOK` |
| | `LapsesAreStale` | `LapsedMeansStale`: what an event takes out of scope it takes the active status of |
| | `RoundTripsReviveNothing` | `ScopeChangesReviveNothing`: a change of scope makes live only what was live, is emitted again, or names a branch or a commit that had not been entered |
| | `RevalidationsHold` | `RevalidatedIsEligible`: what becomes active again is eligible, through all its refs |
| | `CascadesComplete` | `CascadeComplete`, at any distance and through cycles |
| | `EndsAreFinal` | `TerminalUnlessEmittedAgain` |
| | `EpochsAreTokens` | `GenerationsAreTokens`: no transition of coherence moves an epoch of a page's scope without moving the page's generation, and no generation goes back |
| `SchedulerProofs` | `FollowsCoherence` | `SchedulerSpec` implies `Spec` of `Coherence`, and so all of the above |
| | `OnlyTheEligibleIsServed` | `NothingLapsedIsServed`: neither the capsule nor a resident that answers speaks for what has lapsed |
| | `PinsAreAnchors` | `AnchorsArePinned`, for any quotas |

**Index maintenance.**  `IndexIsPrefix` is not inductive: a unit that was
queued before a repair took its event in is applied *again*, and an
invalidation has no version guard.  `IInv` adds the bookkeeping that makes this
harmless.  The queue holds units of the ledger in append order
(`QueueInOrder`); no unit in it is older than the watermark when the worker may
apply one (`FreshUnits`), which only fails to hold while a repair is under way or
due, and then the filter restores it before the worker looks at the queue
(`StaleUnitsGuarded`); a unit *at* the watermark may be there, because a repair
can list an event that is durable and not yet enqueued.  While the foreground
replays or repairs it is alone (`ForegroundAlone`), and what a repair listed is
in the ledger (`TargetListed`, `WatermarkInLedger`).  With it, three lemmas about the replay
carry the step: appending leaves a prefix's replay alone, applying the next
event extends it by one, and applying the last one again changes nothing.  The
refinement uses the same invariant, since `WarmIndex` only allows the next
event to be taken in.

The invariants about lag need a second one, `Health`, on top of it.  The worker's
place says what its flags, its queue and its index can be (`WorkerFlags`): it
reconciles exactly between `list` and `clear`, a repair stays needed from its
failure to its backoff, and the unit it is about to pop is in the index.  A worker
that is about to sleep has nothing to do unless the token is there or an append is
about to put it there (`AsleepIsIdle`), which is what makes one token enough.
`LagIsOwed` and `ErrIsOwed` are the two debts, a lag and an error; each is stated
from the moment the append has handed its event over, because before that the debt
is the foreground's.  `WorkerFlags` includes that `parked` is never set: the worker
parks on a closed index, and nothing closes the index before the worker is joined.

**Hierarchy.**  The invariant is a conjunction of one part for each structure.
`Residents` says that the order, the two tiers and the three accounts are
functions of the table, and each operator that writes the table is shown to keep
them by stating the *difference* it makes (`Rewrites`, `Adds`, `Drops`); the sums
are cardinalities of sets of units, so that a sum changes by what one entry
changes (`TotalWith`, without induction over the table).  `CapsHold` is the
deep one.  While the lock is held by a sweep the residency is over its caps, and
what has to be shown is that the budget of the scan cannot end before a victim is
found.  `Due` is what each unpinned resident costs at most: its distance from the
hand, one more round if it is hot and one more if its reference bit is set.
`Affords` says the budget that is left covers every one of them; a step of the hand
spends one unit and brings it one closer to all but the resident it leaves, whose
round was paid for by the bit or the heat it lost.  That there is an unpinned
resident at all follows from `PinsFit` and the policy's caps (`SomeoneCanGo`): what
is pinned alone cannot exceed the capacity.  `EasyAhead` is the same hand seen by
fairness: what could be reclaimed when the sweep began is still nearer to it than
what the sweep has worn down.  Ghosts and shadows are tables of `BoundedFifo`;
`Exactly` ties a ghost to the version of its resident, and the pending trials are
counted as a set.

Liveness is out of the prover's reach, but not the measure it would rest on.  A
scan that leaves the sweep going lowers, in this order, the number of residents,
whether the budget has had a victim, and what is left of the budget
(`SweepsEnd`): the loop of `enforceResidentCapacityLocked`, which renews its own
budget, comes to an end.  What `Scheduler` puts in place of the hierarchy is proved
of it as well, where every page has the same size and the bytes suffice:
`Reclaimed` (as few pages go as must, none of them pinned, and the rest stay as they
are) is `SweepsReclaimOnlyExcess` taken from the first scan to the last, and
`HasRoom` is `RoomIsWhatPinsLeave`.

**Embedder.**  `NoOrphanFlight` follows from four parts: a key has one flight, what a
call leads is under way and is its own, every flight is led, and what is followed is
under way or has landed.  A call leads only from its claim to the end of its batch
(`Led`), so that a call that waits leads nothing, whatever order the batches name
their keys in: that, and not an order of the keys, is why there is no cyclic wait.

**Dense projection.**  `Sound` says of the five tables that vectors, rows and shadows
are functions of the map and that no page is both mapped and suppressed; `Complete`,
that every row is owned, holds from the repair in `OpenSession` on, and `Matches`
ties the map and the suppressions to what the pages hold.  Rows are
numbers above all there are, so that the map stays injective (`RowsAreFresh`,
`TopIsAbove`).  For the worker, `Waking` says at each of its places what a missed
event could have changed: the batch in hand is of current pages, or nothing is
missing, *or a wake is pending or owed*.  The append sets the debt in the step in which
it changes the pages, and pays it with the token, which the worker takes only where
it will list again.

**Index files.**  `RecoveryFindsWhole` is about one instant, the crash; the
invariant is about every instant.  The names are bound to different files
(`NamesApart`); each place of an open or a rebuild says which names are bound and
which handles are closed (`Steps`); what the rebuild made is whole and carries the
next number once it has been validated (`RebuiltIsReady`); a file that is not whole
can only have the rebuild's name, and then another one serves (`PartialIsRebuild`).
`Numbered` ties the lease's number to the file: a handle that has the lease's number
has the file that serves, with the two accidents of finding 3 excepted.

**Coherence.**  The invariant `IInv` says of each binding that it `Stands`: it has
the shape of its gates, its epochs are at or behind the clock, and *if it is active*
and speaks of a branch of the current repository, it `Abides`: it matches the current
scope as it is now, or it names another branch or another commit and has the epochs
these have now (`Awaits`; 0 for one that was never entered); and what was bound before
the first task is not active after it (`Known`).  `Abides` is what makes the marking
complete: a change of scope only looks at the bindings of the scope it leaves, so one
that was active elsewhere must already be known to be caught when that scope is
entered again.  An entry draws a new epoch, which what `Awaits` it cannot have unless
it has none (`EnterCommitDraws`): such a binding is made stale, and the ones without
an epoch are the exception that `ScopeChangesReviveNothing` makes.  The ids of each
kind are the first ones (`Numbered`), which is why a record's new id is new.

What a transaction may do is one relation on snapshots, `Step`: an old binding is
`Turned` (left alone if it still holds, made stale, emitted again, or revalidated with
all its refs eligible), or it is in a set of ended ones, and that set is `Closed`
under refs and evidence.  `NextSteps` shows of each event that it is such a
transaction; `StepKeeps` and the five action properties follow from `Step` without
looking at events again.  Two of its parts are searches.  `Eligible` and `Dependents`
iterate a rule as often as there are bindings, and what is needed is that they
settle: `RoundsSettle` says of any monotone rule over a finite set that after so many
rounds nothing is added, because each round that adds something adds at least one
(`RoundsExist` makes the rounds, and both argue by a least counterexample).  Renames
and path invalidations need that overlap is symmetric, that being below is
transitive and that two paths which a third lies below overlap (`OverlapSymmetric`,
`WithinTransitive`, `WithinBoth`), hence `PathsAssumption`: paths are sequences of
names; decisions need `ScopesAssumption`, the five scopes an event may declare
(`ledger/events.go:169`).

Generations: a page's generation is the maximum of its branch, commit and path
epochs, so an epoch could move in the shadow of a larger one.  It cannot, because
all are drawn from one clock.  The proof states this as a relation on snapshots,
`Advances`: an epoch is what it was, or greater than *every* epoch there was.  The
relation is transitive and each operator a transition is made of satisfies it (the
bulk one, `Bumped`, by the cardinality of the paths up to each path, which needs
`PathOrderAssumption`); `Step` includes it, and a step of it cannot keep the maximum
and change a component.

**Scheduler.**  Its steps are steps of `Coherence`, so `IInv` is there.  `SInv` adds
what the residents are: each is typed, one that is not stale describes its binding as
it is now (`Answers`), the pins are within the quota and are the anchors' current
pages (`PinsOK`).  Three facts carry the step.  An event that only derives a record
takes no eligibility away (`RecordKeepsEligible`): its transaction only `Grows` the
bindings, and what it emits again is in scope.  That is why the capsule may outlive
it.  The task and the constraints are gated by repository and task only (`OfTask`, a
part of `IInv`), so their pages have epoch 0 and no anchor is ever refused for another
tuple: `syncPinnedAnchors` has only the quota to refuse by.  And the first *n* of a
finite ordered set are *n*, or all (`FirstCounts`), so the pins it grants use the quota
up or leave no anchor out.  A fault moves no pin, because a pinned page answers.

**Search.**  A step of a search either returns (`Ends`) or leaves the call with
a new record of what it knows (`Tells`), so `SearchInv` is a statement about one
such record (`Sound`), shown step by step of the record a call is left with, plus
the count of the calls (`Counted`).  `UniverseExact` is not inductive: what was
asked of coherence is about rows that may already be replaced.  `Exact` therefore
says, of an attempt to which nothing was appended, that the pages asked so far
are answered exactly as of the rows *listed* (`Asked`, extended page by page by
`AskedOne`); only `Relock`, which sees three equal reads that are also the last
event (`Undisturbed`), turns that into a statement about the ledger.  An append
makes the captured sequence an old one, and the statement vacuous, for good.
`StoresOutliveSearches` rests on `Counted`: after `Close`'s wait no call is under
way, and none begins once the phase has left `open`.

The refinement needs a second invariant, `AnswerInv`, on top of it.  What a call
`Knows` is void once something has been appended, because every answer but a failure
and the scope's miss is given under the lock after the sequence has been compared
(`Authority`).  Until then
the index stands at the last event: it is at least where the attempt read it and
has nothing left to take.  So what each channel `Reported` is exactly, or within, the
matches of the snapshot; no two versions of a page are found (`AgreedAll`); and the
ranking is all of them (`RankingsCover`).  `Evidence` says of the selection that it is
relevant, intact, diverse and within the budget, which makes it servable
(`ServedReturnable`).  The other half is the miss: *if nothing is chosen and nothing
went wrong, everything that has to be found is still in the queue and the budget is
whole*.  A candidate leaves the queue for three reasons, and each is shown not to
break it: it is not diverse, which one page alone always is (`AloneIsDiverse`); it
cannot be materialised, and then it does not have to be found (`FindableIs`); or it
does not fit, which a roomy page always does with a whole budget.  `RenderIs` proves
the last from the arithmetic of the shares: two words for each record that is left
remain after each record (`ShareIs`, `ReadRecordIs`, `RecordByRecord`).  An append is
a `Change` of the abstract search, and the index catching up is invisible to it.
`PagesAssumption` makes the pages a finite set, for the rankings.

**About the proofs.**  The library's induction theorems take an operator as a
parameter, which the provers here cannot instantiate.  Where an argument is by
induction on a number or a finite set it is made with a least counterexample: the
set of the sizes at which the statement fails, if it is not empty, has a minimum.
The models are written for it: sums and ranks are cardinalities, and a choice the
code makes in the order of a map or a query is a choice.

**Model-checked only.**  All liveness (fairness and `ENABLED` are beyond the
prover): `EveryAppendIndexed`, `CloseCompletes`, `EveryCallReturns`, `ProbeDecides`,
`BacklogDrains`, `CloseReturns`.  Every safety property of a passing run, the
refinements included, is a theorem.

## 6. Findings

1. **Status window** (`index_status_window`; `harness/session.go:1069`).  A
   failed repair is recorded by `clearReconciling` and `markMaintenanceRepair`
   in two critical sections.  A status read between them sees neither a pending
   nor a running repair: the index reads as caught up while it is behind.
2. **Terminal task** (`coherence_task`; `coherence/state.go:184`).  An
   invalidated task record is bound as active again when the next change of
   branch or commit makes the staleness observer emit it.
3. **Undone rebuild** (`index_generation_rebind`; `indexer/rebuild.go:228`).  A
   rebuild that fails at `initDense` puts the previous file back and keeps the new
   number; after the next rebuild by another handle the first one does not
   rebind, and works on the superseded file.

Observations without a run of their own:

* *Index maintenance.*  A replay whose last event fails to index opens the
  session behind its ledger with no repair asked for (`session.go:372`); it is
  reported in `IndexErr` and stays so until the next append.
* *Hierarchy.*  When every other unpinned resident is hot, the sweep demotes them
  and can evict the page it was run for (`hierarchy.go:1306`); `AdmitDemand` still
  returns nil.  A page that is evicted again keeps the place of its old ghost.
* *Embedder.*  With a cooldown shorter than the deadline, a late failure frees the
  probe's slot and two probes run at once.  The branches of `allowBackend` for
  "open with a probe" and "half open without one" are never taken
  (`BreakerConsistent`).  The caller's own cancellation counts as a failure of the
  backend, and a follower inherits its leader's.
* *Coherence.*  A change of branch leaves the paths of the branch alone, so that
  coming back at another commit finds a path active with the commit it had; a
  change of commit marks it stale.  Path invalidation takes along bindings on
  overlapping paths of any branch and repository.  A stale revision starts again
  at 0 with a new snapshot or binding, so one of an earlier staleness can match
  a later one; for a path the digest is compared as well.
* *Scheduler.*  Pins that still have their anchor are kept before new ones are
  granted, so with the quota full of constraints a task record that was
  invalidated and is emitted again may stay unpinned; the task is first only
  among new requests.  Anchors have epoch 0 and hence one tuple, so `Pin` never
  meets another version of one.
* *Index files.*  A failure to drop the old backup (`rebuild.go:188`) leaves the
  handle without a database: its operations return `ErrClosed` from then on.  When
  the rename that undoes a cutover fails too, `openDB` makes an empty `warm.db`,
  whose existence lets the next `Open` delete the backup.  A purge stopped half
  way after a crashed rebuild can leave only the unfinished rebuild, which `Open`
  promotes, although `rebuild.go:42` says it is never served.  The history
  variable `accidents` exempts these, and only these.
* *Search.*  A channel goroutine outlives a cancelled search, so the join in
  `Close` (comment at `session.go:1245`) does not cover it; it is safe because
  `Close` of the index takes its lock and later reads find no database.  A page
  whose cited record changes without the page being compiled again stays active
  and eligible and never materialises.  The budget of a search is charged for
  pages that fail to materialise while the resolver's own count is not, so that
  with a budget below twice its records a long page can starve a later one.
  `AtomicSearch` states its miss with that exception (`Roomy`).  A search whose
  last attempt an event overtakes returns the same `ErrSemanticPageMiss` as one that
  found nothing (`session.go:1752`; `semantic_test.go:427` asserts it), although the
  page may be there: only the trace tells, by its abstention "scope".  `AtomicSearch`
  has it as an answer of its own (`Abstain`), and `Miss` keeps its meaning.

## 7. Not modelled, and the plan

**Left out of the modules there are.**  Hierarchy: L0 keys and L1 text (plain
assignments), trace and metrics.  Embedder: `Health` and its reasons, admission
policy, namespaces, vectors, the HTTP client.  Coherence: `Prepare`/`Commit`
(tests and dry runs), task ids given by a caller, page records (no observer
emits one), events whose envelope names another repository or another task than the
session's, `InvalidReason` and `RawAllowed`, paths found in a command's
output, the exhaustion of 64-bit clocks (the code saturates).  Index
maintenance: what a page is compiled to.  Scheduler: sizes and which page the
clock reclaims (`Hierarchy`), soft constraints, the capsule's token budget, and
the order of constraint names as strings (`C10` before `C2`; by number here).
Dense projection: vectors and distances, reasons and delays, `DeleteVector`
(no caller), tables of an index without a namespace; a rebuild happens between
sessions.  Index files: WAL sidecars one by one, an `Open` for another namespace
while a handle is open, reuse of a process id in the lock file.  Search: byte,
reference and attempt limits of the budget, the limit of 20 candidates, scores
and ranks, a change of generation or handle during the search (the code refuses
and reports it), admission to residency and its shadows, a session without an
index.

**Left out for good.**  Text and arithmetic: retrieval scoring, parsers and
serializers of the working state, the renderer, the terminal UI, configuration,
demonstrations, the HTTP plumbing.  Artifacts: blobs are content-addressed,
written before the event that names them and never deleted, so no state relates
to another.

**Planned, in this order.**

1. `PiRpc`: requests, answers, timeouts and the failure of the transport.  To
   look at: `Close` is said to fail every request in flight, but the reader that
   does it may be blocked on a full events channel, and `send` holds its lock
   while it writes to the pipe.
2. `Scheduler` over the detailed `Hierarchy`, in place of the abstract residents.
3. Proofs: that composition, over the invariants `IInv` of the hierarchy's proofs
   and `SInv` of the scheduler's.

## 8. Running it

From this directory: `tlc -config IndexMaintenance.cfg MCIndexMaintenance`
(each `.cfg` belongs to the `MC` module of its prefix), and `tlapm M.tla` for each of
`IndexMaintenanceProofs`, `HierarchyProofs`, `EmbedderProofs`,
`DenseProjectionProofs`, `IndexGenerationProofs`, `SemanticSearchProofs`,
`CoherenceProofs` and `SchedulerProofs`.
