--------------------------- MODULE IndexMaintenance ---------------------------
(***************************************************************************)
(* How a session keeps the warm index behind its ledger: Append's call     *)
(* into the index, the asynchronous maintenance worker with its bounded    *)
(* queue and ledger repair, Close, crash and the replay of OpenSession     *)
(* (internal/harness/session.go, internal/indexer/apply.go).               *)
(*                                                                         *)
(* There are two threads.  The foreground thread is whoever holds          *)
(* appendMu: OpenSession while it replays, then one Append at a time; fpc  *)
(* is "idle" exactly when the lock is free.  The worker is                 *)
(* indexMaintenanceWorker; wpc is where it is between two critical         *)
(* sections of maintenanceMu.  Any store operation may fail, at most       *)
(* MaxFaults times.                                                        *)
(***************************************************************************)
EXTENDS WarmPages, SequencesExt

CONSTANTS
    Modes,        \* the values of cfg.AsyncMaintenance sessions are opened with
    QueueDepth,   \* maintenanceQueueDepth
    MaxEvents,    \* bound: durable events
    MaxFaults,    \* bound: transient failures of stores, compiler, derivation
    MaxOpens      \* bound: calls of OpenSession

ASSUME ModesAssumption == Modes \subseteq BOOLEAN
ASSUME QueueDepthAssumption == QueueDepth \in Nat \ {0}
ASSUME BoundsAssumption ==
    MaxEvents \in Nat /\ MaxFaults \in Nat /\ MaxOpens \in Nat

VARIABLES
    ledger,       \* durable: L4 events in append order
    watermark,    \* durable: index_watermarks.last_source_seq
    pages,        \* durable: warm_pages
    phase,        \* of the session: "closed", "opening", "open", "closing"
    index,        \* Session.Index: "none", "open" or "closed"
    async,        \* AsyncMaintenance of this session
    failStop,     \* failStopErr # nil
    openHead,     \* length of the ledger when this session opened
    cursor,       \* the event the foreground thread is indexing
    fpc,          \* the foreground thread
    indexErr,     \* IndexErr # nil
    queue,        \* maintenanceQueue
    needsRepair,  \* maintenanceNeedsRepair
    reconciling,  \* maintenanceReconciling
    maintErr,     \* maintenanceErr # nil
    parked,       \* maintenanceParked
    wake,         \* maintenanceWake holds its one token
    cancelled,    \* Close has called maintenanceCancel
    wpc,          \* the worker
    target,       \* last event of the ledger listing the worker repairs from
    faults,       \* failures so far
    opens         \* sessions opened so far

durable   == <<ledger, watermark, pages>>
lifecycle == <<phase, index, async, openHead, opens>>
surface   == <<indexErr, maintErr, parked>>
flags     == <<needsRepair, reconciling>>
workload  == <<queue, wake>>
vars == <<ledger, watermark, pages, phase, index, async, failStop, openHead,
          cursor, fpc, indexErr, queue, needsRepair, reconciling, maintErr, parked,
          wake, cancelled, wpc, target, faults, opens>>

LedgerHead == Len(ledger)

Units == [seq : Nat, event : Events]

FgPcs == {"idle", "durable", "index", "repair", "wake"}
WorkerPcs == {"none", "wait", "drain", "apply", "pop", "markGap", "begin",
              "list", "rebuild", "filter", "clearErr", "clear", "mark", "fail",
              "setErr", "backoff", "recordOK", "done"}

StoresTyped ==
    /\ ledger \in Seq(Events)
    /\ watermark \in Nat
    /\ pages \in [Pages -> PageStates]

ControlTyped ==
    /\ phase \in {"closed", "opening", "open", "closing"}
    /\ index \in {"none", "open", "closed"}
    /\ fpc \in FgPcs
    /\ wpc \in WorkerPcs
    /\ {openHead, cursor, target, faults, opens} \subseteq Nat
    /\ queue \in Seq(Units)

FlagsTyped ==
    /\ failStop \in BOOLEAN
    /\ async \in BOOLEAN
    /\ indexErr \in BOOLEAN
    /\ needsRepair \in BOOLEAN
    /\ reconciling \in BOOLEAN
    /\ maintErr \in BOOLEAN
    /\ parked \in BOOLEAN
    /\ wake \in BOOLEAN
    /\ cancelled \in BOOLEAN

TypeOK == StoresTyped /\ ControlTyped /\ FlagsTyped

-----------------------------------------------------------------------------
(* Shared steps.                                                           *)

\* Watermark: a session without a row has indexed nothing.
Bug_NoWatermark == -1
NoWatermark == 0

FreshMemory ==
    /\ failStop' = FALSE
    /\ cursor' = 0
    /\ fpc' = "idle"
    /\ queue' = <<>>
    /\ needsRepair' = FALSE
    /\ reconciling' = FALSE
    /\ maintErr' = FALSE
    /\ parked' = FALSE
    /\ wake' = FALSE
    /\ cancelled' = FALSE
    /\ wpc' = "none"
    /\ target' = 0

Init ==
    /\ ledger = <<>>
    /\ watermark = NoWatermark
    /\ pages = EmptyIndex
    /\ phase = "closed"
    /\ index = "none"
    /\ async = FALSE
    /\ failStop = FALSE
    /\ openHead = 0
    /\ cursor = 0
    /\ fpc = "idle"
    /\ indexErr = FALSE
    /\ queue = <<>>
    /\ needsRepair = FALSE
    /\ reconciling = FALSE
    /\ maintErr = FALSE
    /\ parked = FALSE
    /\ wake = FALSE
    /\ cancelled = FALSE
    /\ wpc = "none"
    /\ target = 0
    /\ faults = 0
    /\ opens = 0

Fault == faults < MaxFaults /\ faults' = faults + 1

\* ApplyWithWatermark refuses to leave a hole.
Bug_IsGap(seq) == seq > watermark + 2
IsGap(seq) == seq > watermark + 1

\* ApplyWithWatermark commits the event's mutations and the watermark in one
\* transaction; the watermark only moves forward.
ApplyWithWatermark(event, seq) ==
    /\ index = "open"
    /\ ~IsGap(seq)
    /\ pages' = ApplyMutations(pages, event, seq)
    /\ watermark' = IF seq >= watermark THEN seq ELSE watermark
    /\ UNCHANGED ledger

-----------------------------------------------------------------------------
(* The foreground thread: OpenSession's replay and Append, under appendMu. *)

\* Append: the event is durable before anything is derived from it.
AppendEvent(e) ==
    /\ phase = "open" /\ ~failStop /\ fpc = "idle"
    /\ LedgerHead < MaxEvents
    /\ ledger' = Append(ledger, e)
    /\ fpc' = "durable"
    /\ UNCHANGED <<watermark, pages, lifecycle, failStop, cursor, surface,
                   workload, flags, cancelled, wpc, target, faults>>

\* Scheduler.AfterEvent fails: the session refuses every later operation.
DeriveFails ==
    /\ fpc = "durable"
    /\ Fault
    /\ failStop' = TRUE
    /\ fpc' = "idle"
    /\ UNCHANGED <<durable, lifecycle, cursor, surface, workload, flags,
                   cancelled, wpc, target>>

\* No index: Append returns without maintaining anything.
SkipIndex ==
    /\ fpc = "durable" /\ index = "none"
    /\ fpc' = "idle"
    /\ UNCHANGED <<durable, lifecycle, failStop, cursor, surface, workload,
                   flags, cancelled, wpc, target, faults>>

\* enqueueIndexMaintenance: a full queue never blocks, it asks for a repair.
Enqueue ==
    /\ async /\ fpc = "durable" /\ index = "open"
    /\ IF Len(queue) >= QueueDepth
       THEN needsRepair' = TRUE /\ UNCHANGED queue
       ELSE /\ queue' = Append(queue, [seq |-> LedgerHead, event |-> ledger[LedgerHead]])
            /\ UNCHANGED needsRepair
    /\ fpc' = "wake"
    /\ UNCHANGED <<durable, lifecycle, failStop, cursor, surface, reconciling,
                   wake, cancelled, wpc, target, faults>>

\* enqueueIndexMaintenance: the event does not compile (its reads of the
\* ledger or of artifacts failed, or the caller's context ended).
CompileFails ==
    /\ async /\ fpc = "durable" /\ index = "open"
    /\ Fault
    /\ indexErr' = TRUE
    /\ needsRepair' = TRUE
    /\ fpc' = "wake"
    /\ UNCHANGED <<durable, lifecycle, failStop, cursor, maintErr, parked,
                   workload, reconciling, cancelled, wpc, target>>

\* wakeIndexMaintenance: a full channel already holds the token.
WakeWorker ==
    /\ fpc = "wake"
    /\ wake' = TRUE
    /\ fpc' = "idle"
    /\ UNCHANGED <<durable, lifecycle, failStop, cursor, surface, queue, flags,
                   cancelled, wpc, target, faults>>

\* Synchronous mode hands the event to indexAfterEvent.
SyncIndex ==
    /\ ~async /\ fpc = "durable" /\ index = "open"
    /\ cursor' = LedgerHead
    /\ fpc' = "index"
    /\ UNCHANGED <<durable, lifecycle, failStop, surface, workload, flags,
                   cancelled, wpc, target, faults>>

\* replay: AfterEvent accepts the next durable event, then it is indexed.
ReplayNext ==
    /\ phase = "opening" /\ fpc = "idle" /\ cursor < LedgerHead
    /\ cursor' = cursor + 1
    /\ fpc' = IF index = "open" THEN "index" ELSE "idle"
    /\ UNCHANGED <<durable, lifecycle, failStop, surface, workload, flags,
                   cancelled, wpc, target, faults>>

\* replay: AfterEvent fails, and OpenSession closes what it opened.
ReplayFails ==
    /\ phase = "opening" /\ fpc = "idle" /\ cursor < LedgerHead
    /\ Fault
    /\ phase' = "closed"
    /\ index' = IF index = "open" THEN "closed" ELSE index
    /\ UNCHANGED <<durable, async, openHead, opens, failStop, cursor, fpc, surface,
                   workload, flags, cancelled, wpc, target>>

\* indexAfterEvent, the watermark being read: fails, or the event is already
\* indexed (IndexErr keeps what it held).
Bug_IndexNothing ==  \* the error of reading the watermark is swallowed
    /\ fpc = "index"
    /\ (cursor <= watermark /\ UNCHANGED faults) \/ Fault
    /\ fpc' = "idle"
    /\ UNCHANGED <<durable, lifecycle, failStop, cursor, surface, workload,
                   flags, cancelled, wpc, target>>
IndexNothing ==
    /\ fpc = "index"
    /\ \/ /\ cursor <= watermark
          /\ UNCHANGED <<indexErr, faults>>
       \/ /\ Fault
          /\ indexErr' = TRUE
    /\ fpc' = "idle"
    /\ UNCHANGED <<durable, lifecycle, failStop, cursor, maintErr, parked,
                   workload, flags, cancelled, wpc, target>>

\* indexAfterEvent: the next event is applied as it is.
IndexNext ==
    /\ fpc = "index" /\ cursor = watermark + 1
    /\ ApplyWithWatermark(ledger[cursor], cursor)
    /\ indexErr' = FALSE
    /\ fpc' = "idle"
    /\ UNCHANGED <<lifecycle, failStop, cursor, maintErr, parked, workload,
                   flags, cancelled, wpc, target, faults>>

\* indexAfterEvent: there is a hole before the event, or it does not compile
\* or apply; repairIndexFromLedger starts.
IndexNeedsRepair ==
    /\ fpc = "index"
    /\ \/ cursor > watermark + 1 /\ UNCHANGED faults
       \/ cursor = watermark + 1 /\ Fault
    /\ fpc' = "repair"
    /\ UNCHANGED <<durable, lifecycle, failStop, cursor, surface, workload,
                   flags, cancelled, wpc, target>>

\* repairIndexFromLedger on the foreground thread: nobody appends meanwhile,
\* so its listing of the ledger ends at the head.
ForegroundRepairStep ==
    /\ fpc = "repair" /\ watermark < LedgerHead
    /\ ApplyWithWatermark(ledger[watermark + 1], watermark + 1)
    /\ UNCHANGED <<lifecycle, failStop, cursor, fpc, surface, workload, flags,
                   cancelled, wpc, target, faults>>

ForegroundRepairEnds ==
    /\ fpc = "repair"
    /\ \/ watermark = LedgerHead /\ indexErr' = FALSE /\ UNCHANGED faults
       \/ Fault /\ indexErr' = TRUE
    /\ fpc' = "idle"
    /\ UNCHANGED <<durable, lifecycle, failStop, cursor, maintErr, parked,
                   workload, flags, cancelled, wpc, target>>

-----------------------------------------------------------------------------
(* The worker.                                                             *)

Goto(from, to) == wpc = from /\ wpc' = to

workerSame == <<lifecycle, failStop, cursor, fpc, cancelled>>

\* indexMaintenanceWorker sleeps until woken or cancelled; when both channels
\* are ready the select takes either.
WorkerWakes ==
    /\ wake
    /\ Goto("wait", "drain")
    /\ wake' = FALSE
    /\ UNCHANGED <<workerSame, durable, surface, queue, flags, target, faults>>

WorkerStops ==
    /\ cancelled
    /\ wpc \in {"wait", "drain", "backoff"}
    /\ wpc' = "done"
    /\ UNCHANGED <<workerSame, durable, surface, workload, flags, target, faults>>

\* drainIndexMaintenance looks at the flag and at the head of the queue.
DrainChooses ==
    /\ ~cancelled
    /\ \/ needsRepair /\ Goto("drain", "begin")
       \/ ~needsRepair /\ queue # <<>> /\ Goto("drain", "apply")
       \/ ~needsRepair /\ queue = <<>> /\ Goto("drain", "recordOK")
    /\ UNCHANGED <<workerSame, durable, surface, workload, flags, target, faults>>

\* recordMaintenanceOK, then back to sleep.
Bug_RecordOK ==  \* the recorded error outlives the recovery
    /\ Goto("recordOK", "wait")
    /\ UNCHANGED <<workerSame, durable, surface, workload, flags, target, faults>>
RecordOK ==
    /\ Goto("recordOK", "wait")
    /\ maintErr' = FALSE /\ parked' = FALSE
    /\ UNCHANGED <<workerSame, durable, indexErr, workload, flags, target, faults>>

\* The flag is cleared before the repair, so that an overflow during it asks
\* for another.
Bug_RepairBegins ==  \* the rebuild in flight is not marked
    /\ Goto("begin", "list")
    /\ needsRepair' = FALSE
    /\ UNCHANGED <<workerSame, durable, surface, workload, reconciling, target,
                   faults>>
RepairBegins ==
    /\ Goto("begin", "list")
    /\ needsRepair' = FALSE
    /\ reconciling' = TRUE
    /\ UNCHANGED <<workerSame, durable, surface, workload, target, faults>>

\* repairIndexFromLedger lists the events once; those appended later are not
\* part of this repair.
RepairLists ==
    /\ Goto("list", "rebuild")
    /\ index = "open" /\ ~cancelled
    /\ target' = LedgerHead
    /\ UNCHANGED <<workerSame, durable, surface, workload, flags, faults>>

RepairApplies ==
    /\ wpc = "rebuild" /\ ~cancelled
    /\ watermark < target
    /\ ApplyWithWatermark(ledger[watermark + 1], watermark + 1)
    /\ UNCHANGED <<workerSame, surface, workload, flags, wpc, target, faults>>

RepairCompletes ==
    /\ wpc = "rebuild" /\ ~cancelled
    /\ index = "open"
    /\ watermark >= target
    /\ Goto("rebuild", "filter")
    /\ UNCHANGED <<workerSame, durable, surface, workload, flags, target, faults>>

\* The filter of the queue: it is in append order, so the units the watermark
\* covers are its first k.
DropCoveredUnits ==
    \E k \in 0..Len(queue) :
        /\ \A i \in 1..Len(queue) : queue[i].seq <= watermark <=> i <= k
        /\ queue' = SubSeq(queue, k + 1, Len(queue))

\* Units the repair covered are dropped, later ones still apply in order.
Bug_RepairFilters ==  \* the queue keeps the units the repair covered
    /\ Goto("filter", "clearErr")
    /\ reconciling' = FALSE
    /\ UNCHANGED <<workerSame, durable, surface, workload, needsRepair, target,
                   faults>>
Bug_RepairClobbers ==  \* the flag is cleared after the repair, not before
    /\ Goto("filter", "clearErr")
    /\ DropCoveredUnits
    /\ reconciling' = FALSE /\ needsRepair' = FALSE
    /\ UNCHANGED <<workerSame, durable, surface, wake, target, faults>>
RepairFilters ==
    /\ Goto("filter", "clearErr")
    /\ DropCoveredUnits
    /\ reconciling' = FALSE
    /\ UNCHANGED <<workerSame, durable, surface, wake, needsRepair, target, faults>>

\* setIndexErr(nil) waits for appendMu.
Bug_WorkerClearsErr ==  \* Close keeps appendMu while it joins the worker
    /\ fpc = "idle" /\ phase # "closing"
    /\ Goto("clearErr", "drain")
    /\ indexErr' = FALSE
    /\ UNCHANGED <<workerSame, durable, maintErr, parked, workload, flags,
                   target, faults>>
WorkerClearsErr ==
    /\ fpc = "idle"
    /\ Goto("clearErr", "drain")
    /\ indexErr' = FALSE
    /\ UNCHANGED <<workerSame, durable, maintErr, parked, workload, flags,
                   target, faults>>

\* A store error, the cancellation of the worker's context, or ErrClosed.
WorkerOpFails ==
    IF index = "open" THEN Fault \/ (cancelled /\ UNCHANGED faults)
                      ELSE UNCHANGED faults

\* repairIndexFromLedger or the second reading of the watermark fails.
RepairFails ==
    /\ wpc \in {"list", "rebuild"} /\ wpc' = "clear"
    /\ WorkerOpFails
    /\ UNCHANGED <<workerSame, durable, surface, workload, flags, target>>

\* clearReconciling and markMaintenanceRepair are two critical sections.
ClearReconciling ==
    /\ Goto("clear", "mark")
    /\ reconciling' = FALSE
    /\ UNCHANGED <<workerSame, durable, surface, workload, needsRepair, target,
                   faults>>

\* A cancelled operation need not report context.Canceled.
MarkRepair ==
    /\ Goto("mark", "fail") \/ (cancelled /\ Goto("mark", "done"))
    /\ needsRepair' = TRUE
    /\ UNCHANGED <<workerSame, durable, surface, workload, reconciling, target,
                   faults>>

\* The head unit applies.  Only the worker pops, so it is still the head.
UnitApplies ==
    /\ Goto("apply", "pop")
    /\ ApplyWithWatermark(Head(queue).event, Head(queue).seq)
    /\ UNCHANGED <<workerSame, surface, workload, flags, target, faults>>

\* ErrWatermarkGap: reconcile from the ledger instead.
UnitGap ==
    /\ Goto("apply", "markGap")
    /\ index = "open" /\ IsGap(Head(queue).seq)
    /\ UNCHANGED <<workerSame, durable, surface, workload, flags, target, faults>>

MarkGap ==
    /\ Goto("markGap", "drain")
    /\ needsRepair' = TRUE
    /\ UNCHANGED <<workerSame, durable, surface, workload, reconciling, target,
                   faults>>

\* ErrClosed alone is not answered with a repair.
UnitFails ==
    /\ Goto("apply", IF index = "open" THEN "mark" ELSE "fail")
    /\ WorkerOpFails
    /\ UNCHANGED <<workerSame, durable, surface, workload, flags, target>>

UnitPops ==
    /\ Goto("pop", "clearErr")
    /\ queue' = Tail(queue)
    /\ UNCHANGED <<workerSame, durable, surface, wake, flags, target, faults>>

\* recordMaintenanceError: the status first, then IndexErr under appendMu.
RecordError ==
    /\ Goto("fail", "setErr")
    /\ maintErr' = TRUE
    /\ parked' = (index # "open")
    /\ UNCHANGED <<workerSame, durable, indexErr, workload, flags, target, faults>>

Bug_WorkerSetsErr ==  \* every failure parks the worker
    /\ fpc = "idle"
    /\ Goto("setErr", "wait")
    /\ indexErr' = TRUE
    /\ UNCHANGED <<workerSame, durable, maintErr, parked, workload, flags,
                   target, faults>>
WorkerSetsErr ==
    /\ fpc = "idle"
    /\ Goto("setErr", IF parked THEN "wait" ELSE "backoff")
    /\ indexErr' = TRUE
    /\ UNCHANGED <<workerSame, durable, maintErr, parked, workload, flags,
                   target, faults>>

WorkerRetries ==
    /\ Goto("backoff", "drain")
    /\ UNCHANGED <<workerSame, durable, surface, workload, flags, target, faults>>

-----------------------------------------------------------------------------
(* The life of a session.                                                  *)

\* OpenSession opens the stores.  indexer.Open replaces an incompatible index
\* by an empty one; a session whose index does not open does without.
OpenSession ==
    /\ phase = "closed" /\ opens < MaxOpens
    /\ opens' = opens + 1
    /\ phase' = "opening"
    /\ openHead' = LedgerHead
    /\ FreshMemory
    /\ async' \in Modes
    /\ UNCHANGED ledger
    /\ \/ /\ index' = "open" /\ indexErr' = FALSE
          /\ UNCHANGED <<watermark, pages, faults>>
       \/ /\ Fault
          /\ index' = "open" /\ indexErr' = FALSE
          /\ watermark' = NoWatermark /\ pages' = EmptyIndex
       \/ /\ Fault
          /\ index' = "none" /\ indexErr' = TRUE
          /\ UNCHANGED <<watermark, pages>>

\* The replay is over; startIndexMaintenanceWorker.
OpenReturns ==
    /\ phase = "opening" /\ fpc = "idle" /\ cursor = LedgerHead
    /\ phase' = "open"
    /\ wpc' = IF async /\ index = "open" THEN "wait" ELSE "none"
    /\ UNCHANGED <<durable, index, async, openHead, opens, failStop, cursor, fpc,
                   surface, workload, flags, cancelled, target, faults>>

\* Close: no operation starts once closed is set under appendMu.
CloseBegins ==
    /\ phase = "open" /\ fpc = "idle"
    /\ phase' = "closing"
    /\ UNCHANGED <<durable, index, async, openHead, opens, failStop, cursor, fpc,
                   surface, workload, flags, cancelled, wpc, target, faults>>

CloseCancels ==
    /\ phase = "closing" /\ ~cancelled
    /\ cancelled' = TRUE
    /\ UNCHANGED <<durable, lifecycle, failStop, cursor, fpc, surface, workload,
                   flags, wpc, target, faults>>

\* The worker is joined before the index closes.
WorkerJoined == wpc \in {"none", "done"}

CloseReturns ==
    /\ phase = "closing" /\ cancelled /\ WorkerJoined
    /\ fpc = "idle"
    /\ phase' = "closed"
    /\ index' = IF index = "open" THEN "closed" ELSE index
    /\ UNCHANGED <<durable, async, openHead, opens, failStop, cursor, fpc, surface,
                   workload, flags, cancelled, wpc, target, faults>>

\* The process dies: the ledger and the index survive, the session does not.
Crash ==
    /\ phase # "closed"
    /\ phase' = "closed"
    /\ index' = "closed"
    /\ FreshMemory
    /\ indexErr' = FALSE
    /\ UNCHANGED <<durable, async, openHead, opens, faults>>

-----------------------------------------------------------------------------
Foreground ==
    \/ DeriveFails \/ SkipIndex \/ Enqueue \/ CompileFails \/ WakeWorker
    \/ SyncIndex \/ ReplayNext \/ ReplayFails \/ IndexNothing \/ IndexNext
    \/ IndexNeedsRepair \/ ForegroundRepairStep \/ ForegroundRepairEnds
    \/ OpenReturns

LockedWorker == WorkerClearsErr \/ WorkerSetsErr

Worker ==
    \/ WorkerWakes \/ WorkerStops \/ DrainChooses \/ RecordOK \/ RepairBegins
    \/ RepairLists \/ RepairApplies \/ RepairCompletes \/ RepairFilters
    \/ RepairFails \/ ClearReconciling \/ MarkRepair \/ UnitApplies \/ UnitGap
    \/ MarkGap \/ UnitFails \/ UnitPops \/ RecordError \/ WorkerRetries
    \/ LockedWorker

Closing == CloseCancels \/ CloseReturns

Next ==
    \/ \E e \in Events : AppendEvent(e)
    \/ Foreground \/ Worker \/ Closing
    \/ OpenSession \/ CloseBegins \/ Crash

Spec == Init /\ [][Next]_vars

(* The two threads and a started Close keep running.  The worker needs     *)
(* appendMu for IndexErr; Go's mutex hands the lock to a waiter after a    *)
(* millisecond of starvation, hence strong fairness there.                 *)
Fairness ==
    /\ WF_vars(Foreground)
    /\ WF_vars(Worker)
    /\ SF_vars(LockedWorker)
    /\ WF_vars(Closing)

FairSpec == Spec /\ Fairness
-----------------------------------------------------------------------------
(* What is claimed.                                                        *)

\* MaintenanceStatus
Degraded    == maintErr \/ needsRepair \/ reconciling
ReadsCaughtUp == ~Degraded /\ queue = <<>>

\* An operator or a search looks between two appends of a healthy session.
Serving == phase = "open" /\ index = "open" /\ ~failStop /\ fpc = "idle"
AppendedSinceOpen == LedgerHead > openHead

\* The index never beats the ledger and never skips, repeats or reorders an
\* event: whatever overflow, failed repair, stale queued unit or crash came
\* before, its pages are the replay of the prefix its watermark names
\* (ApplyWithWatermark's gap check and the queue filter of a repair).
IndexIsPrefix ==
    /\ watermark \in 0..LedgerHead
    /\ IsReplayOf(pages, ledger, watermark)

\* An event appended to an asynchronous session is never stranded below the
\* head: a repair is pending, about to be flagged or has the event in its
\* listing, or the queue ends with the newest event, whose application will
\* find any hole before it (drainIndexMaintenance's comment on clearing
\* needsRepair first).
RepairOwed ==
    \/ needsRepair
    \/ wpc \in {"begin", "list", "clear", "mark", "markGap"}
    \/ wpc = "rebuild" /\ target = LedgerHead

QueueReachesHead == queue # <<>> /\ Last(queue).seq = LedgerHead

NothingStranded ==
    async /\ Serving /\ AppendedSinceOpen /\ watermark < LedgerHead
        => RepairOwed \/ QueueReachesHead

\* When the worker of a session that appended has gone back to sleep, the
\* index is at the head, and no error of an earlier try is left behind on
\* either status surface (recordMaintenanceOK, setIndexErr(nil)).
QuiescentIsClean ==
    Serving /\ AppendedSinceOpen /\ wpc = "wait" /\ ~wake
        => watermark = LedgerHead /\ ReadsCaughtUp /\ ~indexErr

\* MaintenanceStatus never reads as caught up while the index is behind, but
\* for the gap between clearReconciling and markMaintenanceRepair.
StatusIsHonest ==
    async /\ Serving /\ AppendedSinceOpen /\ wpc # "mark" /\ ReadsCaughtUp
        => watermark = LedgerHead

\* Where events are indexed synchronously, by Append or by the replay of
\* OpenSession, IndexErr tells whether the index is behind.
ErrCoversLag ==
    Serving /\ ~indexErr /\ (~async \/ ~AppendedSinceOpen)
        => watermark = LedgerHead

\* Under fairness every event appended to an asynchronous session that stays
\* open reaches the index, whatever transient failures and overflows came before.
EveryAppendIndexed ==
    \A n \in 1..MaxEvents :
        (async /\ Serving /\ openHead < n /\ n <= LedgerHead)
            ~> (watermark >= n \/ phase # "open")

\* Close returns: it never waits for a worker that waits for appendMu.
CloseCompletes == phase = "closing" ~> phase = "closed"

\* The detailed system is a disposable view of the ledger.
Abstract == INSTANCE WarmIndex WITH
    ledger <- ledger, watermark <- watermark, pages <- pages
ImplementsWarmIndex == Abstract!Spec

\* MaintenanceStatus's own comment: a pending or in-flight rebuild "must read
\* as degraded rather than caught up", with no exception.
StatusNeverReadsCaughtUpBehind ==
    async /\ Serving /\ AppendedSinceOpen /\ ReadsCaughtUp
        => watermark = LedgerHead

=============================================================================
