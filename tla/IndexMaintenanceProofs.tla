------------------------ MODULE IndexMaintenanceProofs ------------------------
(***************************************************************************)
(* Proofs about IndexMaintenance for every set of pages and of events,     *)
(* both maintenance modes, every queue depth and every bound: the type     *)
(* invariant, that the system implements WarmIndex, and with it that the   *)
(* index always is the replay of a prefix of the ledger.                   *)
(***************************************************************************)
EXTENDS IndexMaintenance, SequenceTheorems, TLAPS

-----------------------------------------------------------------------------
(* Lemmas on the replay of a prefix.                                       *)

\* Appending an event does not change what the events before it left behind.
LEMMA ReplayOfAppend ==
    ASSUME NEW l \in Seq(Events), NEW e \in Events, NEW n \in 0..Len(l),
           NEW content, IsReplayOf(content, l, n)
    PROVE  IsReplayOf(content, Append(l, e), n)
<1>1. \A i \in 1..n : Append(l, e)[i] = l[i]
  BY AppendProperties
<1>2. \A p \in Pages : TouchedBy(Append(l, e), n, p) = TouchedBy(l, n, p)
  BY <1>1 DEF TouchedBy
<1>3. \A p \in Pages : \A i \in TouchedBy(l, n, p) :
          LeftBy(Append(l, e), i, p) = LeftBy(l, i, p)
  BY <1>1 DEF TouchedBy, LeftBy
<1>. QED  BY <1>2, <1>3 DEF IsReplayOf

\* Applying the next event to the replay of a prefix gives the replay of the
\* prefix one longer.
LEMMA ReplayOfNext ==
    ASSUME NEW l \in Seq(Events), NEW n \in Nat, n < Len(l),
           NEW content, IsReplayOf(content, l, n)
    PROVE  IsReplayOf(ApplyMutations(content, l[n + 1], n + 1), l, n + 1)
<1>. DEFINE event == l[n + 1]
            after == ApplyMutations(content, event, n + 1)
<1>1. event \in [Pages -> MutationOps]
  BY EventsAssumption
<1>2. SUFFICES ASSUME NEW p \in Pages
               PROVE  \/ TouchedBy(l, n + 1, p) = {} /\ after[p] = Untouched
                      \/ \E i \in TouchedBy(l, n + 1, p) :
                            /\ \A j \in TouchedBy(l, n + 1, p) : j <= i
                            /\ after[p] = LeftBy(l, i, p)
  BY DEF IsReplayOf
<1>3. event[p] \in MutationOps
  BY <1>1
<1>4. CASE event[p] = "none"
  <2>1. TouchedBy(l, n + 1, p) = TouchedBy(l, n, p)
    BY <1>4 DEF TouchedBy
  <2>2. after[p] = content[p]
    BY <1>4 DEF ApplyMutations
  <2>. QED  BY <2>1, <2>2 DEF IsReplayOf
<1>5. CASE event[p] # "none"
  <2>1. n + 1 \in TouchedBy(l, n + 1, p)
    BY <1>5 DEF TouchedBy
  <2>2. \A j \in TouchedBy(l, n + 1, p) : j <= n + 1
    BY DEF TouchedBy
  <2>3. content[p].version < n + 1
    <3>1. \A i \in TouchedBy(l, n, p) : i \in 1..n
      BY DEF TouchedBy
    <3>2. content[p] = Untouched \/ \E i \in 1..n : content[p] = LeftBy(l, i, p)
      BY <3>1 DEF IsReplayOf
    <3>3. CASE content[p] = Untouched
      BY <3>3 DEF Untouched
    <3>4. CASE \E i \in 1..n : content[p] = LeftBy(l, i, p)
      BY <3>4 DEF LeftBy
    <3>. QED  BY <3>2, <3>3, <3>4
  <2>4. after[p] = LeftBy(l, n + 1, p)
    BY <1>3, <1>5, <2>3 DEF ApplyMutations, MutationOps, Upserted, Invalidated, LeftBy
  <2>. QED  BY <2>1, <2>2, <2>4
<1>. QED  BY <1>4, <1>5

\* Applying the last event of the prefix once more changes nothing: a unit
\* that was queued after a repair had already covered its event is harmless.
LEMMA ReplayOfAgain ==
    ASSUME NEW l \in Seq(Events), NEW n \in 1..Len(l),
           NEW content \in [Pages -> PageStates], IsReplayOf(content, l, n)
    PROVE  ApplyMutations(content, l[n], n) = content
<1>1. l[n] \in [Pages -> MutationOps]
  BY EventsAssumption
<1>2. SUFFICES ASSUME NEW p \in Pages
               PROVE  ApplyMutations(content, l[n], n)[p] = content[p]
  BY DEF ApplyMutations
<1>3. l[n][p] \in MutationOps
  BY <1>1
<1>4. CASE l[n][p] = "none"
  BY <1>4 DEF ApplyMutations
<1>5. CASE l[n][p] # "none"
  <2>1. n \in TouchedBy(l, n, p)
    BY <1>5 DEF TouchedBy
  <2>2. \A j \in TouchedBy(l, n, p) : j <= n
    BY DEF TouchedBy
  <2>3. content[p] = LeftBy(l, n, p)
    BY <2>1, <2>2 DEF IsReplayOf, TouchedBy
  <2>. QED  BY <1>3, <1>5, <2>3
            DEF ApplyMutations, MutationOps, Upserted, Invalidated, LeftBy
<1>. QED  BY <1>4, <1>5

\* What an index holds after a transaction is again page states.
LEMMA ApplyMutationsType ==
    ASSUME NEW content \in [Pages -> PageStates], NEW e \in Events, NEW n \in Nat
    PROVE  ApplyMutations(content, e, n) \in [Pages -> PageStates]
<1>1. e \in [Pages -> MutationOps]
  BY EventsAssumption
<1>2. ASSUME NEW p \in Pages
      PROVE  ApplyMutations(content, e, n)[p] \in PageStates
  <2>1. e[p] \in MutationOps /\ content[p] \in PageStates
    BY <1>1
  <2>2. Upserted(content[p], n) \in PageStates /\ Invalidated(content[p], n) \in PageStates
    BY <2>1 DEF Upserted, Invalidated, PageStates
  <2>. QED  BY <2>1, <2>2 DEF ApplyMutations, MutationOps
<1>. QED  BY <1>2 DEF ApplyMutations

LEMMA EmptyIndexType == EmptyIndex \in [Pages -> PageStates]
BY DEF EmptyIndex, Untouched, PageStates

-----------------------------------------------------------------------------
(* The inductive invariant.                                                *)

\* Queued units are compiled events of the ledger, in append order, and none
\* of them is the event being appended.
InOrder(q, l) ==
    /\ \A i \in 1..Len(q) : q[i].seq \in 1..Len(l) /\ q[i].event = l[q[i].seq]
    /\ \A i, j \in 1..Len(q) : i < j => q[i].seq < q[j].seq

QueueInOrder ==
    /\ InOrder(queue, ledger)
    /\ fpc = "durable" => /\ Len(ledger) > 0
                          /\ \A i \in 1..Len(queue) : queue[i].seq < Len(ledger)

\* Events are indexed on the foreground thread only where there is no worker.
Alone == phase = "opening" \/ ~async

ForegroundAlone ==
    /\ Alone => queue = <<>> /\ wpc = "none"
    /\ fpc \in {"index", "repair"} => Alone
    /\ fpc = "durable" => phase = "open"
    /\ cursor <= Len(ledger)

\* No queued unit is older than the watermark.  One may carry the event at
\* the watermark itself: a repair can list an event that is durable but not
\* yet enqueued.
FreshUnits == \A i \in 1..Len(queue) : queue[i].seq >= watermark

\* Units a repair overtook are filtered out before the worker looks at the
\* queue again.
StaleUnitsGuarded ==
    /\ wpc \in {"apply", "pop"} => queue # <<>>
    /\ wpc = "apply" => FreshUnits
    /\ ~needsRepair /\ wpc \notin {"begin", "list", "rebuild", "filter", "clear", "mark"}
          => FreshUnits

\* A repair does not look beyond the ledger.
TargetListed == wpc = "rebuild" => target <= Len(ledger)

WatermarkInLedger == watermark <= Len(ledger)

Bookkeeping ==
    /\ TypeOK
    /\ QueueInOrder
    /\ ForegroundAlone
    /\ StaleUnitsGuarded
    /\ TargetListed
    /\ WatermarkInLedger

IInv == Bookkeeping /\ IsReplayOf(pages, ledger, watermark)

\* Queueing the newest event keeps the order.
LEMMA AppendKeepsOrder ==
    ASSUME NEW l \in Seq(Events), Len(l) > 0, NEW q \in Seq(Units), InOrder(q, l),
           \A i \in 1..Len(q) : q[i].seq < Len(l)
    PROVE  LET unit == [seq |-> Len(l), event |-> l[Len(l)]]
               r == Append(q, unit)
           IN  /\ r \in Seq(Units) /\ InOrder(r, l)
               /\ Len(r) = Len(q) + 1 /\ r[Len(r)].seq = Len(l)
               /\ \A i \in 1..Len(q) : r[i] = q[i]
<1>. DEFINE unit == [seq |-> Len(l), event |-> l[Len(l)]]
            r == Append(q, unit)
<1>1. unit \in Units
  BY DEF Units
<1>2. /\ r \in Seq(Units) /\ Len(r) = Len(q) + 1 /\ r[Len(r)] = unit
      /\ \A i \in 1..Len(q) : r[i] = q[i]
  BY <1>1, AppendProperties
<1>3. \A i \in 1..Len(r) : r[i].seq \in 1..Len(l) /\ r[i].event = l[r[i].seq]
  <2>. SUFFICES ASSUME NEW i \in 1..Len(r)
                PROVE  r[i].seq \in 1..Len(l) /\ r[i].event = l[r[i].seq]
    OBVIOUS
  <2>1. CASE i = Len(r)
    BY <1>2, <2>1
  <2>2. CASE i # Len(r)
    BY <1>2, <2>2 DEF InOrder
  <2>. QED  BY <2>1, <2>2
<1>4. ASSUME NEW i \in 1..Len(r), NEW j \in 1..Len(r), i < j
      PROVE  r[i].seq < r[j].seq
  <2>0. i \in 1..Len(q) /\ r[i] = q[i]
    BY <1>2, <1>4
  <2>1. CASE j = Len(r)
    BY <1>2, <2>0, <2>1
  <2>2. CASE j # Len(r)
    <3>1. j \in 1..Len(q) /\ r[j] = q[j]
      BY <1>2, <2>2
    <3>. QED  BY <1>4, <2>0, <3>1 DEF InOrder
  <2>. QED  BY <2>1, <2>2
<1>. QED  BY <1>2, <1>3, <1>4 DEF InOrder

\* Dropping the first k units keeps the order.
LEMMA SuffixKeepsOrder ==
    ASSUME NEW l \in Seq(Events), NEW q \in Seq(Units), InOrder(q, l),
           NEW k \in 0..Len(q)
    PROVE  LET r == SubSeq(q, k + 1, Len(q))
           IN  /\ r \in Seq(Units) /\ InOrder(r, l)
               /\ Len(r) = Len(q) - k
               /\ \A i \in 1..Len(r) : r[i] = q[i + k]
<1>. DEFINE r == SubSeq(q, k + 1, Len(q))
<1>1. /\ r \in Seq(Units) /\ Len(r) = Len(q) - k
      /\ \A i \in 1..Len(r) : r[i] = q[i + k]
  OBVIOUS
<1>2. InOrder(r, l)
  <2>1. ASSUME NEW i \in 1..Len(r)
        PROVE  r[i].seq \in 1..Len(l) /\ r[i].event = l[r[i].seq]
    BY <1>1 DEF InOrder
  <2>2. ASSUME NEW i \in 1..Len(r), NEW j \in 1..Len(r), i < j
        PROVE  r[i].seq < r[j].seq
    <3>1. i + k \in 1..Len(q) /\ j + k \in 1..Len(q) /\ i + k < j + k
      BY <1>1, <2>2
    <3>. QED  BY <1>1, <3>1 DEF InOrder
  <2>. QED  BY <2>1, <2>2 DEF InOrder
<1>. QED  BY <1>1, <1>2

-----------------------------------------------------------------------------
(* Every step keeps the invariant.                                         *)

\* The flags stay flags.  Zenon takes Boolean variables better than SMT.
LEMMA FlagsStep ==
    ASSUME FlagsTyped, [Next]_vars
    PROVE  FlagsTyped'
<1>. USE DEF FlagsTyped, Goto, vars, durable, lifecycle, surface, flags, workload, workerSame
<1>1. CASE \E e \in Events : AppendEvent(e)
  BY <1>1, Zenon DEF AppendEvent
<1>2. CASE Foreground
  <2>1. CASE DeriveFails
    BY <2>1, Zenon DEF DeriveFails, Fault
  <2>2. CASE SkipIndex
    BY <2>2, Zenon DEF SkipIndex
  <2>3. CASE Enqueue
    BY <2>3, Zenon DEF Enqueue
  <2>4. CASE CompileFails
    BY <2>4, Zenon DEF CompileFails, Fault
  <2>5. CASE WakeWorker
    BY <2>5, Zenon DEF WakeWorker
  <2>6. CASE SyncIndex
    BY <2>6, Zenon DEF SyncIndex
  <2>7. CASE ReplayNext
    BY <2>7, Zenon DEF ReplayNext
  <2>8. CASE ReplayFails
    BY <2>8, Zenon DEF ReplayFails, Fault
  <2>9. CASE IndexNothing
    BY <2>9, Zenon DEF IndexNothing, Fault
  <2>10. CASE IndexNext
    BY <2>10, Zenon DEF IndexNext, ApplyWithWatermark
  <2>11. CASE IndexNeedsRepair
    BY <2>11, Zenon DEF IndexNeedsRepair, Fault
  <2>12. CASE ForegroundRepairStep
    BY <2>12, Zenon DEF ForegroundRepairStep, ApplyWithWatermark
  <2>13. CASE ForegroundRepairEnds
    BY <2>13, Zenon DEF ForegroundRepairEnds, Fault
  <2>14. CASE OpenReturns
    BY <2>14, Zenon DEF OpenReturns
  <2>. QED  BY <1>2, <2>1, <2>2, <2>3, <2>4, <2>5, <2>6, <2>7,
           <2>8, <2>9, <2>10, <2>11, <2>12, <2>13, <2>14 DEF Foreground
<1>3. CASE Worker
  <2>1. CASE WorkerWakes
    BY <2>1, Zenon DEF WorkerWakes
  <2>2. CASE WorkerStops
    BY <2>2, Zenon DEF WorkerStops
  <2>3. CASE DrainChooses
    BY <2>3, Zenon DEF DrainChooses
  <2>4. CASE RecordOK
    BY <2>4, Zenon DEF RecordOK
  <2>5. CASE RepairBegins
    BY <2>5, Zenon DEF RepairBegins
  <2>6. CASE RepairLists
    BY <2>6, Zenon DEF RepairLists
  <2>7. CASE RepairApplies
    BY <2>7, Zenon DEF RepairApplies, ApplyWithWatermark
  <2>8. CASE RepairCompletes
    BY <2>8, Zenon DEF RepairCompletes
  <2>9. CASE RepairFilters
    BY <2>9, Zenon DEF RepairFilters
  <2>10. CASE RepairFails
    BY <2>10, Zenon DEF RepairFails, WorkerOpFails, Fault
  <2>11. CASE ClearReconciling
    BY <2>11, Zenon DEF ClearReconciling
  <2>12. CASE MarkRepair
    BY <2>12, Zenon DEF MarkRepair
  <2>13. CASE UnitApplies
    BY <2>13, Zenon DEF UnitApplies, ApplyWithWatermark
  <2>14. CASE UnitGap
    BY <2>14, Zenon DEF UnitGap, IsGap
  <2>15. CASE MarkGap
    BY <2>15, Zenon DEF MarkGap
  <2>16. CASE UnitFails
    BY <2>16, Zenon DEF UnitFails, WorkerOpFails, Fault
  <2>17. CASE UnitPops
    BY <2>17, Zenon DEF UnitPops
  <2>18. CASE RecordError
    BY <2>18, Zenon DEF RecordError
  <2>19. CASE WorkerRetries
    BY <2>19, Zenon DEF WorkerRetries
  <2>20. CASE LockedWorker
    BY <2>20, Zenon DEF LockedWorker, WorkerClearsErr, WorkerSetsErr
  <2>. QED  BY <1>3, <2>1, <2>2, <2>3, <2>4, <2>5, <2>6, <2>7, <2>8, <2>9, <2>10,
           <2>11, <2>12, <2>13, <2>14, <2>15, <2>16, <2>17, <2>18, <2>19, <2>20 DEF Worker
<1>4. CASE Closing
  BY <1>4, ZenonT(60) DEF Closing, CloseCancels, CloseReturns, WorkerJoined
<1>5. CASE OpenSession
  BY <1>5, ModesAssumption, ZenonT(60) DEF OpenSession, Fault, FreshMemory,
         NoWatermark
<1>6. CASE CloseBegins
  BY <1>6, ZenonT(60) DEF CloseBegins
<1>7. CASE Crash
  BY <1>7, ZenonT(60) DEF Crash, FreshMemory
<1>8. CASE UNCHANGED vars
  BY <1>8, Zenon
<1>. QED  BY <1>1, <1>2, <1>3, <1>4, <1>5, <1>6, <1>7, <1>8 DEF Next

\* The three steps that rearrange the queue or apply from it.
LEMMA EnqueueStep ==
    ASSUME Bookkeeping, Enqueue
    PROVE  /\ ControlTyped' /\ QueueInOrder' /\ StaleUnitsGuarded'
<1>. DEFINE unit == [seq |-> Len(ledger), event |-> ledger[Len(ledger)]]
<1>. USE DEF Bookkeeping, TypeOK, StoresTyped, ControlTyped, FgPcs
<1>1. ledger \in Seq(Events) /\ Len(ledger) > 0
  BY DEF Enqueue, QueueInOrder
<1>2. UNCHANGED <<ledger, watermark, wpc>> /\ fpc' = "wake"
  BY DEF Enqueue, durable
<1>3. ControlTyped' /\ InOrder(queue, ledger)'
  <2>1. CASE queue' = Append(queue, unit)
    <3>1. queue' \in Seq(Units) /\ InOrder(queue', ledger)
      BY <1>1, <2>1, AppendKeepsOrder DEF Enqueue, QueueInOrder
    <3>. QED  BY <1>2, <3>1 DEF Enqueue, lifecycle
  <2>2. CASE UNCHANGED queue
    BY <1>2, <2>2 DEF Enqueue, lifecycle, QueueInOrder
  <2>. QED  BY <2>1, <2>2 DEF Enqueue, LedgerHead
<1>4. QueueInOrder'
  BY <1>2, <1>3 DEF QueueInOrder
<1>5. StaleUnitsGuarded'
  <2>1. CASE queue' = Append(queue, unit) /\ UNCHANGED needsRepair
    <3>1. /\ Len(queue') = Len(queue) + 1 /\ queue'[Len(queue')].seq = Len(ledger)
          /\ \A i \in 1..Len(queue) : queue'[i] = queue[i]
      BY <1>1, <2>1, AppendKeepsOrder DEF Enqueue, QueueInOrder
    <3>2. queue' # <<>>
      BY <1>1, <2>1, <3>1
    <3>3. FreshUnits => FreshUnits'
      BY <1>2, <3>1 DEF FreshUnits, WatermarkInLedger
    <3>. QED  BY <1>2, <2>1, <3>2, <3>3 DEF StaleUnitsGuarded
  <2>2. CASE needsRepair' = TRUE /\ UNCHANGED queue
    BY <1>2, <2>2 DEF StaleUnitsGuarded, FreshUnits
  <2>. QED  BY <2>1, <2>2 DEF Enqueue, LedgerHead
<1>. QED  BY <1>3, <1>4, <1>5

LEMMA FilterStep ==
    ASSUME Bookkeeping, RepairFilters
    PROVE  ControlTyped' /\ QueueInOrder' /\ StaleUnitsGuarded'
<1>. USE DEF Bookkeeping, TypeOK, StoresTyped, ControlTyped
<1>1. PICK k \in 0..Len(queue) :
          /\ \A i \in 1..Len(queue) : queue[i].seq <= watermark <=> i <= k
          /\ queue' = SubSeq(queue, k + 1, Len(queue))
  BY DEF RepairFilters, DropCoveredUnits
<1>2. /\ queue' \in Seq(Units) /\ InOrder(queue', ledger)
      /\ Len(queue') = Len(queue) - k
      /\ \A i \in 1..Len(queue') : queue'[i] = queue[i + k]
  BY <1>1, SuffixKeepsOrder DEF QueueInOrder
<1>3. UNCHANGED <<ledger, watermark, fpc>> /\ wpc' = "clearErr"
  BY DEF RepairFilters, Goto, durable, workerSame
<1>4. ControlTyped'
  BY <1>2, <1>3 DEF RepairFilters, workerSame, lifecycle, WorkerPcs
<1>5. QueueInOrder'
  <2>1. fpc # "durable" => fpc' # "durable"
    BY <1>3
  <2>2. InOrder(queue', ledger') /\ Len(queue') = Len(queue) - k
    BY <1>2, <1>3
  <2>3. ASSUME fpc = "durable"
        PROVE  Len(ledger) > 0 /\ \A i \in 1..Len(queue') : queue'[i].seq < Len(ledger)
    <3>1. Len(ledger) > 0 /\ \A i \in 1..Len(queue) : queue[i].seq < Len(ledger)
      BY <2>3 DEF QueueInOrder
    <3>2. \A i \in 1..Len(queue') : i + k \in 1..Len(queue)
      BY <2>2
    <3>. QED  BY <1>2, <3>1, <3>2
  <2>. QED  BY <1>3, <2>1, <2>2, <2>3 DEF QueueInOrder
<1>6. \A i \in 1..Len(queue') : queue'[i].seq >= watermark
  <2>. SUFFICES ASSUME NEW i \in 1..Len(queue')
                PROVE  queue'[i].seq >= watermark
    OBVIOUS
  <2>1. i + k \in 1..Len(queue) /\ ~(i + k <= k)
    BY <1>2
  <2>2. queue[i + k] \in Units
    BY <2>1
  <2>3. ~(queue[i + k].seq <= watermark)
    BY <1>1, <2>1
  <2>4. queue'[i] = queue[i + k]
    BY <1>2
  <2>. QED  BY <2>2, <2>3, <2>4 DEF Units
<1>. QED  BY <1>3, <1>4, <1>5, <1>6 DEF StaleUnitsGuarded, FreshUnits

LEMMA UnitStep ==
    ASSUME Bookkeeping, UnitApplies
    PROVE  /\ Head(queue).seq \in 1..Len(ledger)
           /\ Head(queue).event = ledger[Head(queue).seq]
           /\ Head(queue).seq \in {watermark, watermark + 1}
           /\ watermark' = Head(queue).seq
           /\ pages' = ApplyMutations(pages, Head(queue).event, Head(queue).seq)
           /\ StoresTyped' /\ StaleUnitsGuarded' /\ WatermarkInLedger'
<1>. USE DEF Bookkeeping, TypeOK, StoresTyped, ControlTyped
<1>1. queue # <<>> /\ FreshUnits /\ 1 \in 1..Len(queue) /\ Head(queue) = queue[1]
  BY DEF UnitApplies, Goto, StaleUnitsGuarded
<1>2. Head(queue).seq \in 1..Len(ledger) /\ Head(queue).event = ledger[Head(queue).seq]
  BY <1>1 DEF QueueInOrder, InOrder
<1>3. Head(queue).seq \in {watermark, watermark + 1}
  BY <1>1, <1>2 DEF UnitApplies, ApplyWithWatermark, IsGap, FreshUnits
<1>4. /\ watermark' = Head(queue).seq
      /\ pages' = ApplyMutations(pages, Head(queue).event, Head(queue).seq)
      /\ UNCHANGED <<ledger, queue, needsRepair>> /\ wpc' = "pop"
  BY <1>2, <1>3 DEF UnitApplies, ApplyWithWatermark, Goto, flags, workload
<1>5. StoresTyped'
  <2>. DEFINE e == Head(queue).event
              n == Head(queue).seq
  <2>1. pages \in [Pages -> PageStates] /\ e \in Events /\ n \in Nat
    BY <1>2
  <2>2. pages' = ApplyMutations(pages, e, n) /\ watermark' = n
    BY <1>4
  <2>. HIDE DEF e, n
  <2>3. pages' \in [Pages -> PageStates]
    BY <2>1, <2>2, ApplyMutationsType
  <2>. QED  BY <1>4, <2>1, <2>2, <2>3
<1>6. FreshUnits'
  <2>. SUFFICES ASSUME NEW i \in 1..Len(queue)
                PROVE  queue[i].seq >= Head(queue).seq
    BY <1>4 DEF FreshUnits
  <2>1. CASE i = 1
    BY <1>1, <1>2, <2>1
  <2>2. CASE i # 1
    BY <1>1, <1>2, <2>2 DEF QueueInOrder, InOrder
  <2>. QED  BY <2>1, <2>2
<1>. QED  BY <1>1, <1>2, <1>3, <1>4, <1>5, <1>6
          DEF StaleUnitsGuarded, WatermarkInLedger

\* The other steps that move what the bookkeeping relates.
LEMMA AppendEventStep ==
    ASSUME Bookkeeping, NEW e \in Events, AppendEvent(e)
    PROVE  /\ StoresTyped' /\ ControlTyped' /\ QueueInOrder' /\ ForegroundAlone'
           /\ StaleUnitsGuarded' /\ TargetListed' /\ WatermarkInLedger'
<1>. USE DEF Bookkeeping, TypeOK, StoresTyped, ControlTyped
<1>1. /\ phase = "open" /\ ledger' = Append(ledger, e) /\ fpc' = "durable"
      /\ UNCHANGED <<watermark, pages, phase, index, async, openHead, opens, cursor>>
      /\ UNCHANGED <<queue, needsRepair, wpc, target, faults>>
  BY DEF AppendEvent, lifecycle, workload, flags
<1>2. /\ ledger' \in Seq(Events) /\ Len(ledger') = Len(ledger) + 1
      /\ \A i \in 1..Len(ledger) : ledger'[i] = ledger[i]
  BY <1>1, AppendProperties
<1>3. StoresTyped'
  BY <1>1, <1>2
<1>4. ControlTyped'
  BY <1>1 DEF FgPcs
<1>5. QueueInOrder'
  <2>1. \A i \in 1..Len(queue) :
            queue[i].seq \in 1..Len(ledger) /\ queue[i].event = ledger[queue[i].seq]
    BY DEF QueueInOrder, InOrder
  <2>2. \A i, j \in 1..Len(queue) : i < j => queue[i].seq < queue[j].seq
    BY DEF QueueInOrder, InOrder
  <2>3. \A i \in 1..Len(queue) :
            /\ queue[i].seq \in 1..Len(ledger') /\ queue[i].event = ledger'[queue[i].seq]
            /\ queue[i].seq < Len(ledger')
    <3>. TAKE i \in 1..Len(queue)
    <3>. DEFINE n == queue[i].seq
    <3>1. n \in 1..Len(ledger) /\ queue[i].event = ledger[n]
      BY <2>1
    <3>. HIDE DEF n
    <3>2. ledger'[n] = ledger[n] /\ n \in 1..Len(ledger') /\ n < Len(ledger')
      BY <1>2, <3>1
    <3>3. queue[i].event = ledger'[n]
      BY <3>1, <3>2
    <3>. QED  BY <3>2, <3>3 DEF n
  <2>4. Len(ledger') > 0
    BY <1>2
  <2>. HIDE DEF Bookkeeping, TypeOK, StoresTyped, ControlTyped
  <2>. QED  BY <1>1, <2>2, <2>3, <2>4 DEF QueueInOrder, InOrder
<1>6. ForegroundAlone'
  BY <1>1, <1>2 DEF ForegroundAlone, Alone
<1>7. StaleUnitsGuarded'
  <2>. HIDE DEF Bookkeeping, TypeOK, StoresTyped, ControlTyped
  <2>. QED  BY <1>1 DEF Bookkeeping, StaleUnitsGuarded, FreshUnits
<1>8. TargetListed' /\ WatermarkInLedger'
  BY <1>1, <1>2 DEF TargetListed, WatermarkInLedger
<1>. QED  BY <1>3, <1>4, <1>5, <1>6, <1>7, <1>8

LEMMA RepairAppliesStep ==
    ASSUME Bookkeeping, RepairApplies
    PROVE  /\ StoresTyped' /\ ControlTyped' /\ QueueInOrder' /\ ForegroundAlone'
           /\ StaleUnitsGuarded' /\ TargetListed' /\ WatermarkInLedger'
<1>. USE DEF Bookkeeping, TypeOK, StoresTyped, ControlTyped
<1>1. /\ wpc = "rebuild" /\ watermark < target
      /\ pages' = ApplyMutations(pages, ledger[watermark + 1], watermark + 1)
      /\ watermark' = watermark + 1
      /\ UNCHANGED <<ledger, phase, index, async, openHead, opens, cursor, fpc>>
      /\ UNCHANGED <<queue, needsRepair, wpc, target, faults>>
  BY DEF RepairApplies, ApplyWithWatermark, workerSame, lifecycle, workload, flags
<1>2. watermark + 1 \in 1..Len(ledger)
  BY <1>1 DEF TargetListed
<1>3. StoresTyped'
  <2>. DEFINE n == watermark + 1
  <2>1. pages \in [Pages -> PageStates] /\ ledger[n] \in Events /\ n \in Nat
    BY <1>2
  <2>2. pages' = ApplyMutations(pages, ledger[n], n)
    BY <1>1
  <2>. HIDE DEF n
  <2>3. pages' \in [Pages -> PageStates]
    BY <2>1, <2>2, ApplyMutationsType
  <2>. QED  BY <1>1, <2>3
<1>4. ControlTyped'
  BY <1>1
<1>5. QueueInOrder' /\ ForegroundAlone' /\ TargetListed'
  <2>. HIDE DEF Bookkeeping, TypeOK, StoresTyped, ControlTyped
  <2>. QED  BY <1>1 DEF Bookkeeping, QueueInOrder, InOrder, ForegroundAlone, Alone,
               TargetListed
<1>6. StaleUnitsGuarded'
  BY <1>1 DEF StaleUnitsGuarded
<1>7. WatermarkInLedger'
  BY <1>1, <1>2 DEF WatermarkInLedger
<1>. QED  BY <1>3, <1>4, <1>5, <1>6, <1>7

LEMMA OpenSessionStep ==
    ASSUME Bookkeeping, OpenSession
    PROVE  /\ StoresTyped' /\ ControlTyped' /\ QueueInOrder' /\ ForegroundAlone'
           /\ StaleUnitsGuarded' /\ TargetListed' /\ WatermarkInLedger'
<1>. USE DEF Bookkeeping, TypeOK, StoresTyped, ControlTyped
<1>1. /\ ledger' = ledger /\ phase' = "opening" /\ openHead' = Len(ledger)
      /\ opens' = opens + 1 /\ index' \in {"none", "open"}
      /\ fpc' = "idle" /\ cursor' = 0 /\ queue' = <<>> /\ wpc' = "none"
      /\ target' = 0
  BY DEF OpenSession, FreshMemory, LedgerHead
<1>2. \/ UNCHANGED <<watermark, pages>>
      \/ watermark' = 0 /\ pages' = EmptyIndex
  BY DEF OpenSession, NoWatermark
<1>3. faults' = faults \/ faults' = faults + 1
  BY DEF OpenSession, Fault
<1>4. StoresTyped'
  BY <1>1, <1>2, EmptyIndexType
<1>5. ControlTyped'
  <2>1. openHead' \in Nat /\ opens' \in Nat /\ faults' \in Nat
    BY <1>1, <1>3
  <2>2. queue' \in Seq(Units)
    BY <1>1
  <2>. QED  BY <1>1, <2>1, <2>2 DEF FgPcs, WorkerPcs
<1>6. QueueInOrder'
  BY <1>1 DEF QueueInOrder, InOrder
<1>7. ForegroundAlone'
  BY <1>1 DEF ForegroundAlone, Alone
<1>8. StaleUnitsGuarded' /\ TargetListed'
  BY <1>1 DEF StaleUnitsGuarded, FreshUnits, TargetListed
<1>9. WatermarkInLedger'
  BY <1>1, <1>2 DEF WatermarkInLedger
<1>. QED  BY <1>4, <1>5, <1>6, <1>7, <1>8, <1>9

LEMMA BookkeepingStep ==
    ASSUME Bookkeeping, [Next]_vars
    PROVE  Bookkeeping'
<1>. DEFINE Quiet ==
        /\ StoresTyped' /\ ControlTyped' /\ QueueInOrder' /\ ForegroundAlone'
        /\ StaleUnitsGuarded' /\ TargetListed' /\ WatermarkInLedger'
<1>1. Quiet
  <2>. USE ApplyMutationsType, EmptyIndexType DEF Bookkeeping,
           WatermarkInLedger, ForegroundAlone, Alone, TargetListed,
           StaleUnitsGuarded, FreshUnits, QueueInOrder, InOrder, TypeOK,
           StoresTyped, ControlTyped, FgPcs, WorkerPcs, Units, LedgerHead,
           Goto, vars, durable, lifecycle, surface, flags, workload,
           workerSame
  <2>1. CASE \E e \in Events : AppendEvent(e)
    BY <2>1, AppendEventStep
  <2>2. CASE DeriveFails
    BY <2>2 DEF DeriveFails, Fault
  <2>3. CASE SkipIndex
    BY <2>3 DEF SkipIndex
  <2>4. CASE Enqueue
    BY <2>4, EnqueueStep DEF Enqueue
  <2>5. CASE CompileFails
    BY <2>5 DEF CompileFails, Fault
  <2>6. CASE WakeWorker
    BY <2>6 DEF WakeWorker
  <2>7. CASE SyncIndex
    BY <2>7 DEF SyncIndex
  <2>8. CASE ReplayNext
    BY <2>8 DEF ReplayNext
  <2>9. CASE ReplayFails
    BY <2>9 DEF ReplayFails, Fault
  <2>10. CASE IndexNothing
    BY <2>10 DEF IndexNothing, Fault
  <2>11. CASE IndexNext
    BY <2>11 DEF IndexNext, ApplyWithWatermark
  <2>12. CASE IndexNeedsRepair
    BY <2>12 DEF IndexNeedsRepair, Fault
  <2>13. CASE ForegroundRepairStep
    BY <2>13 DEF ForegroundRepairStep, ApplyWithWatermark
  <2>14. CASE ForegroundRepairEnds
    BY <2>14 DEF ForegroundRepairEnds, Fault
  <2>15. CASE OpenReturns
    BY <2>15 DEF OpenReturns
  <2>16. CASE WorkerWakes
    BY <2>16 DEF WorkerWakes
  <2>17. CASE WorkerStops
    BY <2>17 DEF WorkerStops
  <2>18. CASE DrainChooses
    BY <2>18 DEF DrainChooses
  <2>19. CASE RecordOK
    BY <2>19 DEF RecordOK
  <2>20. CASE RepairBegins
    BY <2>20 DEF RepairBegins
  <2>21. CASE RepairLists
    BY <2>21 DEF RepairLists
  <2>22. CASE RepairApplies
    BY <2>22, RepairAppliesStep
  <2>23. CASE RepairCompletes
    BY <2>23 DEF RepairCompletes
  <2>24. CASE RepairFilters
    BY <2>24, FilterStep DEF RepairFilters
  <2>25. CASE RepairFails
    BY <2>25 DEF RepairFails, WorkerOpFails, Fault
  <2>26. CASE ClearReconciling
    BY <2>26 DEF ClearReconciling
  <2>27. CASE MarkRepair
    BY <2>27 DEF MarkRepair
  <2>28. CASE UnitApplies
    BY <2>28, UnitStep DEF UnitApplies, ApplyWithWatermark
  <2>29. CASE UnitGap
    BY <2>29 DEF UnitGap, IsGap
  <2>30. CASE MarkGap
    BY <2>30 DEF MarkGap
  <2>31. CASE UnitFails
    BY <2>31 DEF UnitFails, WorkerOpFails, Fault
  <2>32. CASE UnitPops
    BY <2>32 DEF UnitPops
  <2>33. CASE RecordError
    BY <2>33 DEF RecordError
  <2>34. CASE WorkerRetries
    BY <2>34 DEF WorkerRetries
  <2>35. CASE WorkerClearsErr
    BY <2>35 DEF WorkerClearsErr
  <2>36. CASE WorkerSetsErr
    BY <2>36 DEF WorkerSetsErr
  <2>37. CASE CloseCancels
    BY <2>37 DEF CloseCancels
  <2>38. CASE CloseReturns
    BY <2>38 DEF CloseReturns, WorkerJoined
  <2>39. CASE OpenSession
    BY <2>39, OpenSessionStep
  <2>40. CASE CloseBegins
    BY <2>40 DEF CloseBegins
  <2>41. CASE Crash
    BY <2>41 DEF Crash, FreshMemory
  <2>42. CASE UNCHANGED vars
    BY <2>42
  <2>. QED  BY <2>1, <2>2, <2>3, <2>4, <2>5, <2>6, <2>7, <2>8, <2>9, <2>10,
           <2>11, <2>12, <2>13, <2>14, <2>15, <2>16, <2>17, <2>18, <2>19,
           <2>20, <2>21, <2>22, <2>23, <2>24, <2>25, <2>26, <2>27, <2>28,
           <2>29, <2>30, <2>31, <2>32, <2>33, <2>34, <2>35, <2>36, <2>37,
           <2>38, <2>39, <2>40, <2>41, <2>42 DEF Next, Foreground, Worker,
           LockedWorker, Closing
<1>2. FlagsTyped'
  BY FlagsStep DEF Bookkeeping, TypeOK
<1>. QED  BY <1>1, <1>2 DEF Bookkeeping, TypeOK

-----------------------------------------------------------------------------
(* Every step is a step of WarmIndex or leaves the stores alone.           *)

\* Applying the event after the watermark is the abstract Advance.
LEMMA ApplyIsAdvance ==
    ASSUME Bookkeeping, watermark < Len(ledger),
           ApplyWithWatermark(ledger[watermark + 1], watermark + 1)
    PROVE  Abstract!Advance
BY DEF Bookkeeping, TypeOK, StoresTyped, ApplyWithWatermark, Abstract!Advance,
       Abstract!ApplyMutations, Abstract!Upserted, Abstract!Invalidated,
       ApplyMutations, Upserted, Invalidated

LEMMA StepRefines ==
    ASSUME IInv, [Next]_vars
    PROVE  [Abstract!Next]_<<ledger, watermark, pages>>
<1>. USE DEF IInv, Bookkeeping, TypeOK, StoresTyped, ControlTyped, Abstract!Next
<1>1. CASE \E e \in Events : AppendEvent(e)
  BY <1>1 DEF AppendEvent, Abstract!Record
<1>2. CASE IndexNext
  BY <1>2, ApplyIsAdvance DEF IndexNext, ForegroundAlone
<1>3. CASE ForegroundRepairStep
  BY <1>3, ApplyIsAdvance DEF ForegroundRepairStep, LedgerHead
<1>4. CASE RepairApplies
  BY <1>4, ApplyIsAdvance DEF RepairApplies, TargetListed
<1>5. CASE UnitApplies
  <2>. DEFINE seq == Head(queue).seq
  <2>1. CASE seq = watermark
    <3>1. pages' = ApplyMutations(pages, ledger[watermark], watermark)
      BY <1>5, <2>1, UnitStep
    <3>2. watermark \in 1..Len(ledger)
      BY <1>5, <2>1, UnitStep
    <3>3. pages' = pages
      BY <3>1, <3>2, ReplayOfAgain
    <3>. QED  BY <1>5, <2>1, <3>3, UnitStep DEF UnitApplies, ApplyWithWatermark
  <2>2. CASE seq = watermark + 1
    <3>1. watermark < Len(ledger)
      BY <1>5, <2>2, UnitStep
    <3>2. ApplyWithWatermark(ledger[watermark + 1], watermark + 1)
      BY <1>5, <2>2, UnitStep DEF UnitApplies
    <3>. QED  BY <3>1, <3>2, ApplyIsAdvance
  <2>. QED  BY <1>5, <2>1, <2>2, UnitStep
<1>6. CASE OpenSession
  BY <1>6 DEF OpenSession, NoWatermark, EmptyIndex, Untouched, Abstract!Discard,
              Abstract!EmptyIndex, Abstract!Untouched
<1>7. CASE Foreground /\ ~(IndexNext \/ ForegroundRepairStep)
  BY <1>7 DEF Foreground, durable, DeriveFails, SkipIndex, Enqueue,
         CompileFails, WakeWorker, SyncIndex, ReplayNext, ReplayFails,
         IndexNothing, IndexNeedsRepair, ForegroundRepairEnds, OpenReturns
<1>8. CASE Worker /\ ~(RepairApplies \/ UnitApplies)
  BY <1>8 DEF Worker, LockedWorker, durable, WorkerWakes, WorkerStops,
         DrainChooses, RecordOK, RepairBegins, RepairLists, RepairCompletes,
         RepairFilters, RepairFails, ClearReconciling, MarkRepair, UnitGap,
         MarkGap, UnitFails, UnitPops, RecordError, WorkerRetries,
         WorkerClearsErr, WorkerSetsErr
<1>9. CASE Closing \/ CloseBegins \/ Crash
  BY <1>9 DEF Closing, CloseCancels, CloseReturns, CloseBegins, Crash, durable
<1>10. CASE UNCHANGED vars
  BY <1>10 DEF vars
<1>. QED  BY <1>1, <1>2, <1>3, <1>4, <1>5, <1>6, <1>7, <1>8, <1>9, <1>10 DEF Next

\* An abstract step keeps the index the replay of its prefix.
LEMMA ReplayStep ==
    ASSUME IInv, [Abstract!Next]_<<ledger, watermark, pages>>
    PROVE  IsReplayOf(pages, ledger, watermark)'
<1>. USE DEF IInv, Bookkeeping, TypeOK, StoresTyped, WatermarkInLedger
<1>1. ASSUME NEW e \in Events, Abstract!Record(e)
      PROVE  IsReplayOf(pages, ledger, watermark)'
  BY <1>1, ReplayOfAppend DEF Abstract!Record
<1>2. CASE Abstract!Advance
  <2>1. pages' = ApplyMutations(pages, ledger[watermark + 1], watermark + 1)
    BY <1>2 DEF Abstract!Advance, Abstract!ApplyMutations, Abstract!Upserted,
                Abstract!Invalidated, ApplyMutations, Upserted, Invalidated
  <2>. QED  BY <1>2, <2>1, ReplayOfNext DEF Abstract!Advance
<1>3. CASE Abstract!Discard
  BY <1>3 DEF Abstract!Discard, Abstract!EmptyIndex, Abstract!Untouched,
              IsReplayOf, Untouched, TouchedBy
<1>4. CASE UNCHANGED <<ledger, watermark, pages>>
  BY <1>4
<1>. QED  BY <1>1, <1>2, <1>3, <1>4 DEF Abstract!Next

LEMMA InitInvariant == Init => IInv
<1>. SUFFICES ASSUME Init PROVE IInv
  OBVIOUS
<1>1. StoresTyped /\ ControlTyped
  BY EmptyIndexType DEF Init, NoWatermark, StoresTyped, ControlTyped, FgPcs, WorkerPcs
<1>2. FlagsTyped
  BY Zenon DEF Init, FlagsTyped
<1>3. IsReplayOf(pages, ledger, watermark)
  <2>1. \A p \in Pages : TouchedBy(ledger, watermark, p) = {}
    BY DEF Init, NoWatermark, TouchedBy
  <2>. QED  BY <2>1 DEF Init, IsReplayOf, EmptyIndex
<1>4. QueueInOrder /\ ForegroundAlone /\ StaleUnitsGuarded /\ TargetListed
      /\ WatermarkInLedger
  BY DEF Init, NoWatermark, QueueInOrder, InOrder, ForegroundAlone, Alone,
         StaleUnitsGuarded, FreshUnits, TargetListed, WatermarkInLedger
<1>. QED  BY <1>1, <1>2, <1>3, <1>4 DEF IInv, Bookkeeping, TypeOK

LEMMA Invariance == Spec => []IInv
<1>1. IInv /\ [Next]_vars => IInv'
  <2>. SUFFICES ASSUME IInv, [Next]_vars PROVE IInv'
    OBVIOUS
  <2>1. Bookkeeping'
    BY BookkeepingStep DEF IInv
  <2>2. IsReplayOf(pages, ledger, watermark)'
    BY StepRefines, ReplayStep
  <2>. QED  BY <2>1, <2>2 DEF IInv
<1>. QED  BY InitInvariant, <1>1, PTL DEF Spec

-----------------------------------------------------------------------------
(* Nothing is forgotten: the invariant behind what the status surfaces say. *)

\* Where the session stands between its opening and its next append.
Heads ==
    /\ openHead <= Len(ledger)
    /\ phase = "opening" => openHead = Len(ledger) /\ ~wake /\ ~needsRepair
    /\ phase = "open" /\ openHead = Len(ledger) => wpc \in {"none", "wait", "done"} /\ ~wake
    /\ fpc \in {"durable", "wake"} => phase = "open" /\ openHead < Len(ledger)
    /\ fpc = "wake" => async
    /\ phase = "open" /\ fpc = "index" => cursor = Len(ledger)

\* What the place of the worker says about its flags, its queue and its index.
WorkerFlags ==
    /\ wpc \notin {"none", "done"} => index = "open"
    /\ reconciling <=> wpc \in {"list", "rebuild", "filter", "clear"}
    /\ wpc \in {"begin", "fail", "setErr", "backoff"} => needsRepair
    /\ wpc = "markGap" => queue # <<>>
    /\ wpc = "pop" => Head(queue).seq <= watermark
    /\ wpc \in {"none", "wait"} => ~maintErr
    /\ ~parked

\* A worker that is about to sleep, or sleeps, has nothing to do, or the token
\* is there or on its way.
AsleepIsIdle ==
    wpc \in {"recordOK", "wait"} /\ ~wake /\ fpc # "wake" => queue = <<>> /\ ~needsRepair

\* An append has been handed to the worker.
HandedOver ==
    /\ async /\ phase = "open" /\ index = "open" /\ ~failStop
    /\ fpc \in {"idle", "wake"} /\ openHead < Len(ledger)

LagIsOwed ==
    HandedOver /\ watermark < Len(ledger) => RepairOwed \/ QueueReachesHead

\* An error that IndexErr holds is going to be cleared.
ErrIsOwed ==
    HandedOver /\ indexErr =>
        \/ needsRepair \/ queue # <<>>
        \/ wpc \in {"list", "rebuild", "filter", "clear", "mark", "clearErr"}

\* Where the foreground indexes, it is behind only with an error.
LagIsReported ==
    index = "open" /\ fpc = "idle" /\ ~indexErr =>
        /\ phase = "opening" => watermark >= cursor
        /\ phase = "open" /\ ~failStop /\ (~async \/ openHead = Len(ledger))
              => watermark = Len(ledger)

Health == Heads /\ WorkerFlags /\ AsleepIsIdle /\ LagIsOwed /\ ErrIsOwed /\ LagIsReported

\* What the three steps on the queue leave at its two ends.
LEMMA EnqueueEnds ==
    ASSUME Bookkeeping, Enqueue
    PROVE  /\ ~needsRepair' => queue' # <<>> /\ Last(queue').seq = Len(ledger)
           /\ queue # <<>> => queue' # <<>> /\ Head(queue') = Head(queue)
<1>. USE DEF Bookkeeping, TypeOK, StoresTyped, ControlTyped
<1>1. ledger \in Seq(Events) /\ Len(ledger) > 0 /\ InOrder(queue, ledger)
      /\ \A i \in 1..Len(queue) : queue[i].seq < Len(ledger)
  BY DEF Enqueue, QueueInOrder
<1>2. CASE queue' = Append(queue, [seq |-> Len(ledger), event |-> ledger[Len(ledger)]])
  <2>1. /\ queue' \in Seq(Units) /\ Len(queue') = Len(queue) + 1
        /\ queue'[Len(queue')].seq = Len(ledger)
        /\ \A i \in 1..Len(queue) : queue'[i] = queue[i]
    BY <1>1, <1>2, AppendKeepsOrder
  <2>. QED  BY <2>1 DEF Last
<1>3. CASE needsRepair' = TRUE /\ UNCHANGED queue
  BY <1>3
<1>. QED  BY <1>2, <1>3 DEF Enqueue, LedgerHead

LEMMA FilterEnds ==
    ASSUME Bookkeeping, RepairFilters, QueueReachesHead, watermark < Len(ledger)
    PROVE  QueueReachesHead'
<1>. USE DEF Bookkeeping, TypeOK, StoresTyped, ControlTyped
<1>1. PICK k \in 0..Len(queue) :
          /\ \A i \in 1..Len(queue) : queue[i].seq <= watermark <=> i <= k
          /\ queue' = SubSeq(queue, k + 1, Len(queue))
  BY DEF RepairFilters, DropCoveredUnits
<1>2. Len(queue) \in 1..Len(queue) /\ queue[Len(queue)].seq = Len(ledger)
  BY DEF QueueReachesHead, LedgerHead, Last
<1>3. k < Len(queue)
  <2>1. ~(queue[Len(queue)].seq <= watermark)
    BY <1>2
  <2>2. ~(Len(queue) <= k)
    BY <1>1, <1>2, <2>1
  <2>. QED  BY <2>2
<1>4. /\ queue' \in Seq(Units) /\ Len(queue') = Len(queue) - k
      /\ \A i \in 1..Len(queue') : queue'[i] = queue[i + k]
  BY <1>1, SuffixKeepsOrder DEF QueueInOrder
<1>5. queue' # <<>> /\ queue'[Len(queue')] = queue[Len(queue)]
  <2>1. Len(queue') \in 1..Len(queue') /\ Len(queue') + k = Len(queue)
    BY <1>3, <1>4
  <2>. QED  BY <1>4, <2>1
<1>. QED  BY <1>2, <1>4, <1>5
          DEF QueueReachesHead, LedgerHead, Last, RepairFilters, durable

LEMMA PopEnds ==
    ASSUME Bookkeeping, UnitPops, Head(queue).seq <= watermark,
           QueueReachesHead, watermark < Len(ledger)
    PROVE  QueueReachesHead'
<1>. USE DEF Bookkeeping, TypeOK, StoresTyped, ControlTyped
<1>1. queue[Len(queue)].seq = Len(ledger) /\ queue # <<>> /\ Head(queue) = queue[1]
  BY DEF QueueReachesHead, LedgerHead, Last
<1>2. Len(queue) > 1
  BY <1>1
<1>3. /\ queue' \in Seq(Units) /\ Len(queue') = Len(queue) - 1
      /\ \A i \in 1..Len(queue') : queue'[i] = queue[i + 1]
  BY <1>1, HeadTailProperties DEF UnitPops
<1>4. queue' # <<>> /\ queue'[Len(queue')] = queue[Len(queue)]
  BY <1>2, <1>3
<1>. QED  BY <1>1, <1>3, <1>4 DEF QueueReachesHead, LedgerHead, Last, UnitPops, durable

LEMMA HealthStep ==
    ASSUME IInv, Health, [Next]_vars
    PROVE  Health'
<1>. USE DEF IInv, Health, Heads, WorkerFlags, AsleepIsIdle, HandedOver,
         LagIsOwed, ErrIsOwed, LagIsReported, RepairOwed, QueueReachesHead,
         Bookkeeping, WatermarkInLedger, ForegroundAlone, Alone, TargetListed,
         StaleUnitsGuarded, TypeOK, StoresTyped, ControlTyped, LedgerHead,
         Goto, vars, durable, lifecycle, surface, flags, workload, workerSame
<1>1. CASE \E e \in Events : AppendEvent(e)
  BY <1>1 DEF AppendEvent
<1>2. CASE DeriveFails
  BY <1>2 DEF DeriveFails, Fault
<1>3. CASE SkipIndex
  BY <1>3 DEF SkipIndex
<1>4. CASE Enqueue
  BY <1>4, EnqueueEnds DEF Enqueue
<1>5. CASE CompileFails
  BY <1>5 DEF CompileFails, Fault
<1>6. CASE WakeWorker
  BY <1>6 DEF WakeWorker
<1>7. CASE SyncIndex
  BY <1>7 DEF SyncIndex
<1>8. CASE ReplayNext
  BY <1>8 DEF ReplayNext
<1>9. CASE ReplayFails
  BY <1>9 DEF ReplayFails, Fault
<1>10. CASE IndexNothing
  BY <1>10 DEF IndexNothing, Fault
<1>11. CASE IndexNext
  BY <1>11 DEF IndexNext, ApplyWithWatermark
<1>12. CASE IndexNeedsRepair
  BY <1>12 DEF IndexNeedsRepair, Fault
<1>13. CASE ForegroundRepairStep
  BY <1>13 DEF ForegroundRepairStep, ApplyWithWatermark
<1>14. CASE ForegroundRepairEnds
  BY <1>14 DEF ForegroundRepairEnds, Fault
<1>15. CASE OpenReturns
  BY <1>15 DEF OpenReturns
<1>16. CASE WorkerWakes
  BY <1>16 DEF WorkerWakes
<1>17. CASE WorkerStops
  BY <1>17 DEF WorkerStops
<1>18. CASE DrainChooses
  BY <1>18 DEF DrainChooses
<1>19. CASE RecordOK
  BY <1>19 DEF RecordOK
<1>20. CASE RepairBegins
  BY <1>20 DEF RepairBegins
<1>21. CASE RepairLists
  BY <1>21 DEF RepairLists
<1>22. CASE RepairApplies
  BY <1>22 DEF RepairApplies, ApplyWithWatermark
<1>23. CASE RepairCompletes
  BY <1>23 DEF RepairCompletes
<1>24. CASE RepairFilters
  BY <1>24, FilterEnds DEF RepairFilters
<1>25. CASE RepairFails
  BY <1>25 DEF RepairFails, WorkerOpFails, Fault
<1>26. CASE ClearReconciling
  BY <1>26 DEF ClearReconciling
<1>27. CASE MarkRepair
  BY <1>27 DEF MarkRepair
<1>28. CASE UnitApplies
  BY <1>28, UnitStep DEF UnitApplies, ApplyWithWatermark
<1>29. CASE UnitGap
  BY <1>29 DEF UnitGap, IsGap
<1>30. CASE MarkGap
  BY <1>30 DEF MarkGap
<1>31. CASE UnitFails
  BY <1>31 DEF UnitFails, WorkerOpFails, Fault
<1>32. CASE UnitPops
  BY <1>32, PopEnds DEF UnitPops
<1>33. CASE RecordError
  BY <1>33 DEF RecordError
<1>34. CASE WorkerRetries
  BY <1>34 DEF WorkerRetries
<1>35. CASE WorkerClearsErr
  BY <1>35 DEF WorkerClearsErr
<1>36. CASE WorkerSetsErr
  BY <1>36 DEF WorkerSetsErr
<1>37. CASE CloseCancels
  BY <1>37 DEF CloseCancels
<1>38. CASE CloseReturns
  BY <1>38 DEF CloseReturns, WorkerJoined
<1>39. CASE OpenSession
  BY <1>39 DEF OpenSession, Fault, FreshMemory, NoWatermark
<1>40. CASE CloseBegins
  BY <1>40 DEF CloseBegins
<1>41. CASE Crash
  BY <1>41 DEF Crash, FreshMemory
<1>42. CASE UNCHANGED vars
  BY <1>42
<1>. QED  BY <1>1, <1>2, <1>3, <1>4, <1>5, <1>6, <1>7, <1>8, <1>9, <1>10,
         <1>11, <1>12, <1>13, <1>14, <1>15, <1>16, <1>17, <1>18, <1>19,
         <1>20, <1>21, <1>22, <1>23, <1>24, <1>25, <1>26, <1>27, <1>28,
         <1>29, <1>30, <1>31, <1>32, <1>33, <1>34, <1>35, <1>36, <1>37,
         <1>38, <1>39, <1>40, <1>41, <1>42 DEF Next, Foreground, Worker,
         LockedWorker, Closing

LEMMA HealthInvariance == Spec => [](IInv /\ Health)
<1>1. Init => Health
  BY DEF Init, NoWatermark, Health, Heads, WorkerFlags, AsleepIsIdle,
         HandedOver, LagIsOwed, ErrIsOwed, LagIsReported
<1>2. IInv /\ Health /\ [Next]_vars => Health'
  BY HealthStep
<1>. QED  BY <1>1, <1>2, Invariance, PTL DEF Spec

\* Serving a session that appended means that the append was handed over.
LEMMA ServingIsHandedOver ==
    ASSUME IInv, Serving, AppendedSinceOpen, async
    PROVE  HandedOver
BY DEF Serving, AppendedSinceOpen, HandedOver, LedgerHead, IInv, Bookkeeping,
       TypeOK, StoresTyped, ControlTyped

-----------------------------------------------------------------------------
(* The results.                                                            *)

\* Every variable of the session, of the worker and of the stores keeps its
\* type, in both maintenance modes.
THEOREM TypeCorrect == Spec => []TypeOK
<1>1. IInv => TypeOK
  BY DEF IInv, Bookkeeping
<1>. QED  BY <1>1, Invariance, PTL

\* The warm index is always the replay of the ledger prefix its watermark
\* names: no overflow, repair, stale unit, failure, close or crash makes
\* ApplyWithWatermark skip, repeat or reorder an event.
THEOREM IndexAlwaysPrefix == Spec => []IndexIsPrefix
<1>1. IInv => IndexIsPrefix
  BY DEF IInv, Bookkeeping, TypeOK, StoresTyped, WatermarkInLedger,
         IndexIsPrefix, LedgerHead
<1>. QED  BY <1>1, Invariance, PTL

\* The session with its worker implements the disposable view of the ledger.
THEOREM RefinesWarmIndex == Spec => ImplementsWarmIndex
<1>1. Init => Abstract!Init
  BY DEF Init, NoWatermark, EmptyIndex, Untouched, Abstract!Init,
         Abstract!EmptyIndex, Abstract!Untouched
<1>2. IInv /\ [Next]_vars => [Abstract!Next]_<<ledger, watermark, pages>>
  BY StepRefines
<1>. QED  BY <1>1, <1>2, Invariance, PTL
          DEF Spec, ImplementsWarmIndex, Abstract!Spec, Abstract!vars

\* An event appended to an asynchronous session is never stranded below the
\* head: whatever overflowed, failed or was cleared by drainIndexMaintenance, a
\* repair is owed or the queue still ends with the newest event.
THEOREM AppendsAreOwed == Spec => []NothingStranded
<1>1. IInv /\ Health => NothingStranded
  BY ServingIsHandedOver DEF NothingStranded, Health, LagIsOwed, LedgerHead
<1>. QED  BY <1>1, HealthInvariance, PTL

\* A worker that sleeps without a token behind an append has brought the index
\* to the head and left no error on MaintenanceStatus nor in IndexErr.
THEOREM SleepIsClean == Spec => []QuiescentIsClean
<1>1. IInv /\ Health => QuiescentIsClean
  <2>. SUFFICES ASSUME IInv, Health, Serving, AppendedSinceOpen, wpc = "wait", ~wake
                PROVE  watermark = LedgerHead /\ ReadsCaughtUp /\ ~indexErr
    BY DEF QuiescentIsClean
  <2>1. async /\ fpc = "idle"
    BY DEF Serving, IInv, Bookkeeping, ForegroundAlone, Alone
  <2>2. HandedOver
    BY <2>1, ServingIsHandedOver
  <2>3. queue = <<>> /\ ~needsRepair
    BY <2>1 DEF Health, AsleepIsIdle
  <2>4. ~maintErr /\ ~reconciling
    BY DEF Health, WorkerFlags
  <2>5. ~indexErr
    BY <2>2, <2>3 DEF Health, ErrIsOwed
  <2>6. ~(watermark < Len(ledger))
    BY <2>2, <2>3 DEF Health, LagIsOwed, RepairOwed, QueueReachesHead
  <2>7. watermark = LedgerHead
    BY <2>6 DEF LedgerHead, IInv, Bookkeeping, WatermarkInLedger, TypeOK, StoresTyped
  <2>. QED  BY <2>3, <2>4, <2>5, <2>7 DEF ReadsCaughtUp, Degraded
<1>. QED  BY <1>1, HealthInvariance, PTL

\* MaintenanceStatus reads as caught up only at the head, but for the gap
\* between clearReconciling and markMaintenanceRepair.
THEOREM StatusTellsLag == Spec => []StatusIsHonest
<1>1. IInv /\ Health => StatusIsHonest
  <2>. SUFFICES ASSUME IInv, Health, async, Serving, AppendedSinceOpen,
                       wpc # "mark", ReadsCaughtUp
                PROVE  watermark = LedgerHead
    BY DEF StatusIsHonest
  <2>1. HandedOver
    BY ServingIsHandedOver
  <2>2. queue = <<>> /\ ~needsRepair /\ ~reconciling
    BY DEF ReadsCaughtUp, Degraded
  <2>3. ~RepairOwed /\ ~QueueReachesHead
    BY <2>2 DEF Health, WorkerFlags, RepairOwed, QueueReachesHead
  <2>4. ~(watermark < Len(ledger))
    BY <2>1, <2>3 DEF Health, LagIsOwed
  <2>. QED  BY <2>4 DEF LedgerHead, IInv, Bookkeeping, WatermarkInLedger,
                        TypeOK, StoresTyped
<1>. QED  BY <1>1, HealthInvariance, PTL

\* Where Append or the replay of OpenSession indexes on the foreground thread,
\* an index behind the ledger is behind with IndexErr set.
THEOREM LagHasError == Spec => []ErrCoversLag
<1>1. IInv /\ Health => ErrCoversLag
  BY DEF ErrCoversLag, Serving, AppendedSinceOpen, Health, Heads, LagIsReported,
         LedgerHead, IInv, Bookkeeping, TypeOK, StoresTyped, ControlTyped
<1>. QED  BY <1>1, HealthInvariance, PTL
=============================================================================
