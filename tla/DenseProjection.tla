--------------------------- MODULE DenseProjection ---------------------------
(***************************************************************************)
(* The dense projection of the warm index and the worker that fills it     *)
(* (internal/indexer/dense.go, embeddingWorker in                          *)
(* internal/harness/session.go).  The worker lists the pages that have no  *)
(* vector, has them embedded without any lock, and writes the vectors back *)
(* if the pages are still what they were; meanwhile events are applied to  *)
(* the pages.  A page the admission policy denies is suppressed: it stays  *)
(* lexical until it changes.                                               *)
(*                                                                         *)
(* A page's tuple (version, digest, compiler, session) is its version, and *)
(* its text is told by its tuple, so a vector is the record of the page    *)
(* and version it was computed from.  An index has one embedding           *)
(* namespace.  Vectors, texts, reasons and retry delays are left out.      *)
(***************************************************************************)
EXTENDS WarmPages, FiniteSets, FiniteSetsExt, Functions

CONSTANTS
    Denied,      \* the page tuples whose text the admission policy denies
    BatchSize,   \* cfg.EmbeddingBatchSize
    MaxSeq,      \* bound: events applied to the index
    MaxFaults,   \* bound: failures of the embedder and of the index
    MaxOpens     \* bound: calls of OpenSession

Records == [page : Pages, version : Nat \ {0}]

ASSUME PagesAssumption == IsFiniteSet(Pages)
ASSUME DeniedAssumption == Denied \subseteq Records
ASSUME BatchAssumption == BatchSize \in Nat \ {0}
ASSUME BoundsAssumption == MaxSeq \in Nat \ {0} /\ {MaxFaults, MaxOpens} \subseteq Nat

VARIABLES
    pages,      \* durable: warm_pages
    seq,        \* durable: append sequence of the last event applied
    dense,      \* durable: the five tables of the projection
    phase,      \* of the session: "closed", "opening", "open", "closing"
    owed,       \* the thread that applied an event has not sent the wake yet
    wake,       \* embeddingWake holds its one token
    wpc,        \* where the worker is between two of its calls
    batch,      \* records the worker has listed and not finished
    degraded,   \* embeddingErr # nil
    faults,     \* failures so far
    opens       \* sessions opened so far

durable == <<pages, seq, dense>>
session == <<phase, opens>>
signals == <<owed, wake>>
vars == <<pages, seq, dense, phase, owed, wake, wpc, batch, degraded, faults, opens>>

WorkerPcs == {"none", "wait", "check", "list", "embed", "store", "single", "put",
              "suppress", "backoff", "ok", "done"}

Less(f, K) == Restrict(f, DOMAIN f \ K)

\* f, but for what g says.
Updated(f, g) ==
    [x \in DOMAIN f \cup DOMAIN g |-> IF x \in DOMAIN g THEN g[x] ELSE f[x]]

\* map: warm_page_vec_map; rows: warm_page_vec_rows; vec: warm_pages_vec, by
\* rowid; shadow: warm_page_vec_shadow; suppressed: warm_page_vec_suppressed.
NoVectors == [map |-> <<>>, rows |-> <<>>, vec |-> <<>>, shadow |-> <<>>,
              suppressed |-> <<>>]

TypeOK ==
    /\ pages \in [Pages -> PageStates]
    /\ seq \in 0..MaxSeq
    /\ \A p \in DOMAIN dense.map : dense.map[p] \in [row : Nat, version : Nat]
    /\ \A r \in DOMAIN dense.vec : dense.vec[r] \in Records
    /\ UNION {DOMAIN dense.map, DOMAIN dense.shadow, DOMAIN dense.suppressed,
              Range(dense.rows)} \subseteq Pages
    /\ phase \in {"closed", "opening", "open", "closing"}
    /\ {owed, wake, degraded} \subseteq BOOLEAN
    /\ wpc \in WorkerPcs
    /\ batch \subseteq Records

-----------------------------------------------------------------------------
(* The tables.                                                             *)

Page(p) == [page |-> p, version |-> pages[p].version]

\* requireCurrentPageTuple: the compare of every vector and suppression write.
Bug_Current(rec) == pages[rec.page].active  \* any version of the page will do
Current(rec) == pages[rec.page] = [version |-> rec.version, active |-> TRUE]

\* deleteDenseProjectionTx of each page of K.
Bug_Evicted(D, K) ==  \* the mapping goes first, and the rows are not found
    [D EXCEPT !.shadow = Less(@, K), !.map = Less(@, K)]
Evicted(D, K) ==
    LET rows == {D.map[p].row : p \in K \cap DOMAIN D.map}
    IN [map |-> Less(D.map, K), rows |-> Less(D.rows, rows), vec |-> Less(D.vec, rows),
        shadow |-> Less(D.shadow, K), suppressed |-> D.suppressed]

\* deleteVectorTx of each page of K.
Forgotten(D, K) == Evicted([D EXCEPT !.suppressed = Less(@, K)], K)

\* The rows the vectors of P may be given: those they have, and for the others
\* the next above all.
Top(map) == Max({0} \cup {map[p].row : p \in DOMAIN map})
RowsFor(map, P) ==
    LET new == P \ DOMAIN map
    IN {row \in [P -> 1..Top(map) + Cardinality(new)] :
            /\ IsInjective(row)
            /\ \A p \in P : IF p \in new THEN row[p] > Top(map) ELSE row[p] = map[p].row}

\* upsertCanonicalVectorTx of each record, with the row it gets: a suppression
\* of this very tuple wins.
Accepted(D, records) ==
    {rec \in records : ~(/\ rec.page \in DOMAIN D.suppressed
                         /\ D.suppressed[rec.page] = rec.version)}
PagesOf(records) == {rec.page : rec \in records}
Vectored(D, records, row) ==
    LET E     == Evicted(D, PagesOf(records \ Accepted(D, records)))
        of(p) == CHOOSE rec \in records : rec.page = p
        at(r) == CHOOSE p \in DOMAIN row : row[p] = r
    IN [map |-> Updated(E.map, [p \in DOMAIN row |-> [row |-> row[p], version |-> of(p).version]]),
        rows |-> Updated(E.rows, [r \in Range(row) |-> at(r)]),
        vec |-> Updated(E.vec, [r \in Range(row) |-> of(at(r))]),
        shadow |-> Updated(E.shadow, [p \in DOMAIN row |-> of(p)]),
        suppressed |-> Less(E.suppressed, DOMAIN row)]

\* UpsertVectors: one transaction; a stale record fails them all.
UpsertVectors(records) ==
    /\ \A rec \in records : Current(rec)
    /\ \E row \in RowsFor(dense.map, PagesOf(Accepted(dense, records))) :
          dense' = Vectored(dense, records, row)

\* SuppressVectors
SuppressVector(rec) ==
    /\ Current(rec)
    /\ dense' = [Evicted(dense, {rec.page}) EXCEPT
                    !.suppressed = Updated(@, [p \in {rec.page} |-> rec.version])]

\* The joins of MissingVectorPages, which do not look at vec0.
Suppressed(p) ==
    p \in DOMAIN dense.suppressed /\ dense.suppressed[p] = pages[p].version
Mapped(p) ==
    /\ p \in DOMAIN dense.map /\ dense.map[p].version = pages[p].version
    /\ dense.map[p].row \in DOMAIN dense.rows /\ dense.rows[dense.map[p].row] = p
    /\ p \in DOMAIN dense.shadow /\ dense.shadow[p].version = pages[p].version
Missing == {p \in Pages : pages[p].active /\ ~Suppressed(p) /\ ~Mapped(p)}

\* The joins of SearchDense: the pages a query can be answered with.
Servable(p) == pages[p].active /\ Mapped(p) /\ dense.map[p].row \in DOMAIN dense.vec

\* copyCompatibleVectors into the empty tables of a rebuilt index: what is
\* mapped, has a vector, and is of the page's current tuple.  The suppressions
\* are not copied.
Compatible ==
    {p \in DOMAIN dense.map :
        /\ Current([page |-> p, version |-> dense.map[p].version])
        /\ IF p \in DOMAIN dense.shadow
           THEN dense.shadow[p].version = dense.map[p].version
           ELSE dense.map[p].row \in DOMAIN dense.vec}

-----------------------------------------------------------------------------
(* The index under the session.                                            *)

\* A generation written before the shadow table: its map is the commit marker
\* and has vectors, but neither shadow nor rows.
Legacy(row) ==
    LET at(r) == CHOOSE p \in DOMAIN row : row[p] = r
    IN [map |-> [p \in DOMAIN row |-> [row |-> row[p], version |-> 1]],
        rows |-> <<>>,
        vec |-> [r \in Range(row) |-> [page |-> at(r), version |-> 1]],
        shadow |-> <<>>, suppressed |-> <<>>]

Init ==
    /\ \E S \in SUBSET Pages :
          /\ pages = [p \in Pages |->
                        IF p \in S THEN [version |-> 1, active |-> TRUE] ELSE Untouched]
          /\ \E row \in RowsFor(<<>>, S) : dense = Legacy(row)
          /\ seq = IF S = {} THEN 0 ELSE 1
    /\ phase = "closed"
    /\ owed = FALSE /\ wake = FALSE /\ degraded = FALSE
    /\ wpc = "none"
    /\ batch = {}
    /\ faults = 0 /\ opens = 0

\* ensureDenseTables, on the way into OpenSession: rows come from the map.
TablesEnsured ==
    LET mapped == {dense.map[p].row : p \in DOMAIN dense.map}
        at(r)  == CHOOSE p \in DOMAIN dense.map : dense.map[p].row = r
    IN [dense EXCEPT !.rows = Updated([r \in mapped |-> at(r)], @)]

OpenSession ==
    /\ phase = "closed" /\ opens < MaxOpens
    /\ phase' = "opening" /\ opens' = opens + 1
    /\ dense' = TablesEnsured
    /\ degraded' = FALSE
    /\ UNCHANGED <<pages, seq, owed, wake, wpc, batch, faults>>

\* ApplyWithWatermark of the next event: by replay, by an Append, or by the
\* maintenance worker, which Close has not joined yet.  A touched page loses
\* its vector and its suppression in the same transaction.
Apply(e) ==
    /\ phase # "closed" /\ ~owed /\ seq < MaxSeq
    /\ pages' = ApplyMutations(pages, e, seq + 1)
    /\ seq' = seq + 1
    /\ dense' = Forgotten(dense, {p \in Pages : e[p] # "none"})
    /\ owed' = (phase # "opening")
    /\ UNCHANGED <<session, wake, wpc, batch, degraded, faults>>

\* wakeEmbeddingWorker after an application: the channel holds one token.
Bug_Wake ==  \* a send that finds nobody waiting is dropped: no buffer
    /\ owed
    /\ owed' = FALSE /\ wake' = (wpc = "wait")
    /\ UNCHANGED <<durable, session, wpc, batch, degraded, faults>>
Wake ==
    /\ owed
    /\ owed' = FALSE /\ wake' = TRUE
    /\ UNCHANGED <<durable, session, wpc, batch, degraded, faults>>

\* The end of OpenSession: startEmbeddingWorker and the first wake.
OpenReturns ==
    /\ phase = "opening"
    /\ phase' = "open" /\ wpc' = "wait" /\ wake' = TRUE
    /\ UNCHANGED <<durable, opens, owed, batch, degraded, faults>>

CloseBegins ==
    /\ phase = "open"
    /\ phase' = "closing"
    /\ UNCHANGED <<durable, opens, signals, wpc, batch, degraded, faults>>

CloseReturns ==
    /\ phase = "closing" /\ wpc = "done" /\ ~owed
    /\ phase' = "closed" /\ wpc' = "none" /\ wake' = FALSE
    /\ UNCHANGED <<durable, opens, owed, batch, degraded, faults>>

\* The process ends; what was committed stays.  An open that failed is one.
Crash ==
    /\ phase # "closed"
    /\ phase' = "closed" /\ wpc' = "none" /\ batch' = {}
    /\ owed' = FALSE /\ wake' = FALSE /\ degraded' = FALSE
    /\ UNCHANGED <<durable, opens, faults>>

\* Index.Rebuild, between sessions, from pages that compile to the same tuples.
Rebuild ==
    /\ phase = "closed" /\ opens \in 1..MaxOpens - 1
    /\ \E row \in RowsFor(<<>>, Compatible) :
          dense' = Vectored(NoVectors, {Page(p) : p \in Compatible}, row)
    /\ UNCHANGED <<pages, seq, session, signals, wpc, batch, degraded, faults>>

-----------------------------------------------------------------------------
(* The worker.  Its calls run outside appendMu; between two of them the     *)
(* pages may change.                                                       *)

Goto(from, to) == wpc = from /\ wpc' = to

\* A failed call: recorded, and retried after a while or left until a wake.
Fails(to) ==
    /\ faults < MaxFaults
    /\ faults' = faults + 1
    /\ wpc' = to
    /\ batch' = {} /\ degraded' = TRUE
    /\ UNCHANGED <<durable, session, signals>>

WorkerWakes ==
    /\ wake /\ Goto("wait", "check")
    /\ wake' = FALSE
    /\ UNCHANGED <<durable, session, owed, batch, degraded, faults>>

\* The embedder's SelfCheck before each batch.
SelfCheck ==
    /\ Goto("check", "list")
    /\ UNCHANGED <<durable, session, signals, batch, degraded, faults>>

SelfCheckFails == wpc = "check" /\ Fails("backoff")

\* ORDER BY source_seq_max LIMIT batchSize
Oldest(B) ==
    /\ B \subseteq Missing
    /\ Cardinality(B) = Min({BatchSize, Cardinality(Missing)})
    /\ \A p \in B, q \in Missing \ B : pages[p].version <= pages[q].version

MissingVectorPages ==
    /\ wpc = "list"
    /\ \E B \in SUBSET Missing :
          /\ Oldest(B)
          /\ batch' = {Page(p) : p \in B}
          /\ wpc' = IF B = {} THEN "ok" ELSE "embed"
    /\ UNCHANGED <<durable, session, signals, degraded, faults>>

RecordEmbeddingOK ==
    /\ Goto("ok", "wait")
    /\ degraded' = FALSE
    /\ UNCHANGED <<durable, session, signals, batch, faults>>

\* EmbedDocuments of the whole batch: one denied text denies them all.
Bug_Embed ==  \* a denial is one more failure to retry
    /\ wpc = "embed"
    /\ IF batch \cap Denied = {} THEN wpc' = "store" /\ UNCHANGED <<batch, degraded>>
       ELSE wpc' = "backoff" /\ batch' = {} /\ degraded' = TRUE
    /\ UNCHANGED <<durable, session, signals, faults>>
Embed ==
    /\ Goto("embed", IF batch \cap Denied = {} THEN "store" ELSE "single")
    /\ UNCHANGED <<durable, session, signals, batch, degraded, faults>>

\* Of the backend: retried.  A vector that fails validation, a namespace the
\* index refuses: not.
EmbedFails == wpc \in {"embed", "single"} /\ batch # {} /\ Fails("backoff")
EmbedRefused == wpc \in {"embed", "single"} /\ batch # {} /\ Fails("wait")

\* ErrStalePageTuple is no fault of the store, and not retried: whoever
\* changed the page wakes the worker.
Stale(records) ==
    /\ \E rec \in records : ~Current(rec)
    /\ wpc' = "wait"
    /\ batch' = {} /\ degraded' = TRUE
    /\ UNCHANGED dense

StoreBatch ==
    /\ wpc = "store"
    /\ \/ UpsertVectors(batch) /\ wpc' = "check" /\ batch' = {} /\ UNCHANGED degraded
       \/ Stale(batch)
    /\ UNCHANGED <<pages, seq, session, signals, faults>>

\* embedVectorPagesIndividually: in the order of the listing.
NextInBatch(rec) ==
    rec \in batch /\ \A other \in batch : rec.version <= other.version

EmbedOne ==
    /\ wpc = "single" /\ batch # {}
    /\ \E rec \in batch :
          /\ NextInBatch(rec)
          /\ IF rec \in Denied THEN SuppressVector(rec) ELSE UpsertVectors({rec})
          /\ batch' = batch \ {rec}
    /\ UNCHANGED <<pages, seq, session, signals, wpc, degraded, faults>>

EmbedOneStale ==
    /\ wpc = "single"
    /\ \E rec \in batch : NextInBatch(rec) /\ Stale({rec})
    /\ UNCHANGED <<pages, seq, session, signals, faults>>

SinglesDone ==
    /\ batch = {} /\ Goto("single", "check")
    /\ UNCHANGED <<durable, session, signals, batch, degraded, faults>>

\* Any call of the index may fail, and is left until a wake.
IndexFails == wpc \in {"list", "store", "single"} /\ Fails("wait")

BackoffEnds ==
    /\ Goto("backoff", "check")
    /\ UNCHANGED <<durable, session, signals, batch, degraded, faults>>

\* ctx.Done, at a select or as the error of a call.
WorkerStops ==
    /\ phase = "closing" /\ wpc \notin {"none", "done"}
    /\ wpc' = "done" /\ batch' = {}
    /\ UNCHANGED <<durable, session, signals, degraded, faults>>

WorkerStep ==
    \/ WorkerWakes \/ SelfCheck \/ MissingVectorPages \/ RecordEmbeddingOK
    \/ Embed \/ StoreBatch \/ EmbedOne \/ EmbedOneStale \/ SinglesDone
    \/ BackoffEnds

Next ==
    \/ OpenSession \/ OpenReturns \/ CloseBegins \/ CloseReturns \/ Crash
    \/ Rebuild
    \/ \E e \in Events : Apply(e)
    \/ Wake
    \/ WorkerStep \/ WorkerStops
    \/ SelfCheckFails \/ EmbedFails \/ EmbedRefused \/ IndexFails

Spec == Init /\ [][Next]_vars

\* The worker runs, a thread that applied an event goes on to its wake.
FairSpec == Spec /\ WF_vars(WorkerStep) /\ WF_vars(Wake) /\ WF_vars(WorkerStops)

-----------------------------------------------------------------------------
(* Properties.                                                             *)

\* While a session is open the five tables of the projection describe the same
\* pages: every mapped page has a row of its own, that row's vector and the
\* shadow, if there is one, are of the page; no vector and no row is left
\* without its page, and no page is both mapped and suppressed.  So the listing
\* of missing pages, which does not look at the vectors, leaves out exactly the
\* pages a query can be answered with and the suppressed ones.
ProjectionsAgree ==
    /\ TypeOK
    /\ phase # "closed" =>
        /\ DOMAIN dense.rows = DOMAIN dense.vec
        /\ DOMAIN dense.vec = {dense.map[p].row : p \in DOMAIN dense.map}
        /\ \A p \in DOMAIN dense.map :
              LET row == dense.map[p].row
              IN /\ dense.rows[row] = p
                 /\ dense.vec[row].page = p
                 /\ p \in DOMAIN dense.shadow => dense.shadow[p] = dense.vec[row]
        /\ DOMAIN dense.shadow \subseteq DOMAIN dense.map
        /\ DOMAIN dense.map \cap DOMAIN dense.suppressed = {}
        /\ \A p \in Pages : pages[p].active =>
              Servable(p) = (p \notin Missing /\ ~Suppressed(p))

\* A vector that a query can meet was computed from what its page holds now,
\* and a suppression is of what its page holds now, however many events were
\* applied while the worker was embedding.
VectorsMatchPages ==
    /\ \A p \in DOMAIN dense.map :
          /\ Current([page |-> p, version |-> dense.map[p].version])
          /\ dense.vec[dense.map[p].row] = Page(p)
    /\ \A p \in DOMAIN dense.suppressed : Current(Page(p)) /\ Suppressed(p)

\* When the worker sleeps, no wake is pending or owed and nothing ever failed,
\* every active page has its vector or its suppression.  After a failure it may
\* sleep on missing pages, and the status says degraded.
AtRest == phase = "open" /\ wpc = "wait" /\ ~wake /\ ~owed
QuiescentMeansCovered ==
    AtRest /\ Missing # {} => faults > 0 /\ degraded

\* A page without a vector gets one or is suppressed, or changes, unless the
\* session is closed or a failure parks the worker: a denied page, a stale
\* batch or finitely many failures of the embedder never stop the others.
BacklogDrains ==
    \A p \in Pages :
        (phase = "open" /\ p \in Missing) ~>
            (p \notin Missing \/ phase # "open" \/ (AtRest /\ faults > 0))
=============================================================================
