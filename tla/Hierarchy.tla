------------------------------- MODULE Hierarchy -------------------------------
(***************************************************************************)
(* The resident hierarchy (internal/memory/hierarchy.go): the bounded set  *)
(* of resident pages with its pins and its clock hand, the bodyless ghosts *)
(* of evicted pages, and the semantic shadows that tell whether a page the *)
(* search passed over would have been used.                                *)
(*                                                                         *)
(* Every operation runs under the hierarchy's lock, so each is one action, *)
(* but for two that take many steps: the sweep of the clock hand, one scan *)
(* at a time with the lock held, and Reconcile, which lists the residents, *)
(* evaluates them without the lock and then applies what it found.         *)
(*                                                                         *)
(* A page is its identity (id and version: the exact tuple), the size of   *)
(* its metadata and the size of its body, summary and refs.  Left out: the *)
(* trace, the metrics that feed nothing back, L0 and L1 text, and the      *)
(* Invalidated flag, which no resident ever carries (Reconcile removes     *)
(* instead, and nothing else sets it).                                     *)
(***************************************************************************)
EXTENDS BoundedFifo

CONSTANTS
    Ids, Versions, Namespaces,
    MetaSizes, BodySizes,       \* of the pages that callers admit
    MaxResidentPages, MaxResidentBytes, MaxPinnedPages, MaxPinnedBytes,
    MaxPageBytes, MaxGhostEntries, MaxGhostBytes, MaxShadowEntries,
    MaxShadowBytes, ShadowUseHorizon

ASSUME SizesAssumption == MetaSizes \subseteq Nat \ {0} /\ BodySizes \subseteq Nat

\* Policy.Validate
ASSUME PolicyAssumption ==
    /\ {MaxResidentPages, MaxResidentBytes, MaxPageBytes} \subseteq Nat \ {0}
    /\ {MaxPinnedPages, MaxPinnedBytes, MaxGhostEntries, MaxGhostBytes,
        MaxShadowEntries, MaxShadowBytes, ShadowUseHorizon} \subseteq Nat
    /\ MaxPinnedPages <= MaxResidentPages
    /\ MaxPinnedBytes <= MaxResidentBytes
    /\ MaxPageBytes <= MaxResidentBytes

VARIABLES
    residency,  \* resident, residentOrder, clock, the accounts and the tiers
    ghosts,     \* ghosts, ghostOrder, ghostBytes
    shadows,    \* shadows, shadowOrder, shadowBytes and the trials not settled
    lock,       \* "free", or what the holder of mu is in the middle of
    sweep,      \* enforceResidentCapacityLocked
    listed      \* the tuples Reconcile has listed and not yet applied

vars == <<residency, ghosts, shadows, lock, sweep, listed>>

Pages == [id : Ids, version : Versions, meta : MetaSizes,
          body : BodySizes \cup {0}, stale : BOOLEAN]

\* What a caller admits: a current page with whatever body it has.
Admissible == {p \in Pages : p.body \in BodySizes /\ ~p.stale}

\* For the operations that look at the identity and the metadata alone.
Metadata == {p \in Pages : p.body = 0 /\ ~p.stale}

PageSize(p) == p.meta + p.body
Tuple(p) == <<p.id, p.version>>
Tuples == Ids \X Versions

Entries == [page : Pages, state : {"cold", "hot", "pinned"}, ref : BOOLEAN,
            uses : 0..2, materialized : BOOLEAN]

NoSweep == [left |-> 0, evicted |-> FALSE, easy |-> {}]

TypeOK ==
    /\ DOMAIN residency.of \subseteq Ids
    /\ \A id \in DOMAIN residency.of :
          residency.of[id] \in Entries /\ residency.of[id].page.id = id
    /\ residency.order \in Seq(Ids)
    /\ {residency.clock, residency.bytes, residency.pinnedBytes,
        residency.pinnedPages, ghosts.bytes, shadows.bytes, sweep.left} \subseteq Nat
    /\ DOMAIN ghosts.of \subseteq Ids
    /\ \A id \in DOMAIN ghosts.of :
          ghosts.of[id] \in [version : Versions, size : MetaSizes]
    /\ DOMAIN shadows.of \subseteq Tuples \X Namespaces
    /\ \A k \in DOMAIN shadows.of :
          shadows.of[k] \in [useful : BOOLEAN, age : 0..ShadowUseHorizon, size : MetaSizes]
    /\ shadows.pending \in Nat
    /\ lock \in {"free", "sweep", "apply"}
    /\ lock = "sweep" <=> sweep # NoSweep
    /\ listed \in Seq(Tuples)

-----------------------------------------------------------------------------
(* Residents.                                                              *)

Resident(R, id) == id \in DOMAIN R.of
Exact(R, p) == Resident(R, p.id) /\ R.of[p.id].page.version = p.version
Pinned(R, id) == Resident(R, id) /\ R.of[id].state = "pinned"

OverCapacity(R) ==
    Cardinality(DOMAIN R.of) > MaxResidentPages \/ R.bytes > MaxResidentBytes

\* syncResidentTierLocked, after the entry of id was written.
WithEntry(R, id, entry) ==
    [R EXCEPT !.of = With(@, id, entry),
              !.l2 = IF entry.state = "cold" THEN @ \ {id} ELSE @ \cup {id},
              !.l3 = IF entry.state = "cold" THEN @ \cup {id} ELSE @ \ {id}]

\* removeResidentLocked.  A hand left beyond the end goes back to the start,
\* and only then is it moved back for a page removed before it.
Bug_HandUnwrapped(clock, removed, length) ==  \* left beyond the end
    IF removed < clock THEN clock - 1 ELSE clock
HandAfter(clock, removed, length) ==
    LET wrapped == IF clock >= length /\ length > 0 THEN 0 ELSE clock
    IN IF removed < wrapped THEN wrapped - 1 ELSE wrapped

RemoveResident(R, id) ==
    IF ~Resident(R, id) THEN R ELSE
    LET size   == PageSize(R.of[id].page)
        place  == CHOOSE i \in DOMAIN R.order : R.order[i] = id
        pinned == R.of[id].state = "pinned"
    IN [R EXCEPT !.of = Restrict(@, DOMAIN @ \ {id}),
                 !.order = SubSeq(@, 1, place - 1) \o SubSeq(@, place + 1, Len(@)),
                 !.clock = HandAfter(@, place - 1, Len(R.order) - 1),
                 !.bytes = @ - size,
                 !.pinnedBytes = IF pinned THEN @ - size ELSE @,
                 !.pinnedPages = IF pinned THEN @ - 1 ELSE @,
                 !.l2 = @ \ {id},
                 !.l3 = @ \ {id}]

-----------------------------------------------------------------------------
(* Ghosts and shadows.                                                     *)

\* addGhostLocked: only the metadata of the page is kept.
WithGhost(G, p) ==
    IF MaxGhostEntries = 0 \/ p.meta > MaxGhostBytes THEN G ELSE
    LET q == Put(G, p.id, [version |-> p.version, size |-> p.meta])
    IN Without(q, Excess(q, MaxGhostEntries, MaxGhostBytes))

ExactGhost(G, p) == p.id \in DOMAIN G.of /\ G.of[p.id].version = p.version
Bug_MismatchedGhost(G, p) == {}  \* another version's ghost outlives a page-in
MismatchedGhost(G, p) == {id \in DOMAIN G.of : id = p.id /\ ~ExactGhost(G, p)}

ShadowsOf(S, id) == {k \in DOMAIN S.of : k[1][1] = id}
MismatchedShadows(S, p) == {k \in ShadowsOf(S, p.id) : k[1] # Tuple(p)}

\* A trial that ends before a use is counted once, as censored or as unused.
Bug_ShadowsWithout(S, K) ==  \* a useful shadow is counted again as it leaves
    LET q == Without(S, K)
    IN [q EXCEPT !.pending = @ - Cardinality(DOMAIN S.of \cap K)]
ShadowsWithout(S, K) ==
    LET q == Without(S, K)
    IN [q EXCEPT !.pending = @ - Cardinality({k \in DOMAIN S.of \cap K : ~S.of[k].useful})]

\* A real use: the use clock advances, shadows beyond the horizon expire, and
\* every trial of the exact tuple that is not settled was useful.
Settled(S, p) ==
    LET aged == [k \in DOMAIN S.of |-> [S.of[k] EXCEPT !.age = @ + 1]]
        T    == ShadowsWithout([S EXCEPT !.of = aged],
                               {k \in DOMAIN aged : aged[k].age > ShadowUseHorizon})
        hits == {k \in DOMAIN T.of : k[1] = Tuple(p) /\ ~T.of[k].useful}
    IN [T EXCEPT !.of = [k \in DOMAIN T.of |-> [T.of[k] EXCEPT !.useful = @ \/ k \in hits]],
                 !.pending = @ - Cardinality(hits)]

\* putShadowLocked: an observation repeated keeps its age and its outcome.
Observed(S, p, ns) ==
    LET T   == ShadowsWithout(S, MismatchedShadows(S, p))
        key == <<Tuple(p), ns>>
        had == key \in DOMAIN T.of
        new == IF had THEN [T.of[key] EXCEPT !.size = p.meta]
                      ELSE [useful |-> FALSE, age |-> 0, size |-> p.meta]
        U   == [Put(T, key, new) EXCEPT !.pending = IF had THEN @ ELSE @ + 1]
    IN IF had
       THEN IF U.bytes > MaxShadowBytes THEN T ELSE U
       ELSE ShadowsWithout(U, Excess(U, MaxShadowEntries, MaxShadowBytes))

-----------------------------------------------------------------------------
(* Admission.                                                              *)

\* preflightCapacityLocked: the pin caps must hold afterwards, and what no
\* eviction can remove (the pins and p itself) must fit.
Feasible(R, p, isPinned) ==
    LET old   == IF Resident(R, p.id) THEN PageSize(R.of[p.id].page) ELSE 0
        was   == Pinned(R, p.id)
        pins  == R.pinnedPages - (IF was THEN 1 ELSE 0) + (IF isPinned THEN 1 ELSE 0)
        bytes == R.pinnedBytes - (IF was THEN old ELSE 0)
                               + (IF isPinned THEN PageSize(p) ELSE 0)
        fits  == /\ Cardinality(DOMAIN R.of \cup {p.id}) <= MaxResidentPages
                 /\ R.bytes - old + PageSize(p) <= MaxResidentBytes
        floor == /\ pins + (IF isPinned THEN 0 ELSE 1) <= MaxResidentPages
                 /\ bytes + (IF isPinned THEN 0 ELSE PageSize(p)) <= MaxResidentBytes
    IN pins <= MaxPinnedPages /\ bytes <= MaxPinnedBytes /\ (fits \/ floor)

\* A stale resident of another version gives way to a demand, and loses its pin.
ReplacesStale(R, p, mode) ==
    Resident(R, p.id) /\ ~Exact(R, p) /\ mode = "demand" /\ R.of[p.id].page.stale

Admits(R, p, mode) ==
    /\ PageSize(p) <= MaxPageBytes
    /\ Resident(R, p.id) => Exact(R, p) \/ ReplacesStale(R, p, mode)
    /\ Feasible(R, p, mode = "pinned" \/ (Pinned(R, p.id) /\ Exact(R, p)))

\* A page not resident yet.
Newcomer(p, mode, refault) ==
    [page |-> p,
     state |-> CASE mode = "demand" -> IF refault THEN "hot" ELSE "cold"
                 [] mode \in {"cold", "warm"} -> "cold"
                 [] OTHER -> mode,
     ref |-> mode \notin {"cold", "warm"},
     uses |-> IF mode = "demand" THEN 1 ELSE 0,
     materialized |-> p.body # 0]

Inserted(R, entry) ==
    LET p == entry.page
        size == PageSize(p)
        isPinned == entry.state = "pinned"
    IN [WithEntry(R, p.id, entry) EXCEPT
            !.order = Append(@, p.id),
            !.bytes = @ + size,
            !.pinnedBytes = IF isPinned THEN @ + size ELSE @,
            !.pinnedPages = IF isPinned THEN @ + 1 ELSE @]

\* One more real use of an entry; the second promotes a cold page.
UsedOnce(entry) ==
    [entry EXCEPT !.uses = IF @ = 2 THEN 2 ELSE @ + 1,
                  !.ref = TRUE,
                  !.state = IF @ = "cold" /\ entry.uses >= 1 THEN "hot" ELSE @]

\* The same tuple again: the new materialization, and what the mode does.
Refreshed(entry, p, mode) ==
    LET now == [entry EXCEPT !.page = p, !.materialized = p.body # 0]
        pin == entry.state = "pinned"
    IN CASE mode = "demand" -> UsedOnce(now)
         [] mode = "cold"   -> now
         [] mode = "warm"   -> IF pin THEN now
                               ELSE [now EXCEPT !.state = "cold", !.ref = FALSE]
         [] mode = "pinned" -> [now EXCEPT !.state = "pinned", !.ref = TRUE]
         [] mode = "hot"    -> [now EXCEPT !.state = IF pin THEN @ ELSE "hot", !.ref = TRUE]

\* The entry of a resident changes and the accounts follow.
Bug_Replaced(R, id, entry) ==  \* a pin that changes size keeps its old weight
    LET size(e) == PageSize(e.page)
        pin(e)  == IF e.state = "pinned" THEN 1 ELSE 0
        old == R.of[id]
    IN [WithEntry(R, id, entry) EXCEPT
            !.bytes = @ - size(old) + size(entry),
            !.pinnedBytes = @ + (pin(entry) - pin(old)) * size(entry),
            !.pinnedPages = @ - pin(old) + pin(entry)]
Replaced(R, id, entry) ==
    LET size(e) == PageSize(e.page)
        pin(e)  == IF e.state = "pinned" THEN 1 ELSE 0
        old == R.of[id]
    IN [WithEntry(R, id, entry) EXCEPT
            !.bytes = @ - size(old) + size(entry),
            !.pinnedBytes = @ - pin(old) * size(old) + pin(entry) * size(entry),
            !.pinnedPages = @ - pin(old) + pin(entry)]

\* enforceResidentCapacityLocked allows every page three visits of the hand.
Bug_ScanBudget(R) == 2 * Len(R.order) + 1  \* two visits: a hot page takes three
ScanBudget(R) == 3 * Len(R.order) + 1

\* What may go at the first visit: cold, and not used since the last one.
EasyVictims(R) ==
    {id \in DOMAIN R.of : R.of[id].state = "cold" /\ ~R.of[id].ref}

\* "easy" only remembers, for a property, what the sweep could reclaim at once.
BeginSweep(R) == [left |-> ScanBudget(R), evicted |-> FALSE, easy |-> EasyVictims(R)]

Land(R) ==
    /\ residency' = R
    /\ IF OverCapacity(R)
       THEN lock' = "sweep" /\ sweep' = BeginSweep(R)
       ELSE UNCHANGED <<lock, sweep>>

\* admitLocked, from the tables the caller has prepared.
Admit(R, G, S, p, mode) ==
    \/ /\ ~Admits(R, p, mode)
       /\ residency' = R /\ ghosts' = G /\ shadows' = S
       /\ UNCHANGED <<lock, sweep>>
    \/ /\ Admits(R, p, mode) /\ Exact(R, p)
       /\ Land(Replaced(R, p.id, Refreshed(R.of[p.id], p, mode)))
       /\ ghosts' = G /\ shadows' = S
    \/ /\ Admits(R, p, mode) /\ ~Exact(R, p)
       /\ LET replaced == ReplacesStale(R, p, mode)
              R1 == RemoveResident(R, p.id)
              G1 == Without(G, IF replaced THEN {p.id} ELSE MismatchedGhost(G, p))
              S1 == ShadowsWithout(S, IF replaced THEN ShadowsOf(S, p.id)
                                                  ELSE MismatchedShadows(S, p))
              refault == mode = "demand" /\ ExactGhost(G1, p)
          IN /\ Land(Inserted(R1, Newcomer(p, mode, refault)))
             /\ ghosts' = IF refault THEN Without(G1, {p.id}) ELSE G1
             /\ shadows' = S1

-----------------------------------------------------------------------------
Init ==
    /\ residency = [of |-> <<>>, order |-> <<>>, clock |-> 0, bytes |-> 0,
                    pinnedBytes |-> 0, pinnedPages |-> 0, l2 |-> {}, l3 |-> {}]
    /\ ghosts = EmptyFifo
    /\ shadows = [of |-> <<>>, order |-> <<>>, bytes |-> 0, pending |-> 0]
    /\ lock = "free"
    /\ sweep = NoSweep
    /\ listed = <<>>

Free == lock = "free" /\ UNCHANGED listed

(* Page-ins and uses.                                                      *)

AdmitDemand(p) == Free /\ Admit(residency, ghosts, Settled(shadows, p), p, "demand")

AdmitCold(p) == Free /\ Admit(residency, ghosts, shadows, p, "cold")
Pin(p)       == Free /\ Admit(residency, ghosts, shadows, p, "pinned")
PutL2(p)     == Free /\ Admit(residency, ghosts, shadows, p, "hot")
PutL3(p)     == Free /\ Admit(residency, ghosts, shadows, p, "warm")

\* Whatever another version of the page has left goes first, even a pin, and
\* even when the page is then refused.
AdmitAuthoritativeDemand(p) ==
    /\ Free
    /\ Admit(IF Exact(residency, p) THEN residency ELSE RemoveResident(residency, p.id),
             Without(ghosts, MismatchedGhost(ghosts, p)),
             LET S == Settled(shadows, p) IN ShadowsWithout(S, MismatchedShadows(S, p)),
             p, "demand")

\* Use, LookupAndUse and the lookups that validate the representation first.
Use(id) ==
    /\ Free /\ Resident(residency, id)
    /\ LET entry == residency.of[id]
       IN /\ ~entry.page.stale /\ entry.materialized
          /\ residency' = WithEntry(residency, id, UsedOnce(entry))
          /\ shadows' = Settled(shadows, entry.page)
    /\ UNCHANGED <<ghosts, lock, sweep>>

RecordAccess(id) ==
    /\ Free /\ Resident(residency, id)
    /\ residency' = [residency EXCEPT !.of[id].ref = TRUE]
    /\ UNCHANGED <<ghosts, shadows, lock, sweep>>

\* A search passed over the page: only its metadata is remembered.
ObserveSemantic(p, ns) ==
    /\ Free
    /\ 0 \notin {MaxShadowEntries, MaxShadowBytes, ShadowUseHorizon}
    /\ p.meta <= MaxShadowBytes
    /\ shadows' = Observed(shadows, p, ns)
    /\ UNCHANGED <<residency, ghosts, lock, sweep>>

(* Pins.                                                                   *)

PinResident(p) ==
    /\ Free /\ Exact(residency, p) /\ ~Pinned(residency, p.id)
    /\ LET entry == residency.of[p.id]
       IN /\ residency.pinnedPages + 1 <= MaxPinnedPages
          /\ residency.pinnedBytes + PageSize(entry.page) <= MaxPinnedBytes
          /\ residency' = Replaced(residency, p.id,
                                   [entry EXCEPT !.state = "pinned", !.ref = TRUE])
    /\ UNCHANGED <<ghosts, shadows, lock, sweep>>

Unpin(p) ==
    /\ Free /\ Exact(residency, p) /\ Pinned(residency, p.id)
    /\ residency' = Replaced(residency, p.id,
                        [residency.of[p.id] EXCEPT !.state = "hot", !.ref = TRUE])
    /\ UNCHANGED <<ghosts, shadows, lock, sweep>>

(* Coherence.                                                              *)

\* A shootdown leaves nothing of the id, not even a hint.
Shot(id) ==
    /\ residency' = RemoveResident(residency, id)
    /\ ghosts' = Without(ghosts, {id})
    /\ shadows' = ShadowsWithout(shadows, ShadowsOf(shadows, id))

Invalidate(p) ==
    /\ Free /\ (Resident(residency, p.id) => Exact(residency, p))
    /\ Shot(p.id) /\ UNCHANGED <<lock, sweep>>

Shootdown(id) == Free /\ Shot(id) /\ UNCHANGED <<lock, sweep>>

PurgeAllGhosts ==
    /\ Free
    /\ ghosts' = Without(ghosts, DOMAIN ghosts.of)
    /\ UNCHANGED <<residency, shadows, lock, sweep>>

CensorAllShadows ==
    /\ Free
    /\ shadows' = ShadowsWithout(shadows, DOMAIN shadows.of)
    /\ UNCHANGED <<residency, ghosts, lock, sweep>>

\* Current again, but what it held may be old: the body has to be fetched.
Bug_Emptied(entry) ==  \* the entry still answers uses
    [entry EXCEPT !.page.stale = FALSE, !.page.body = 0]
Emptied(entry) ==
    [entry EXCEPT !.page.stale = FALSE, !.page.body = 0, !.materialized = FALSE]

Revalidate(p) ==
    /\ Free /\ Exact(residency, p)
    /\ residency' = Replaced(residency, p.id, Emptied(residency.of[p.id]))
    /\ UNCHANGED <<ghosts, shadows, lock, sweep>>

(* Reconcile: list under the read lock, evaluate, then apply in one hold.  *)

ReconcileLists ==
    /\ lock = "free" /\ listed = <<>>
    /\ listed' = [i \in DOMAIN residency.order |->
                     Tuple(residency.of[residency.order[i]].page)]
    /\ UNCHANGED <<residency, ghosts, shadows, lock, sweep>>

\* validateResidentReplacementLocked and replaceResidentPageLocked.
Refresh(entry, next) ==
    LET diff == PageSize(next.page) - PageSize(entry.page)
        id   == entry.page.id
        fits == /\ PageSize(next.page) <= MaxPageBytes
                /\ residency.bytes + diff <= MaxResidentBytes
                /\ entry.state = "pinned" => residency.pinnedBytes + diff <= MaxPinnedBytes
        wakes == entry.page.stale /\ ~next.page.stale
    IN /\ residency' = IF fits THEN Replaced(residency, id, next)
                               ELSE RemoveResident(residency, id)
       /\ ghosts' = IF fits /\ ~wakes THEN ghosts ELSE Without(ghosts, {id})
       /\ UNCHANGED shadows

\* The next page listed is still there, in the version listed.
Bug_StillThere ==  \* any version of it will do
    Resident(residency, Head(listed)[1])
StillThere ==
    LET id == Head(listed)[1]
    IN Resident(residency, id) /\ Tuple(residency.of[id].page) = Head(listed)

Verdicts == {"active", "stale", "invalidated"}

\* The verdict on a listed page: that it is gone, or its staleness and the
\* metadata to refresh it with.  A page not resident under the tuple listed is
\* left alone.
ReconcilePage(verdict, meta) ==
    /\ lock # "sweep" /\ listed # <<>>
    /\ listed' = Tail(listed)
    /\ lock' = IF Len(listed) = 1 THEN "free" ELSE "apply"
    /\ UNCHANGED sweep
    /\ LET id == Head(listed)[1]
           entry == residency.of[id]
           next == [IF entry.page.stale /\ verdict = "active" THEN Emptied(entry) ELSE entry
                    EXCEPT !.page.stale = verdict = "stale", !.page.meta = meta]
       IN \/ ~StillThere /\ UNCHANGED <<residency, ghosts, shadows>>
          \/ StillThere /\ verdict = "invalidated" /\ Shot(id)
          \/ StillThere /\ verdict # "invalidated" /\ Refresh(entry, next)

-----------------------------------------------------------------------------
(* The sweep.                                                              *)

AtHand(R) == R.order[(IF R.clock < Len(R.order) THEN R.clock ELSE 0) + 1]

\* The hand leaves the page it is at, as the scan has left it.
Bug_Passed(R, entry) ==  \* the hand stays until the page gives in
    WithEntry(R, entry.page.id, entry)
Passed(R, entry) ==
    [WithEntry(R, entry.page.id, entry) EXCEPT
        !.clock = ((IF @ < Len(R.order) THEN @ ELSE 0) + 1) % Len(R.order)]

\* One scan less.  A budget that ends with a victim is renewed; one that ends
\* without is ErrCapacity, and the caps stay exceeded.
Scanned(R, evicts) ==
    LET left    == sweep.left - 1
        evicted == sweep.evicted \/ evicts
    IN /\ residency' = R
       /\ IF ~OverCapacity(R) \/ (left = 0 /\ ~evicted)
          THEN lock' = "free" /\ sweep' = NoSweep
          ELSE /\ UNCHANGED lock
               /\ sweep' = [sweep EXCEPT !.left = IF left = 0 THEN ScanBudget(R) ELSE left,
                                         !.evicted = evicted /\ left > 0]
       /\ UNCHANGED <<shadows, listed>>

ScanPasses ==
    /\ lock = "sweep"
    /\ LET entry == residency.of[AtHand(residency)]
       IN \/ /\ entry.state = "pinned"
             /\ Scanned(Passed(residency, entry), FALSE)
          \/ /\ entry.state # "pinned" /\ entry.ref
             /\ Scanned(Passed(residency, [entry EXCEPT !.ref = FALSE]), FALSE)
          \/ /\ entry.state = "hot" /\ ~entry.ref
             /\ Scanned(Passed(residency, [entry EXCEPT !.state = "cold"]), FALSE)
    /\ UNCHANGED ghosts

ScanEvicts ==
    /\ lock = "sweep"
    /\ LET entry == residency.of[AtHand(residency)]
       IN /\ entry.state = "cold" /\ ~entry.ref
          /\ ghosts' = WithGhost(ghosts, entry.page)
          /\ Scanned(RemoveResident(residency, entry.page.id), TRUE)

-----------------------------------------------------------------------------
Next ==
    \/ \E p \in Admissible :
          \/ AdmitDemand(p) \/ AdmitCold(p) \/ Pin(p) \/ PutL2(p) \/ PutL3(p)
          \/ AdmitAuthoritativeDemand(p)
    \/ \E id \in Ids : Use(id) \/ RecordAccess(id) \/ Shootdown(id)
    \/ \E p \in Metadata : PinResident(p) \/ Unpin(p) \/ Invalidate(p) \/ Revalidate(p)
    \/ \E p \in Metadata, ns \in Namespaces : ObserveSemantic(p, ns)
    \/ PurgeAllGhosts \/ CensorAllShadows \/ ReconcileLists
    \/ \E verdict \in Verdicts, meta \in MetaSizes :
          ReconcilePage(verdict, meta)
    \/ ScanPasses \/ ScanEvicts

Spec == Init /\ [][Next]_vars

-----------------------------------------------------------------------------
(* Properties.                                                             *)

\* The byte accounts are kept incrementally through admissions, refreshes,
\* pins, evictions and shootdowns; they always say what the entries say.
AccountsBalance ==
    LET of == residency.of
        pinned == {id \in DOMAIN of : of[id].state = "pinned"}
        total(ids) == Total([id \in ids |-> PageSize(of[id].page)])
    IN /\ residency.bytes = total(DOMAIN of)
       /\ residency.pinnedBytes = total(pinned)
       /\ residency.pinnedPages = Cardinality(pinned)
       /\ Consistent(ghosts) /\ Consistent(shadows)

\* The hand's order lists every resident once, the hand is on one of them, l2
\* and l3 divide the residents by their state, and everything has its type.
OrderIsResidents ==
    LET of == residency.of
        warm == {id \in DOMAIN of : of[id].state = "cold"}
    IN /\ TypeOK
       /\ IsInjective(residency.order) /\ Range(residency.order) = DOMAIN of
       /\ residency.clock < Len(residency.order) \/ residency.clock = 0
       /\ residency.l3 = warm /\ residency.l2 = DOMAIN of \ warm

\* No cap is exceeded while the lock is free: preflightCapacityLocked lets in
\* only what the sweep can make room for, and the scans allowed to the sweep
\* suffice.
CapsHold ==
    /\ lock # "sweep" => ~OverCapacity(residency)
    /\ residency.pinnedPages <= MaxPinnedPages
    /\ residency.pinnedBytes <= MaxPinnedBytes
    /\ Within(ghosts, MaxGhostEntries, MaxGhostBytes)
    /\ Within(shadows, MaxShadowEntries, MaxShadowBytes)

\* No hint survives a change of version: the ghost of a resident is of the
\* resident's version, and all the shadows of an id are of one version.
EstimatorsExact ==
    /\ \A id \in DOMAIN ghosts.of \cap DOMAIN residency.of :
          ghosts.of[id].version = residency.of[id].page.version
    /\ \A k, l \in DOMAIN shadows.of : k[1][1] = l[1][1] => k[1] = l[1]

\* Every observation is still pending or was counted exactly once, as useful,
\* unused or censored (Metrics.Shadow*).
ShadowsConserved ==
    shadows.pending = Cardinality({k \in DOMAIN shadows.of : ~shadows.of[k].useful})

\* A resident is served from L2 exactly when it has a body: one emptied when it
\* was reactivated is a miss until it is fetched again.
EmptiedBodiesMiss ==
    \A id \in DOMAIN residency.of :
       residency.of[id].materialized <=> residency.of[id].page.body # 0

\* Pages used since the last sweep get a second chance: the sweep reclaims one
\* only when nothing is left of what it could have reclaimed at once.
EasyVictimsFirst ==
    [][ScanEvicts => \/ AtHand(residency) \in sweep.easy
                     \/ sweep.easy \cap DOMAIN residency.of = {}]_vars

\* Reconcile evaluates without the lock.  A verdict on a version that has been
\* replaced meanwhile touches neither the newcomer nor any other page.
VerdictsMeetTheirPage ==
    [][\A verdict \in Verdicts, meta \in MetaSizes :
          ReconcilePage(verdict, meta) =>
             \A id \in DOMAIN residency.of :
                \/ Tuple(residency.of[id].page) = Head(listed)
                \/ /\ Resident(residency', id)
                   /\ residency'.of[id] = residency.of[id]]_vars
=============================================================================
