------------------------------ MODULE Scheduler ------------------------------
(***************************************************************************)
(* The memory-management unit of a session (internal/scheduler): what an   *)
(* event does, beyond coherence, to the pages in memory.  AfterEvent,      *)
(* BeforeTurn and PageFault hold derivationMu from end to end, so each is  *)
(* one action.  AfterEvent runs the transaction of Coherence (the working  *)
(* state commits inside it, so its records are the bindings of records)    *)
(* and then brings the resident hierarchy after it.                        *)
(*                                                                         *)
(* A resident is the materialization of a record: the descriptor its       *)
(* binding had, and the event its text comes from.  Left out: pages of the *)
(* semantic search (SemanticSearch), sizes, ghosts and shadows, and which  *)
(* page the clock hand reclaims, all in Hierarchy: here every page has the *)
(* same size and any page that is not pinned may go.                       *)
(***************************************************************************)
EXTENDS Coherence

CONSTANTS MaxResidentPages, MaxPinnedPages

ASSUME QuotaAssumption ==
    /\ MaxResidentPages \in Nat \ {0} /\ MaxPinnedPages \in Nat
    /\ MaxPinnedPages <= MaxResidentPages

VARIABLES
    resident,  \* L2: the page of each resident record
    capsule    \* L1: the records rendered at the last turn

schedulerVars == <<snap, resident, capsule>>

Records(s) == {id \in DOMAIN s.bindings : id[1] # "E"}
EligibleRecords(s) == Records(s) \cap Eligible(s)

\* BindingFor and what a page copies from it; ScopeEpoch is Binding.Generation.
Describe(b) ==
    [epoch |-> Generation(<<IF "branch" \in b.gates THEN b.branchEpoch ELSE 0,
                            IF "commit" \in b.gates THEN b.commitEpoch ELSE 0,
                            b.pathEpoch>>),
     branch |-> b.branch, commit |-> b.commit, path |-> b.path]

\* currentRecordPage: the exact current materialization.
PageOf(s, id) ==
    [of |-> Describe(s.bindings[id]), text |-> s.bindings[id].evidence,
     stale |-> FALSE, pinned |-> FALSE]

Pages == [of : [epoch : Nat, branch : Branches \cup {None}, commit : Commits \cup {None},
                path : Paths \cup {None}],
          text : Ids \cup {None},  \* None is a body that has been cleared
          stale : BOOLEAN, pinned : BOOLEAN]

SchedulerTypeOK ==
    /\ TypeOK
    /\ DOMAIN resident \subseteq Ids /\ \A id \in DOMAIN resident : resident[id] \in Pages
    /\ capsule \subseteq Ids

\* PageTuple: of a record's page only the epoch varies.
SameTuple(p, q) == p.of.epoch = q.of.epoch

PinnedIn(R) == {id \in DOMAIN R : R[id].pinned}

With(R, id, p) == [x \in DOMAIN R \cup {id} |-> IF x = id THEN p ELSE R[x]]

\* enforceResidentCapacityLocked: as few pages go as must, and no pinned one.
Reclaimed(R) ==
    LET excess == Cardinality(DOMAIN R) - MaxResidentPages
    IN IF excess <= 0 THEN {R}
       ELSE {[id \in DOMAIN R \ out |-> R[id]] :
                out \in {x \in SUBSET (DOMAIN R \ PinnedIn(R)) : Cardinality(x) = excess}}

\* preflightCapacityLocked, for a page that is not to be pinned: what is pinned
\* cannot make room.
HasRoom(R) == Cardinality(PinnedIn(R)) < MaxResidentPages

-----------------------------------------------------------------------------
(* What follows an event.                                                  *)

\* pageStatus of a record's page, whose only ref is the record itself; "eligible"
\* is EligibleRecords(s) here and below.
PageStatus(s, eligible, id, p) ==
    IF id \notin eligible
    THEN IF s.bindings[id].status = "invalidated" THEN "invalidated" ELSE "stale"
    ELSE IF p.of = Describe(s.bindings[id]) THEN "active" ELSE "stale"

\* reconcileHierarchy: an invalidated page leaves; one that is current again
\* keeps its place without its body.
Bug_Reconciled(s, eligible, R) ==  \* what lapses answers until the next fault
    [id \in {x \in DOMAIN R : PageStatus(s, eligible, x, R[x]) # "invalidated"} |->
        LET active == PageStatus(s, eligible, id, R[id]) = "active"
        IN [R[id] EXCEPT !.text = IF R[id].stale /\ active THEN None ELSE @]]
Reconciled(s, eligible, R) ==
    [id \in {x \in DOMAIN R : PageStatus(s, eligible, x, R[x]) # "invalidated"} |->
        LET active == PageStatus(s, eligible, id, R[id]) = "active"
        IN [R[id] EXCEPT !.stale = ~active,
                         !.text = IF R[id].stale /\ active THEN None ELSE @]]

\* AdmitCold of the failure the event derived.
WithFailures(s, eligible, R) ==
    LET new == {id \in eligible \ Records(snap) : id[1] = "F"}
    IN IF HasRoom(R)
       THEN [id \in DOMAIN R \cup new |-> IF id \in new THEN PageOf(s, id) ELSE R[id]]
       ELSE R

\* The active task and the hard constraints that are eligible.
Anchors(s, eligible) ==
    {id \in eligible : id[1] = "C" \/ id = <<"T", Cardinality(Tasks(s))>>}

\* The task is pinned first, then the constraints by name.
Before(x, y) == (x[1] = "T" /\ y[1] = "C") \/ (x[1] = y[1] /\ x[2] < y[2])

\* Of the anchors that ask for a pin, the first ones that the quota allows.
Granted(asks, pins) ==
    {id \in asks : Cardinality({x \in asks : Before(x, id)}) < MaxPinnedPages - Cardinality(pins)}

\* syncPinnedAnchors: what is no anchor is released, then each anchor in order is
\* pinned in its current materialization, refused where the quota is used up or
\* another tuple of it is resident.
Bug_SyncPinnedAnchors(s, anchors, R) ==  \* pinned first, released afterwards
    LET want   == {id \in anchors : id \in DOMAIN R => SameTuple(R[id], PageOf(s, id))}
        pinned == (PinnedIn(R) \cap want) \cup Granted(want \ PinnedIn(R), PinnedIn(R))
    IN [id \in DOMAIN R \cup pinned |->
           IF id \in pinned THEN [PageOf(s, id) EXCEPT !.pinned = TRUE]
           ELSE [R[id] EXCEPT !.pinned = @ /\ id \in anchors]]
SyncPinnedAnchors(s, anchors, R) ==
    LET kept   == PinnedIn(R) \cap anchors
        want   == {id \in anchors : id \in DOMAIN R => SameTuple(R[id], PageOf(s, id))}
        pinned == (kept \cap want) \cup Granted(want \ kept, kept)
    IN [id \in DOMAIN R \cup pinned |->
           IF id \in pinned THEN [PageOf(s, id) EXCEPT !.pinned = TRUE]
           ELSE [R[id] EXCEPT !.pinned = id \in kept]]

\* The hierarchy after a transaction that has committed.
Follow ==
    \E eligible \in {EligibleRecords(snap')} :
       LET R == WithFailures(snap', eligible, Reconciled(snap', eligible, resident))
       IN resident' \in Reclaimed(SyncPinnedAnchors(snap', Anchors(snap', eligible), R))

-----------------------------------------------------------------------------
SchedulerInit ==
    /\ Init
    /\ resident = [id \in {} |-> None]
    /\ capsule = {}

\* AfterEvent of an event that ChangesResidency: the capsule rendered before it is
\* dropped.  (A shootdown of the target follows; its page has left already.)
AfterScopeChange ==
    /\ ScopeEvent \/ PathEvent \/ StandingEvent
    /\ Follow
    /\ capsule' = {}

\* AfterEvent of any other event.
AfterRecord ==
    /\ RecordEvent
    /\ Follow
    /\ UNCHANGED capsule

BeforeTurn ==
    /\ capsule' = EligibleRecords(snap)
    /\ UNCHANGED <<snap, resident>>

\* LookupAndUseIfCurrent
Hit(id) ==
    /\ id \in DOMAIN resident
    /\ [resident[id] EXCEPT !.pinned = FALSE] = PageOf(snap, id)

\* resolvePage of an eligible record on a miss (a hit changes nothing that is modelled): AdmitDemand
\* refreshes the same tuple, which keeps its pin, takes the place of a stale page
\* and leaves another tuple that is not stale.
PageFault(id) ==
    /\ ~Hit(id)
    /\ LET page == PageOf(snap, id)
       IN IF id \in DOMAIN resident
          THEN /\ SameTuple(resident[id], page) \/ resident[id].stale
               /\ resident' = With(resident, id,
                      [page EXCEPT !.pinned = resident[id].pinned /\ SameTuple(resident[id], page)])
          ELSE HasRoom(resident) /\ resident' \in Reclaimed(With(resident, id, page))
    /\ UNCHANGED <<snap, capsule>>

SchedulerNext ==
    \/ AfterScopeChange
    \/ AfterRecord
    \/ BeforeTurn
    \/ \E id \in EligibleRecords(snap) : PageFault(id)

SchedulerSpec == SchedulerInit /\ [][SchedulerNext]_schedulerVars

-----------------------------------------------------------------------------
(* Properties.                                                             *)

\* Whatever the last event ended, neither the capsule nor a resident that answers
\* as current still speaks for it: their records are eligible, and a page
\* describes the binding as it is now.  The events that drop the capsule
\* (ChangesResidency) are all that can take a record of it away.
NothingLapsedIsServed ==
    LET eligible == EligibleRecords(snap)
    IN /\ SchedulerTypeOK
       /\ capsule \subseteq eligible
       /\ \A id \in DOMAIN resident :
             ~resident[id].stale => /\ id \in eligible
                                    /\ resident[id].of = Describe(snap.bindings[id])

\* docs/architecture.md: "Active-task and hard-constraint anchors are pinned
\* explicitly."  After every event the pins are anchors in their current text,
\* and an anchor without a pin means that the quota is used up by others: no pin
\* of a record that has lapsed holds a place, and none is lost on the way.
AnchorsArePinned ==
    LET anchors == Anchors(snap, EligibleRecords(snap))
        pins    == PinnedIn(resident)
    IN /\ pins \subseteq anchors
       /\ \A id \in pins : Hit(id)
       /\ anchors \subseteq pins \/ Cardinality(pins) = MaxPinnedPages
=============================================================================
