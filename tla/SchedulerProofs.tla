--------------------------- MODULE SchedulerProofs ---------------------------
(***************************************************************************)
(* Proofs about Scheduler, for any session, quotas and numbers of pages.   *)
(* Its steps are steps of Coherence, so IInv holds of the snapshot; what   *)
(* is in memory then follows the snapshot: PagesOK says what a resident    *)
(* still answers for, PinsOK that the pins are the anchors the quota       *)
(* allows.                                                                 *)
(***************************************************************************)
EXTENDS Scheduler, CoherenceProofs

-----------------------------------------------------------------------------
(* The first of an ordered set.                                            *)

Anchored == TaskKinds \X Nat

Earlier(S, id) == {x \in S : Before(x, id)}
First(S, n) == {id \in S : Cardinality(Earlier(S, id)) < n}

LEMMA BeforeOrders ==
    /\ \A x \in Anchored : ~Before(x, x)
    /\ \A x, y \in Anchored : x = y \/ Before(x, y) \/ Before(y, x)
    /\ \A x, y, z \in Anchored : Before(x, y) /\ Before(y, z) => Before(x, z)
<1>1. \A x \in Anchored : x = <<x[1], x[2]>> /\ x[1] \in {"T", "C"} /\ x[2] \in Nat
  BY DEF Anchored, TaskKinds
<1>2. "T" # "C"
  OBVIOUS
<1>3. ASSUME NEW x \in Anchored, NEW y \in Anchored
      PROVE  x = y \/ Before(x, y) \/ Before(y, x)
  <2>1. x[1] = y[1] /\ x[2] = y[2] => x = y
    BY <1>1
  <2> QED
    BY <1>1, <2>1 DEF Before
<1> QED
  BY <1>1, <1>3 DEF Before

\* Before orders what is earlier by inclusion.
LEMMA EarlierGrows ==
    ASSUME NEW S \in SUBSET Anchored, IsFiniteSet(S), NEW x \in S, NEW y \in S, Before(x, y)
    PROVE  /\ IsFiniteSet(Earlier(S, x)) /\ IsFiniteSet(Earlier(S, y))
           /\ Cardinality(Earlier(S, x)) \in Nat /\ Cardinality(Earlier(S, y)) \in Nat
           /\ Cardinality(Earlier(S, x)) < Cardinality(Earlier(S, y))
<1>1. Earlier(S, x) \in SUBSET S /\ Earlier(S, y) \in SUBSET S
  BY DEF Earlier
<1>2. Earlier(S, x) \in SUBSET Earlier(S, y)
  BY BeforeOrders DEF Earlier
<1>3. x \in Earlier(S, y) /\ x \notin Earlier(S, x)
  BY BeforeOrders DEF Earlier
<1>4. IsFiniteSet(Earlier(S, x)) /\ IsFiniteSet(Earlier(S, y))
  BY <1>1, FS_Subset
<1>5. Cardinality(Earlier(S, x)) \in Nat /\ Cardinality(Earlier(S, y)) \in Nat
  BY <1>4, FS_CardinalityType
<1>6. /\ Cardinality(Earlier(S, x)) <= Cardinality(Earlier(S, y))
      /\ Cardinality(Earlier(S, y)) # Cardinality(Earlier(S, x))
  BY <1>2, <1>3, <1>4, FS_Subset
<1> QED
  BY <1>4, <1>5, <1>6

\* The first n are n, or all there are.
LEMMA FirstCounts ==
    ASSUME NEW S \in SUBSET Anchored, IsFiniteSet(S), NEW n \in Nat
    PROVE  /\ IsFiniteSet(First(S, n)) /\ First(S, n) \subseteq S
           /\ Cardinality(First(S, n)) \in Nat
           /\ Cardinality(First(S, n)) <= n
           /\ S \subseteq First(S, n) \/ Cardinality(First(S, n)) = n
<1> DEFINE F == First(S, n)
           rank(id) == Cardinality(Earlier(S, id))
<1>1. \A id \in S : rank(id) \in Nat
  <2>1. \A id \in S : Earlier(S, id) \in SUBSET S
    BY DEF Earlier
  <2> QED
    BY <2>1, FS_Subset, FS_CardinalityType
<1>2. \A x, y \in S : Before(x, y) => rank(x) < rank(y)
  BY EarlierGrows
<1>3. F \in SUBSET S /\ \A id \in S : (id \in F <=> rank(id) < n)
  BY DEF First
<1>4. IsFiniteSet(F)
  BY <1>3, FS_Subset
<1>5. Cardinality(F) \in Nat
  BY <1>4, FS_CardinalityType
<1>6. IsFiniteSet(1..n) /\ Cardinality(1..n) = n
  BY FS_Interval
<1>7. Cardinality(F) <= n
  <2> DEFINE f == [id \in F |-> rank(id) + 1]
  <2> HIDE DEF F, rank
  <2>1. ASSUME NEW x \in F
        PROVE  f[x] \in 1..n /\ rank(x) \in Nat
    BY <1>1, <1>3
  <2>2. ASSUME NEW x \in F, NEW y \in F, f[x] = f[y]
        PROVE  x = y
    <3>1. rank(x) = rank(y)
      BY <2>1, <2>2
    <3>2. x \in S /\ y \in S /\ x \in Anchored /\ y \in Anchored
      BY <1>3
    <3>3. ~Before(x, y) /\ ~Before(y, x)
      BY <1>2, <2>1, <3>1, <3>2
    <3> QED
      BY <3>2, <3>3, BeforeOrders
  <2>3. f \in Injection(F, 1..n)
    BY <2>1, <2>2 DEF Injection, IsInjective
  <2> HIDE DEF f
  <2> QED
    BY <1>6, <2>3, FS_Injection
<1>8. ASSUME ~(S \subseteq F)
      PROVE  n <= Cardinality(F)
  <2> DEFINE late == {rank(id) : id \in S \ F}
  <2> HIDE DEF F, rank
  <2>1. late \in SUBSET Nat /\ late # {}
    BY <1>1, <1>8
  <2> HIDE DEF late
  <2>2. PICK r \in late : \A m \in 0..r - 1 : m \notin late
    BY <2>1, Least
  <2>3. PICK id \in S \ F : r = rank(id)
    BY <2>2 DEF late
  <2>4. ASSUME NEW x \in Earlier(S, id)
        PROVE  x \in F
    <3>1. x \in S /\ rank(x) < rank(id) /\ rank(x) \in Nat /\ rank(id) \in Nat
      BY <1>1, <1>2, <2>3 DEF Earlier
    <3>2. rank(x) \notin late
      BY <2>2, <2>3, <3>1
    <3> QED
      BY <3>1, <3>2 DEF late
  <2>5. Earlier(S, id) \in SUBSET F
    BY <2>4
  <2>6. rank(id) <= Cardinality(F)
    BY <1>4, <2>5, FS_Subset DEF rank
  <2>7. n <= rank(id) /\ rank(id) \in Nat
    BY <1>1, <1>3, <2>3
  <2> QED
    BY <1>5, <2>6, <2>7
<1> HIDE DEF F
<1> QED
  BY <1>3, <1>4, <1>5, <1>7, <1>8 DEF F

-----------------------------------------------------------------------------
(* What is in memory.                                                      *)

\* The task and the constraints have one tuple only: they are of no branch, commit
\* or path.
Loaded(R) ==
    /\ DOMAIN R \subseteq Ids
    /\ \A id \in DOMAIN R : R[id] \in Pages /\ (id[1] \in TaskKinds => R[id].of.epoch = 0)

\* What a resident still answers for.
Answers(s, R) ==
    \A id \in DOMAIN R :
        ~R[id].stale => id \in EligibleRecords(s) /\ R[id].of = Describe(s.bindings[id])

FewPins(R) == Cardinality(PinnedIn(R)) <= MaxPinnedPages

PinsOK(s, R) ==
    LET anchors == Anchors(s, EligibleRecords(s))
        pins == PinnedIn(R)
    IN /\ pins \subseteq anchors
       /\ \A id \in pins : [R[id] EXCEPT !.pinned = FALSE] = PageOf(s, id)
       /\ anchors \subseteq pins \/ Cardinality(pins) = MaxPinnedPages

SInv ==
    /\ Loaded(resident) /\ Answers(snap, resident)
    /\ FewPins(resident) /\ PinsOK(snap, resident)
    /\ capsule \subseteq EligibleRecords(snap)

LEMMA PageOfIs ==
    ASSUME NEW s, IInv(s), NEW id \in EligibleRecords(s)
    PROVE  /\ id \in Ids /\ PageOf(s, id) \in Pages
           /\ PageOf(s, id).of = Describe(s.bindings[id]) /\ ~PageOf(s, id).stale
           /\ ~PageOf(s, id).pinned
           /\ id[1] \in TaskKinds => PageOf(s, id).of.epoch = 0
<1> DEFINE b == s.bindings[id]
<1>1. id \in DOMAIN s.bindings /\ id \in Ids /\ Stands(s, b) /\ (id[1] \in TaskKinds => OfTask(b))
  BY BoundFinite DEF EligibleRecords, Records, IInv
<1>2. b \in Bindings
  BY <1>1 DEF Stands, Shaped
<1>3. /\ b.evidence \in Ids /\ b.branch \in Branches \cup {None} /\ b.commit \in Commits \cup {None}
      /\ b.path \in Paths \cup {None}
      /\ b.branchEpoch \in Nat /\ b.commitEpoch \in Nat /\ b.pathEpoch \in Nat
  BY <1>2 DEF Bindings
<1>4. /\ Describe(b).epoch \in Nat /\ Describe(b).branch = b.branch
      /\ Describe(b).commit = b.commit /\ Describe(b).path = b.path
      /\ OfTask(b) => Describe(b).epoch = 0
  BY <1>3 DEF Describe, Generation, maxEpoch, OfTask, TaskGates
<1>5. Describe(b) \in [epoch : Nat, branch : Branches \cup {None}, commit : Commits \cup {None},
                       path : Paths \cup {None}]
  BY <1>3, <1>4 DEF Describe
<1> HIDE DEF b
<1>6. PageOf(s, id) = [of |-> Describe(b), text |-> b.evidence, stale |-> FALSE, pinned |-> FALSE]
  BY DEF PageOf, b
<1> QED
  BY <1>1, <1>3, <1>4, <1>5, <1>6 DEF Pages, b

LEMMA AnchorsAre ==
    ASSUME NEW s, IInv(s)
    PROVE  /\ Anchors(s, EligibleRecords(s)) \in SUBSET Anchored
           /\ Anchors(s, EligibleRecords(s)) \in SUBSET EligibleRecords(s)
           /\ \A id \in Anchors(s, EligibleRecords(s)) : id[1] \in TaskKinds
           /\ IsFiniteSet(Anchors(s, EligibleRecords(s)))
<1> DEFINE A == Anchors(s, EligibleRecords(s))
<1>1. A \in SUBSET EligibleRecords(s)
  BY DEF Anchors
<1>2. A \in SUBSET Ids
  BY <1>1, PageOfIs
<1>3. \A id \in A : id[1] \in TaskKinds
  BY DEF Anchors, TaskKinds
<1>4. A \in SUBSET Anchored
  <2>1. Ids \subseteq Kinds \X Nat
    BY MaxEventsAssumption DEF Ids
  <2> QED
    BY <1>2, <1>3, <2>1 DEF Anchored
<1>5. IsFiniteSet(A)
  BY <1>2, IdsFinite, FS_Subset
<1> QED
  BY <1>1, <1>3, <1>4, <1>5

LEMMA PinsFinite ==
    ASSUME NEW R, Loaded(R)
    PROVE  IsFiniteSet(PinnedIn(R)) /\ Cardinality(PinnedIn(R)) \in Nat
<1>1. PinnedIn(R) \in SUBSET Ids
  BY DEF PinnedIn, Loaded
<1> QED
  BY <1>1, IdsFinite, FS_Subset, FS_CardinalityType

-----------------------------------------------------------------------------
(* What follows an event.                                                  *)

LEMMA ReconciledIs ==
    ASSUME NEW s, NEW R, Loaded(R)
    PROVE  LET Q == Reconciled(s, EligibleRecords(s), R)
           IN Loaded(Q) /\ Answers(s, Q) /\ PinnedIn(Q) \subseteq PinnedIn(R)
<1> DEFINE E == EligibleRecords(s)
           Q == Reconciled(s, E, R)
           active(id) == PageStatus(s, E, id, R[id]) = "active"
           text(id) == IF R[id].stale /\ active(id) THEN None ELSE R[id].text
<1>1. /\ DOMAIN Q \subseteq DOMAIN R
      /\ \A id \in DOMAIN Q : Q[id] = [R[id] EXCEPT !.stale = ~active(id), !.text = text(id)]
  BY DEF Reconciled
<1>2. \A id : /\ active(id) \in BOOLEAN
              /\ active(id) => id \in E /\ R[id].of = Describe(s.bindings[id])
  BY DEF PageStatus
<1> HIDE DEF Q, E, active
<1>3. ASSUME NEW id \in DOMAIN Q
      PROVE  /\ id \in DOMAIN R /\ Q[id] \in Pages /\ Q[id].of = R[id].of
             /\ Q[id].pinned = R[id].pinned /\ Q[id].stale = ~active(id)
  <2>1. id \in DOMAIN R /\ R[id] \in Pages
    BY <1>1 DEF Loaded
  <2>2. (~active(id)) \in BOOLEAN
    BY <1>2
  <2>3. text(id) \in Ids \cup {None}
    BY <2>1 DEF Pages
  <2> HIDE DEF text
  <2> QED
    BY <1>1, <2>1, <2>2, <2>3 DEF Pages
<1>4. Loaded(Q)
  BY <1>3 DEF Loaded
<1>5. Answers(s, Q)
  BY <1>2, <1>3 DEF Answers, E
<1>6. PinnedIn(Q) \subseteq PinnedIn(R)
  BY <1>3 DEF PinnedIn
<1> QED
  BY <1>4, <1>5, <1>6 DEF Q, E

LEMMA WithFailuresIs ==
    ASSUME NEW s, IInv(s), NEW R, Loaded(R), Answers(s, R)
    PROVE  LET Q == WithFailures(s, EligibleRecords(s), R)
           IN Loaded(Q) /\ Answers(s, Q) /\ PinnedIn(Q) \subseteq PinnedIn(R)
<1> DEFINE E == EligibleRecords(s)
           Q == WithFailures(s, E, R)
           new == {id \in E \ Records(snap) : id[1] = "F"}
<1>1. CASE ~HasRoom(R)
  BY <1>1 DEF WithFailures
<1>2. CASE HasRoom(R)
  <2>1. Q = [id \in DOMAIN R \cup new |-> IF id \in new THEN PageOf(s, id) ELSE R[id]]
    BY <1>2 DEF WithFailures
  <2>2. new \subseteq E /\ \A id \in new : id[1] \notin TaskKinds
    BY DEF TaskKinds
  <2> HIDE DEF Q, new
  <2>3. /\ DOMAIN Q = DOMAIN R \cup new
        /\ \A id \in DOMAIN Q : Q[id] = IF id \in new THEN PageOf(s, id) ELSE R[id]
    BY <2>1
  <2>4. \A id \in new : /\ id \in Ids /\ PageOf(s, id) \in Pages
                        /\ PageOf(s, id).of = Describe(s.bindings[id])
                        /\ ~PageOf(s, id).pinned
    BY <2>2, PageOfIs
  <2>5. Loaded(Q)
    BY <2>2, <2>3, <2>4 DEF Loaded
  <2>6. Answers(s, Q)
    BY <2>2, <2>3, <2>4 DEF Answers, E
  <2>7. PinnedIn(Q) \subseteq PinnedIn(R)
    BY <2>3, <2>4 DEF PinnedIn
  <2> QED
    BY <2>5, <2>6, <2>7 DEF Q, E
<1> QED
  BY <1>1, <1>2

\* What a pinned anchor is.
LEMMA PinnedPageIs ==
    ASSUME NEW s, IInv(s), NEW id \in EligibleRecords(s), NEW pin \in BOOLEAN
    PROVE  LET p == [PageOf(s, id) EXCEPT !.pinned = pin]
           IN /\ p \in Pages /\ p.pinned = pin /\ ~p.stale /\ p.of = Describe(s.bindings[id])
              /\ id[1] \in TaskKinds => p.of.epoch = 0
              /\ [p EXCEPT !.pinned = FALSE] = PageOf(s, id)
<1>1. /\ PageOf(s, id) \in Pages /\ PageOf(s, id).of = Describe(s.bindings[id])
      /\ PageOf(s, id).stale = FALSE /\ PageOf(s, id).pinned = FALSE
      /\ id[1] \in TaskKinds => PageOf(s, id).of.epoch = 0
  BY PageOfIs DEF PageOf
<1>2. [PageOf(s, id) EXCEPT !.pinned = FALSE] = PageOf(s, id)
  <2>1. /\ PageOf(s, id) \in [DOMAIN PageOf(s, id) -> {PageOf(s, id)[f] : f \in DOMAIN PageOf(s, id)}]
        /\ PageOf(s, id)["pinned"] = FALSE
    BY DEF PageOf
  <2> QED
    BY <2>1
<1>3. [[PageOf(s, id) EXCEPT !.pinned = pin] EXCEPT !.pinned = FALSE]
        = [PageOf(s, id) EXCEPT !.pinned = FALSE]
  BY DEF PageOf
<1> QED
  BY <1>1, <1>2, <1>3 DEF Pages

LEMMA SyncPinnedAnchorsIs ==
    ASSUME NEW s, IInv(s), NEW R, Loaded(R), Answers(s, R), FewPins(R)
    PROVE  LET Q == SyncPinnedAnchors(s, Anchors(s, EligibleRecords(s)), R)
           IN Loaded(Q) /\ Answers(s, Q) /\ FewPins(Q) /\ PinsOK(s, Q)
<1> DEFINE E == EligibleRecords(s)
           A == Anchors(s, E)
           Q == SyncPinnedAnchors(s, A, R)
           kept == PinnedIn(R) \cap A
           want == {id \in A : id \in DOMAIN R => SameTuple(R[id], PageOf(s, id))}
           quota == MaxPinnedPages - Cardinality(kept)
           granted == First(A \ kept, quota)
           pins == kept \cup granted
<1>1. /\ A \in SUBSET Anchored /\ A \in SUBSET E /\ IsFiniteSet(A)
      /\ \A id \in A : id[1] \in TaskKinds
  BY AnchorsAre
<1> HIDE DEF A
\* Every anchor asks for a pin: there is no other tuple of it.
<1>2. want = A
  <2>1. \A id \in A : PageOf(s, id).of.epoch = 0
    BY <1>1, PageOfIs DEF E
  <2>2. \A id \in A : id \in DOMAIN R => R[id].of.epoch = 0
    BY <1>1 DEF Loaded
  <2> QED
    BY <2>1, <2>2 DEF SameTuple
<1>3. /\ kept \in SUBSET A /\ IsFiniteSet(kept) /\ Cardinality(kept) \in Nat
      /\ Cardinality(kept) <= MaxPinnedPages
  <2>1. kept \in SUBSET A /\ kept \in SUBSET PinnedIn(R)
    OBVIOUS
  <2>2. IsFiniteSet(kept) /\ Cardinality(kept) \in Nat /\ Cardinality(kept) <= Cardinality(PinnedIn(R))
    BY <2>1, PinsFinite, FS_Subset, FS_CardinalityType
  <2> HIDE DEF kept
  <2> QED
    BY <2>1, <2>2, PinsFinite, QuotaAssumption DEF FewPins
<1>4. granted = Granted(want \ kept, kept)
  BY <1>2 DEF Granted, First, Earlier
<1>5. Q = [id \in DOMAIN R \cup pins |->
              IF id \in pins THEN [PageOf(s, id) EXCEPT !.pinned = TRUE]
              ELSE [R[id] EXCEPT !.pinned = id \in kept]]
  BY <1>2, <1>4 DEF SyncPinnedAnchors, A
<1> HIDE DEF want, kept, Q
<1>6. quota \in Nat
  BY <1>3, QuotaAssumption
<1>7. /\ IsFiniteSet(granted) /\ granted \subseteq A \ kept
      /\ Cardinality(granted) \in Nat /\ Cardinality(granted) <= quota
      /\ A \ kept \subseteq granted \/ Cardinality(granted) = quota
  <2>1. A \ kept \in SUBSET Anchored /\ IsFiniteSet(A \ kept)
    BY <1>1, FS_Subset
  <2> HIDE DEF quota
  <2> QED
    BY <1>6, <2>1, FirstCounts
<1> HIDE DEF granted
<1>8. /\ Cardinality(pins) = Cardinality(kept) + Cardinality(granted) /\ pins \subseteq A
  <2>1. kept \cap granted = {} /\ Cardinality({}) = 0
    BY <1>7, FS_EmptySet
  <2>2. Cardinality(kept \cup granted)
          = Cardinality(kept) + Cardinality(granted) - Cardinality(kept \cap granted)
    BY <1>3, <1>7, FS_Union
  <2>3. Cardinality(kept \cap granted) = 0
    BY <2>1
  <2>4. Cardinality(kept \cup granted) = Cardinality(kept) + Cardinality(granted)
    BY <1>3, <1>7, <2>2, <2>3
  <2> QED
    BY <1>3, <1>7, <2>4
<1>9. /\ Cardinality(pins) <= MaxPinnedPages
      /\ A \subseteq pins \/ Cardinality(pins) = MaxPinnedPages
  BY <1>3, <1>6, <1>7, <1>8, QuotaAssumption
<1>10. kept \subseteq pins /\ pins \subseteq E
  BY <1>1, <1>8
<1> HIDE DEF pins, E
<1>11. ASSUME NEW id \in DOMAIN Q
       PROVE  /\ id \in Ids /\ Q[id] \in Pages
              /\ id[1] \in TaskKinds => Q[id].of.epoch = 0
              /\ ~Q[id].stale => id \in E /\ Q[id].of = Describe(s.bindings[id])
              /\ Q[id].pinned <=> id \in pins
              /\ id \in pins => [Q[id] EXCEPT !.pinned = FALSE] = PageOf(s, id)
  <2>1. CASE id \in pins
    <3>1. Q[id] = [PageOf(s, id) EXCEPT !.pinned = TRUE] /\ id \in EligibleRecords(s)
      BY <1>5, <1>10, <2>1 DEF E
    <3>2. /\ Q[id] \in Pages /\ Q[id].pinned = TRUE /\ ~Q[id].stale
          /\ Q[id].of = Describe(s.bindings[id])
          /\ id[1] \in TaskKinds => Q[id].of.epoch = 0
          /\ [Q[id] EXCEPT !.pinned = FALSE] = PageOf(s, id)
      <4> DEFINE p == [PageOf(s, id) EXCEPT !.pinned = TRUE]
      <4>1. /\ p \in Pages /\ p.pinned = TRUE /\ ~p.stale /\ p.of = Describe(s.bindings[id])
            /\ id[1] \in TaskKinds => p.of.epoch = 0
            /\ [p EXCEPT !.pinned = FALSE] = PageOf(s, id)
        BY <3>1, PinnedPageIs
      <4> HIDE DEF p
      <4>2. Q[id] = p
        BY <3>1 DEF p
      <4> QED
        BY <4>1, <4>2
    <3>3. id \in Ids /\ id \in E
      BY <3>1, PageOfIs DEF E
    <3> QED
      BY <2>1, <3>2, <3>3
  <2>2. CASE id \notin pins
    <3>1. id \in DOMAIN R /\ Q[id] = [R[id] EXCEPT !.pinned = FALSE]
      <4>1. (id \in kept) = FALSE
        BY <1>10, <2>2
      <4>2. id \in DOMAIN R /\ Q[id] = [R[id] EXCEPT !.pinned = id \in kept]
        BY <1>5, <2>2
      <4> QED
        BY <4>1, <4>2
    <3>2. /\ Q[id] \in Pages /\ Q[id].of = R[id].of /\ Q[id].stale = R[id].stale
          /\ Q[id].pinned = FALSE
      BY <3>1 DEF Pages, Loaded
    <3> QED
      BY <2>2, <3>1, <3>2 DEF Loaded, Answers, E
  <2> QED
    BY <2>1, <2>2
<1>12. PinnedIn(Q) = pins
  <2>1. pins \subseteq DOMAIN Q
    BY <1>5
  <2> QED
    BY <1>11, <2>1 DEF PinnedIn
<1>13. Loaded(Q) /\ Answers(s, Q)
  BY <1>11 DEF Loaded, Answers, E
<1>14. FewPins(Q)
  BY <1>9, <1>12 DEF FewPins
<1>15. PinsOK(s, Q)
  <2>1. \A id \in pins : [Q[id] EXCEPT !.pinned = FALSE] = PageOf(s, id)
    BY <1>11, <1>12 DEF PinnedIn
  <2> QED
    BY <1>8, <1>9, <1>12, <2>1 DEF PinsOK, A, E
<1> QED
  BY <1>13, <1>14, <1>15 DEF Q, A, E

LEMMA ReclaimedIs ==
    ASSUME NEW s, NEW R, Loaded(R), Answers(s, R), NEW Q \in Reclaimed(R)
    PROVE  /\ Loaded(Q) /\ Answers(s, Q) /\ PinnedIn(Q) = PinnedIn(R)
           /\ \A id \in PinnedIn(R) : Q[id] = R[id]
<1>1. CASE Q = R
  BY <1>1
<1>2. ASSUME NEW out \in SUBSET (DOMAIN R \ PinnedIn(R)), Q = [id \in DOMAIN R \ out |-> R[id]]
      PROVE  /\ Loaded(Q) /\ Answers(s, Q) /\ PinnedIn(Q) = PinnedIn(R)
             /\ \A id \in PinnedIn(R) : Q[id] = R[id]
  <2>1. DOMAIN Q = DOMAIN R \ out /\ \A id \in DOMAIN Q : Q[id] = R[id]
    BY <1>2
  <2> QED
    BY <2>1 DEF Loaded, Answers, PinnedIn
<1> QED
  BY <1>1, <1>2 DEF Reclaimed

\* The same pins, in the same pages.
SamePins(R, Q) == PinnedIn(Q) = PinnedIn(R) /\ \A id \in PinnedIn(R) : Q[id] = R[id]

LEMMA SamePinsHold ==
    ASSUME NEW s, NEW R, NEW Q, SamePins(R, Q), FewPins(R), PinsOK(s, R)
    PROVE  FewPins(Q) /\ PinsOK(s, Q)
BY DEF SamePins, FewPins, PinsOK

LEMMA FollowKeeps ==
    ASSUME IInv(snap)', Loaded(resident), FewPins(resident), Follow
    PROVE  (Loaded(resident) /\ Answers(snap, resident) /\ FewPins(resident) /\ PinsOK(snap, resident))'
<1> DEFINE s == snap'
           E == EligibleRecords(s)
           R1 == Reconciled(s, E, resident)
           R2 == WithFailures(s, E, R1)
           R3 == SyncPinnedAnchors(s, Anchors(s, E), R2)
<1>1. IInv(s) /\ resident' \in Reclaimed(R3)
  BY DEF Follow
<1> HIDE DEF s
<1>2. Loaded(R1) /\ Answers(s, R1) /\ PinnedIn(R1) \subseteq PinnedIn(resident)
  BY ReconciledIs
<1> HIDE DEF R1
<1>3. Loaded(R2) /\ Answers(s, R2) /\ PinnedIn(R2) \subseteq PinnedIn(R1)
  BY <1>1, <1>2, WithFailuresIs
<1> HIDE DEF R2
<1>4. FewPins(R2)
  <2>1. PinnedIn(R2) \in SUBSET PinnedIn(resident)
    BY <1>2, <1>3
  <2>2. /\ Cardinality(PinnedIn(R2)) <= Cardinality(PinnedIn(resident))
        /\ Cardinality(PinnedIn(R2)) \in Nat /\ Cardinality(PinnedIn(resident)) \in Nat
    BY <1>3, <2>1, PinsFinite, FS_Subset
  <2> QED
    BY <2>2, QuotaAssumption DEF FewPins
<1>5. Loaded(R3) /\ Answers(s, R3) /\ FewPins(R3) /\ PinsOK(s, R3)
  BY <1>1, <1>3, <1>4, SyncPinnedAnchorsIs
<1> HIDE DEF R3
<1>6. Loaded(resident') /\ Answers(s, resident') /\ SamePins(R3, resident')
  BY <1>1, <1>5, ReclaimedIs DEF SamePins
<1>7. FewPins(resident') /\ PinsOK(s, resident')
  BY <1>5, <1>6, SamePinsHold
<1>8. s = snap'
  BY DEF s
<1> QED
  BY <1>6, <1>7, <1>8 DEF Loaded, Answers, FewPins, PinsOK, PinnedIn, EligibleRecords, Records,
                          Anchors, PageOf

-----------------------------------------------------------------------------
(* A fault.                                                                *)

LEMMA PageFaultKeeps ==
    ASSUME IInv(snap), Loaded(resident), Answers(snap, resident), PinsOK(snap, resident),
           NEW id \in EligibleRecords(snap), PageFault(id)
    PROVE  Loaded(resident') /\ Answers(snap, resident') /\ SamePins(resident, resident')
<1> DEFINE page == PageOf(snap, id)
           pin == resident[id].pinned /\ SameTuple(resident[id], page)
           p == [page EXCEPT !.pinned = pin]
<1>1. /\ id \in Ids /\ page \in Pages /\ page.of = Describe(snap.bindings[id])
      /\ ~page.stale /\ ~page.pinned
      /\ id[1] \in TaskKinds => page.of.epoch = 0
  BY PageOfIs
<1>2. CASE id \in DOMAIN resident
  \* The address faults, so it holds no pin: a pinned page answers.
  <2>1. resident[id].pinned = FALSE
    <3>1. resident[id] \in Pages /\ ~Hit(id)
      BY <1>2 DEF Loaded, PageFault
    <3>2. id \in PinnedIn(resident) => Hit(id)
      BY <1>2 DEF PinsOK, Hit
    <3> QED
      BY <1>2, <3>1, <3>2 DEF PinnedIn, Pages
  <2>2. resident' = With(resident, id, p)
    BY <1>2 DEF PageFault
  <2>3. pin = FALSE
    BY <2>1
  <2> HIDE DEF page, pin
  <2>4. p \in Pages /\ p.of = page.of /\ p.stale = page.stale /\ p.pinned = FALSE
    BY <1>1, <2>3 DEF Pages
  <2> HIDE DEF p
  <2>5. /\ DOMAIN resident' = DOMAIN resident
        /\ \A x \in DOMAIN resident : resident'[x] = IF x = id THEN p ELSE resident[x]
    BY <1>2, <2>2 DEF With
  <2>6. Loaded(resident')
    BY <1>1, <2>4, <2>5 DEF Loaded
  <2>7. Answers(snap, resident')
    BY <1>1, <2>4, <2>5 DEF Answers
  <2>8. SamePins(resident, resident')
    BY <2>1, <2>4, <2>5 DEF SamePins, PinnedIn
  <2> QED
    BY <2>6, <2>7, <2>8
<1>3. CASE id \notin DOMAIN resident
  <2> DEFINE R == With(resident, id, page)
  <2>1. resident' \in Reclaimed(R)
    BY <1>3 DEF PageFault
  <2>2. /\ DOMAIN R = DOMAIN resident \cup {id}
        /\ \A x \in DOMAIN R : R[x] = IF x = id THEN page ELSE resident[x]
    BY DEF With
  <2> HIDE DEF R, page
  <2>3. Loaded(R)
    BY <1>1, <2>2 DEF Loaded
  <2>4. Answers(snap, R)
    BY <1>1, <2>2 DEF Answers
  <2>5. SamePins(resident, R)
    BY <1>1, <1>3, <2>2 DEF SamePins, PinnedIn
  <2>6. Loaded(resident') /\ Answers(snap, resident') /\ SamePins(R, resident')
    BY <2>1, <2>3, <2>4, ReclaimedIs DEF SamePins
  <2> QED
    BY <2>5, <2>6 DEF SamePins
<1> QED
  BY <1>2, <1>3

-----------------------------------------------------------------------------
(* Theorems.                                                               *)

\* Every step of the scheduler is a step of the coherence it is built on, or leaves
\* the snapshot alone: what holds of every history of Coherence holds of the
\* snapshot of a session.
THEOREM FollowsCoherence == SchedulerSpec => Spec
<1>1. SchedulerInit => Init
  BY DEF SchedulerInit
<1>2. [SchedulerNext]_schedulerVars => [Next]_snap
  BY DEF SchedulerNext, schedulerVars, AfterScopeChange, AfterRecord, BeforeTurn, PageFault, Next
<1> QED
  BY <1>1, <1>2, PTL DEF SchedulerSpec, Spec

\* The capsule and the residents after an event that only derives a record: nothing
\* that was eligible ceases to be.
LEMMA RecordKeepsEligible ==
    ASSUME IInv(snap), RecordEvent
    PROVE  EligibleRecords(snap) \subseteq EligibleRecords(snap')
<1>1. PICK u : Grows(snap, u) /\ Commit(u)
  BY RecordGrows
<1>2. snap.events < MaxEvents /\ Mid(snap, snap)
  BY RecordGrows, StartsHere
<1>3. Eligible(snap) \subseteq Eligible(u) /\ IsFiniteSet(DOMAIN u.bindings) /\ Good(u)
  BY <1>1, <1>2, GrowsKeepsEligible, GrowsFinite
<1>4. Eligible(snap') = Eligible(u) /\ snap'.bindings = u.bindings
  BY <1>1, <1>3, CommitIs DEF Good
<1>5. DOMAIN snap.bindings \subseteq DOMAIN u.bindings
  BY <1>1 DEF Grows
<1> QED
  BY <1>3, <1>4, <1>5 DEF EligibleRecords, Records

LEMMA SchedulerInitHolds ==
    ASSUME SchedulerInit
    PROVE  SInv
<1>1. DOMAIN snap.bindings = {} /\ DOMAIN resident = {} /\ capsule = {}
  BY DEF SchedulerInit, Init
<1>2. PinnedIn(resident) = {} /\ Anchors(snap, EligibleRecords(snap)) = {}
  BY <1>1 DEF PinnedIn, Anchors, EligibleRecords, Records
<1>3. Cardinality(PinnedIn(resident)) = 0
  BY <1>2, FS_EmptySet
<1>4. FewPins(resident)
  BY <1>3, QuotaAssumption DEF FewPins
<1> QED
  BY <1>1, <1>2, <1>4 DEF SInv, Loaded, Answers, PinsOK

LEMMA SchedulerStepHolds ==
    ASSUME IInv(snap), IInv(snap)', SInv, [SchedulerNext]_schedulerVars
    PROVE  SInv'
<1>1. CASE AfterScopeChange
  <2>1. (Loaded(resident) /\ Answers(snap, resident) /\ FewPins(resident) /\ PinsOK(snap, resident))'
    BY <1>1, FollowKeeps DEF AfterScopeChange, SInv
  <2>2. capsule' = {}
    BY <1>1 DEF AfterScopeChange
  <2> QED
    BY <2>1, <2>2 DEF SInv
<1>2. CASE AfterRecord
  <2>1. (Loaded(resident) /\ Answers(snap, resident) /\ FewPins(resident) /\ PinsOK(snap, resident))'
    BY <1>2, FollowKeeps DEF AfterRecord, SInv
  <2>2. capsule' = capsule /\ RecordEvent
    BY <1>2 DEF AfterRecord
  <2>3. (capsule \subseteq EligibleRecords(snap))'
    BY <2>2, RecordKeepsEligible DEF SInv
  <2> QED
    BY <2>1, <2>3 DEF SInv
<1>3. CASE BeforeTurn
  BY <1>3 DEF BeforeTurn, SInv
<1>4. ASSUME NEW id \in EligibleRecords(snap), PageFault(id)
      PROVE  SInv'
  <2>1. Loaded(resident') /\ Answers(snap, resident') /\ SamePins(resident, resident')
    BY <1>4, PageFaultKeeps DEF SInv
  <2>2. FewPins(resident') /\ PinsOK(snap, resident')
    BY <2>1, SamePinsHold DEF SInv
  <2>3. snap' = snap /\ capsule' = capsule
    BY <1>4 DEF PageFault
  <2> QED
    BY <2>1, <2>2, <2>3 DEF SInv
<1>5. CASE UNCHANGED schedulerVars
  BY <1>5 DEF SInv, schedulerVars
<1> QED
  BY <1>1, <1>2, <1>3, <1>4, <1>5 DEF SchedulerNext

LEMMA SchedulerInvariant == SchedulerSpec => [](IInv(snap) /\ SInv)
<1>1. SchedulerSpec => []IInv(snap)
  BY FollowsCoherence, InvariantStands, PTL
<1> QED
  BY <1>1, SchedulerInitHolds, SchedulerStepHolds, PTL DEF SchedulerSpec

\* After any history of events, turns and faults the capsule holds eligible records
\* only, and a resident that is not stale describes its binding as it is now
\* (reconcileHierarchy; the capsule is dropped by every event that ChangesResidency).
THEOREM OnlyTheEligibleIsServed == SchedulerSpec => []NothingLapsedIsServed
<1>1. IInv(snap) /\ SInv => NothingLapsedIsServed
  <2> SUFFICES ASSUME IInv(snap), SInv
               PROVE  NothingLapsedIsServed
    OBVIOUS
  <2>1. TypeOK
    BY IInvTyped
  <2>2. capsule \subseteq Ids
    BY PageOfIs DEF SInv
  <2> QED
    BY <2>1, <2>2 DEF NothingLapsedIsServed, SchedulerTypeOK, SInv, Loaded, Answers
<1> QED
  BY <1>1, SchedulerInvariant, PTL

\* Whatever the quota, the pins are anchors in their current text, and every anchor
\* is pinned unless the quota is used up (syncPinnedAnchors releases first, then
\* pins the task and the constraints in order; a fault never moves a pin).
THEOREM PinsAreAnchors == SchedulerSpec => []AnchorsArePinned
<1>1. SInv => AnchorsArePinned
  BY DEF SInv, PinsOK, AnchorsArePinned, Hit, PinnedIn
<1> QED
  BY <1>1, SchedulerInvariant, PTL
=============================================================================
