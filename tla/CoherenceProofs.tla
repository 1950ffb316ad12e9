-------------------------- MODULE CoherenceProofs --------------------------
(***************************************************************************)
(* What coherence promises, for any repositories, branches, commits, paths *)
(* and events.                                                             *)
(*                                                                         *)
(* Generations: every operator a transition is built from either leaves    *)
(* the epochs alone or draws new ones from the clock, which is a step of   *)
(* the relation Advances, and such a step moves no component of a          *)
(* descriptor without moving its maximum.                                  *)
(*                                                                         *)
(* Bindings: the invariant IInv says of each binding what Stands says, and *)
(* Step(s, u) says what a transaction from s may make of it: leave it as   *)
(* it is if it still holds, take its active status, emit it again,         *)
(* revalidate it, or end it together with all that depends on it.  Every   *)
(* event is such a transaction (NextSteps), every such transaction keeps   *)
(* IInv (StepKeeps), and the properties follow from Step alone.            *)
(***************************************************************************)
EXTENDS Coherence, FiniteSetTheorems, NaturalsInduction, TLAPS

Fields == {"current", "clock", "branchEpoch", "commitEpoch", "pathEpoch",
           "paths", "bindings", "events"}

\* A snapshot, as far as its epochs are concerned.
Good(s) == Fields \subseteq DOMAIN s /\ EpochsOK(s)

\* An epoch is what it was, or newer than every epoch there was.
Advances(s, t) ==
    /\ Good(t)
    /\ s.clock <= t.clock
    /\ \A k \in BranchKeys : t.branchEpoch[k] = s.branchEpoch[k] \/ s.clock < t.branchEpoch[k]
    /\ \A k \in CommitKeys : t.commitEpoch[k] = s.commitEpoch[k] \/ s.clock < t.commitEpoch[k]
    /\ \A k \in PathKeys : t.pathEpoch[k] = s.pathEpoch[k] \/ s.clock < t.pathEpoch[k]

\* The epochs of a snapshot are left alone.
Keeps(s, t) ==
    /\ Fields \subseteq DOMAIN t
    /\ t.clock = s.clock
    /\ t.branchEpoch = s.branchEpoch
    /\ t.commitEpoch = s.commitEpoch
    /\ t.pathEpoch = s.pathEpoch

LEMMA KeepsAdvances ==
    ASSUME NEW s, NEW t, Good(s), Keeps(s, t)
    PROVE  Advances(s, t)
BY DEF Good, Keeps, Advances, EpochsOK

LEMMA AdvancesTransitive ==
    ASSUME NEW s, NEW t, NEW u, Good(s), Advances(s, t), Advances(t, u)
    PROVE  Advances(s, u)
<1>1. s.clock \in Nat /\ t.clock \in Nat /\ u.clock \in Nat
  BY DEF Good, Advances, EpochsOK
<1>2. s.clock <= t.clock /\ t.clock <= u.clock
  BY DEF Advances
<1>3. \A k \in BranchKeys : u.branchEpoch[k] \in Nat /\ t.branchEpoch[k] \in Nat
  BY DEF Good, Advances, EpochsOK
<1>4. \A k \in CommitKeys : u.commitEpoch[k] \in Nat /\ t.commitEpoch[k] \in Nat
  BY DEF Good, Advances, EpochsOK
<1>5. \A k \in PathKeys : u.pathEpoch[k] \in Nat /\ t.pathEpoch[k] \in Nat
  BY DEF Good, Advances, EpochsOK
<1> QED
  BY <1>1, <1>2, <1>3, <1>4, <1>5 DEF Advances

-----------------------------------------------------------------------------
(* Operators that leave the epochs alone.                                  *)

LEMMA MarkStaleAdvances ==
    ASSUME NEW s, NEW hit, Good(s)
    PROVE  Advances(s, MarkStale(s, hit))
<1>1. Keeps(s, MarkStale(s, hit))
  BY DEF MarkStale, Good, Keeps, Fields
<1> QED
  BY <1>1, KeepsAdvances

LEMMA MarkInvalidatedAdvances ==
    ASSUME NEW s, NEW hit, Good(s)
    PROVE  Advances(s, MarkInvalidated(s, hit))
<1>1. Keeps(s, MarkInvalidated(s, hit))
  BY DEF MarkInvalidated, Good, Keeps, Fields
<1> QED
  BY <1>1, KeepsAdvances

-----------------------------------------------------------------------------
(* Operators that draw epochs from the clock.                              *)

LEMMA OneDrawn ==
    ASSUME NEW K, NEW c \in Nat, NEW f \in [K -> 0..c], NEW g,
           g = f \/ \E k : g = [f EXCEPT ![k] = c + 1]
    PROVE  /\ g \in [K -> 0..(c + 1)]
           /\ \A k \in K : g[k] = f[k] \/ c < g[k]
<1>1. CASE g = f
  BY <1>1
<1>2. ASSUME NEW x, g = [f EXCEPT ![x] = c + 1]
      PROVE  /\ g \in [K -> 0..(c + 1)]
             /\ \A k \in K : g[k] = f[k] \/ c < g[k]
  <2>1. g = [k \in K |-> IF k = x THEN c + 1 ELSE f[k]]
    BY <1>2
  <2>2. ASSUME NEW k \in K
        PROVE  g[k] \in 0..(c + 1) /\ (g[k] = f[k] \/ c < g[k])
    BY <2>1
  <2> QED
    BY <2>1, <2>2
<1> QED
  BY <1>1, <1>2

\* One tick, drawn for one scope or for none.
LEMMA TickAdvances ==
    ASSUME NEW s, NEW t, Good(s), Fields \subseteq DOMAIN t,
           t.clock = s.clock + 1, t.pathEpoch = s.pathEpoch,
           t.branchEpoch = s.branchEpoch
             \/ \E k : t.branchEpoch = [s.branchEpoch EXCEPT ![k] = s.clock + 1],
           t.commitEpoch = s.commitEpoch
             \/ \E k : t.commitEpoch = [s.commitEpoch EXCEPT ![k] = s.clock + 1]
    PROVE  Advances(s, t)
<1>1. s.clock \in Nat /\ t.clock \in Nat /\ s.clock < t.clock
  BY DEF Good, EpochsOK
<1>2. /\ t.branchEpoch \in [BranchKeys -> 0..t.clock]
      /\ \A k \in BranchKeys : t.branchEpoch[k] = s.branchEpoch[k] \/ s.clock < t.branchEpoch[k]
  <2> DEFINE c == s.clock
             f == s.branchEpoch
             g == t.branchEpoch
  <2>1. c \in Nat /\ f \in [BranchKeys -> 0..c] /\ t.clock = c + 1
    BY DEF Good, EpochsOK
  <2>2. g = f \/ \E k : g = [f EXCEPT ![k] = c + 1]
    OBVIOUS
  <2> HIDE DEF c, f, g
  <2>3. g \in [BranchKeys -> 0..(c + 1)] /\ \A k \in BranchKeys : g[k] = f[k] \/ c < g[k]
    BY <2>1, <2>2, OneDrawn
  <2> QED
    BY <2>1, <2>3 DEF c, f, g
<1>3. /\ t.commitEpoch \in [CommitKeys -> 0..t.clock]
      /\ \A k \in CommitKeys : t.commitEpoch[k] = s.commitEpoch[k] \/ s.clock < t.commitEpoch[k]
  <2> DEFINE c == s.clock
             f == s.commitEpoch
             g == t.commitEpoch
  <2>1. c \in Nat /\ f \in [CommitKeys -> 0..c] /\ t.clock = c + 1
    BY DEF Good, EpochsOK
  <2>2. g = f \/ \E k : g = [f EXCEPT ![k] = c + 1]
    OBVIOUS
  <2> HIDE DEF c, f, g
  <2>3. g \in [CommitKeys -> 0..(c + 1)] /\ \A k \in CommitKeys : g[k] = f[k] \/ c < g[k]
    BY <2>1, <2>2, OneDrawn
  <2> QED
    BY <2>1, <2>3 DEF c, f, g
<1>4. /\ t.pathEpoch \in [PathKeys -> 0..t.clock]
      /\ \A k \in PathKeys : t.pathEpoch[k] = s.pathEpoch[k]
  BY <1>1 DEF Good, EpochsOK
<1> QED
  BY <1>1, <1>2, <1>3, <1>4 DEF Advances, Good, EpochsOK

LEMMA EnterCommitAdvances ==
    ASSUME NEW s, Good(s)
    PROVE  Advances(s, EnterCommit(s))
<1>1. Advances(s, s)
  BY KeepsAdvances DEF Good, Keeps
<1> DEFINE c == s.current
           key == <<c.repo, c.branch, c.commit>>
           t == [s EXCEPT !.clock = s.clock + 1, !.commitEpoch[key] = s.clock + 1]
<1>2. Advances(s, t)
  <2> HIDE DEF key
  <2>1. /\ Fields \subseteq DOMAIN t
        /\ t.clock = s.clock + 1
        /\ t.pathEpoch = s.pathEpoch
        /\ t.branchEpoch = s.branchEpoch
        /\ t.commitEpoch = [s.commitEpoch EXCEPT ![key] = s.clock + 1]
    BY DEF Good, Fields
  <2> QED
    BY <2>1, TickAdvances
<1> QED
  BY <1>1, <1>2 DEF EnterCommit

LEMMA EnterBranchAdvances ==
    ASSUME NEW s, Good(s)
    PROVE  Advances(s, EnterBranch(s))
<1> DEFINE c == s.current
           key == <<c.repo, c.branch>>
           t == [s EXCEPT !.clock = s.clock + 1, !.branchEpoch[key] = s.clock + 1]
<1>1. Advances(s, t)
  <2> HIDE DEF key
  <2>1. /\ Fields \subseteq DOMAIN t
        /\ t.clock = s.clock + 1
        /\ t.pathEpoch = s.pathEpoch
        /\ t.branchEpoch = [s.branchEpoch EXCEPT ![key] = s.clock + 1]
        /\ t.commitEpoch = s.commitEpoch
    BY DEF Good, Fields
  <2> QED
    BY <2>1, TickAdvances
<1>2. Advances(t, EnterCommit(t))
  BY <1>1, EnterCommitAdvances DEF Advances
<1>3. Advances(s, EnterCommit(t))
  BY <1>1, <1>2, AdvancesTransitive
<1> QED
  BY <1>3, EnterCommitAdvances DEF EnterBranch

LEMMA PathsFinite == IsFiniteSet(Paths)
<1> DEFINE n == Len(PathOrder)
<1>1. n \in Nat /\ DOMAIN PathOrder = 1..n /\ PathOrder \in [1..n -> Paths]
  BY PathOrderAssumption
<1>2. PathOrder \in Surjection(1..n, Paths)
  BY <1>1 DEF Paths, Surjection
<1>3. IsFiniteSet(1..n)
  BY <1>1, FS_Interval
<1> QED
  BY <1>2, <1>3, FS_Surjection

\* bumpPathEpoch draws one epoch a path.
LEMMA BumpedAdvances ==
    ASSUME NEW s, NEW ps \in SUBSET Paths, Good(s)
    PROVE  Advances(s, Bumped(s, ps))
<1> DEFINE upTo(p) == {q \in ps : \E i, j \in DOMAIN PathOrder :
                                    i <= j /\ PathOrder[i] = q /\ PathOrder[j] = p}
           rank(p) == Cardinality(upTo(p))
           n == Cardinality(ps)
           t == Bumped(s, ps)
<1>1. IsFiniteSet(ps) /\ n \in Nat
  BY PathsFinite, FS_Subset, FS_CardinalityType
<1>2. ASSUME NEW p \in ps
      PROVE  rank(p) \in 1..n
  <2>1. upTo(p) \in SUBSET ps
    OBVIOUS
  <2>2. p \in upTo(p)
    <3>1. PICK i \in DOMAIN PathOrder : PathOrder[i] = p
      BY DEF Paths
    <3>2. DOMAIN PathOrder \subseteq Int
      BY PathOrderAssumption
    <3> QED
      BY <3>1, <3>2
  <2> HIDE DEF upTo
  <2>3. IsFiniteSet(upTo(p)) /\ Cardinality(upTo(p)) <= n
    BY <1>1, <2>1, FS_Subset
  <2>4. Cardinality(upTo(p)) \in Nat /\ Cardinality(upTo(p)) # 0
    BY <2>2, <2>3, FS_CardinalityType, FS_EmptySet
  <2> QED
    BY <1>1, <2>3, <2>4
<1>3. /\ Fields \subseteq DOMAIN t
      /\ t.clock = s.clock + n
      /\ t.branchEpoch = s.branchEpoch
      /\ t.commitEpoch = s.commitEpoch
      /\ t.pathEpoch = [k \in PathKeys |->
            IF k[1] = s.current.repo /\ k[2] = s.current.branch /\ k[3] \in ps
            THEN s.clock + rank(k[3]) ELSE s.pathEpoch[k]]
  BY DEF Bumped, Good, Fields
<1> HIDE DEF rank, n, t
<1>4. s.clock \in Nat /\ t.clock \in Nat /\ s.clock <= t.clock
  BY <1>1, <1>3 DEF Good, EpochsOK
<1>5. ASSUME NEW k \in PathKeys
      PROVE  /\ t.pathEpoch[k] \in 0..t.clock
             /\ t.pathEpoch[k] = s.pathEpoch[k] \/ s.clock < t.pathEpoch[k]
  <2>1. CASE k[1] = s.current.repo /\ k[2] = s.current.branch /\ k[3] \in ps
    <3>1. t.pathEpoch[k] = s.clock + rank(k[3])
      BY <1>3, <2>1
    <3> QED
      BY <1>1, <1>2, <1>3, <1>4, <2>1, <3>1
  <2>2. CASE ~(k[1] = s.current.repo /\ k[2] = s.current.branch /\ k[3] \in ps)
    <3>1. t.pathEpoch[k] = s.pathEpoch[k]
      BY <1>3, <2>2
    <3> QED
      BY <1>4, <3>1 DEF Good, EpochsOK
  <2> QED
    BY <2>1, <2>2
<1>6. t.pathEpoch \in [PathKeys -> 0..t.clock]
  BY <1>3, <1>5
<1>7. /\ t.branchEpoch \in [BranchKeys -> 0..t.clock]
      /\ t.commitEpoch \in [CommitKeys -> 0..t.clock]
  BY <1>3, <1>4 DEF Good, EpochsOK
<1>8. Good(t)
  BY <1>3, <1>4, <1>6, <1>7 DEF Good, EpochsOK
<1> HIDE DEF Good
<1>9. Advances(s, t)
  BY <1>3, <1>4, <1>5, <1>8 DEF Advances
<1> QED
  BY <1>9 DEF t

-----------------------------------------------------------------------------
(* Every event is a step of Advances.                                      *)

LEMMA CommitAdvances ==
    ASSUME NEW s, Good(snap), Advances(snap, s), Commit(s)
    PROVE  Advances(snap, snap')
<1>1. Keeps(s, snap')
  BY DEF Commit, Keeps, Advances, Good, Fields
<1>2. Advances(s, snap')
  BY <1>1, KeepsAdvances DEF Advances
<1> QED
  BY <1>2, AdvancesTransitive

-----------------------------------------------------------------------------
(* Generations.                                                            *)

\* An epoch a descriptor names: it is kept, or it is newer than all there were.
LEMMA EpochsAdvance ==
    ASSUME NEW s, NEW t, Good(s), Advances(s, t), NEW d \in Descriptors, NEW i \in 1..3
    PROVE  /\ s.clock \in Nat
           /\ Epochs(s, d)[i] \in 0..s.clock
           /\ Epochs(t, d)[i] \in Nat
           /\ Epochs(t, d)[i] = Epochs(s, d)[i] \/ s.clock < Epochs(t, d)[i]
<1>1. s.clock \in Nat
  BY DEF Good, EpochsOK
<1>2. CASE i = 1
  BY <1>1, <1>2 DEF Advances, Good, EpochsOK, Epochs, BranchEpoch
<1>3. CASE i = 2
  BY <1>1, <1>3 DEF Advances, Good, EpochsOK, Epochs, CommitEpoch
<1>4. CASE i = 3
  BY <1>1, <1>4 DEF Advances, Good, EpochsOK, Epochs, PathEpoch
<1> QED
  BY <1>1, <1>2, <1>3, <1>4

LEMMA AdvanceMovesGeneration ==
    ASSUME NEW s, NEW t, Good(s), Advances(s, t), NEW d \in Descriptors
    PROVE  /\ Generation(Epochs(s, d)) <= Generation(Epochs(t, d))
           /\ Generation(Epochs(s, d)) = Generation(Epochs(t, d)) => Epochs(s, d) = Epochs(t, d)
<1> DEFINE e == Epochs(s, d)
           f == Epochs(t, d)
<1>1. e = <<e[1], e[2], e[3]>> /\ f = <<f[1], f[2], f[3]>>
  BY DEF Epochs
<1>2. \A i \in {1, 2, 3} : /\ s.clock \in Nat
                           /\ e[i] \in 0..s.clock
                           /\ f[i] \in Nat
                           /\ f[i] = e[i] \/ s.clock < f[i]
  BY EpochsAdvance
<1> HIDE DEF e, f
<1>3. /\ Generation(e) <= Generation(f)
      /\ Generation(e) = Generation(f) => e[1] = f[1] /\ e[2] = f[2] /\ e[3] = f[3]
  BY <1>2 DEF Generation, maxEpoch
<1>4. Generation(e) = Generation(f) => e = f
  BY <1>1, <1>3
<1> QED
  BY <1>3, <1>4 DEF e, f

-----------------------------------------------------------------------------
(* Searches that go on until nothing is added.                             *)

Monotone(F, U) == \A X, Y \in SUBSET U : X \subseteq Y => F[X] \subseteq F[Y]

\* N rounds of F from a first set.
IsRounds(g, F, first, N) ==
    g = [n \in 0..N |-> IF n = 0 THEN first ELSE F[g[n - 1]]]

\* The rounds only grow, and are as many as there can be members.
Settling(g, F, first, N, U) ==
    /\ IsFiniteSet(U) /\ N \in Nat /\ Cardinality(U) <= N
    /\ F \in [SUBSET U -> SUBSET U] /\ Monotone(F, U)
    /\ first \in SUBSET U /\ first \subseteq F[first]
    /\ g \in [0..N -> SUBSET U] /\ IsRounds(g, F, first, N)

\* A set of numbers that is not empty has a least member.
LEMMA Least ==
    ASSUME NEW S \in SUBSET Nat, S # {}
    PROVE  \E n \in S : \A m \in 0..n - 1 : m \notin S
<1> DEFINE less == {w \in Nat \X Nat : w[1] < w[2]}
<1>1. IsWellFoundedOn(less, Nat)
  BY NatLessThanWellFounded DEF OpToRel
<1>2. PICK n \in S : \A m \in S : ~(<<m, n>> \in less)
  <2> HIDE DEF less
  <2> QED
    BY <1>1, WFMin
<1>3. ASSUME NEW m \in 0..n - 1, m \in S
      PROVE  FALSE
  <2>1. m \in Nat /\ n \in Nat /\ m < n
    BY <1>3
  <2>2. <<m, n>> \in less
    BY <2>1
  <2> QED
    BY <1>2, <1>3, <2>2
<1> QED
  BY <1>3

LEMMA RoundsExist ==
    ASSUME NEW U, NEW F \in [SUBSET U -> SUBSET U], NEW first \in SUBSET U, NEW N \in Nat
    PROVE  \E g \in [0..N -> SUBSET U] : IsRounds(g, F, first, N)
<1> DEFINE Has(n) == \E g \in [0..n -> SUBSET U] : IsRounds(g, F, first, n)
           Bad == {n \in Nat : ~Has(n)}
<1> SUFFICES ASSUME Bad # {} PROVE FALSE
  OBVIOUS
<1>1. PICK n \in Bad : \A m \in 0..n - 1 : m \notin Bad
  <2>1. Bad \in SUBSET Nat
    OBVIOUS
  <2> HIDE DEF Bad
  <2> QED
    BY <2>1, Least
<1>2. CASE n = 0
  <2> DEFINE g == [m \in 0..0 |-> first]
  <2>1. g \in [0..n -> SUBSET U] /\ IsRounds(g, F, first, n)
    BY <1>2 DEF IsRounds
  <2> QED
    BY <2>1
<1>3. CASE n # 0
  <2>1. n - 1 \in Nat /\ n \in Nat /\ Has(n - 1)
    BY <1>1, <1>3
  <2>2. PICK g \in [0..n - 1 -> SUBSET U] : IsRounds(g, F, first, n - 1)
    BY <2>1
  <2> DEFINE h == [m \in 0..n |-> IF m = n THEN F[g[n - 1]] ELSE g[m]]
  <2>3. \A m \in 0..n - 1 : g[m] = IF m = 0 THEN first ELSE F[g[m - 1]]
    BY <2>2, <2>1 DEF IsRounds
  <2>4. h \in [0..n -> SUBSET U]
    BY <2>1
  <2>5. \A m \in 0..n : h[m] = IF m = 0 THEN first ELSE F[h[m - 1]]
    BY <2>1, <2>3, <1>3
  <2> HIDE DEF h
  <2>6. IsRounds(h, F, first, n)
    BY <2>4, <2>5 DEF IsRounds
  <2> QED
    BY <2>4, <2>6
<1> QED
  BY <1>2, <1>3

\* Rounds that only grow have settled once there are as many as members, and have
\* then not left any set that the first is in and F keeps.
LEMMA RoundsSettle ==
    ASSUME NEW g, NEW F, NEW first, NEW N, NEW U, Settling(g, F, first, N, U)
    PROVE  /\ F[g[N]] = g[N]
           /\ first \subseteq g[N]
           /\ \A X \in SUBSET U : first \subseteq X /\ F[X] \subseteq X => g[N] \subseteq X
<1> USE DEF Settling
<1>1. N \in Nat /\ Cardinality(U) \in Nat
  BY FS_CardinalityType
<1>2. \A n \in 0..N : g[n] = IF n = 0 THEN first ELSE F[g[n - 1]]
  BY DEF IsRounds
<1>3. ASSUME NEW X \in SUBSET U, first \subseteq X, F[X] \subseteq X, NEW n \in 0..N
      PROVE  g[n] \subseteq X
  <2> DEFINE Bad == {m \in 0..N : ~(g[m] \subseteq X)}
  <2> SUFFICES ASSUME Bad # {} PROVE FALSE
    OBVIOUS
  <2>1. Bad \in SUBSET Nat
    BY <1>1
  <2>2. PICK m \in Bad : \A k \in 0..m - 1 : k \notin Bad
    <3> HIDE DEF Bad
    <3> QED
      BY <2>1, Least
  <2>3. m \in 0..N /\ m \in Nat /\ m # 0
    BY <1>1, <1>2, <1>3, <2>2
  <2>4. m - 1 \in 0..N /\ m - 1 \in 0..m - 1
    BY <1>1, <2>3
  <2>5. g[m - 1] \subseteq X
    BY <2>2, <2>4
  <2>6. g[m - 1] \in SUBSET U
    BY <2>4
  <2>7. F[g[m - 1]] \subseteq F[X]
    BY <2>5, <2>6 DEF Monotone
  <2> QED
    BY <1>2, <1>3, <2>2, <2>3, <2>7
\* A round is in the next, and has a member for each one before unless it has settled.
<1>4. ASSUME NEW n \in 0..N
      PROVE  /\ g[n] \subseteq F[g[n]]
             /\ F[g[n]] = g[n] \/ Cardinality(g[n]) >= n
  <2> DEFINE Rises(m) == /\ g[m] \subseteq F[g[m]]
                         /\ F[g[m]] = g[m] \/ Cardinality(g[m]) >= m
             Bad == {m \in 0..N : ~Rises(m)}
  <2> SUFFICES ASSUME Bad # {} PROVE FALSE
    OBVIOUS
  <2>1. Bad \in SUBSET Nat
    BY <1>1
  <2>2. PICK m \in Bad : \A k \in 0..m - 1 : k \notin Bad
    <3> HIDE DEF Bad
    <3> QED
      BY <2>1, Least
  <2>3. m \in 0..N /\ m \in Nat
    BY <1>1, <2>2
  <2>4. CASE m = 0
    <3>1. g[0] = first
      BY <1>1, <1>2
    <3>2. Cardinality(first) \in Nat
      BY FS_Subset, FS_CardinalityType
    <3> QED
      BY <2>2, <2>4, <3>1, <3>2
  <2>5. CASE m # 0
    <3>1. m - 1 \in 0..N /\ m - 1 \in 0..m - 1
      BY <1>1, <2>3, <2>5
    <3>2. Rises(m - 1)
      BY <2>2, <3>1
    <3> DEFINE A == g[m - 1]
               B == g[m]
    <3>3. A \in SUBSET U /\ B \in SUBSET U /\ B = F[A]
      BY <1>2, <2>3, <2>5, <3>1
    <3>4. A \subseteq B
      BY <3>2, <3>3
    <3>5. B \subseteq F[B]
      BY <3>3, <3>4 DEF Monotone
    <3>6. CASE B = A
      BY <2>2, <3>3, <3>5, <3>6
    <3>7. CASE B # A
      <4>1. Cardinality(A) >= m - 1
        BY <3>2, <3>3, <3>7
      <4>2. IsFiniteSet(B)
        BY <3>3, FS_Subset
      <4>3. Cardinality(A) \in Nat /\ Cardinality(B) \in Nat
        BY <3>4, <4>2, FS_Subset, FS_CardinalityType
      <4>4. Cardinality(A) < Cardinality(B)
        <5>1. A \in SUBSET B
          BY <3>4
        <5>2. Cardinality(A) <= Cardinality(B) /\ (Cardinality(B) = Cardinality(A) => B = A)
          <6> HIDE DEF A, B
          <6> QED
            BY <4>2, <5>1, FS_Subset
        <5> QED
          BY <3>7, <4>3, <5>2
      <4>5. Cardinality(B) >= m
        BY <2>3, <4>1, <4>3, <4>4
      <4> QED
        BY <2>2, <3>5, <4>5
    <3> QED
      BY <3>6, <3>7
  <2> QED
    BY <2>4, <2>5
<1>5. N \in 0..N
  BY <1>1
<1>6. g[N] \in SUBSET U
  BY <1>5
<1>7. F[g[N]] = g[N]
  <2>1. CASE Cardinality(g[N]) >= N
    <3>1. Cardinality(g[N]) <= Cardinality(U) /\ (Cardinality(g[N]) = Cardinality(U) => g[N] = U)
      BY <1>6, FS_Subset
    <3>2. Cardinality(g[N]) \in Nat
      BY <1>6, FS_Subset, FS_CardinalityType
    <3>3. g[N] = U
      BY <1>1, <2>1, <3>1, <3>2
    <3>4. F[g[N]] \in SUBSET U
      BY <1>6
    <3> QED
      BY <1>4, <1>5, <3>3, <3>4
  <2> QED
    BY <1>4, <1>5, <2>1
<1>8. first \subseteq g[N]
  <2> DEFINE Bad == {m \in 0..N : ~(first \subseteq g[m])}
  <2> SUFFICES ASSUME Bad # {} PROVE FALSE
    BY <1>5
  <2>1. Bad \in SUBSET Nat
    BY <1>1
  <2>2. PICK m \in Bad : \A k \in 0..m - 1 : k \notin Bad
    <3> HIDE DEF Bad
    <3> QED
      BY <2>1, Least
  <2>3. m \in 0..N /\ m \in Nat /\ m # 0
    BY <1>1, <1>2, <2>2
  <2>4. m - 1 \in 0..N /\ m - 1 \in 0..m - 1
    BY <1>1, <2>3
  <2>5. first \subseteq g[m - 1]
    BY <2>2, <2>4
  <2>6. g[m - 1] \subseteq g[m]
    BY <1>2, <1>4, <2>3, <2>4
  <2> QED
    BY <2>2, <2>5, <2>6
<1> QED
  BY <1>3, <1>5, <1>7, <1>8

-----------------------------------------------------------------------------
(* What is eligible, and what an invalidation reaches.                     *)

\* What may be eligible, as far as each binding alone is concerned.
Sound(s) == {id \in DOMAIN s.bindings : /\ s.bindings[id].status = "active"
                                        /\ InScope(s, s.bindings[id])}

LEMMA EligibleSettles ==
    ASSUME NEW s, IsFiniteSet(DOMAIN s.bindings)
    PROVE  /\ Eligible(s) \subseteq Sound(s)
           /\ \A id \in Sound(s) : s.bindings[id].refs \subseteq Eligible(s) => id \in Eligible(s)
           /\ \A X \in SUBSET Sound(s) :
                 (\A id \in Sound(s) : s.bindings[id].refs \subseteq X => id \in X)
                    => Eligible(s) \subseteq X
<1> DEFINE U == Sound(s)
           N == Cardinality(U)
           F == [X \in SUBSET U |-> {id \in U : s.bindings[id].refs \subseteq X}]
           r == CHOOSE g : g = [n \in 0..N |-> IF n = 0 THEN {}
                                  ELSE LET before == g[n - 1]
                                       IN {id \in U : s.bindings[id].refs \subseteq before}]
<1>1. IsFiniteSet(U) /\ N \in Nat /\ Cardinality(U) <= N
  <2>1. U \in SUBSET DOMAIN s.bindings
    BY DEF Sound
  <2> HIDE DEF U
  <2> QED
    BY <2>1, FS_Subset, FS_CardinalityType
<1>2. Eligible(s) = r[N]
  BY DEF Eligible, Sound
<1> HIDE DEF U, N
<1>3. F \in [SUBSET U -> SUBSET U] /\ Monotone(F, U)
  BY DEF Monotone
<1>4. PICK g \in [0..N -> SUBSET U] : IsRounds(g, F, {}, N)
  <2> HIDE DEF F
  <2> QED
    BY <1>1, <1>3, RoundsExist
<1>5. g = [n \in 0..N |-> IF n = 0 THEN {}
                          ELSE LET before == g[n - 1]
                               IN {id \in U : s.bindings[id].refs \subseteq before}]
  <2>1. \A n \in 0..N : g[n] = IF n = 0 THEN {} ELSE F[g[n - 1]]
    BY <1>4 DEF IsRounds
  <2>2. ASSUME NEW n \in 0..N, n # 0
        PROVE  F[g[n - 1]] = {id \in U : s.bindings[id].refs \subseteq g[n - 1]}
    <3>1. n - 1 \in 0..N
      BY <1>1, <2>2
    <3>2. g[n - 1] \in SUBSET U
      BY <3>1
    <3> QED
      BY <3>2
  <2> QED
    BY <2>1, <2>2
<1>6. r = [n \in 0..N |-> IF n = 0 THEN {}
                          ELSE LET before == r[n - 1]
                               IN {id \in U : s.bindings[id].refs \subseteq before}]
  <2> DEFINE Recursive(h) ==
               h = [n \in 0..N |-> IF n = 0 THEN {}
                                   ELSE LET before == h[n - 1]
                                        IN {id \in U : s.bindings[id].refs \subseteq before}]
  <2>1. Recursive(g)
    BY <1>5, Zenon
  <2>2. r = CHOOSE h : Recursive(h)
    BY Zenon
  <2> HIDE DEF Recursive, r
  <2>3. Recursive(r)
    BY <2>1, <2>2, Zenon
  <2> QED
    BY <2>3, Zenon DEF Recursive
<1> HIDE DEF r
<1>7. r \in [0..N -> SUBSET U]
  BY <1>6
<1>8. IsRounds(r, F, {}, N)
  <2>1. ASSUME NEW n \in 0..N, n # 0
        PROVE  F[r[n - 1]] = {id \in U : s.bindings[id].refs \subseteq r[n - 1]}
    <3>1. n - 1 \in 0..N
      BY <1>1, <2>1
    <3>2. r[n - 1] \in SUBSET U
      BY <1>7, <3>1
    <3> QED
      BY <3>2
  <2> HIDE DEF F
  <2> QED
    BY <1>6, <2>1 DEF IsRounds
<1>9. /\ F[r[N]] = r[N]
      /\ \A X \in SUBSET U : {} \subseteq X /\ F[X] \subseteq X => r[N] \subseteq X
  <2> DEFINE first == {}
  <2>1. first \in SUBSET U /\ first \subseteq F[first]
    BY DEF F
  <2>2. IsRounds(r, F, first, N)
    BY <1>8
  <2> HIDE DEF F, first
  <2>3. Settling(r, F, first, N, U)
    BY <1>1, <1>3, <1>7, <2>1, <2>2 DEF Settling
  <2>4. /\ F[r[N]] = r[N]
        /\ first \subseteq r[N]
        /\ \A X \in SUBSET U : first \subseteq X /\ F[X] \subseteq X => r[N] \subseteq X
    BY <2>3, RoundsSettle
  <2> QED
    BY <2>4 DEF first
<1>10. r[N] \in SUBSET U
  BY <1>1, <1>7
<1>11. \A id \in U : s.bindings[id].refs \subseteq r[N] => id \in r[N]
  BY <1>9, <1>10
<1>12. \A X \in SUBSET U : (\A id \in U : s.bindings[id].refs \subseteq X => id \in X)
                                => r[N] \subseteq X
  BY <1>9
<1> QED
  BY <1>2, <1>10, <1>11, <1>12 DEF U

\* What is eligible stays so while each of it stays sound and refers to no more.
LEMMA EligibleKept ==
    ASSUME NEW s, NEW t, IsFiniteSet(DOMAIN s.bindings), IsFiniteSet(DOMAIN t.bindings),
           \A id \in Eligible(s) : /\ id \in Sound(t)
                                  /\ t.bindings[id].refs \subseteq s.bindings[id].refs
    PROVE  Eligible(s) \subseteq Eligible(t)
<1> DEFINE X == Eligible(s) \cap Eligible(t)
<1>1. X \in SUBSET Sound(s)
  BY EligibleSettles
<1>2. ASSUME NEW id \in Sound(s), s.bindings[id].refs \subseteq X
      PROVE  id \in X
  <2>1. id \in Eligible(s)
    BY <1>2, EligibleSettles
  <2>2. t.bindings[id].refs \subseteq Eligible(t)
    BY <1>2, <2>1
  <2> QED
    BY <2>1, <2>2, EligibleSettles
<1> HIDE DEF X
<1>3. Eligible(s) \subseteq X
  BY <1>1, <1>2, EligibleSettles
<1> QED
  BY <1>3 DEF X

Valid(s) == {id \in DOMAIN s.bindings : s.bindings[id].status # "invalidated"}

\* It depends on one of X directly.
Follows(b, X) == b.evidence \in X \/ b.refs \cap X # {}

\* The cascade leaves nothing out.
LEMMA DependentsClosed ==
    ASSUME NEW s, IsFiniteSet(DOMAIN s.bindings), NEW ids \in SUBSET Valid(s)
    PROVE  /\ ids \subseteq Dependents(s, ids) /\ Dependents(s, ids) \subseteq Valid(s)
           /\ \A id \in Valid(s) : Follows(s.bindings[id], Dependents(s, ids))
                                     => id \in Dependents(s, ids)
<1> DEFINE U == Valid(s)
           N == Cardinality(U)
           F == [X \in SUBSET U |-> X \cup {id \in U : Follows(s.bindings[id], X)}]
           Reaches(g) ==
               g = [n \in 0..N |-> IF n = 0 THEN ids
                      ELSE LET before == g[n - 1]
                           IN before \cup {id \in U : \/ s.bindings[id].evidence \in before
                                                     \/ s.bindings[id].refs \cap before # {}}]
           r == CHOOSE g : Reaches(g)
<1>1. IsFiniteSet(U) /\ N \in Nat /\ Cardinality(U) <= N
  <2>1. U \in SUBSET DOMAIN s.bindings
    BY DEF Valid
  <2> HIDE DEF U
  <2> QED
    BY <2>1, FS_Subset, FS_CardinalityType
<1>2. Dependents(s, ids) = r[N]
  BY DEF Dependents, Valid
<1>3. ids \in SUBSET U
  OBVIOUS
<1> HIDE DEF U, N
<1>4. F \in [SUBSET U -> SUBSET U] /\ Monotone(F, U) /\ ids \subseteq F[ids]
  BY <1>3 DEF Monotone, Follows
<1>5. PICK g \in [0..N -> SUBSET U] : IsRounds(g, F, ids, N)
  <2> HIDE DEF F
  <2> QED
    BY <1>1, <1>3, <1>4, RoundsExist
<1>6. Reaches(g)
  <2>1. \A n \in 0..N : g[n] = IF n = 0 THEN ids ELSE F[g[n - 1]]
    BY <1>5 DEF IsRounds
  <2>2. ASSUME NEW n \in 0..N, n # 0
        PROVE  F[g[n - 1]] = g[n - 1] \cup
                                  {id \in U : \/ s.bindings[id].evidence \in g[n - 1]
                                             \/ s.bindings[id].refs \cap g[n - 1] # {}}
    <3>1. n - 1 \in 0..N
      BY <1>1, <2>2
    <3>2. g[n - 1] \in SUBSET U
      BY <3>1
    <3> QED
      BY <3>2 DEF Follows
  <2> QED
    BY <2>1, <2>2
<1>7. Reaches(r)
  <2> HIDE DEF Reaches
  <2> QED
    BY <1>6
<1> HIDE DEF r
<1>8. ASSUME NEW n \in 0..N
      PROVE  r[n] \in SUBSET U
  <2> DEFINE Bad == {m \in 0..N : r[m] \notin SUBSET U}
  <2> SUFFICES ASSUME Bad # {} PROVE FALSE
    OBVIOUS
  <2>1. Bad \in SUBSET Nat
    BY <1>1
  <2>2. PICK m \in Bad : \A k \in 0..m - 1 : k \notin Bad
    <3> HIDE DEF Bad
    <3> QED
      BY <2>1, Least
  <2>3. m \in 0..N /\ m \in Nat /\ m # 0
    BY <1>1, <1>3, <1>7, <2>2
  <2>4. m - 1 \in 0..N /\ m - 1 \in 0..m - 1
    BY <1>1, <2>3
  <2> QED
    BY <1>7, <2>2, <2>3, <2>4
<1>9. r \in [0..N -> SUBSET U]
  <2>1. r = [n \in 0..N |-> r[n]]
    BY <1>7
  <2> QED
    BY <1>8, <2>1
<1>10. IsRounds(r, F, ids, N)
  <2>1. ASSUME NEW n \in 0..N, n # 0
        PROVE  F[r[n - 1]] = r[n - 1] \cup
                                  {id \in U : \/ s.bindings[id].evidence \in r[n - 1]
                                             \/ s.bindings[id].refs \cap r[n - 1] # {}}
    <3>1. n - 1 \in 0..N
      BY <1>1, <2>1
    <3>2. r[n - 1] \in SUBSET U
      BY <1>8, <3>1
    <3> QED
      BY <3>2 DEF Follows
  <2> HIDE DEF F
  <2> QED
    BY <1>7, <2>1 DEF IsRounds
<1>11. F[r[N]] = r[N] /\ ids \subseteq r[N]
  <2> HIDE DEF F
  <2>1. Settling(r, F, ids, N, U)
    BY <1>1, <1>3, <1>4, <1>9, <1>10 DEF Settling
  <2> QED
    BY <2>1, RoundsSettle
<1>12. r[N] \in SUBSET U
  BY <1>1, <1>8
<1>13. \A id \in U : Follows(s.bindings[id], r[N]) => id \in r[N]
  BY <1>11, <1>12
<1> QED
  BY <1>2, <1>11, <1>12, <1>13 DEF U

-----------------------------------------------------------------------------
(* What each operator leaves alone.                                        *)

\* t has the scopes, epochs and paths of s, and its bindings may differ.
SameScope(s, t) ==
    /\ Fields \subseteq DOMAIN s /\ Keeps(s, t)
    /\ t.current = s.current /\ t.paths = s.paths /\ t.events = s.events

\* The binding names another branch or commit than the current one, which has not
\* been entered since the binding was made.
Awaits(s, b) ==
    /\ \/ b.branch # s.current.branch
       \/ "commit" \in b.gates /\ b.commit # s.current.commit
    /\ b.branchEpoch = BranchEpoch(s, b) /\ b.commitEpoch = CommitEpoch(s, b)

\* What speaks of a branch of the current repository is of the current scope as it is
\* now, or awaits another one as it is now.
Abides(s, b) ==
    "branch" \in b.gates /\ b.repo = s.current.repo => MatchesCurrent(s, b) \/ Awaits(s, b)

LEMMA SameScopeTransitive ==
    ASSUME NEW s, NEW t, NEW u, SameScope(s, t), SameScope(t, u)
    PROVE  SameScope(s, u)
BY DEF SameScope, Keeps

\* What a binding is worth depends on the scopes.
LEMMA ScopeDecides ==
    ASSUME NEW s, NEW t, SameScope(s, t)
    PROVE  /\ \A b : InScope(t, b) <=> InScope(s, b)
           /\ \A b : MatchesCurrent(t, b) <=> MatchesCurrent(s, b)
           /\ \A b : Abides(t, b) <=> Abides(s, b)
           /\ \A b : Captured(t, b) = Captured(s, b)
           /\ \A b : Retargeted(t, b) = Retargeted(s, b)
           /\ \A gates, branch, commit, path, refs :
                 Binding(t, gates, branch, commit, path, refs)
                    = Binding(s, gates, branch, commit, path, refs)
           /\ EventId(t) = EventId(s)
<1>1. /\ \A b : MatchesCurrent(t, b) <=> MatchesCurrent(s, b)
      /\ \A b : PathCurrent(t, b) <=> PathCurrent(s, b)
      /\ \A b : Captured(t, b) = Captured(s, b)
  BY DEF SameScope, Keeps, MatchesCurrent, PathCurrent, TerminalOverlap, Captured,
         BranchEpoch, CommitEpoch, PathEpoch
<1>6. \A b : Abides(t, b) <=> Abides(s, b)
  <2>1. \A b : BranchEpoch(t, b) = BranchEpoch(s, b) /\ CommitEpoch(t, b) = CommitEpoch(s, b)
    BY DEF SameScope, Keeps, BranchEpoch, CommitEpoch
  <2> QED
    BY <1>1, <2>1 DEF SameScope, Abides, Awaits
<1>2. \A b : InScope(t, b) <=> InScope(s, b)
  BY <1>1 DEF InScope, SameScope
<1>3. EventId(t) = EventId(s)
  BY DEF EventId, SameScope
<1>4. \A b : Retargeted(t, b) = Retargeted(s, b)
  BY <1>1 DEF Retargeted, SameScope
<1>5. \A gates, branch, commit, path, refs :
         Binding(t, gates, branch, commit, path, refs)
            = Binding(s, gates, branch, commit, path, refs)
  BY <1>1, <1>3 DEF Binding, SameScope
<1> QED
  BY <1>1, <1>2, <1>3, <1>4, <1>5, <1>6

LEMMA BindIs ==
    ASSUME NEW s, Fields \subseteq DOMAIN s, NEW id, NEW b
    PROVE  /\ SameScope(s, Bind(s, id, b))
           /\ DOMAIN Bind(s, id, b).bindings = DOMAIN s.bindings \cup {id}
           /\ \A x \in DOMAIN s.bindings \cup {id} :
                 Bind(s, id, b).bindings[x] = IF x = id THEN b ELSE s.bindings[x]
BY DEF Bind, SameScope, Keeps, Fields

LEMMA MarkStaleIs ==
    ASSUME NEW s, Fields \subseteq DOMAIN s, NEW hit
    PROVE  /\ SameScope(s, MarkStale(s, hit))
           /\ DOMAIN MarkStale(s, hit).bindings = DOMAIN s.bindings
           /\ \A x \in DOMAIN s.bindings :
                 MarkStale(s, hit).bindings[x]
                   = IF x \in hit /\ s.bindings[x].status = "active"
                     THEN Marked(s.bindings[x], "stale") ELSE s.bindings[x]
BY DEF MarkStale, SameScope, Keeps, Fields

LEMMA MarkInvalidatedIs ==
    ASSUME NEW s, Fields \subseteq DOMAIN s, NEW hit
    PROVE  /\ SameScope(s, MarkInvalidated(s, hit))
           /\ DOMAIN MarkInvalidated(s, hit).bindings = DOMAIN s.bindings
           /\ \A x \in DOMAIN s.bindings :
                 MarkInvalidated(s, hit).bindings[x]
                   = IF x \in Dependents(s, hit) /\ s.bindings[x].status # "invalidated"
                     THEN Marked(s.bindings[x], "invalidated") ELSE s.bindings[x]
BY DEF MarkInvalidated, SameScope, Keeps, Fields

\* The binding of a task's event and of the task, and of everything with its gates.
TaskGates == {"repo", "task"}

LEMMA TaskEventIs ==
    ASSUME NEW s, Fields \subseteq DOMAIN s
    PROVE  /\ SameScope(s, BindTaskEvent(s))
           /\ DOMAIN BindTaskEvent(s).bindings = DOMAIN s.bindings \cup {EventId(s)}
           /\ \A x \in DOMAIN s.bindings \cup {EventId(s)} :
                 BindTaskEvent(s).bindings[x]
                   = IF x = EventId(s) THEN Binding(s, TaskGates, None, None, None, {})
                     ELSE s.bindings[x]
<1>1. BindTaskEvent(s) = Bind(s, EventId(s), Binding(s, TaskGates, None, None, None, {}))
  BY DEF BindTaskEvent, BindEvent, GatesOf, TaskGates
<1> QED
  BY <1>1, BindIs

-----------------------------------------------------------------------------
(* The invariant.                                                          *)

MaybeRepos == Repos \cup {None}
MaybeBranches == Branches \cup {None}

\* A narrower gate comes with the wider ones, and what is not gated is left out.
Nested(gates) ==
    /\ gates \subseteq Gates
    /\ gates # {} => "repo" \in gates
    /\ "commit" \in gates => "branch" \in gates
Shaped(b) ==
    /\ b \in Bindings /\ Nested(b.gates)
    /\ b.path # None => "commit" \in b.gates
    /\ "repo" \notin b.gates => b.repo = None
    /\ "branch" \notin b.gates => b.branch = None
    /\ "commit" \notin b.gates => b.commit = None

EpochsBehind(s, b) == {b.branchEpoch, b.commitEpoch, b.pathEpoch} \subseteq 0..s.clock

\* What was bound before the first task is not active after it.
Known(s, b) == "repo" \in b.gates /\ b.repo = None => s.current.repo = None

Stands(s, b) ==
    /\ Shaped(b) /\ EpochsBehind(s, b)
    /\ b.status = "active" => Known(s, b) /\ Abides(s, b)

\* The task and its constraints are gated by repository and task, and nothing else.
TaskKinds == {"T", "C"}
OfTask(b) == b.gates = TaskGates /\ b.path = None /\ b.pathEpoch = 0

EventIds(n) == {"E"} \X (1..n)

\* The ids of a kind are the first ones.
OfKind(s, kind) == {id \in DOMAIN s.bindings : id[1] = kind}
Numbered(s, kind) == \E n \in 0..s.events : OfKind(s, kind) = {kind} \X (1..n)

Allocated == {"T", "C", "F", "D", "A", "I"}

CurrentTyped(s) ==
    s.current \in [repo : MaybeRepos, task : Ids \cup {None},
                   branch : MaybeBranches, commit : Commits \cup {None}]
PathsTyped(s) ==
    s.paths \in [PathKeys -> [status : Statuses \cup {"unknown"}, rev : Nat,
                              digest : Digests \cup {None}, commit : Commits \cup {None}]]

IdsOK(s) ==
    /\ s.events \in 0..MaxEvents
    /\ \A kind \in Allocated : Numbered(s, kind)
    /\ \A id \in DOMAIN s.bindings :
          \/ id \in EventIds(s.events) \/ id = <<"N", 1>>
          \/ \E kind \in Allocated : id \in OfKind(s, kind)

IInv(s) ==
    /\ Good(s) /\ CurrentTyped(s) /\ PathsTyped(s) /\ IdsOK(s)
    /\ \A id \in DOMAIN s.bindings :
          /\ Stands(s, s.bindings[id])
          /\ s.bindings[id].evidence \in EventIds(s.events)
          /\ id[1] \in TaskKinds => OfTask(s.bindings[id])

LEMMA BindingStands ==
    ASSUME NEW s, Good(s), CurrentTyped(s), EventId(s) \in Ids,
           NEW gates, Nested(gates), NEW branch \in MaybeBranches,
           NEW commit \in MaybeCommits,
           NEW path \in Paths \cup {None}, path # None => "commit" \in gates,
           NEW refs \in SUBSET Ids
    PROVE  LET b == Binding(s, gates, branch, commit, path, refs)
           IN /\ Stands(s, b)
              /\ b.evidence = EventId(s) /\ b.status = "active" /\ b.refs = refs
              /\ b.gates = gates /\ b.path = IF gates = {} THEN None ELSE path
<1> DEFINE repo == IF "repo" \in gates THEN s.current.repo ELSE None
           task == IF "task" \in gates THEN s.current.task ELSE None
           on == IF "branch" \in gates THEN FirstOf(branch, s.current.branch) ELSE None
           at == IF "commit" \in gates THEN FirstOf(commit, s.current.commit) ELSE None
           of == IF gates = {} THEN None ELSE path
           raw == [status |-> "active", rev |-> 0, evidence |-> EventId(s), refs |-> refs,
                   gates |-> gates, repo |-> repo, task |-> task, branch |-> on,
                   commit |-> at, path |-> of,
                   branchEpoch |-> 0, commitEpoch |-> 0, pathEpoch |-> 0]
           b == [status |-> "active", rev |-> 0, evidence |-> EventId(s), refs |-> refs,
                 gates |-> gates, repo |-> repo, task |-> task, branch |-> on,
                 commit |-> at, path |-> of, branchEpoch |-> BranchEpoch(s, raw),
                 commitEpoch |-> CommitEpoch(s, raw), pathEpoch |-> PathEpoch(s, raw)]
<1>1. Binding(s, gates, branch, commit, path, refs) = b
  <2>2. Binding(s, gates, branch, commit, path, refs) = Captured(s, raw)
    BY DEF Binding
  <2> DEFINE be == BranchEpoch(s, raw)
             ce == CommitEpoch(s, raw)
             pe == PathEpoch(s, raw)
             S == {"status", "rev", "evidence", "refs", "gates", "repo", "task", "branch",
                   "commit", "path", "branchEpoch", "commitEpoch", "pathEpoch"}
             stamped == [raw EXCEPT !.branchEpoch = be, !.commitEpoch = ce, !.pathEpoch = pe]
  <2>3. Captured(s, raw) = stamped
    BY Zenon DEF Captured
  <2> HIDE DEF repo, task, on, at, of, be, ce, pe
  <2>4. DOMAIN raw = S /\ b = [k \in S |-> b[k]]
    BY DEF be, ce, pe
  <2>5. \A k \in S : b[k] = IF k = "pathEpoch" THEN pe ELSE IF k = "commitEpoch" THEN ce
                            ELSE IF k = "branchEpoch" THEN be ELSE raw[k]
    BY DEF be, ce, pe
  <2> HIDE DEF raw, b, S
  <2>6. stamped = [k \in S |-> IF k = "pathEpoch" THEN pe
                               ELSE IF k = "commitEpoch" THEN ce
                               ELSE IF k = "branchEpoch" THEN be ELSE raw[k]]
    BY <2>4
  <2> HIDE DEF stamped
  <2> QED
    BY <2>2, <2>3, <2>4, <2>5, <2>6
<1>2. /\ repo \in MaybeRepos /\ task \in Ids \cup {None} /\ on \in MaybeBranches
      /\ at \in Commits \cup {None} /\ of \in Paths \cup {None}
  <2>1. /\ s.current.repo \in MaybeRepos /\ s.current.task \in Ids \cup {None}
        /\ s.current.branch \in MaybeBranches /\ s.current.commit \in Commits \cup {None}
    BY DEF CurrentTyped
  <2> QED
    BY <2>1 DEF FirstOf, MaybeRepos, MaybeBranches, MaybeCommits
<1>3. /\ BranchEpoch(s, raw) \in 0..s.clock /\ CommitEpoch(s, raw) \in 0..s.clock
      /\ PathEpoch(s, raw) \in 0..s.clock /\ s.clock \in Nat
  BY DEF BranchEpoch, CommitEpoch, PathEpoch, Good, EpochsOK
<1>4. /\ BranchEpoch(s, b) = BranchEpoch(s, raw) /\ CommitEpoch(s, b) = CommitEpoch(s, raw)
  BY DEF BranchEpoch, CommitEpoch
<1>5. Known(s, b)
  BY DEF Known
<1>6. Abides(s, b)
  <2>1. b.branchEpoch = BranchEpoch(s, b) /\ b.commitEpoch = CommitEpoch(s, b)
    BY <1>4
  <2> HIDE DEF b
  <2> QED
    BY <2>1 DEF Abides, MatchesCurrent, Awaits
<1>7. b \in Bindings
  <2> HIDE DEF repo, task, on, at, of, raw
  <2> QED
    BY <1>2, <1>3 DEF Bindings, Statuses, Nested, MaybeRepos, MaybeBranches
<1>8. Shaped(b) /\ EpochsBehind(s, b)
  <2>1. b.gates = gates
    OBVIOUS
  <2>2. b.path # None => "commit" \in b.gates
    OBVIOUS
  <2>3. /\ "repo" \notin gates => b.repo = None
        /\ "branch" \notin gates => b.branch = None
        /\ "commit" \notin gates => b.commit = None
    OBVIOUS
  <2>4. EpochsBehind(s, b)
    <3> HIDE DEF repo, task, on, at, of, raw
    <3> QED
      BY <1>3 DEF EpochsBehind
  <2> HIDE DEF b
  <2> QED
    BY <1>7, <2>1, <2>2, <2>3, <2>4 DEF Shaped
<1> QED
  BY <1>1, <1>5, <1>6, <1>8 DEF Stands

LEMMA TaskGatesNested == Nested(TaskGates)
BY DEF Nested, TaskGates, Gates

\* Emitted for the current task.
TaskBinding(s) == Binding(s, TaskGates, None, None, None, {})

LEMMA TaskBindingIs ==
    ASSUME NEW s, Good(s), CurrentTyped(s), EventId(s) \in Ids
    PROVE  LET c == TaskBinding(s)
           IN /\ Stands(s, c) /\ InScope(s, c)
              /\ c.evidence = EventId(s) /\ c.status = "active" /\ c.refs = {}
              /\ OfTask(c)
<1> DEFINE c == TaskBinding(s)
<1>1. /\ None \in MaybeBranches /\ None \in MaybeCommits /\ None \in Paths \cup {None}
      /\ {} \in SUBSET Ids
  BY DEF MaybeBranches, MaybeCommits
<1>2. /\ Stands(s, c) /\ c.evidence = EventId(s) /\ c.status = "active" /\ c.refs = {}
      /\ c.gates = TaskGates /\ c.path = None
  BY <1>1, BindingStands, TaskGatesNested DEF TaskGates, TaskBinding
<1>3. c.repo = s.current.repo /\ c.task = s.current.task
  BY DEF Binding, Captured, TaskGates, TaskBinding
<1>4. InScope(s, c)
  BY <1>2, <1>3 DEF InScope, TaskGates, PathCurrent
<1>5. c.pathEpoch = 0
  BY NoneAssumption DEF TaskBinding, Binding, Captured, PathEpoch, PathKeys
<1> QED
  BY <1>2, <1>4, <1>5 DEF OfTask

-----------------------------------------------------------------------------
(* What a transaction makes of a snapshot.                                 *)

\* An active binding that a step leaves alone is in scope if it was; after a change
\* of scope it is so only if it was, or if it names what is entered for the first time.
Holds(s, u, b) ==
    /\ Known(u, b) /\ Abides(u, b)
    /\ InScope(s, b) => InScope(u, b)
    /\ u.current # s.current /\ InScope(u, b)
          => InScope(s, b) \/ NeverEntered(s, b)

\* What a revalidation asks for besides the gates.
Grounded(u, b) ==
    /\ b.refs \subseteq Eligible(u)
    /\ b.path # None =>
          LET at == <<u.current.repo, u.current.branch, b.path>>
          IN /\ at \in PathKeys => u.paths[at].status \in {"unknown", "active"}
             /\ ~TerminalOverlap(u, at[1], at[2], b.path)

\* c is what a step that ends at u may make of the binding b.
Turned(s, u, b, c) ==
    \/ c = b /\ (b.status = "active" => Holds(s, u, b))
    \/ b.status = "active" /\ c = Marked(b, "stale")
    \/ c = TaskBinding(u)
    \/ /\ b.status = "stale" /\ u.current = s.current
       /\ c = Retargeted(u, b) /\ Grounded(u, b)

\* The bindings that end are closed under dependence, and where some do the others
\* are left alone.
Closed(s, doomed) ==
    /\ doomed \subseteq Valid(s)
    /\ \A id \in Valid(s) : Follows(s.bindings[id], doomed) => id \in doomed

Old(s, u) ==
    \E doomed \in SUBSET Valid(s) :
        /\ Closed(s, doomed)
        /\ \A id \in DOMAIN s.bindings :
              /\ id \in DOMAIN u.bindings
              /\ IF id \in doomed THEN u.bindings[id] = Marked(s.bindings[id], "invalidated")
                 ELSE /\ Turned(s, u, s.bindings[id], u.bindings[id])
                      /\ doomed # {} => u.bindings[id] = s.bindings[id]

New(s, u) ==
    \A id \in DOMAIN u.bindings \ DOMAIN s.bindings :
        /\ id = EventId(s) \/ id = <<"N", 1>> \/ \E kind \in Allocated : id = NextId(s, kind)
        /\ Stands(u, u.bindings[id]) /\ u.bindings[id].evidence = EventId(s)
        /\ id[1] \in TaskKinds => OfTask(u.bindings[id])

\* A transaction from s that is about to commit u.
Step(s, u) ==
    /\ Advances(s, u) /\ CurrentTyped(u) /\ PathsTyped(u) /\ u.events = s.events
    /\ Old(s, u) /\ New(s, u)
    /\ \A k \in PathKeys : s.paths[k].status = "invalidated" => u.paths[k] = s.paths[k]

LEMMA HoldsStill ==
    ASSUME NEW s, NEW u, SameScope(s, u), NEW b, Stands(s, b), b.status = "active"
    PROVE  Holds(s, u, b)
<1>1. (InScope(u, b) <=> InScope(s, b)) /\ (Abides(u, b) <=> Abides(s, b))
  BY ScopeDecides
<1> QED
  BY <1>1 DEF Holds, Stands, Known, SameScope

\* Nothing ends.
LEMMA NothingEnds ==
    ASSUME NEW s, NEW u, \A id \in DOMAIN s.bindings :
              id \in DOMAIN u.bindings /\ Turned(s, u, s.bindings[id], u.bindings[id])
    PROVE  Old(s, u)
<1>1. Closed(s, {})
  BY DEF Closed, Follows
<1> QED
  BY <1>1 DEF Old

\* The ids that can be allocated next are new.
LEMMA NextIds ==
    ASSUME NEW s, IsFiniteSet(DOMAIN s.bindings), IdsOK(s), s.events < MaxEvents
    PROVE  /\ EventId(s) \in Ids /\ EventId(s) \notin DOMAIN s.bindings
           /\ \A kind \in Allocated :
                 /\ NextId(s, kind) \in Ids /\ NextId(s, kind) \notin DOMAIN s.bindings
                 /\ \E n \in 0..s.events : /\ OfKind(s, kind) = {kind} \X (1..n)
                                           /\ Cardinality(OfKind(s, kind)) = n
                                           /\ NextId(s, kind) = <<kind, n + 1>>
<1>1. EventId(s) \in Ids
  BY MaxEventsAssumption DEF EventId, Ids, Kinds, IdsOK
<1>2. EventId(s) \notin DOMAIN s.bindings
  BY DEF EventId, IdsOK, EventIds, OfKind, Allocated
<1>3. ASSUME NEW kind \in Allocated
      PROVE  /\ NextId(s, kind) \in Ids /\ NextId(s, kind) \notin DOMAIN s.bindings
             /\ \E n \in 0..s.events : /\ OfKind(s, kind) = {kind} \X (1..n)
                                       /\ Cardinality(OfKind(s, kind)) = n
                                       /\ NextId(s, kind) = <<kind, n + 1>>
  <2>1. PICK n \in 0..s.events : OfKind(s, kind) = {kind} \X (1..n)
    BY DEF IdsOK, Numbered
  <2>2. n \in Nat /\ n < MaxEvents
    BY MaxEventsAssumption DEF IdsOK
  <2>3. Cardinality({kind} \X (1..n)) = n
    <3>1. IsFiniteSet({kind}) /\ Cardinality({kind}) = 1
      BY FS_Singleton
    <3>2. IsFiniteSet(1..n) /\ Cardinality(1..n) = n
      BY <2>2, FS_Interval
    <3> DEFINE S == {kind}
               T == 1..n
    <3> HIDE DEF S, T
    <3>3. Cardinality(S \X T) = Cardinality(S) * Cardinality(T)
      BY <3>1, <3>2, FS_Product DEF S, T
    <3>4. Cardinality(S) = 1 /\ Cardinality(T) = n
      BY <3>1, <3>2 DEF S, T
    <3>5. Cardinality(S \X T) = n
      BY <2>2, <3>3, <3>4
    <3> QED
      BY <3>5 DEF S, T
  <2>4. Cardinality(OfKind(s, kind)) = n
    BY <2>1, <2>3
  <2>5. NextId(s, kind) = <<kind, n + 1>>
    BY <2>2, <2>4 DEF NextId, OfKind
  <2>6. NextId(s, kind) \in Ids
    BY <2>2, <2>5, MaxEventsAssumption DEF Ids, Kinds, Allocated
  <2>7. NextId(s, kind) \notin DOMAIN s.bindings
    <3>1. <<kind, n + 1>> \notin OfKind(s, kind)
      BY <2>1, <2>2
    <3> QED
      BY <2>5, <3>1 DEF OfKind
  <2> QED
    BY <2>1, <2>4, <2>5, <2>6, <2>7
<1> QED
  BY <1>1, <1>2, <1>3

LEMMA KindsFinite == IsFiniteSet(Kinds)
<1>1. IsFiniteSet({"E"}) /\ IsFiniteSet({"T"}) /\ IsFiniteSet({"C"}) /\ IsFiniteSet({"F"})
      /\ IsFiniteSet({"D"}) /\ IsFiniteSet({"A"}) /\ IsFiniteSet({"I"}) /\ IsFiniteSet({"N"})
  BY FS_Singleton
<1>2. IsFiniteSet({"E"} \cup {"T"}) /\ IsFiniteSet({"C"} \cup {"F"})
      /\ IsFiniteSet({"D"} \cup {"A"}) /\ IsFiniteSet({"I"} \cup {"N"})
  BY <1>1, FS_Union
<1>3. IsFiniteSet(({"E"} \cup {"T"}) \cup ({"C"} \cup {"F"}))
      /\ IsFiniteSet(({"D"} \cup {"A"}) \cup ({"I"} \cup {"N"}))
  BY <1>2, FS_Union
<1>4. IsFiniteSet((({"E"} \cup {"T"}) \cup ({"C"} \cup {"F"}))
                  \cup (({"D"} \cup {"A"}) \cup ({"I"} \cup {"N"})))
  BY <1>3, FS_Union
<1>5. Kinds = (({"E"} \cup {"T"}) \cup ({"C"} \cup {"F"}))
                  \cup (({"D"} \cup {"A"}) \cup ({"I"} \cup {"N"}))
  BY DEF Kinds
<1> QED
  BY <1>4, <1>5

LEMMA IdsFinite == IsFiniteSet(Ids)
<1>1. IsFiniteSet(1..(MaxEvents + 1))
  BY MaxEventsAssumption, FS_Interval
<1> QED
  BY <1>1, KindsFinite, FS_Product DEF Ids

LEMMA BoundFinite ==
    ASSUME NEW s, IInv(s)
    PROVE  DOMAIN s.bindings \subseteq Ids /\ IsFiniteSet(DOMAIN s.bindings)
<1>1. ASSUME NEW id \in DOMAIN s.bindings
      PROVE  id \in Ids
  <2>1. s.events \in 0..MaxEvents /\ MaxEvents \in Nat
    BY MaxEventsAssumption DEF IInv, IdsOK
  <2>2. CASE id \in EventIds(s.events)
    BY <2>1, <2>2 DEF EventIds, Ids, Kinds
  <2>3. CASE id = <<"N", 1>>
    BY <2>1, <2>3 DEF Ids, Kinds
  <2>4. ASSUME NEW kind \in Allocated, id \in OfKind(s, kind)
        PROVE  id \in Ids
    <3>1. PICK n \in 0..s.events : OfKind(s, kind) = {kind} \X (1..n)
      BY DEF IInv, IdsOK, Numbered
    <3> QED
      BY <2>1, <2>4, <3>1 DEF Ids, Kinds, Allocated
  <2> QED
    BY <2>2, <2>3, <2>4 DEF IInv, IdsOK
<1>2. DOMAIN s.bindings \in SUBSET Ids
  BY <1>1
<1> QED
  BY <1>2, IdsFinite, FS_Subset

\* Marking keeps everything but the status.
LEMMA MarkedStands ==
    ASSUME NEW s, NEW u, Advances(s, u), Good(s), NEW b, Stands(s, b),
           NEW status \in {"stale", "invalidated"}
    PROVE  /\ Stands(u, Marked(b, status)) /\ Marked(b, status).evidence = b.evidence
           /\ Marked(b, status).status = status /\ (OfTask(b) => OfTask(Marked(b, status)))
<1>1. s.clock \in Nat /\ u.clock \in Nat /\ s.clock <= u.clock
  BY DEF Advances, Good, EpochsOK
<1>2. b \in Bindings
  BY DEF Stands, Shaped
<1>3. Marked(b, status) = [b EXCEPT !.status = status, !.rev = b.rev + 1]
  BY DEF Marked
<1>4. Marked(b, status) \in Bindings
  <2>1. b.rev + 1 \in Nat /\ status \in Statuses
    BY <1>2 DEF Bindings, Statuses
  <2> QED
    BY <1>2, <1>3, <2>1 DEF Bindings
<1>5. /\ Marked(b, status).evidence = b.evidence /\ Marked(b, status).status = status
      /\ Marked(b, status).gates = b.gates /\ Marked(b, status).path = b.path
      /\ Marked(b, status).repo = b.repo /\ Marked(b, status).branch = b.branch
      /\ Marked(b, status).commit = b.commit
      /\ Marked(b, status).branchEpoch = b.branchEpoch
      /\ Marked(b, status).commitEpoch = b.commitEpoch
      /\ Marked(b, status).pathEpoch = b.pathEpoch
  BY <1>2, <1>3 DEF Bindings
<1>6. EpochsBehind(u, Marked(b, status))
  BY <1>1, <1>5 DEF Stands, EpochsBehind
<1>7. Shaped(Marked(b, status))
  BY <1>4, <1>5 DEF Stands, Shaped
<1> QED
  BY <1>5, <1>6, <1>7 DEF Stands, OfTask

LEMMA RetargetedStands ==
    ASSUME NEW u, Good(u), CurrentTyped(u), NEW s, NEW b, Stands(s, b)
    PROVE  /\ Stands(u, Retargeted(u, b)) /\ Retargeted(u, b).evidence = b.evidence
           /\ Retargeted(u, b).refs = b.refs /\ Retargeted(u, b).status = "active"
           /\ Grounded(u, b) => InScope(u, Retargeted(u, b))
           /\ OfTask(b) => OfTask(Retargeted(u, b))
<1> DEFINE gated(gate, now) == IF gate \in b.gates THEN now ELSE None
           repo == gated("repo", u.current.repo)
           task == gated("task", u.current.task)
           branch == gated("branch", u.current.branch)
           commit == gated("commit", u.current.commit)
           raw == [b EXCEPT !.status = "active", !.repo = repo, !.task = task,
                            !.branch = branch, !.commit = commit]
           c == Retargeted(u, b)
<1>1. b \in Bindings /\ Nested(b.gates) /\ (b.path # None => "commit" \in b.gates)
  BY DEF Stands, Shaped
<1>2. /\ repo \in MaybeRepos /\ task \in Ids \cup {None}
      /\ branch \in MaybeBranches /\ commit \in Commits \cup {None}
  <2>1. /\ u.current.repo \in MaybeRepos /\ u.current.task \in Ids \cup {None}
        /\ u.current.branch \in MaybeBranches /\ u.current.commit \in Commits \cup {None}
    BY DEF CurrentTyped
  <2> QED
    BY <2>1 DEF MaybeRepos, MaybeBranches
<1>3. c = [raw EXCEPT !.branchEpoch = BranchEpoch(u, raw), !.commitEpoch = CommitEpoch(u, raw),
                      !.pathEpoch = PathEpoch(u, raw)]
  BY DEF Retargeted, Captured
<1> HIDE DEF gated, c
<1>4. raw \in Bindings
  <2> HIDE DEF repo, task, branch, commit
  <2> QED
    BY <1>1, <1>2 DEF Bindings, Statuses, MaybeRepos, MaybeBranches
<1>5. /\ raw.status = "active" /\ raw.repo = repo /\ raw.task = task /\ raw.branch = branch
      /\ raw.commit = commit /\ raw.path = b.path /\ raw.gates = b.gates /\ raw.refs = b.refs
      /\ raw.evidence = b.evidence
  <2> HIDE DEF repo, task, branch, commit
  <2> QED
    BY <1>1 DEF Bindings
<1> HIDE DEF raw
<1>6. /\ BranchEpoch(u, raw) \in 0..u.clock /\ CommitEpoch(u, raw) \in 0..u.clock
      /\ PathEpoch(u, raw) \in 0..u.clock /\ u.clock \in Nat
  BY DEF BranchEpoch, CommitEpoch, PathEpoch, Good, EpochsOK
<1>7. c \in Bindings
  <2>1. /\ BranchEpoch(u, raw) \in Nat /\ CommitEpoch(u, raw) \in Nat
        /\ PathEpoch(u, raw) \in Nat
    BY <1>6
  <2> QED
    BY <1>3, <1>4, <2>1 DEF Bindings
<1>8. /\ c.status = "active" /\ c.repo = repo /\ c.task = task /\ c.branch = branch
      /\ c.commit = commit /\ c.path = b.path /\ c.gates = b.gates /\ c.refs = b.refs
      /\ c.evidence = b.evidence
      /\ c.branchEpoch = BranchEpoch(u, raw) /\ c.commitEpoch = CommitEpoch(u, raw)
      /\ c.pathEpoch = PathEpoch(u, raw)
  BY <1>3, <1>4, <1>5 DEF Bindings
<1>9. /\ BranchEpoch(u, c) = BranchEpoch(u, raw) /\ CommitEpoch(u, c) = CommitEpoch(u, raw)
      /\ PathEpoch(u, c) = PathEpoch(u, raw)
  BY <1>5, <1>8 DEF BranchEpoch, CommitEpoch, PathEpoch
<1>10. "branch" \in b.gates => MatchesCurrent(u, c)
  BY <1>1, <1>8, <1>9 DEF MatchesCurrent, gated, Nested
<1>11. Known(u, c) /\ Abides(u, c)
  BY <1>8, <1>10 DEF Known, Abides, gated
<1>12. Shaped(c) /\ EpochsBehind(u, c)
  BY <1>1, <1>6, <1>7, <1>8 DEF Shaped, EpochsBehind, gated
<1>13. ASSUME Grounded(u, b)
       PROVE  InScope(u, c)
  <2>1. c.path # None => c.repo = u.current.repo /\ c.branch = u.current.branch
    BY <1>1, <1>8 DEF Nested, gated
  <2>2. PathCurrent(u, c)
    BY <1>8, <1>9, <1>13, <2>1 DEF PathCurrent, Grounded
  <2> QED
    BY <1>8, <1>10, <2>2 DEF InScope, gated
<1>14. OfTask(b) => OfTask(c)
  <2>1. None \notin Paths
    BY NoneAssumption
  <2> QED
    BY <1>8, <1>9, <2>1 DEF OfTask, PathEpoch, PathKeys
<1> QED
  BY <1>8, <1>11, <1>12, <1>13, <1>14 DEF Stands, c

\* The snapshot that replaces another differs from the candidate by the count.
LEMMA CommitIs ==
    ASSUME NEW u, Fields \subseteq DOMAIN u, IsFiniteSet(DOMAIN u.bindings), Commit(u)
    PROVE  /\ Fields \subseteq DOMAIN snap' /\ Keeps(u, snap')
           /\ snap'.current = u.current /\ snap'.paths = u.paths /\ snap'.bindings = u.bindings
           /\ snap'.events = u.events + 1
           /\ \A b : (InScope(snap', b) <=> InScope(u, b))
           /\ \A b : (Abides(snap', b) <=> Abides(u, b))
           /\ Eligible(snap') = Eligible(u)
<1> DEFINE t == [u EXCEPT !.events = @ + 1]
<1>1. snap' = t
  BY DEF Commit
<1>2. /\ Fields \subseteq DOMAIN t /\ Keeps(u, t)
      /\ t.current = u.current /\ t.paths = u.paths /\ t.bindings = u.bindings
      /\ t.events = u.events + 1
  BY DEF Fields, Keeps
<1> HIDE DEF t
<1>3. \A b : /\ InScope(t, b) <=> InScope(u, b)
             /\ MatchesCurrent(t, b) <=> MatchesCurrent(u, b)
  BY <1>2 DEF Keeps, InScope, MatchesCurrent, PathCurrent, TerminalOverlap,
              BranchEpoch, CommitEpoch, PathEpoch
<1>5. \A b : Abides(t, b) <=> Abides(u, b)
  <2>1. \A b : BranchEpoch(t, b) = BranchEpoch(u, b) /\ CommitEpoch(t, b) = CommitEpoch(u, b)
    BY <1>2 DEF Keeps, BranchEpoch, CommitEpoch
  <2> QED
    BY <1>2, <1>3, <2>1 DEF Abides, Awaits
<1>4. Eligible(t) = Eligible(u)
  <2>1. Sound(t) = Sound(u) /\ t.bindings = u.bindings
    BY <1>2, <1>3 DEF Sound
  <2>2. /\ \A id \in Eligible(u) : id \in Sound(t) /\ t.bindings[id].refs = u.bindings[id].refs
        /\ \A id \in Eligible(t) : id \in Sound(u) /\ u.bindings[id].refs = t.bindings[id].refs
    BY <1>2, <2>1, EligibleSettles
  <2>3. Eligible(u) \subseteq Eligible(t)
    BY <1>2, <2>2, EligibleKept
  <2>4. Eligible(t) \subseteq Eligible(u)
    BY <1>2, <2>2, EligibleKept
  <2> QED
    BY <2>3, <2>4
<1> QED
  BY <1>1, <1>2, <1>3, <1>4, <1>5

-----------------------------------------------------------------------------
(* A transaction keeps the invariant.                                      *)

\* Whatever a step makes of a binding stands in the new snapshot.
LEMMA TurnedStands ==
    ASSUME NEW s, NEW u, IInv(s), s.events < MaxEvents, Advances(s, u), CurrentTyped(u),
           u.events = s.events, NEW b, Stands(s, b), NEW c, Turned(s, u, b, c)
    PROVE  /\ Stands(u, c) /\ (c.evidence = b.evidence \/ c.evidence = EventId(s))
           /\ OfTask(b) => OfTask(c)
<1>1. Good(s) /\ Good(u) /\ s.clock \in Nat /\ u.clock \in Nat /\ s.clock <= u.clock
  BY DEF IInv, Advances, Good, EpochsOK
<1>2. CASE c = b /\ (b.status = "active" => Holds(s, u, b))
  BY <1>1, <1>2 DEF Stands, EpochsBehind, Holds
<1>3. CASE b.status = "active" /\ c = Marked(b, "stale")
  BY <1>1, <1>3, MarkedStands
<1>4. CASE c = TaskBinding(u)
  <2>1. EventId(u) = EventId(s) /\ EventId(u) \in Ids
    BY NextIds, BoundFinite DEF IInv, EventId
  <2> QED
    BY <1>1, <1>4, <2>1, TaskBindingIs
<1>5. CASE b.status = "stale" /\ c = Retargeted(u, b)
  BY <1>1, <1>5, RetargetedStands
<1> QED
  BY <1>2, <1>3, <1>4, <1>5 DEF Turned

LEMMA OldStands ==
    ASSUME NEW s, NEW u, IInv(s), s.events < MaxEvents, Step(s, u), NEW id \in DOMAIN s.bindings
    PROVE  /\ id \in DOMAIN u.bindings /\ Stands(u, u.bindings[id])
           /\ \/ u.bindings[id].evidence = s.bindings[id].evidence
              \/ u.bindings[id].evidence = EventId(s)
           /\ id[1] \in TaskKinds => OfTask(u.bindings[id])
<1>1. PICK doomed \in SUBSET Valid(s) :
         /\ id \in DOMAIN u.bindings
         /\ IF id \in doomed THEN u.bindings[id] = Marked(s.bindings[id], "invalidated")
            ELSE Turned(s, u, s.bindings[id], u.bindings[id])
  BY DEF Step, Old
<1>2. Stands(s, s.bindings[id]) /\ Good(s) /\ (id[1] \in TaskKinds => OfTask(s.bindings[id]))
  BY DEF IInv
<1>3. CASE id \in doomed
  BY <1>1, <1>2, <1>3, MarkedStands DEF Step
<1>4. CASE id \notin doomed
  BY <1>1, <1>2, <1>4, TurnedStands DEF Step
<1> QED
  BY <1>1, <1>3, <1>4

LEMMA NumbersStep ==
    ASSUME NEW s, NEW u, IInv(s), s.events < MaxEvents, Step(s, u), NEW kind \in Allocated
    PROVE  \E n \in 0..s.events + 1 : OfKind(u, kind) = {kind} \X (1..n)
<1>1. PICK n \in 0..s.events : /\ OfKind(s, kind) = {kind} \X (1..n)
                               /\ NextId(s, kind) = <<kind, n + 1>>
  BY NextIds, BoundFinite DEF IInv
<1>2. s.events \in Nat
  BY MaxEventsAssumption DEF IInv, IdsOK
<1>3. DOMAIN s.bindings \subseteq DOMAIN u.bindings
  BY DEF Step, Old
<1>4. ASSUME NEW id \in OfKind(u, kind), id \notin OfKind(s, kind)
      PROVE  id = NextId(s, kind)
  <2>1. id \in DOMAIN u.bindings \ DOMAIN s.bindings /\ id[1] = kind
    BY <1>4 DEF OfKind
  <2>2. id = EventId(s) \/ id = <<"N", 1>> \/ \E k \in Allocated : id = NextId(s, k)
    BY <2>1 DEF Step, New
  <2>3. \A k \in Allocated : NextId(s, k)[1] = k
    BY DEF NextId
  <2> QED
    BY <2>1, <2>2, <2>3 DEF EventId, Allocated
<1>5. OfKind(s, kind) \subseteq OfKind(u, kind)
  BY <1>3 DEF OfKind
<1>6. CASE NextId(s, kind) \in OfKind(u, kind)
  <2>1. OfKind(u, kind) = ({kind} \X (1..n)) \cup {<<kind, n + 1>>}
    BY <1>1, <1>4, <1>5, <1>6
  <2>2. ({kind} \X (1..n)) \cup {<<kind, n + 1>>} = {kind} \X (1..n + 1)
    BY <1>1, <1>2
  <2>3. n + 1 \in 0..s.events + 1
    BY <1>1, <1>2
  <2> QED
    BY <2>1, <2>2, <2>3
<1>7. CASE NextId(s, kind) \notin OfKind(u, kind)
  <2>1. OfKind(u, kind) = {kind} \X (1..n)
    BY <1>1, <1>4, <1>5, <1>7
  <2>2. n \in 0..s.events + 1
    BY <1>1, <1>2
  <2> QED
    BY <2>1, <2>2
<1> QED
  BY <1>6, <1>7

LEMMA StepFinite ==
    ASSUME NEW s, NEW u, IInv(s), s.events < MaxEvents, Step(s, u)
    PROVE  DOMAIN u.bindings \subseteq Ids /\ IsFiniteSet(DOMAIN u.bindings)
<1>1. ASSUME NEW id \in DOMAIN u.bindings
      PROVE  id \in Ids
  <2>1. CASE id \in DOMAIN s.bindings
    BY <2>1, BoundFinite
  <2>2. CASE id \notin DOMAIN s.bindings
    <3>1. id = EventId(s) \/ id = <<"N", 1>> \/ \E kind \in Allocated : id = NextId(s, kind)
      BY <2>2 DEF Step, New
    <3>2. <<"N", 1>> \in Ids
      BY MaxEventsAssumption DEF Ids, Kinds
    <3> QED
      BY <3>1, <3>2, NextIds, BoundFinite DEF IInv
  <2> QED
    BY <2>1, <2>2
<1>2. DOMAIN u.bindings \in SUBSET Ids
  BY <1>1
<1> QED
  BY <1>2, IdsFinite, FS_Subset

LEMMA StepKeeps ==
    ASSUME IInv(snap), snap.events < MaxEvents, NEW u, Step(snap, u), Commit(u)
    PROVE  IInv(snap)'
<1>1. Good(u) /\ CurrentTyped(u) /\ PathsTyped(u) /\ u.events = snap.events
  BY DEF Step, Advances
<1>2. /\ Fields \subseteq DOMAIN snap' /\ Keeps(u, snap')
      /\ snap'.current = u.current /\ snap'.paths = u.paths /\ snap'.bindings = u.bindings
      /\ snap'.events = snap.events + 1
      /\ \A b : (Abides(snap', b) <=> Abides(u, b))
  BY <1>1, CommitIs, StepFinite DEF Good
<1>3. snap.events \in Nat /\ snap'.events \in 0..MaxEvents
  BY <1>2, MaxEventsAssumption DEF IInv, IdsOK
<1>4. Good(snap') /\ CurrentTyped(snap') /\ PathsTyped(snap')
  BY <1>1, <1>2 DEF Good, EpochsOK, Keeps, CurrentTyped, PathsTyped
<1>5. ASSUME NEW b, Stands(u, b)
      PROVE  Stands(snap', b)
  BY <1>2, <1>5 DEF Stands, EpochsBehind, Keeps, Known
<1>6. EventIds(snap.events) \subseteq EventIds(snap.events + 1)
      /\ EventId(snap) \in EventIds(snap.events + 1)
  BY <1>3 DEF EventIds, EventId
<1>7. ASSUME NEW id \in DOMAIN u.bindings
      PROVE  /\ Stands(u, u.bindings[id]) /\ u.bindings[id].evidence \in EventIds(snap.events + 1)
             /\ id[1] \in TaskKinds => OfTask(u.bindings[id])
  <2>1. CASE id \in DOMAIN snap.bindings
    BY <1>6, <2>1, OldStands DEF IInv
  <2>2. CASE id \notin DOMAIN snap.bindings
    BY <1>6, <2>2 DEF Step, New
  <2> QED
    BY <2>1, <2>2
<1>8. ASSUME NEW kind \in Allocated
      PROVE  Numbered(snap', kind)
  BY <1>2, NumbersStep DEF Numbered, OfKind
<1>9. ASSUME NEW id \in DOMAIN u.bindings
      PROVE  \/ id \in EventIds(snap.events + 1) \/ id = <<"N", 1>>
             \/ \E kind \in Allocated : id \in OfKind(snap', kind)
  <2>1. CASE id \in DOMAIN snap.bindings
    BY <1>2, <1>6, <2>1 DEF IInv, IdsOK, OfKind
  <2>2. CASE id \notin DOMAIN snap.bindings
    <3>1. id = EventId(snap) \/ id = <<"N", 1>> \/ \E kind \in Allocated : id = NextId(snap, kind)
      BY <2>2 DEF Step, New
    <3>2. \A kind \in Allocated : NextId(snap, kind)[1] = kind
      BY DEF NextId
    <3> QED
      BY <1>2, <1>6, <3>1, <3>2 DEF OfKind
  <2> QED
    BY <2>1, <2>2
<1>10. IdsOK(snap')
  BY <1>2, <1>3, <1>8, <1>9 DEF IdsOK
<1> QED
  BY <1>2, <1>4, <1>5, <1>7, <1>10 DEF IInv

-----------------------------------------------------------------------------
(* What a transaction binds.                                               *)

\* u has more bindings than m; what was bound may be emitted again.
Grows(m, u) ==
    /\ SameScope(m, u)
    /\ \A id \in DOMAIN m.bindings :
          /\ id \in DOMAIN u.bindings
          /\ u.bindings[id] \in {m.bindings[id], TaskBinding(m)}
    /\ New(m, u)

LEMMA StandsAlong ==
    ASSUME NEW s, NEW t, SameScope(s, t), NEW b, Stands(s, b)
    PROVE  Stands(t, b)
<1>1. (Abides(t, b) <=> Abides(s, b)) /\ t.current = s.current /\ t.clock = s.clock
  BY ScopeDecides DEF SameScope, Keeps
<1> QED
  BY <1>1 DEF Stands, EpochsBehind, Known

\* One more.
LEMMA GrowsMore ==
    ASSUME NEW m, NEW t, Grows(m, t), NEW b, Stands(m, b), b.evidence = EventId(m), NEW id,
           \/ id \notin DOMAIN m.bindings
           \/ b = TaskBinding(m),
           \/ id \in DOMAIN m.bindings
           \/ id = EventId(m) \/ id = <<"N", 1>> \/ \E kind \in Allocated : id = NextId(m, kind),
           id[1] \in TaskKinds => OfTask(b)
    PROVE  Grows(m, Bind(t, id, b))
<1> DEFINE u == Bind(t, id, b)
<1>1. /\ SameScope(t, u) /\ DOMAIN u.bindings = DOMAIN t.bindings \cup {id}
      /\ \A x \in DOMAIN t.bindings \cup {id} :
            u.bindings[x] = IF x = id THEN b ELSE t.bindings[x]
  BY BindIs DEF Grows, SameScope, Keeps
<1> HIDE DEF u
<1>2. SameScope(m, u)
  BY <1>1, SameScopeTransitive DEF Grows
<1>3. Stands(u, b)
  BY <1>2, StandsAlong
<1>4. \A x : Stands(t, x) => Stands(u, x)
  BY <1>1, StandsAlong
<1>5. New(m, u)
  BY <1>1, <1>3, <1>4 DEF Grows, New
<1>6. ASSUME NEW x \in DOMAIN m.bindings
      PROVE  x \in DOMAIN u.bindings /\ u.bindings[x] \in {m.bindings[x], TaskBinding(m)}
  <2>1. x \in DOMAIN t.bindings /\ t.bindings[x] \in {m.bindings[x], TaskBinding(m)}
    BY DEF Grows
  <2> QED
    BY <1>1, <2>1
<1> QED
  BY <1>2, <1>5, <1>6 DEF Grows, u

\* What a transaction may do before it binds: no id is new.
Mid(s, m) ==
    /\ Advances(s, m) /\ CurrentTyped(m) /\ PathsTyped(m) /\ m.events = s.events
    /\ DOMAIN m.bindings = DOMAIN s.bindings
    /\ \A k \in PathKeys : s.paths[k].status = "invalidated" => m.paths[k] = s.paths[k]

LEMMA GrowsFinite ==
    ASSUME NEW s, IInv(s), s.events < MaxEvents, NEW m, Mid(s, m), NEW u, Grows(m, u)
    PROVE  /\ IsFiniteSet(DOMAIN m.bindings) /\ IsFiniteSet(DOMAIN u.bindings)
           /\ EventId(m) = EventId(s) /\ EventId(s) \in Ids
           /\ \A kind : NextId(m, kind) = NextId(s, kind)
           /\ Good(m) /\ Good(u)
<1>1. DOMAIN m.bindings = DOMAIN s.bindings /\ IsFiniteSet(DOMAIN s.bindings) /\ DOMAIN s.bindings \subseteq Ids
  BY BoundFinite DEF Mid
<1>2. EventId(m) = EventId(s) /\ EventId(s) \in Ids /\ \A kind : NextId(m, kind) = NextId(s, kind)
  BY <1>1, NextIds DEF Mid, EventId, NextId, IInv
<1>3. Good(m) /\ Good(u)
  BY DEF Mid, Advances, Grows, SameScope, Keeps, Good, EpochsOK
<1>4. ASSUME NEW id \in DOMAIN u.bindings
      PROVE  id \in Ids
  <2>1. CASE id \in DOMAIN s.bindings
    BY <1>1, <2>1
  <2>2. CASE id \notin DOMAIN s.bindings
    <3>1. id = EventId(s) \/ id = <<"N", 1>> \/ \E kind \in Allocated : id = NextId(s, kind)
      BY <1>1, <1>2, <2>2 DEF Grows, New
    <3>2. <<"N", 1>> \in Ids
      BY MaxEventsAssumption DEF Ids, Kinds
    <3> QED
      BY <1>1, <3>1, <3>2, NextIds DEF IInv
  <2> QED
    BY <2>1, <2>2
<1>5. DOMAIN u.bindings \in SUBSET Ids
  BY <1>4
<1>6. IsFiniteSet(DOMAIN u.bindings)
  BY <1>5, IdsFinite, FS_Subset
<1> QED
  BY <1>1, <1>2, <1>3, <1>6

LEMMA GrowsKeepsEligible ==
    ASSUME NEW s, IInv(s), s.events < MaxEvents, NEW m, Mid(s, m), NEW u, Grows(m, u)
    PROVE  Eligible(m) \subseteq Eligible(u)
<1>1. /\ IsFiniteSet(DOMAIN m.bindings) /\ IsFiniteSet(DOMAIN u.bindings)
      /\ Good(m) /\ EventId(m) \in Ids
  BY GrowsFinite
<1>2. ASSUME NEW id \in Eligible(m)
      PROVE  id \in Sound(u) /\ u.bindings[id].refs \subseteq m.bindings[id].refs
  <2>1. id \in DOMAIN m.bindings /\ m.bindings[id].status = "active" /\ InScope(m, m.bindings[id])
    BY <1>1, EligibleSettles DEF Sound
  <2>2. \A b : InScope(u, b) <=> InScope(m, b)
    BY ScopeDecides DEF Grows
  <2>3. CASE u.bindings[id] = m.bindings[id]
    BY <2>1, <2>2, <2>3 DEF Sound, Grows
  <2>4. CASE u.bindings[id] = TaskBinding(m)
    BY <1>1, <2>1, <2>2, <2>4, TaskBindingIs DEF Sound, Grows, Mid
  <2> QED
    BY <2>1, <2>3, <2>4 DEF Grows
<1> QED
  BY <1>1, <1>2, EligibleKept

LEMMA TurnedAlong ==
    ASSUME NEW s, IInv(s), s.events < MaxEvents, NEW m, Mid(s, m), NEW u, Grows(m, u),
           NEW b, NEW c, Turned(s, m, b, c), NEW d \in {c, TaskBinding(m)}
    PROVE  Turned(s, u, b, d)
<1>1. /\ \A x : InScope(u, x) <=> InScope(m, x)
      /\ \A x : Abides(u, x) <=> Abides(m, x)
      /\ TaskBinding(u) = TaskBinding(m) /\ \A x : Retargeted(u, x) = Retargeted(m, x)
      /\ u.current = m.current /\ u.paths = m.paths
  BY ScopeDecides DEF Grows, SameScope, TaskBinding
<1>2. Holds(s, m, b) => Holds(s, u, b)
  BY <1>1 DEF Holds, Known
<1>3. Grounded(m, b) => Grounded(u, b)
  BY <1>1, GrowsKeepsEligible DEF Grounded, TerminalOverlap
<1>4. CASE d = TaskBinding(m)
  BY <1>1, <1>4 DEF Turned
<1>5. CASE d = c
  BY <1>1, <1>2, <1>3, <1>5 DEF Turned
<1> QED
  BY <1>4, <1>5

LEMMA MidStep ==
    ASSUME NEW s, IInv(s), s.events < MaxEvents, NEW m, Mid(s, m), NEW u, Grows(m, u),
           \/ \A id \in DOMAIN s.bindings : Turned(s, m, s.bindings[id], m.bindings[id])
           \/ Old(s, m) /\ \A id \in DOMAIN s.bindings : u.bindings[id] = m.bindings[id]
    PROVE  Step(s, u)
<1>1. /\ EventId(m) = EventId(s) /\ \A kind : NextId(m, kind) = NextId(s, kind)
      /\ Good(s)
  BY GrowsFinite DEF IInv
<1>2. Advances(s, u)
  <2>1. Advances(m, u)
    BY KeepsAdvances DEF Grows, SameScope, Mid, Advances
  <2> QED
    BY <1>1, <2>1, AdvancesTransitive DEF Mid
<1>3. /\ CurrentTyped(u) /\ PathsTyped(u) /\ u.events = s.events
      /\ \A k \in PathKeys : s.paths[k].status = "invalidated" => u.paths[k] = s.paths[k]
  BY DEF Grows, SameScope, Mid, CurrentTyped, PathsTyped
<1>4. New(s, u)
  BY <1>1 DEF Grows, New, Mid
<1>5. \A id \in DOMAIN s.bindings :
         /\ id \in DOMAIN m.bindings /\ id \in DOMAIN u.bindings
         /\ u.bindings[id] \in {m.bindings[id], TaskBinding(m)}
  BY DEF Grows, Mid
<1>6. CASE \A id \in DOMAIN s.bindings : Turned(s, m, s.bindings[id], m.bindings[id])
  <2>1. \A id \in DOMAIN s.bindings :
           id \in DOMAIN u.bindings /\ Turned(s, u, s.bindings[id], u.bindings[id])
    BY <1>5, <1>6, TurnedAlong
  <2>2. Old(s, u)
    BY <2>1, NothingEnds
  <2> QED
    BY <1>2, <1>3, <1>4, <2>2 DEF Step
<1>7. CASE Old(s, m) /\ \A id \in DOMAIN s.bindings : u.bindings[id] = m.bindings[id]
  <2>1. PICK doomed \in SUBSET Valid(s) :
           /\ Closed(s, doomed)
           /\ \A id \in DOMAIN s.bindings :
                 IF id \in doomed THEN m.bindings[id] = Marked(s.bindings[id], "invalidated")
                 ELSE /\ Turned(s, m, s.bindings[id], m.bindings[id])
                      /\ doomed # {} => m.bindings[id] = s.bindings[id]
    BY <1>7 DEF Old
  <2>2. \A id \in DOMAIN s.bindings :
           /\ id \in DOMAIN u.bindings
           /\ IF id \in doomed THEN u.bindings[id] = Marked(s.bindings[id], "invalidated")
              ELSE /\ Turned(s, u, s.bindings[id], u.bindings[id])
                   /\ doomed # {} => u.bindings[id] = s.bindings[id]
    BY <1>5, <1>7, <2>1, TurnedAlong
  <2>3. Old(s, u)
    BY <2>1, <2>2 DEF Old
  <2> QED
    BY <1>2, <1>3, <1>4, <2>3 DEF Step
<1> QED
  BY <1>6, <1>7

-----------------------------------------------------------------------------
(* Events that derive records.                                             *)

\* Every snapshot is a start of its own.
LEMMA StartsHere ==
    ASSUME NEW s, IInv(s)
    PROVE  /\ Mid(s, s) /\ SameScope(s, s)
           /\ \A id \in DOMAIN s.bindings : Turned(s, s, s.bindings[id], s.bindings[id])
<1>1. SameScope(s, s) /\ Advances(s, s)
  BY KeepsAdvances DEF IInv, Good, Keeps, SameScope
<1>2. Mid(s, s)
  BY <1>1 DEF Mid, IInv
<1>3. \A id \in DOMAIN s.bindings : Turned(s, s, s.bindings[id], s.bindings[id])
  BY <1>1, HoldsStill DEF IInv, Turned
<1> QED
  BY <1>1, <1>2, <1>3

LEMMA GrowsFromItself ==
    ASSUME NEW s, IInv(s), NEW m, Mid(s, m)
    PROVE  Grows(m, m)
<1>1. SameScope(m, m)
  BY DEF Mid, Advances, Good, Keeps, SameScope
<1> QED
  BY <1>1 DEF Grows, New

\* A binding of this event at an id that is new.
LEMMA GrowsBinding ==
    ASSUME NEW s, IInv(s), s.events < MaxEvents, NEW m, Mid(s, m), NEW t, Grows(m, t),
           NEW gates, Nested(gates), NEW branch \in MaybeBranches,
           NEW commit \in MaybeCommits,
           NEW path \in Paths \cup {None}, path # None => "commit" \in gates,
           NEW refs \in SUBSET Ids, NEW id,
           id = EventId(s) \/ \E kind \in Allocated \ TaskKinds : id = NextId(s, kind)
    PROVE  Grows(m, Bind(t, id, Binding(t, gates, branch, commit, path, refs)))
<1> DEFINE b == Binding(m, gates, branch, commit, path, refs)
<1>1. Binding(t, gates, branch, commit, path, refs) = b
  BY ScopeDecides DEF Grows
<1>2. /\ EventId(m) = EventId(s) /\ EventId(m) \in Ids /\ Good(m) /\ CurrentTyped(m)
      /\ \A kind : NextId(m, kind) = NextId(s, kind)
  BY GrowsFinite DEF Mid
<1>3. Stands(m, b) /\ b.evidence = EventId(m)
  BY <1>2, BindingStands
<1>4. id \notin DOMAIN m.bindings
  BY NextIds, BoundFinite DEF IInv, Mid
<1> HIDE DEF b
<1>5. \/ id = EventId(m) /\ id[1] \notin TaskKinds
      \/ \E kind \in Allocated : id = NextId(m, kind) /\ id[1] \notin TaskKinds
  <2>1. EventId(s)[1] \notin TaskKinds
    BY DEF EventId, TaskKinds
  <2>2. \A kind : NextId(s, kind)[1] = kind
    BY DEF NextId
  <2>3. CASE id = EventId(s)
    BY <1>2, <2>1, <2>3
  <2>4. CASE \E kind \in Allocated \ TaskKinds : id = NextId(s, kind)
    BY <1>2, <2>2, <2>4
  <2> QED
    BY <2>3, <2>4
<1>6. Grows(m, Bind(t, id, b))
  BY <1>3, <1>4, <1>5, GrowsMore
<1> QED
  BY <1>1, <1>6

\* The current task's, at any id.
LEMMA GrowsTask ==
    ASSUME NEW s, IInv(s), s.events < MaxEvents, NEW m, Mid(s, m), NEW t, Grows(m, t), NEW id,
           \/ id \in DOMAIN m.bindings
           \/ id = EventId(s) \/ id = <<"N", 1>> \/ \E kind \in Allocated : id = NextId(s, kind)
    PROVE  Grows(m, Bind(t, id, TaskBinding(t)))
<1> DEFINE b == TaskBinding(m)
<1>1. TaskBinding(t) = b
  BY ScopeDecides DEF Grows, TaskBinding
<1>2. /\ EventId(m) = EventId(s) /\ EventId(m) \in Ids /\ Good(m) /\ CurrentTyped(m)
      /\ \A kind : NextId(m, kind) = NextId(s, kind)
  BY GrowsFinite DEF Mid
<1>3. Stands(m, b) /\ b.evidence = EventId(m) /\ OfTask(b)
  BY <1>2, TaskBindingIs
<1>4. \/ id \in DOMAIN m.bindings
      \/ id = EventId(m) \/ id = <<"N", 1>> \/ \E kind \in Allocated : id = NextId(m, kind)
  BY <1>2
<1>5. Grows(m, Bind(t, id, b))
  BY <1>3, <1>4, GrowsMore
<1> QED
  BY <1>1, <1>5

LEMMA GrowsTaskEvent ==
    ASSUME NEW s, IInv(s), s.events < MaxEvents, NEW m, Mid(s, m), NEW t, Grows(m, t)
    PROVE  Grows(m, BindTaskEvent(t))
<1>1. BindTaskEvent(t) = Bind(t, EventId(t), TaskBinding(t))
  BY DEF BindTaskEvent, BindEvent, GatesOf, TaskGates, TaskBinding
<1>2. EventId(t) = EventId(s)
  BY ScopeDecides, GrowsFinite DEF Grows
<1> QED
  BY <1>1, <1>2, GrowsTask

LEMMA GrowsTaskRecord ==
    ASSUME NEW s, IInv(s), s.events < MaxEvents, NEW m, Mid(s, m), NEW t, Grows(m, t), NEW id,
           \/ id \in DOMAIN m.bindings
           \/ id = <<"N", 1>> \/ \E kind \in Allocated : id = NextId(s, kind)
    PROVE  Grows(m, BindRecord(t, id, GatesOf("task"), {}))
<1>1. BindRecord(t, id, GatesOf("task"), {}) = Bind(t, id, TaskBinding(t))
  BY DEF BindRecord, GatesOf, TaskGates, TaskBinding
<1>2. Grows(m, Bind(t, id, TaskBinding(t)))
  BY GrowsTask
<1> QED
  BY <1>1, <1>2

\* An event and its record, in a scope that stays.
LEMMA RecordSteps ==
    ASSUME NEW s, IInv(s), s.events < MaxEvents, NEW u, Grows(s, u)
    PROVE  Step(s, u)
BY StartsHere, MidStep

LEMMA InstructionGrows ==
    ASSUME IInv(snap), Instruction
    PROVE  snap.events < MaxEvents /\ \E u : Grows(snap, u) /\ Commit(u)
<1> DEFINE t == BindTaskEvent(snap)
           u == BindRecord(t, NextId(snap, "C"), GatesOf("task"), {})
<1>1. snap.events < MaxEvents /\ Commit(u)
  BY DEF Instruction, Derives
<1>2. Mid(snap, snap)
  BY StartsHere
<1>3. Grows(snap, t)
  BY <1>1, <1>2, GrowsFromItself, GrowsTaskEvent
<1> HIDE DEF t
<1>4. Grows(snap, u)
  BY <1>1, <1>2, <1>3, GrowsTaskRecord DEF Allocated
<1> HIDE DEF u
<1> QED
  BY <1>1, <1>4

LEMMA NextActionGrows ==
    ASSUME IInv(snap), NextAction
    PROVE  snap.events < MaxEvents /\ \E u : Grows(snap, u) /\ Commit(u)
<1> DEFINE t == BindTaskEvent(snap)
           u == BindRecord(t, <<"N", 1>>, GatesOf("task"), {})
<1>1. snap.events < MaxEvents /\ Commit(u)
  BY DEF NextAction, Derives
<1>2. Mid(snap, snap)
  BY StartsHere
<1>3. Grows(snap, t)
  BY <1>1, <1>2, GrowsFromItself, GrowsTaskEvent
<1> HIDE DEF t
<1>4. Grows(snap, u)
  BY <1>1, <1>2, <1>3, GrowsTaskRecord
<1> HIDE DEF u
<1> QED
  BY <1>1, <1>4

LEMMA GatesNested ==
    ASSUME NEW scope \in Scopes
    PROVE  Nested(GatesOf(scope))
BY ScopesAssumption DEF GatesOf, Nested, Gates

\* What a decision may refer to.
LEMMA RefsAreIds ==
    ASSUME IInv(snap), snap.events < MaxEvents, NEW refs \in RefChoices
    PROVE  refs \in SUBSET Ids
BY BoundFinite, NextIds DEF RefChoices, Bound, IInv, Allocated

\* What an envelope carries.
LEMMA EnvelopeIs ==
    ASSUME NEW input \in DOMAIN Envelopes, NEW e \in Envelopes[input]
    PROVE  e[1] \in MaybeBranches /\ e[2] \in MaybeCommits
BY EnvelopesAssumption DEF MaybeBranches, MaybeCommits

\* The record of a decision, whatever was bound before it.
LEMMA GrowsDecision ==
    ASSUME NEW s, IInv(s), s.events < MaxEvents, NEW t, Grows(s, t),
           NEW scope \in Scopes, NEW branch \in MaybeBranches, NEW commit \in MaybeCommits,
           NEW refs \in SUBSET Ids
    PROVE  Grows(s, BindDecision(t, NextId(s, "D"), scope, branch, commit, refs))
<1> DEFINE gates == GatesOf(scope)
           b == Binding(t, gates, branch, commit, None, refs)
           id == NextId(s, "D")
<1>1. Nested(gates) /\ None \in Paths \cup {None}
  BY GatesNested
<1>2. \E kind \in Allocated \ TaskKinds : id = NextId(s, kind)
  BY DEF Allocated, TaskKinds
<1> HIDE DEF gates, id
<1>3. Grows(s, Bind(t, id, b))
  BY <1>1, <1>2, StartsHere, GrowsBinding
<1> QED
  BY <1>3 DEF BindDecision, gates, id

LEMMA DecisionGrows ==
    ASSUME IInv(snap), NEW scope \in Scopes, NEW branch \in MaybeBranches,
           NEW commit \in MaybeCommits, NEW refs \in RefChoices,
           Decision(scope, branch, commit, refs)
    PROVE  snap.events < MaxEvents /\ \E u : Grows(snap, u) /\ Commit(u)
<1> DEFINE t == BindTaskEvent(snap)
           u == BindDecision(t, NextId(snap, "D"), scope, branch, commit, refs)
<1>1. snap.events < MaxEvents /\ Commit(u)
  BY DEF Decision, Derives
<1>2. Grows(snap, t)
  BY <1>1, StartsHere, GrowsFromItself, GrowsTaskEvent
<1>3. refs \in SUBSET Ids
  BY <1>1, RefsAreIds
<1> HIDE DEF t
<1>4. Grows(snap, u)
  BY <1>1, <1>2, <1>3, GrowsDecision
<1> HIDE DEF u
<1> QED
  BY <1>1, <1>4

LEMMA CommandFailsGrows ==
    ASSUME IInv(snap), NEW branch \in MaybeBranches, NEW commit \in MaybeCommits,
           NEW path \in Paths \cup {None}, CommandFails(branch, commit, path)
    PROVE  snap.events < MaxEvents /\ \E u : Grows(snap, u) /\ Commit(u)
<1> DEFINE gates == GatesOf("branch") \cup {"commit"}
           t == BindEvent(snap, gates, branch, commit, path)
           b == Binding(t, gates, branch, commit, path, {})
           u == Bind(t, NextId(snap, "F"), b)
<1>1. Nested(gates) /\ "commit" \in gates /\ {} \in SUBSET Ids
  BY DEF GatesOf, Nested, Gates
<1>2. snap.events < MaxEvents
      /\ Commit(Bind(t, NextId(snap, "F"), Binding(snap, gates, branch, commit, path, {})))
  BY DEF CommandFails, Derives
<1> HIDE DEF gates
<1>3. Mid(snap, snap) /\ Grows(snap, snap)
  BY StartsHere, GrowsFromItself
<1>4. Grows(snap, t)
  BY <1>1, <1>2, <1>3, GrowsBinding DEF BindEvent
<1> HIDE DEF t
<1>5. Grows(snap, u)
  BY <1>1, <1>2, <1>3, <1>4, GrowsBinding DEF Allocated, TaskKinds
<1>6. b = Binding(snap, gates, branch, commit, path, {})
  BY <1>4, ScopeDecides DEF Grows
<1>7. Commit(u)
  BY <1>2, <1>6
<1> HIDE DEF u
<1> QED
  BY <1>2, <1>5, <1>7

\* The binding of an avoid record that copies g.
AvoidBinding(s, g, ref, scope) ==
    LET gates == g.gates \cup GatesOf(scope)
        fill(gate, old, new) == IF gate \in gates THEN FirstOf(old, new) ELSE None
    IN Captured(s,
         [g EXCEPT !.evidence = EventId(s), !.refs = {ref}, !.gates = gates,
                   !.repo = fill("repo", @, s.current.repo),
                   !.task = fill("task", @, s.current.task),
                   !.branch = fill("branch", @, s.current.branch),
                   !.commit = fill("commit", @, s.current.commit)])

LEMMA AvoidStands ==
    ASSUME NEW s, Good(s), CurrentTyped(s), EventId(s) \in Ids,
           NEW g, Stands(s, g), NEW ref \in Ids, NEW scope \in Scopes
    PROVE  LET c == AvoidBinding(s, g, ref, scope)
           IN Stands(s, c) /\ c.evidence = EventId(s)
<1> DEFINE gates == g.gates \cup GatesOf(scope)
           fill(gate, old, new) == IF gate \in gates THEN FirstOf(old, new) ELSE None
           repo == fill("repo", g.repo, s.current.repo)
           task == fill("task", g.task, s.current.task)
           branch == fill("branch", g.branch, s.current.branch)
           commit == fill("commit", g.commit, s.current.commit)
           raw == [g EXCEPT !.evidence = EventId(s), !.refs = {ref}, !.gates = gates,
                            !.repo = repo, !.task = task, !.branch = branch, !.commit = commit]
           c == AvoidBinding(s, g, ref, scope)
<1>1. g \in Bindings /\ Nested(g.gates) /\ (g.path # None => "commit" \in g.gates)
  BY DEF Stands, Shaped
<1>2. Nested(gates) /\ g.gates \subseteq gates
  BY <1>1, GatesNested DEF Nested
<1>3. /\ repo \in MaybeRepos /\ task \in Ids \cup {None}
      /\ branch \in MaybeBranches /\ commit \in Commits \cup {None}
  <2>1. /\ s.current.repo \in MaybeRepos /\ s.current.task \in Ids \cup {None}
        /\ s.current.branch \in MaybeBranches /\ s.current.commit \in Commits \cup {None}
    BY DEF CurrentTyped
  <2>2. /\ g.repo \in MaybeRepos /\ g.task \in Ids \cup {None}
        /\ g.branch \in MaybeBranches /\ g.commit \in Commits \cup {None}
    BY <1>1 DEF Bindings, MaybeRepos, MaybeBranches
  <2> QED
    BY <2>1, <2>2 DEF FirstOf, MaybeRepos, MaybeBranches
<1>4. c = Captured(s, raw)
  BY DEF AvoidBinding
<1>5. c = [raw EXCEPT !.branchEpoch = BranchEpoch(s, raw), !.commitEpoch = CommitEpoch(s, raw),
                      !.pathEpoch = PathEpoch(s, raw)]
  BY <1>4 DEF Captured
<1> HIDE DEF fill, gates, c
<1>6. raw \in Bindings
  <2> HIDE DEF repo, task, branch, commit
  <2>1. gates \in SUBSET Gates /\ {ref} \in SUBSET Ids
    BY <1>2 DEF Nested
  <2> QED
    BY <1>1, <1>3, <2>1 DEF Bindings, MaybeRepos, MaybeBranches
<1>7. /\ raw.status = g.status /\ raw.repo = repo /\ raw.task = task /\ raw.branch = branch
      /\ raw.commit = commit /\ raw.path = g.path /\ raw.gates = gates
      /\ raw.evidence = EventId(s)
  <2> HIDE DEF repo, task, branch, commit
  <2> QED
    BY <1>1 DEF Bindings
<1> HIDE DEF raw
<1>8. /\ BranchEpoch(s, raw) \in 0..s.clock /\ CommitEpoch(s, raw) \in 0..s.clock
      /\ PathEpoch(s, raw) \in 0..s.clock /\ s.clock \in Nat
  BY DEF BranchEpoch, CommitEpoch, PathEpoch, Good, EpochsOK
<1>9. c \in Bindings
  <2>1. /\ BranchEpoch(s, raw) \in Nat /\ CommitEpoch(s, raw) \in Nat
        /\ PathEpoch(s, raw) \in Nat
    BY <1>8
  <2> QED
    BY <1>5, <1>6, <2>1 DEF Bindings
<1>10. /\ c.status = g.status /\ c.repo = repo /\ c.task = task /\ c.branch = branch
       /\ c.commit = commit /\ c.path = g.path /\ c.gates = gates
       /\ c.evidence = EventId(s)
       /\ c.branchEpoch = BranchEpoch(s, raw) /\ c.commitEpoch = CommitEpoch(s, raw)
       /\ c.pathEpoch = PathEpoch(s, raw)
  BY <1>5, <1>6, <1>7 DEF Bindings
<1>11. BranchEpoch(s, c) = BranchEpoch(s, raw) /\ CommitEpoch(s, c) = CommitEpoch(s, raw)
  BY <1>7, <1>10 DEF BranchEpoch, CommitEpoch
<1>12. Shaped(c) /\ EpochsBehind(s, c)
  BY <1>1, <1>2, <1>8, <1>9, <1>10 DEF Shaped, EpochsBehind, fill
<1>13. Known(s, c)
  BY <1>10 DEF Known, fill, FirstOf
<1>14. Abides(s, c)
  BY <1>10, <1>11 DEF Abides, MatchesCurrent, Awaits
<1> QED
  BY <1>10, <1>12, <1>13, <1>14 DEF Stands, c

LEMMA AvoidGrows ==
    ASSUME IInv(snap), NEW scope \in Scopes, NEW branch \in MaybeBranches,
           NEW commit \in MaybeCommits, NEW refs \in RefChoices, NEW ref \in Bound,
           DecisionWithAvoid(scope, branch, commit, refs, ref)
    PROVE  snap.events < MaxEvents /\ \E u : Grows(snap, u) /\ Commit(u)
<1> DEFINE t == BindTaskEvent(snap)
           id == NextId(snap, "A")
           g == snap.bindings[ref]
           c == AvoidBinding(snap, g, ref, scope)
           v == Bind(t, id, c)
           u == BindDecision(v, NextId(snap, "D"), scope, branch, commit, refs)
<1>1. snap.events < MaxEvents
      /\ Commit(BindDecision(BindAvoid(t, id, ref, scope), NextId(snap, "D"),
                             scope, branch, commit, refs))
  BY DEF DecisionWithAvoid, Derives
<1>2. Mid(snap, snap) /\ Grows(snap, t)
  BY <1>1, StartsHere, GrowsFromItself, GrowsTaskEvent
<1>3. refs \in SUBSET Ids /\ ref \in Ids
  BY <1>1, RefsAreIds, BoundFinite DEF Bound
<1>4. /\ EventId(snap) \in Ids /\ EventId(snap) \notin DOMAIN snap.bindings
      /\ id \notin DOMAIN snap.bindings /\ Good(snap)
  BY <1>1, NextIds, BoundFinite DEF IInv, Allocated
<1>5. t.bindings[ref] = g
  BY <1>4, TaskEventIs DEF Good, Bound
<1>6. BindAvoid(t, id, ref, scope) = v
  <2>1. t.current = snap.current /\ EventId(t) = EventId(snap)
        /\ \A b : Captured(t, b) = Captured(snap, b)
    BY <1>2, ScopeDecides DEF Grows, SameScope
  <2> HIDE DEF t, id, g
  <2> QED
    BY <1>5, <2>1 DEF BindAvoid, AvoidBinding
<1>7. Stands(snap, c) /\ c.evidence = EventId(snap)
  <2>1. Stands(snap, g) /\ CurrentTyped(snap)
    BY DEF IInv, Bound
  <2> HIDE DEF g, id, t
  <2> QED
    BY <1>3, <1>4, <2>1, AvoidStands
<1> HIDE DEF t, c
<1>8. Grows(snap, v)
  <2>1. id[1] \notin TaskKinds
    BY DEF NextId, TaskKinds
  <2> HIDE DEF id
  <2>2. \E kind \in Allocated : id = NextId(snap, kind)
    BY DEF Allocated, id
  <2> QED
    BY <1>2, <1>4, <1>7, <2>1, <2>2, GrowsMore
<1> HIDE DEF v
<1>9. Grows(snap, u)
  BY <1>1, <1>3, <1>8, GrowsDecision
<1>10. Commit(u)
  BY <1>1, <1>6
<1> HIDE DEF u
<1> QED
  BY <1>1, <1>9, <1>10

-----------------------------------------------------------------------------
(* Invalidation and revalidation.                                          *)

\* While no scope moves, a binding is in scope as long as its path is.
LEMMA HoldsHere ==
    ASSUME NEW s, NEW u, u.current = s.current, u.branchEpoch = s.branchEpoch,
           u.commitEpoch = s.commitEpoch,
           NEW b, Stands(s, b), b.status = "active", PathCurrent(s, b) => PathCurrent(u, b)
    PROVE  Holds(s, u, b)
<1>1. BranchEpoch(u, b) = BranchEpoch(s, b) /\ CommitEpoch(u, b) = CommitEpoch(s, b)
  BY DEF BranchEpoch, CommitEpoch
<1>2. (MatchesCurrent(u, b) <=> MatchesCurrent(s, b)) /\ (Abides(u, b) <=> Abides(s, b))
  BY <1>1 DEF MatchesCurrent, Abides, Awaits
<1> QED
  BY <1>2 DEF Holds, Stands, Known, InScope

\* The record of an invalidation changes nothing that was bound.
LEMMA AuditedGrows ==
    ASSUME NEW s, IInv(s), s.events < MaxEvents, NEW m, Mid(s, m)
    PROVE  /\ Grows(m, Audited(m))
           /\ \A id \in DOMAIN s.bindings : Audited(m).bindings[id] = m.bindings[id]
<1> DEFINE t == BindTaskEvent(m)
           id == NextId(m, "I")
           b == TaskBinding(t)
<1>1. Grows(m, m)
  BY GrowsFromItself
<1>2. Grows(m, t)
  BY <1>1, GrowsTaskEvent
<1>3. /\ EventId(m) = EventId(s) /\ id = NextId(s, "I") /\ Good(m) /\ Good(t)
  BY <1>1, <1>2, GrowsFinite
<1>4. EventId(m) \notin DOMAIN s.bindings /\ id \notin DOMAIN s.bindings
  BY <1>3, NextIds, BoundFinite DEF IInv, Allocated
<1>5. \A x \in DOMAIN s.bindings : x \in DOMAIN t.bindings /\ t.bindings[x] = m.bindings[x]
  BY <1>3, <1>4, TaskEventIs DEF Good, Mid
<1>6. Audited(m) = Bind(t, id, b)
  BY DEF Audited, BindRecord, GatesOf, TaskGates, TaskBinding
<1> HIDE DEF t, id, b
<1>7. \A x \in DOMAIN s.bindings : Bind(t, id, b).bindings[x] = m.bindings[x]
  BY <1>3, <1>4, <1>5, BindIs DEF Good
<1>8. Grows(m, Audited(m))
  BY <1>1, <1>2, <1>3, GrowsTaskRecord DEF Audited, Allocated, t, id
<1> QED
  BY <1>6, <1>7, <1>8

\* What a cascade leaves.
LEMMA CascadeOld ==
    ASSUME NEW s, IInv(s), NEW r, Fields \subseteq DOMAIN r, r.bindings = s.bindings,
           NEW hit \in SUBSET Valid(s),
           \A id \in Valid(s) \ Dependents(r, hit) :
              s.bindings[id].status = "active" => Holds(s, MarkInvalidated(r, hit), s.bindings[id])
    PROVE  Old(s, MarkInvalidated(r, hit))
<1> DEFINE m == MarkInvalidated(r, hit)
           doomed == Dependents(r, hit)
<1>1. Valid(r) = Valid(s) /\ IsFiniteSet(DOMAIN r.bindings)
  BY BoundFinite DEF Valid
<1>2. doomed \subseteq Valid(s) /\ Closed(s, doomed)
  BY <1>1, DependentsClosed DEF Closed
<1>3. /\ DOMAIN m.bindings = DOMAIN s.bindings
      /\ \A x \in DOMAIN s.bindings :
            m.bindings[x] = IF x \in doomed /\ s.bindings[x].status # "invalidated"
                            THEN Marked(s.bindings[x], "invalidated") ELSE s.bindings[x]
  BY MarkInvalidatedIs
<1> HIDE DEF m, doomed
<1>4. ASSUME NEW id \in DOMAIN s.bindings
      PROVE  /\ id \in DOMAIN m.bindings
             /\ IF id \in doomed THEN m.bindings[id] = Marked(s.bindings[id], "invalidated")
                ELSE /\ Turned(s, m, s.bindings[id], m.bindings[id])
                     /\ doomed # {} => m.bindings[id] = s.bindings[id]
  <2>1. CASE id \in doomed
    BY <1>2, <1>3, <2>1 DEF Valid
  <2>2. CASE id \notin doomed
    BY <1>3, <2>2 DEF Turned, Valid, m, doomed
  <2> QED
    BY <1>3, <2>1, <2>2
<1>5. Old(s, m)
  BY <1>2, <1>4 DEF Old
<1> QED
  BY <1>5 DEF m

LEMMA InvalidateSteps ==
    ASSUME IInv(snap), NEW target, Invalidate(target)
    PROVE  snap.events < MaxEvents /\ \E u : Step(snap, u) /\ Commit(u)
<1> DEFINE m == MarkInvalidated(snap, {target})
           u == Audited(m)
<1>1. snap.events < MaxEvents /\ Commit(u)
  BY DEF Invalidate, Derives
<1>2. {target} \in SUBSET Valid(snap)
  BY DEF Invalidate, Valid
<1>3. Fields \subseteq DOMAIN snap /\ Good(snap)
  BY DEF IInv, Good
<1>4. SameScope(snap, m) /\ DOMAIN m.bindings = DOMAIN snap.bindings
  BY <1>3, MarkInvalidatedIs
<1>5. Mid(snap, m)
  <2>1. Advances(snap, m)
    BY <1>3, MarkInvalidatedAdvances
  <2> QED
    BY <1>4, <2>1 DEF Mid, IInv, SameScope, CurrentTyped, PathsTyped
<1>6. \A id \in DOMAIN snap.bindings :
         snap.bindings[id].status = "active" => Holds(snap, m, snap.bindings[id])
  BY <1>4, HoldsStill DEF IInv
<1>7. Old(snap, m)
  BY <1>2, <1>3, <1>6, CascadeOld DEF Valid
<1> HIDE DEF m
<1>8. Grows(m, u) /\ \A id \in DOMAIN snap.bindings : u.bindings[id] = m.bindings[id]
  BY <1>1, <1>5, AuditedGrows
<1> HIDE DEF u
<1>9. Step(snap, u)
  BY <1>1, <1>5, <1>7, <1>8, MidStep
<1> QED
  BY <1>1, <1>9

LEMMA RevalidateSteps ==
    ASSUME IInv(snap), NEW target, NEW evidence, Revalidate(target, evidence)
    PROVE  snap.events < MaxEvents /\ \E u : Step(snap, u) /\ Commit(u)
<1> DEFINE b == snap.bindings[target]
           at == <<snap.current.repo, snap.current.branch, b.path>>
           c == Retargeted(snap, b)
           m == Bind(snap, target, c)
           u == BindTaskEvent(m)
<1>1. snap.events < MaxEvents /\ Commit(u)
  BY DEF Revalidate, Derives
<1>2. /\ target \in DOMAIN snap.bindings /\ b.status = "stale"
      /\ b.path # None => /\ at \in PathKeys /\ snap.paths[at].status = "active"
                          /\ ~TerminalOverlap(snap, at[1], at[2], b.path)
      /\ b.refs \subseteq Eligible(snap)
  BY DEF Revalidate, RefsHold
<1>3. Fields \subseteq DOMAIN snap /\ Good(snap)
  BY DEF IInv, Good
<1>4. /\ SameScope(snap, m) /\ DOMAIN m.bindings = DOMAIN snap.bindings
      /\ \A x \in DOMAIN snap.bindings :
            m.bindings[x] = IF x = target THEN c ELSE snap.bindings[x]
  <2>1. DOMAIN snap.bindings \cup {target} = DOMAIN snap.bindings
    BY <1>2
  <2> HIDE DEF c
  <2>2. /\ SameScope(snap, m) /\ DOMAIN m.bindings = DOMAIN snap.bindings \cup {target}
        /\ \A x \in DOMAIN snap.bindings \cup {target} :
              m.bindings[x] = IF x = target THEN c ELSE snap.bindings[x]
    BY <1>3, BindIs
  <2> QED
    BY <2>1, <2>2
<1> HIDE DEF m
<1>5. Mid(snap, m)
  <2>1. Advances(snap, m)
    BY <1>3, <1>4, KeepsAdvances DEF SameScope
  <2> QED
    BY <1>4, <2>1 DEF Mid, IInv, SameScope, CurrentTyped, PathsTyped
<1>6. Eligible(snap) \subseteq Eligible(m)
  <2>1. IsFiniteSet(DOMAIN snap.bindings) /\ IsFiniteSet(DOMAIN m.bindings)
    BY <1>4, BoundFinite
  <2>2. ASSUME NEW id \in Eligible(snap)
        PROVE  id \in Sound(m) /\ m.bindings[id].refs \subseteq snap.bindings[id].refs
    <3>1. id \in Sound(snap)
      BY <2>1, EligibleSettles
    <3>2. id # target
      BY <1>2, <3>1 DEF Sound
    <3> QED
      BY <1>4, <3>1, <3>2, ScopeDecides DEF Sound
  <2> QED
    BY <2>1, <2>2, EligibleKept
<1>7. Retargeted(m, b) = c /\ Grounded(m, b) /\ m.current = snap.current
  <2>1. Retargeted(m, b) = c /\ m.current = snap.current /\ m.paths = snap.paths
    BY <1>4, ScopeDecides DEF SameScope
  <2> HIDE DEF b, c
  <2> QED
    BY <1>2, <1>6, <2>1 DEF Grounded, TerminalOverlap
<1>8. ASSUME NEW id \in DOMAIN snap.bindings
      PROVE  Turned(snap, m, snap.bindings[id], m.bindings[id])
  <2>1. CASE id = target
    BY <1>2, <1>4, <1>7, <2>1 DEF Turned
  <2>2. CASE id # target
    BY <1>4, <2>2, HoldsStill DEF IInv, Turned
  <2> QED
    BY <2>1, <2>2
<1>9. Grows(m, u)
  BY <1>1, <1>5, GrowsFromItself, GrowsTaskEvent
<1> HIDE DEF u
<1>10. Step(snap, u)
  BY <1>1, <1>5, <1>8, <1>9, MidStep
<1> QED
  BY <1>1, <1>10

LEMMA RevalidatePathSteps ==
    ASSUME IInv(snap), NEW target, NEW digest, NEW evidence,
           RevalidatePath(target, digest, evidence)
    PROVE  snap.events < MaxEvents /\ \E u : Step(snap, u) /\ Commit(u)
<1> DEFINE key == <<snap.current.repo, snap.current.branch, target>>
           m == [snap EXCEPT !.paths[key].status = "active",
                             !.paths[key].commit = snap.current.commit]
           u == BindTaskEvent(m)
<1>1. snap.events < MaxEvents /\ Commit(u)
  BY DEF RevalidatePath, Derives
<1>2. key \in PathKeys /\ snap.paths[key].status = "stale"
  BY DEF RevalidatePath
<1> HIDE DEF key
<1>3. Fields \subseteq DOMAIN snap /\ Good(snap) /\ CurrentTyped(snap) /\ PathsTyped(snap)
  BY DEF IInv, Good
<1>4. /\ Keeps(snap, m) /\ m.current = snap.current /\ m.bindings = snap.bindings
      /\ m.events = snap.events
      /\ m.paths = [snap.paths EXCEPT ![key] =
                       [snap.paths[key] EXCEPT !.status = "active",
                                               !.commit = snap.current.commit]]
  BY <1>2, <1>3 DEF Keeps, Fields, PathsTyped
<1> HIDE DEF m
<1>5. /\ PathsTyped(m)
      /\ \A k \in PathKeys :
            IF k = key THEN m.paths[k].status = "active" ELSE m.paths[k] = snap.paths[k]
  <2> DEFINE Path == [status : Statuses \cup {"unknown"}, rev : Nat,
                      digest : Digests \cup {None}, commit : Commits \cup {None}]
             new == [snap.paths[key] EXCEPT !.status = "active", !.commit = snap.current.commit]
  <2>1. snap.paths \in [PathKeys -> Path] /\ snap.current.commit \in Commits \cup {None}
    BY <1>3 DEF PathsTyped, CurrentTyped
  <2>2. new \in Path /\ new.status = "active"
    BY <1>2, <2>1 DEF Statuses
  <2> HIDE DEF Path, new
  <2>3. m.paths = [snap.paths EXCEPT ![key] = new]
    BY <1>4 DEF new
  <2>4. m.paths \in [PathKeys -> Path]
    BY <2>1, <2>2, <2>3
  <2> QED
    BY <1>2, <2>1, <2>2, <2>3, <2>4 DEF PathsTyped, Path
<1>6. Mid(snap, m)
  <2>1. Advances(snap, m)
    BY <1>3, <1>4, KeepsAdvances
  <2> QED
    BY <1>2, <1>3, <1>4, <1>5, <2>1 DEF Mid, CurrentTyped
<1>7. ASSUME NEW b
      PROVE  PathCurrent(snap, b) => PathCurrent(m, b)
  BY <1>2, <1>4, <1>5 DEF PathCurrent, TerminalOverlap, PathEpoch, Keeps
<1>8. ASSUME NEW id \in DOMAIN snap.bindings
      PROVE  Turned(snap, m, snap.bindings[id], m.bindings[id])
  BY <1>4, <1>7, HoldsHere DEF IInv, Turned, Keeps
<1>9. Grows(m, u)
  BY <1>1, <1>6, GrowsFromItself, GrowsTaskEvent
<1> HIDE DEF u
<1>10. Step(snap, u)
  BY <1>1, <1>6, <1>8, <1>9, MidStep
<1> QED
  BY <1>1, <1>10

-----------------------------------------------------------------------------
(* Events about paths.                                                     *)

LEMMA WithinItself ==
    ASSUME NEW p \in Paths
    PROVE  PathWithin(p, p) /\ PathsOverlap(p, p)
<1>1. p \in Seq(STRING)
  BY PathsAssumption
<1>2. SubSeq(p, 1, Len(p)) = p
  BY <1>1
<1> QED
  BY <1>1, <1>2 DEF PathWithin, PathsOverlap

\* One path is below another when it starts with it.
LEMMA WithinIs ==
    ASSUME NEW p \in Paths, NEW root \in Paths
    PROVE  PathWithin(p, root) <=>
              Len(root) <= Len(p) /\ \A i \in 1..Len(root) : p[i] = root[i]
<1>1. p \in Seq(STRING) /\ root \in Seq(STRING)
  BY PathsAssumption
<1>2. ASSUME Len(root) <= Len(p)
      PROVE  SubSeq(p, 1, Len(root)) = root <=> \A i \in 1..Len(root) : p[i] = root[i]
  <2> DEFINE q == SubSeq(p, 1, Len(root))
  <2>1. q \in Seq(STRING) /\ Len(q) = Len(root) /\ \A i \in 1..Len(root) : q[i] = p[i]
    BY <1>1, <1>2
  <2> HIDE DEF q
  <2>2. q = root <=> \A i \in 1..Len(root) : q[i] = root[i]
    <3>1. ASSUME \A i \in 1..Len(root) : q[i] = root[i]
          PROVE  q = root
      BY <1>1, <2>1, <3>1
    <3> QED
      BY <3>1
  <2> QED
    BY <2>1, <2>2 DEF q
<1> QED
  BY <1>2 DEF PathWithin

LEMMA WithinTransitive ==
    ASSUME NEW p \in Paths, NEW q \in Paths, NEW r \in Paths, PathWithin(p, q), PathWithin(q, r)
    PROVE  PathWithin(p, r)
<1>1. Len(p) \in Nat /\ Len(q) \in Nat /\ Len(r) \in Nat
  BY PathsAssumption
<1> QED
  BY <1>1, WithinIs

\* What a path is below are one another's prefixes.
LEMMA WithinBoth ==
    ASSUME NEW p \in Paths, NEW q \in Paths, NEW r \in Paths, PathWithin(p, q), PathWithin(p, r)
    PROVE  PathsOverlap(q, r)
<1>1. Len(p) \in Nat /\ Len(q) \in Nat /\ Len(r) \in Nat
  BY PathsAssumption
<1>2. CASE Len(q) <= Len(r)
  BY <1>1, <1>2, WithinIs DEF PathsOverlap
<1>3. CASE Len(r) <= Len(q)
  BY <1>1, <1>3, WithinIs DEF PathsOverlap
<1> QED
  BY <1>1, <1>2, <1>3

LEMMA BumpedIs ==
    ASSUME NEW s, Fields \subseteq DOMAIN s, NEW ps
    PROVE  LET u == Bumped(s, ps)
           IN /\ Fields \subseteq DOMAIN u
              /\ u.current = s.current /\ u.paths = s.paths /\ u.bindings = s.bindings
              /\ u.events = s.events
              /\ u.branchEpoch = s.branchEpoch /\ u.commitEpoch = s.commitEpoch
              /\ \A k \in PathKeys :
                    k[1] # s.current.repo \/ k[2] # s.current.branch \/ k[3] \notin ps
                       => u.pathEpoch[k] = s.pathEpoch[k]
BY DEF Bumped, Fields

\* An event about paths takes the active status of some bindings, and leaves the
\* paths of the others as current as they were.
MovesPaths(s, m, hit) ==
    /\ Advances(s, m) /\ PathsTyped(m) /\ m.current = s.current /\ m.events = s.events
    /\ m.branchEpoch = s.branchEpoch /\ m.commitEpoch = s.commitEpoch
    /\ \A k \in PathKeys : s.paths[k].status = "invalidated" => m.paths[k] = s.paths[k]
    /\ DOMAIN m.bindings = DOMAIN s.bindings
    /\ \A id \in DOMAIN s.bindings :
          LET b == s.bindings[id]
          IN /\ m.bindings[id] = IF id \in hit /\ b.status = "active" THEN Marked(b, "stale") ELSE b
             /\ id \notin hit /\ PathCurrent(s, b) => PathCurrent(m, b)

LEMMA MovesTurns ==
    ASSUME NEW s, IInv(s), NEW m, NEW hit, MovesPaths(s, m, hit)
    PROVE  /\ Mid(s, m)
           /\ \A id \in DOMAIN s.bindings : Turned(s, m, s.bindings[id], m.bindings[id])
<1>1. Mid(s, m)
  BY DEF MovesPaths, Mid, CurrentTyped, IInv
<1>2. ASSUME NEW id \in DOMAIN s.bindings
      PROVE  Turned(s, m, s.bindings[id], m.bindings[id])
  <2>1. CASE id \in hit /\ s.bindings[id].status = "active"
    BY <2>1 DEF MovesPaths, Turned
  <2>2. CASE ~(id \in hit /\ s.bindings[id].status = "active")
    <3>1. m.bindings[id] = s.bindings[id]
      BY <2>2 DEF MovesPaths
    <3>2. s.bindings[id].status = "active" => Holds(s, m, s.bindings[id])
      BY <2>2, HoldsHere DEF MovesPaths, IInv
    <3> QED
      BY <3>1, <3>2 DEF Turned
  <2> QED
    BY <2>1, <2>2
<1> QED
  BY <1>1, <1>2

LEMMA GrowsFileEvent ==
    ASSUME NEW s, IInv(s), s.events < MaxEvents, NEW m, Mid(s, m),
           NEW commit \in MaybeCommits, NEW path \in Paths \cup {None}
    PROVE  Grows(m, BindEvent(m, GatesOf("file"), None, commit, path))
<1> DEFINE gates == GatesOf("file")
<1>1. Nested(gates) /\ "commit" \in gates /\ None \in MaybeBranches /\ {} \in SUBSET Ids
  BY DEF GatesOf, Nested, Gates, MaybeBranches
<1>2. Grows(m, m) /\ EventId(m) = EventId(s)
  BY GrowsFromItself, GrowsFinite
<1> HIDE DEF gates
<1>3. Grows(m, Bind(m, EventId(m), Binding(m, gates, None, commit, path, {})))
  BY <1>1, <1>2, GrowsBinding
<1> QED
  BY <1>3 DEF BindEvent, gates

PathStates == [status : Statuses \cup {"unknown"}, rev : Nat,
               digest : Digests \cup {None}, commit : Commits \cup {None}]

LEMMA MarkedPath ==
    ASSUME NEW x \in PathStates, NEW status \in Statuses
    PROVE  Marked(x, status) \in PathStates /\ Marked(x, status).status = status
<1>1. Marked(x, status) = [x EXCEPT !.status = status, !.rev = x.rev + 1]
  BY DEF Marked
<1>2. x.rev + 1 \in Nat /\ status \in Statuses \cup {"unknown"}
  BY DEF PathStates
<1> QED
  BY <1>1, <1>2 DEF PathStates

\* Paths that an event does not touch stay as current as they were.
LEMMA Untouched ==
    ASSUME NEW s, NEW m, NEW touched \in SUBSET PathKeys,
           \A k \in PathKeys \ touched :
              m.paths[k] = s.paths[k] /\ m.pathEpoch[k] = s.pathEpoch[k],
           NEW b, b.path # None => <<b.repo, b.branch, b.path>> \notin touched,
           \A k \in touched :
              m.paths[k].status = "invalidated" /\ b.path # None
                 => ~PathsOverlap(b.path, k[3]),
           PathCurrent(s, b)
    PROVE  PathCurrent(m, b)
<1> SUFFICES ASSUME b.path # None
             PROVE  /\ <<b.repo, b.branch, b.path>> \in PathKeys =>
                          m.paths[<<b.repo, b.branch, b.path>>].status \in {"unknown", "active"}
                    /\ b.pathEpoch = PathEpoch(m, b)
                    /\ ~TerminalOverlap(m, b.repo, b.branch, b.path)
  BY DEF PathCurrent
<1> DEFINE at == <<b.repo, b.branch, b.path>>
<1>1. at \in PathKeys => m.paths[at] = s.paths[at] /\ m.pathEpoch[at] = s.pathEpoch[at]
  OBVIOUS
<1>2. PathEpoch(m, b) = PathEpoch(s, b)
  BY <1>1 DEF PathEpoch
<1>3. ~TerminalOverlap(m, b.repo, b.branch, b.path)
  <2> SUFFICES ASSUME NEW k \in PathKeys, k[1] = b.repo, k[2] = b.branch,
                      m.paths[k].status = "invalidated", PathsOverlap(b.path, k[3])
               PROVE  FALSE
    BY DEF TerminalOverlap
  <2>1. s.paths[k].status = "invalidated"
    OBVIOUS
  <2> QED
    BY <2>1 DEF PathCurrent, TerminalOverlap
<1> QED
  BY <1>1, <1>2, <1>3 DEF PathCurrent

\* A binding off the paths of the current branch that an event is about.
LEMMA OffPath ==
    ASSUME NEW s, NEW p \in Paths, NEW id \in DOMAIN s.bindings, id \notin OnPath(s, p),
           s.bindings[id].path # None,
           s.bindings[id].repo = s.current.repo, s.bindings[id].branch = s.current.branch
    PROVE  ~PathsOverlap(s.bindings[id].path, p) /\ s.bindings[id].path # p
BY WithinItself DEF OnPath

LEMMA FileSnapshotSteps ==
    ASSUME IInv(snap), NEW p \in Paths, NEW digest \in Digests, FileSnapshot(p, digest)
    PROVE  snap.events < MaxEvents /\ \E u : Step(snap, u) /\ Commit(u)
<1> DEFINE key == <<snap.current.repo, snap.current.branch, p>>
           old == snap.paths[key]
           moved == snap.pathEpoch[key] = 0 \/ (old.status # "unknown" /\ old.digest # digest)
           hit == IF moved THEN OnPath(snap, p) ELSE {}
           r == Bumped(snap, {p})
           s1 == IF moved THEN MarkStale(r, OnPath(snap, p)) ELSE snap
           new == [status |-> "active", rev |-> 0, digest |-> digest,
                   commit |-> snap.current.commit]
           m == [s1 EXCEPT !.paths[key] = new]
           u == BindEvent(m, GatesOf("file"), None, None, p)
<1>1. /\ snap.events < MaxEvents /\ Commit(u)
      /\ None \notin {snap.current.repo, snap.current.branch, snap.current.commit}
      /\ ~TerminalOverlap(snap, snap.current.repo, snap.current.branch, p)
  BY DEF FileSnapshot, Derives
<1>2. Good(snap) /\ Fields \subseteq DOMAIN snap /\ CurrentTyped(snap) /\ PathsTyped(snap)
  BY DEF IInv, Good
<1>3. key \in PathKeys /\ key[1] = snap.current.repo /\ key[2] = snap.current.branch /\ key[3] = p
  BY <1>1, <1>2 DEF CurrentTyped, MaybeRepos, MaybeBranches, PathKeys
<1>4. snap.paths[key].status # "invalidated"
  BY <1>1, <1>3, WithinItself DEF TerminalOverlap
<1> HIDE DEF key, moved
\* The bindings and the epochs.
<1>5. /\ Advances(snap, s1)
      /\ s1.current = snap.current /\ s1.paths = snap.paths /\ s1.events = snap.events
      /\ s1.branchEpoch = snap.branchEpoch /\ s1.commitEpoch = snap.commitEpoch
      /\ \A k \in PathKeys \ {key} : s1.pathEpoch[k] = snap.pathEpoch[k]
      /\ ~moved => s1.pathEpoch = snap.pathEpoch
      /\ DOMAIN s1.bindings = DOMAIN snap.bindings
      /\ \A x \in DOMAIN snap.bindings :
            s1.bindings[x] = IF x \in hit /\ snap.bindings[x].status = "active"
                             THEN Marked(snap.bindings[x], "stale") ELSE snap.bindings[x]
  <2>1. CASE moved
    <3> DEFINE t == MarkStale(r, hit)
    <3>1. /\ Fields \subseteq DOMAIN r /\ Advances(snap, r)
          /\ r.current = snap.current /\ r.paths = snap.paths /\ r.bindings = snap.bindings
          /\ r.events = snap.events
          /\ r.branchEpoch = snap.branchEpoch /\ r.commitEpoch = snap.commitEpoch
          /\ \A k \in PathKeys :
                k[1] # snap.current.repo \/ k[2] # snap.current.branch \/ k[3] \notin {p}
                   => r.pathEpoch[k] = snap.pathEpoch[k]
      BY <1>2, BumpedIs, BumpedAdvances
    <3>2. \A k \in PathKeys \ {key} : r.pathEpoch[k] = snap.pathEpoch[k]
      <4> HIDE DEF r
      <4> SUFFICES ASSUME NEW k \in PathKeys, k # key
                   PROVE  k[1] # snap.current.repo \/ k[2] # snap.current.branch \/ k[3] # p
        BY <3>1
      <4>1. k = <<k[1], k[2], k[3]>>
        BY DEF PathKeys
      <4> QED
        BY <4>1 DEF key
    <3> HIDE DEF r, hit
    <3>3. /\ SameScope(r, t) /\ DOMAIN t.bindings = DOMAIN r.bindings
          /\ \A x \in DOMAIN r.bindings :
                t.bindings[x] = IF x \in hit /\ r.bindings[x].status = "active"
                                THEN Marked(r.bindings[x], "stale") ELSE r.bindings[x]
      BY <3>1, MarkStaleIs
    <3>4. Advances(snap, t)
      BY <1>2, <3>1, MarkStaleAdvances, AdvancesTransitive DEF Advances
    <3>5. s1 = t
      BY <2>1 DEF hit
    <3> HIDE DEF t
    <3> QED
      BY <2>1, <3>1, <3>2, <3>3, <3>4, <3>5 DEF SameScope, Keeps
  <2>2. CASE ~moved
    <3>1. s1 = snap /\ hit = {}
      BY <2>2
    <3>2. Advances(snap, snap)
      BY <1>2, KeepsAdvances DEF Keeps, Good
    <3> QED
      BY <2>2, <3>1, <3>2
  <2> QED
    BY <2>1, <2>2
<1>6. \A id \in DOMAIN snap.bindings \ hit :
         LET b == snap.bindings[id]
         IN /\ moved /\ b.path # None => <<b.repo, b.branch, b.path>> # key
            /\ b = snap.bindings[id]
  <2> SUFFICES ASSUME NEW id \in DOMAIN snap.bindings \ hit, moved,
                      snap.bindings[id].path # None
               PROVE  <<snap.bindings[id].repo, snap.bindings[id].branch,
                        snap.bindings[id].path>> # key
    OBVIOUS
  <2> QED
    BY OffPath DEF key
<1> HIDE DEF s1, hit
\* The paths.
<1>7. /\ Keeps(s1, m) /\ m.current = s1.current /\ m.bindings = s1.bindings
      /\ m.events = s1.events /\ m.paths = [snap.paths EXCEPT ![key] = new]
  BY <1>3, <1>5 DEF Keeps, Fields, Advances, Good
<1> HIDE DEF m
<1>8. /\ PathsTyped(m)
      /\ \A k \in PathKeys : IF k = key THEN m.paths[k] = new ELSE m.paths[k] = snap.paths[k]
  <2>1. new \in PathStates
    BY <1>2 DEF PathStates, Statuses, CurrentTyped
  <2>2. snap.paths \in [PathKeys -> PathStates]
    BY <1>2 DEF PathsTyped, PathStates
  <2> HIDE DEF new
  <2>3. m.paths \in [PathKeys -> PathStates]
    BY <1>3, <1>7, <2>1, <2>2
  <2> QED
    BY <1>3, <1>7, <2>2, <2>3 DEF PathsTyped, PathStates
<1>9. Advances(snap, m)
  BY <1>2, <1>5, <1>7, KeepsAdvances, AdvancesTransitive DEF Advances
<1>10. ASSUME NEW id \in DOMAIN snap.bindings, id \notin hit, PathCurrent(snap, snap.bindings[id])
       PROVE  PathCurrent(m, snap.bindings[id])
  <2> DEFINE b == snap.bindings[id]
  <2>1. CASE moved
    <3> DEFINE touched == {key}
    <3>1. b.path # None => <<b.repo, b.branch, b.path>> \notin touched
      BY <1>6, <1>10, <2>1
    <3>2. \A k \in PathKeys \ touched :
             m.paths[k] = snap.paths[k] /\ m.pathEpoch[k] = snap.pathEpoch[k]
      BY <1>5, <1>7, <1>8 DEF Keeps
    <3>3. touched \in SUBSET PathKeys /\ \A k \in touched : m.paths[k].status # "invalidated"
      BY <1>3, <1>8
    <3>4. PathCurrent(snap, b)
      BY <1>10
    <3> HIDE DEF b, touched
    <3>5. PathCurrent(m, b)
      BY <3>1, <3>2, <3>3, <3>4, Untouched
    <3> QED
      BY <3>5 DEF b
  <2>2. CASE ~moved
    <3>1. m.pathEpoch = snap.pathEpoch
      BY <1>5, <1>7, <2>2 DEF Keeps
    <3>2. \A k \in PathKeys :
             /\ m.paths[k].status = "invalidated" => snap.paths[k].status = "invalidated"
             /\ snap.paths[k].status = "active" => m.paths[k].status = "active"
             /\ snap.paths[k].status = "unknown" => m.paths[k].status \in {"active", "unknown"}
      BY <1>8
    <3> QED
      BY <1>10, <3>1, <3>2 DEF PathCurrent, PathEpoch, TerminalOverlap
  <2> QED
    BY <2>1, <2>2
<1>11. MovesPaths(snap, m, hit)
  BY <1>4, <1>5, <1>7, <1>8, <1>9, <1>10 DEF MovesPaths, Keeps
<1>12. Mid(snap, m) /\ \A id \in DOMAIN snap.bindings :
                          Turned(snap, m, snap.bindings[id], m.bindings[id])
  BY <1>11, MovesTurns
<1>13. Grows(m, u)
  BY <1>1, <1>12, GrowsFileEvent DEF MaybeCommits
<1> HIDE DEF u
<1>14. Step(snap, u)
  BY <1>1, <1>12, <1>13, MidStep
<1> QED
  BY <1>1, <1>14

LEMMA OverlapSymmetric ==
    ASSUME NEW p, NEW q
    PROVE  PathsOverlap(p, q) <=> PathsOverlap(q, p)
BY DEF PathsOverlap

LEMMA FileRenamedSteps ==
    ASSUME IInv(snap), NEW from \in Paths, NEW to \in Paths, NEW digest \in Digests \cup {None},
           NEW commit \in MaybeCommits, FileRenamed(from, to, digest, commit)
    PROVE  snap.events < MaxEvents /\ \E u : Step(snap, u) /\ Commit(u)
<1> DEFINE here == <<snap.current.repo, snap.current.branch>>
           gone == Renamed(snap, from, to)
           s1 == Bumped(snap, gone)
           touched == {k \in PathKeys : <<k[1], k[2]>> = here /\ k[3] \in gone}
           new == [status |-> "active", rev |-> 0, digest |-> digest,
                   commit |-> snap.current.commit]
           ps == [k \in PathKeys |->
                     IF <<k[1], k[2]>> # here \/ k[3] \notin gone THEN snap.paths[k]
                     ELSE IF k[3] = to
                          THEN [status |-> "active", rev |-> 0, digest |-> digest,
                                commit |-> snap.current.commit]
                          ELSE Marked(snap.paths[k], "stale")]
           s2 == [s1 EXCEPT !.paths = ps]
           hit == OnPath(s2, from) \cup OnPath(s2, to)
           m == MarkStale(s2, hit)
           u == BindEvent(m, GatesOf("file"), None, commit, None)
<1>1. /\ snap.events < MaxEvents /\ Commit(u)
      /\ ~TerminalOverlap(snap, here[1], here[2], from)
      /\ ~TerminalOverlap(snap, here[1], here[2], to)
  BY DEF FileRenamed, Derives
<1>2. Good(snap) /\ Fields \subseteq DOMAIN snap /\ CurrentTyped(snap) /\ PathsTyped(snap)
  BY DEF IInv, Good
\* No path that moves on has ended.
<1>3. \A k \in touched : snap.paths[k].status # "invalidated"
  <2> SUFFICES ASSUME NEW k \in touched, snap.paths[k].status = "invalidated"
               PROVE  FALSE
    OBVIOUS
  <2>1. k \in PathKeys /\ k[1] = here[1] /\ k[2] = here[2]
    OBVIOUS
  <2>2. PathsOverlap(from, k[3]) \/ PathsOverlap(to, k[3])
    <3>1. k[3] \in gone
      OBVIOUS
    <3> QED
      BY <3>1, WithinItself, OverlapSymmetric DEF Renamed
  <2> QED
    BY <1>1, <2>1, <2>2 DEF TerminalOverlap
<1>4. gone \in SUBSET Paths
  BY DEF Renamed
\* What a binding on none of those paths has.
<1>5. ASSUME NEW b, b.path \in Paths, ~PathsOverlap(b.path, from), ~PathsOverlap(b.path, to),
             <<b.repo, b.branch, b.path>> \in touched
      PROVE  FALSE
  <2>1. b.path \in gone
    BY <1>5
  <2> QED
    BY <1>5, <2>1, WithinItself DEF Renamed
<1> HIDE DEF gone
<1>6. /\ Fields \subseteq DOMAIN s1 /\ Advances(snap, s1)
      /\ s1.current = snap.current /\ s1.paths = snap.paths /\ s1.bindings = snap.bindings
      /\ s1.events = snap.events
      /\ s1.branchEpoch = snap.branchEpoch /\ s1.commitEpoch = snap.commitEpoch
      /\ \A k \in PathKeys :
            k[1] # snap.current.repo \/ k[2] # snap.current.branch \/ k[3] \notin gone
               => s1.pathEpoch[k] = snap.pathEpoch[k]
  BY <1>2, <1>4, BumpedIs, BumpedAdvances
<1> HIDE DEF s1
<1>7. \A k \in PathKeys \ touched :
         ps[k] = snap.paths[k] /\ s1.pathEpoch[k] = snap.pathEpoch[k]
  BY <1>6
<1>8. /\ ps \in [PathKeys -> PathStates]
      /\ \A k \in touched : ps[k].status # "invalidated"
  <2>1. new \in PathStates /\ new.status = "active"
    BY <1>2 DEF PathStates, Statuses, CurrentTyped
  <2>2. \A k \in PathKeys : snap.paths[k] \in PathStates
    BY <1>2 DEF PathsTyped, PathStates
  <2>3. \A k \in PathKeys : Marked(snap.paths[k], "stale") \in PathStates
                            /\ Marked(snap.paths[k], "stale").status = "stale"
    BY <2>2, MarkedPath DEF Statuses
  <2>4. ASSUME NEW k \in PathKeys
        PROVE  ps[k] \in {snap.paths[k], new, Marked(snap.paths[k], "stale")}
               /\ (k \in touched => ps[k] \in {new, Marked(snap.paths[k], "stale")})
    OBVIOUS
  <2> HIDE DEF new
  <2>5. \A k \in PathKeys : ps[k] \in PathStates
    BY <2>1, <2>2, <2>3, <2>4
  <2>6. \A k \in touched : ps[k].status # "invalidated"
    BY <2>1, <2>3, <2>4
  <2> QED
    BY <2>5, <2>6
<1>9. touched \in SUBSET PathKeys
  OBVIOUS
<1>10. hit = OnPath(snap, from) \cup OnPath(snap, to)
  BY <1>6 DEF OnPath
<1>11. /\ Keeps(s1, s2) /\ s2.current = s1.current /\ s2.bindings = s1.bindings
       /\ s2.events = s1.events /\ s2.paths = ps
  BY <1>6 DEF Keeps, Fields
<1> HIDE DEF ps, s2, hit
<1>12. /\ SameScope(s2, m) /\ DOMAIN m.bindings = DOMAIN s2.bindings
       /\ \A x \in DOMAIN s2.bindings :
             m.bindings[x] = IF x \in hit /\ s2.bindings[x].status = "active"
                             THEN Marked(s2.bindings[x], "stale") ELSE s2.bindings[x]
  BY <1>11, MarkStaleIs DEF Keeps
<1> HIDE DEF m
<1>13. /\ m.current = snap.current /\ m.events = snap.events /\ m.paths = ps
       /\ m.branchEpoch = snap.branchEpoch /\ m.commitEpoch = snap.commitEpoch
       /\ m.pathEpoch = s1.pathEpoch
  BY <1>6, <1>11, <1>12 DEF SameScope, Keeps
<1>14. Advances(snap, m)
  <2>1. Advances(s1, s2)
    BY <1>6, <1>11, KeepsAdvances DEF Advances
  <2>2. Advances(s2, m)
    BY <1>12, <2>1, KeepsAdvances DEF Advances, SameScope
  <2> QED
    BY <1>2, <1>6, <2>1, <2>2, AdvancesTransitive
<1>15. ASSUME NEW id \in DOMAIN snap.bindings, id \notin hit, PathCurrent(snap, snap.bindings[id])
       PROVE  PathCurrent(m, snap.bindings[id])
  <2> DEFINE b == snap.bindings[id]
  <2>1. b.path # None => <<b.repo, b.branch, b.path>> \notin touched
    <3> SUFFICES ASSUME b.path # None, <<b.repo, b.branch, b.path>> \in touched
                 PROVE  FALSE
      OBVIOUS
    <3>1. b.repo = snap.current.repo /\ b.branch = snap.current.branch
      OBVIOUS
    <3>2. b.path \in Paths
      BY DEF PathKeys
    <3> QED
      BY <1>5, <1>10, <1>15, <3>1, <3>2, OffPath
  <2>2. \A k \in PathKeys \ touched :
           m.paths[k] = snap.paths[k] /\ m.pathEpoch[k] = snap.pathEpoch[k]
    BY <1>7, <1>13
  <2>3. \A k \in touched : m.paths[k].status # "invalidated"
    BY <1>8, <1>13
  <2>4. PathCurrent(snap, b)
    BY <1>15
  <2> HIDE DEF b, touched
  <2>5. PathCurrent(m, b)
    BY <1>9, <2>1, <2>2, <2>3, <2>4, Untouched
  <2> QED
    BY <2>5 DEF b
<1>16. \A k \in PathKeys : snap.paths[k].status = "invalidated" => m.paths[k] = snap.paths[k]
  BY <1>3, <1>7, <1>13
<1>17. PathsTyped(m)
  BY <1>8, <1>13 DEF PathsTyped, PathStates
<1> HIDE DEF touched
<1>18. MovesPaths(snap, m, hit)
  BY <1>6, <1>11, <1>12, <1>13, <1>14, <1>15, <1>16, <1>17 DEF MovesPaths
<1>19. Mid(snap, m) /\ \A id \in DOMAIN snap.bindings :
                          Turned(snap, m, snap.bindings[id], m.bindings[id])
  BY <1>18, MovesTurns
<1>20. Grows(m, u)
  BY <1>1, <1>19, GrowsFileEvent
<1> HIDE DEF u
<1>21. Step(snap, u)
  BY <1>1, <1>19, <1>20, MidStep
<1> QED
  BY <1>1, <1>21

LEMMA InvalidatePathSteps ==
    ASSUME IInv(snap), NEW target \in Paths, InvalidatePath(target)
    PROVE  snap.events < MaxEvents /\ \E u : Step(snap, u) /\ Commit(u)
<1> DEFINE here(k) == k[1] = snap.current.repo /\ k[2] = snap.current.branch
           ended == {k \in PathKeys : /\ here(k) /\ PathWithin(k[3], target)
                                      /\ snap.paths[k].status \in {"active", "stale"}}
           gone == {k[3] : k \in ended}
           s1 == Bumped(snap, gone)
           ps == [k \in PathKeys |-> IF k \in ended THEN Marked(snap.paths[k], "invalidated")
                                     ELSE snap.paths[k]]
           s2 == [s1 EXCEPT !.paths = ps]
           hit == {id \in DOMAIN snap.bindings :
                      /\ snap.bindings[id].status # "invalidated"
                      /\ snap.bindings[id].path # None
                      /\ PathsOverlap(snap.bindings[id].path, target)}
           m == MarkInvalidated(s2, hit)
           u == Audited(m)
<1>1. snap.events < MaxEvents /\ Commit(u)
  BY DEF InvalidatePath, Derives
<1>2. Good(snap) /\ Fields \subseteq DOMAIN snap /\ CurrentTyped(snap) /\ PathsTyped(snap)
  BY DEF IInv, Good
<1>3. ended \in SUBSET PathKeys /\ gone \in SUBSET Paths
  BY DEF PathKeys
<1>4. /\ Fields \subseteq DOMAIN s1 /\ Advances(snap, s1)
      /\ s1.current = snap.current /\ s1.paths = snap.paths /\ s1.bindings = snap.bindings
      /\ s1.events = snap.events
      /\ s1.branchEpoch = snap.branchEpoch /\ s1.commitEpoch = snap.commitEpoch
      /\ \A k \in PathKeys :
            k[1] # snap.current.repo \/ k[2] # snap.current.branch \/ k[3] \notin gone
               => s1.pathEpoch[k] = snap.pathEpoch[k]
  <2> HIDE DEF gone
  <2> QED
    BY <1>2, <1>3, BumpedIs, BumpedAdvances
<1> HIDE DEF s1
<1>5. \A k \in PathKeys \ ended :
         ps[k] = snap.paths[k] /\ s1.pathEpoch[k] = snap.pathEpoch[k]
  <2> SUFFICES ASSUME NEW k \in PathKeys \ ended
               PROVE  s1.pathEpoch[k] = snap.pathEpoch[k]
    OBVIOUS
  <2>1. ASSUME here(k), k[3] \in gone
        PROVE  FALSE
    <3>1. PICK j \in ended : j[3] = k[3]
      BY <2>1
    <3>2. j = <<j[1], j[2], j[3]>> /\ k = <<k[1], k[2], k[3]>>
      BY DEF PathKeys
    <3> QED
      BY <2>1, <3>1, <3>2
  <2> QED
    BY <1>4, <2>1
<1>6. /\ ps \in [PathKeys -> PathStates]
      /\ \A k \in PathKeys : snap.paths[k].status = "invalidated" => ps[k] = snap.paths[k]
  <2>1. \A k \in PathKeys : snap.paths[k] \in PathStates
    BY <1>2 DEF PathsTyped, PathStates
  <2>2. \A k \in PathKeys : Marked(snap.paths[k], "invalidated") \in PathStates
    BY <2>1, MarkedPath DEF Statuses
  <2> QED
    BY <2>1, <2>2
<1>7. /\ Keeps(s1, s2) /\ s2.current = s1.current /\ s2.bindings = s1.bindings
      /\ s2.events = s1.events /\ s2.paths = ps
  BY <1>4 DEF Keeps, Fields
<1> HIDE DEF ps, s2
<1>8. hit \in SUBSET Valid(snap)
  BY DEF Valid
\* A path below one that ends with the target is on the target's path.
<1>9. ASSUME NEW p \in Paths, NEW k \in ended, PathsOverlap(p, k[3])
      PROVE  PathsOverlap(p, target)
  <2>1. k[3] \in Paths /\ PathWithin(k[3], target)
    BY DEF PathKeys
  <2>2. CASE PathWithin(p, k[3])
    BY <2>1, <2>2, WithinTransitive DEF PathsOverlap
  <2>3. CASE PathWithin(k[3], p)
    BY <2>1, <2>3, WithinBoth
  <2> QED
    BY <1>9, <2>2, <2>3 DEF PathsOverlap
<1>10. SameScope(s2, m) /\ DOMAIN m.bindings = DOMAIN snap.bindings
  BY <1>4, <1>7, MarkInvalidatedIs DEF Keeps
<1>11. /\ m.current = snap.current /\ m.events = snap.events /\ m.paths = ps
       /\ m.branchEpoch = snap.branchEpoch /\ m.commitEpoch = snap.commitEpoch
       /\ m.pathEpoch = s1.pathEpoch
  BY <1>4, <1>7, <1>10 DEF SameScope, Keeps
<1>12. ASSUME NEW id \in Valid(snap), id \notin hit, snap.bindings[id].status = "active"
       PROVE  Holds(snap, m, snap.bindings[id])
  <2> DEFINE b == snap.bindings[id]
  <2>1. Stands(snap, b) /\ id \in DOMAIN snap.bindings
    BY DEF IInv, Valid
  <2>2. b.path # None => b.path \in Paths /\ ~PathsOverlap(b.path, target)
    BY <1>12, <2>1 DEF Stands, Shaped, Bindings
  <2>3. b.path # None => <<b.repo, b.branch, b.path>> \notin ended
    <3> SUFFICES ASSUME b.path # None, <<b.repo, b.branch, b.path>> \in ended
                 PROVE  FALSE
      OBVIOUS
    <3>1. PathWithin(b.path, target)
      OBVIOUS
    <3> QED
      BY <2>2, <3>1 DEF PathsOverlap
  <2>4. \A k \in ended : b.path # None => ~PathsOverlap(b.path, k[3])
    BY <1>9, <2>2
  <2>5. \A k \in PathKeys \ ended :
           m.paths[k] = snap.paths[k] /\ m.pathEpoch[k] = snap.pathEpoch[k]
    BY <1>5, <1>11
  <2> HIDE DEF b, ended, m
  <2>6. PathCurrent(snap, b) => PathCurrent(m, b)
    BY <1>3, <2>3, <2>4, <2>5, Untouched
  <2>7. b.status = "active"
    BY <1>12 DEF b
  <2>8. Holds(snap, m, b)
    BY <1>11, <2>1, <2>6, <2>7, HoldsHere
  <2> QED
    BY <2>8 DEF b
<1>13. hit \subseteq Dependents(s2, hit)
  <2>1. IsFiniteSet(DOMAIN s2.bindings) /\ hit \in SUBSET Valid(s2)
    BY <1>4, <1>7, <1>8, BoundFinite DEF Valid
  <2> HIDE DEF hit
  <2> QED
    BY <2>1, DependentsClosed
<1>14. Old(snap, m)
  <2> HIDE DEF hit, ended
  <2>1. s2.bindings = snap.bindings /\ Fields \subseteq DOMAIN s2
    BY <1>4, <1>7 DEF Keeps
  <2>2. \A id \in Valid(snap) \ Dependents(s2, hit) :
           snap.bindings[id].status = "active" => Holds(snap, m, snap.bindings[id])
    BY <1>12, <1>13
  <2> QED
    BY <1>8, <2>1, <2>2, CascadeOld
<1>15. Advances(snap, m)
  <2>1. Advances(s1, s2)
    BY <1>4, <1>7, KeepsAdvances DEF Advances
  <2>2. Advances(s2, m)
    BY <1>10, <2>1, KeepsAdvances DEF Advances, SameScope
  <2> HIDE DEF m
  <2> QED
    BY <1>2, <1>4, <2>1, <2>2, AdvancesTransitive
<1> HIDE DEF m, hit, ended
<1>16. Mid(snap, m)
  BY <1>2, <1>6, <1>10, <1>11, <1>15 DEF Mid, CurrentTyped, PathsTyped, PathStates
<1>17. Grows(m, u) /\ \A id \in DOMAIN snap.bindings : u.bindings[id] = m.bindings[id]
  BY <1>1, <1>16, AuditedGrows
<1> HIDE DEF u
<1>18. Step(snap, u)
  BY <1>1, <1>14, <1>16, <1>17, MidStep
<1> QED
  BY <1>1, <1>18

-----------------------------------------------------------------------------
(* Events that move the scope.                                             *)

\* An event that moves the scope takes the active status of some bindings, the
\* others hold.
LEMMA ScopeTurns ==
    ASSUME NEW s, IInv(s), NEW m, Mid(s, m), NEW hit,
           \A id \in DOMAIN s.bindings :
              LET b == s.bindings[id]
              IN /\ m.bindings[id] = IF id \in hit /\ b.status = "active"
                                     THEN Marked(b, "stale") ELSE b
                 /\ id \notin hit /\ b.status = "active" => Holds(s, m, b)
    PROVE  \A id \in DOMAIN s.bindings : Turned(s, m, s.bindings[id], m.bindings[id])
BY DEF Turned

LEMMA EnterCommitDraws ==
    ASSUME NEW s, Good(s)
    PROVE  LET u == EnterCommit(s)
               key == <<s.current.repo, s.current.branch, s.current.commit>>
           IN \A k \in CommitKeys :
                 u.commitEpoch[k] = IF k = key /\ None \notin {s.current.repo, s.current.branch,
                                                               s.current.commit}
                                    THEN s.clock + 1 ELSE s.commitEpoch[k]
<1> DEFINE key == <<s.current.repo, s.current.branch, s.current.commit>>
           t == [s EXCEPT !.clock = @ + 1, !.commitEpoch[key] = s.clock + 1]
<1>1. \A k \in CommitKeys : t.commitEpoch[k] = IF k = key THEN s.clock + 1 ELSE s.commitEpoch[k]
  <2> HIDE DEF key
  <2> QED
    BY DEF Good, Fields, EpochsOK
<1>2. EnterCommit(s) = IF None \in {s.current.repo, s.current.branch, s.current.commit} THEN s ELSE t
  BY DEF EnterCommit
<1> HIDE DEF t
<1> QED
  BY <1>1, <1>2

LEMMA EnterCommitIs ==
    ASSUME NEW s, Fields \subseteq DOMAIN s
    PROVE  LET u == EnterCommit(s)
           IN /\ Fields \subseteq DOMAIN u
              /\ u.current = s.current /\ u.paths = s.paths /\ u.bindings = s.bindings
              /\ u.events = s.events
              /\ u.branchEpoch = s.branchEpoch /\ u.pathEpoch = s.pathEpoch
BY DEF EnterCommit, Fields

LEMMA EnterBranchIs ==
    ASSUME NEW s, Good(s)
    PROVE  LET u == EnterBranch(s)
               key == <<s.current.repo, s.current.branch>>
           IN /\ Fields \subseteq DOMAIN u
              /\ u.current = s.current /\ u.paths = s.paths /\ u.bindings = s.bindings
              /\ u.events = s.events /\ u.pathEpoch = s.pathEpoch
              /\ None \notin {s.current.repo, s.current.branch} /\ key \in BranchKeys
                    => u.branchEpoch[key] = s.clock + 1
<1> DEFINE key == <<s.current.repo, s.current.branch>>
           t == [s EXCEPT !.clock = @ + 1, !.branchEpoch[key] = s.clock + 1]
<1>1. /\ Fields \subseteq DOMAIN s /\ Fields \subseteq DOMAIN t
      /\ t.current = s.current /\ t.paths = s.paths /\ t.bindings = s.bindings
      /\ t.events = s.events /\ t.pathEpoch = s.pathEpoch
      /\ key \in BranchKeys => t.branchEpoch[key] = s.clock + 1
  <2> HIDE DEF key
  <2> QED
    BY DEF Good, Fields, EpochsOK
<1>2. EnterBranch(s) = EnterCommit(IF None \in {s.current.repo, s.current.branch} THEN s ELSE t)
  BY DEF EnterBranch
<1> HIDE DEF t, key
<1>3. CASE None \in {s.current.repo, s.current.branch}
  BY <1>1, <1>2, <1>3, EnterCommitIs
<1>4. CASE None \notin {s.current.repo, s.current.branch}
  <2>1. EnterBranch(s) = EnterCommit(t)
    BY <1>2, <1>4
  <2> QED
    BY <1>1, <2>1, EnterCommitIs DEF key
<1> QED
  BY <1>3, <1>4

\* The active task is bound already.
LEMMA GrowsRebind ==
    ASSUME NEW s, IInv(s), s.events < MaxEvents, NEW m, Mid(s, m)
    PROVE  Grows(m, RebindActiveTask(BindTaskEvent(m)))
<1> DEFINE t == BindTaskEvent(m)
           id == <<"T", Cardinality(Tasks(t))>>
<1>1. Grows(m, m) /\ Grows(m, t)
  BY GrowsFromItself, GrowsTaskEvent
<1>2. Good(m) /\ EventId(m)[1] = "E"
  BY <1>1, GrowsFinite DEF EventId
<1>3. DOMAIN t.bindings = DOMAIN s.bindings \cup {EventId(m)}
  BY <1>2, TaskEventIs DEF Good, Mid
<1>4. Tasks(t) = OfKind(s, "T")
  BY <1>2, <1>3 DEF Tasks, OfKind
<1> HIDE DEF t
<1>5. ASSUME Tasks(t) = {}
      PROVE  Grows(m, RebindActiveTask(t))
  BY <1>1, <1>5 DEF RebindActiveTask
<1>6. ASSUME Tasks(t) # {}
      PROVE  Grows(m, RebindActiveTask(t))
  <2>1. PICK n \in 0..s.events : /\ OfKind(s, "T") = {"T"} \X (1..n)
                                 /\ Cardinality(OfKind(s, "T")) = n
    BY NextIds, BoundFinite DEF IInv, Allocated
  <2>2. n \in Nat /\ n # 0
    <3>1. s.events \in Nat
      BY MaxEventsAssumption DEF IInv, IdsOK
    <3> QED
      BY <1>4, <1>6, <2>1, <3>1
  <2>3. id \in OfKind(s, "T")
    BY <1>4, <2>1, <2>2
  <2>4. id \in DOMAIN m.bindings
    BY <2>3 DEF OfKind, Mid
  <2>5. RebindActiveTask(t) = BindRecord(t, id, GatesOf("task"), {})
    BY <1>6 DEF RebindActiveTask
  <2> HIDE DEF id
  <2>6. Grows(m, BindRecord(t, id, GatesOf("task"), {}))
    BY <1>1, <2>4, GrowsTaskRecord
  <2> QED
    BY <2>5, <2>6
<1> QED
  BY <1>5, <1>6 DEF t

\* An epoch that was drawn since is not one that was captured before.
LEMMA DrawnSince ==
    ASSUME NEW s, Good(s), NEW b, EpochsBehind(s, b), NEW m, NEW key \in BranchKeys,
           m.branchEpoch[key] \in Nat, s.clock < m.branchEpoch[key],
           key = <<b.repo, b.branch>>, b.branchEpoch \in {0, BranchEpoch(m, b)}
    PROVE  b.branchEpoch = 0
<1>1. BranchEpoch(m, b) = m.branchEpoch[key]
  BY DEF BranchEpoch
<1>2. b.branchEpoch \in 0..s.clock /\ s.clock \in Nat
  BY DEF EpochsBehind, Good, EpochsOK
<1> QED
  BY <1>1, <1>2

LEMMA BranchChangeSteps ==
    ASSUME IInv(snap), NEW branch \in Branches, NEW commit \in MaybeCommits,
           BranchChange(branch, commit)
    PROVE  snap.events < MaxEvents /\ \E u : Step(snap, u) /\ Commit(u)
<1> DEFINE moved == [snap EXCEPT !.current.branch = branch, !.current.commit = commit]
           s1 == EnterBranch(moved)
           hit == LeftBehind(s1)
           m == MarkStale(s1, hit)
           u == RebindActiveTask(BindTaskEvent(m))
           key == <<snap.current.repo, branch>>
<1>1. /\ snap.events < MaxEvents /\ Commit(u)
      /\ None \notin {snap.current.repo, snap.current.branch}
      /\ branch # snap.current.branch
  BY DEF BranchChange, Derives
<1>2. Good(snap) /\ Fields \subseteq DOMAIN snap /\ CurrentTyped(snap) /\ PathsTyped(snap)
  BY DEF IInv, Good
<1>3. /\ moved.current = [snap.current EXCEPT !.branch = branch, !.commit = commit]
      /\ moved.paths = snap.paths /\ moved.bindings = snap.bindings
      /\ moved.events = snap.events /\ Keeps(snap, moved)
  BY <1>2 DEF Fields, Keeps
<1> HIDE DEF moved
<1>4. /\ moved.current.repo = snap.current.repo /\ moved.current.task = snap.current.task
      /\ moved.current.branch = branch /\ moved.current.commit = commit
      /\ CurrentTyped(moved)
  BY <1>2, <1>3 DEF CurrentTyped, MaybeBranches, MaybeCommits
<1>5. Good(moved) /\ Advances(snap, moved) /\ moved.clock = snap.clock
  BY <1>2, <1>3, KeepsAdvances DEF Good, Keeps, EpochsOK
<1>6. key \in BranchKeys /\ None # branch
  BY <1>1, <1>2, NoneAssumption DEF BranchKeys, CurrentTyped, MaybeRepos
<1>7. /\ Fields \subseteq DOMAIN s1 /\ Advances(moved, s1)
      /\ s1.current = moved.current /\ s1.paths = snap.paths /\ s1.bindings = snap.bindings
      /\ s1.events = snap.events /\ s1.branchEpoch[key] = snap.clock + 1
  <2>1. moved.current.repo = snap.current.repo /\ moved.current.branch = branch
    BY <1>4
  <2>2. <<moved.current.repo, moved.current.branch>> = key
    BY <2>1
  <2>3. None \notin {moved.current.repo, moved.current.branch}
    BY <1>1, <1>6, <2>1
  <2> HIDE DEF hit, m, u, key
  <2>4. /\ Fields \subseteq DOMAIN s1
        /\ s1.current = moved.current /\ s1.paths = moved.paths
        /\ s1.bindings = moved.bindings /\ s1.events = moved.events
        /\ s1.branchEpoch[key] = moved.clock + 1
    BY <1>5, <1>6, <2>2, <2>3, EnterBranchIs
  <2>5. Advances(moved, s1)
    BY <1>5, EnterBranchAdvances
  <2> QED
    BY <1>3, <1>5, <2>4, <2>5
<1> HIDE DEF s1, hit
<1>8. /\ SameScope(s1, m) /\ DOMAIN m.bindings = DOMAIN snap.bindings
      /\ \A x \in DOMAIN snap.bindings :
            m.bindings[x] = IF x \in hit /\ snap.bindings[x].status = "active"
                            THEN Marked(snap.bindings[x], "stale") ELSE snap.bindings[x]
  BY <1>7, MarkStaleIs
<1> HIDE DEF m, key
<1>9. /\ m.current = moved.current /\ m.paths = snap.paths /\ m.events = snap.events
      /\ m.branchEpoch[key] = snap.clock + 1
      /\ \A b : MatchesCurrent(m, b) <=> MatchesCurrent(s1, b)
  BY <1>7, <1>8, ScopeDecides DEF SameScope, Keeps
<1>10. Advances(snap, m)
  <2>1. Advances(s1, m)
    BY <1>7, <1>8, KeepsAdvances DEF SameScope, Advances
  <2> QED
    BY <1>2, <1>5, <1>7, <2>1, AdvancesTransitive
<1>11. Mid(snap, m)
  BY <1>2, <1>4, <1>8, <1>9, <1>10 DEF Mid, CurrentTyped, PathsTyped
<1>12. ASSUME NEW id \in DOMAIN snap.bindings, id \notin hit, snap.bindings[id].status = "active"
       PROVE  Holds(snap, m, snap.bindings[id])
  <2> DEFINE b == snap.bindings[id]
  <2>1. /\ Nested(b.gates) /\ EpochsBehind(snap, b) /\ Known(snap, b) /\ Abides(snap, b)
        /\ b.path # None => "commit" \in b.gates
    BY <1>12 DEF IInv, Stands, Shaped
  <2>2. "branch" \in b.gates /\ b.repo = snap.current.repo => MatchesCurrent(m, b)
    BY <1>4, <1>7, <1>9, <1>12 DEF LeftBehind, hit
  <2> HIDE DEF b
  <2>3. Known(m, b) /\ Abides(m, b)
    BY <1>4, <1>9, <2>1, <2>2 DEF Known, Abides
  <2>4. "branch" \notin b.gates => (InScope(m, b) <=> InScope(snap, b))
    BY <1>4, <1>9, <2>1 DEF InScope, Nested, PathCurrent
  <2>5. "branch" \in b.gates => ~InScope(snap, b)
    BY <1>1, <1>4, <1>9, <2>1, <2>2 DEF InScope, MatchesCurrent, Nested
\* What comes into scope awaited the branch, and its epoch is older than the new one.
  <2>6. ASSUME "branch" \in b.gates, InScope(m, b)
        PROVE  NeverEntered(snap, b)
    <3>1. MatchesCurrent(m, b) /\ b.repo = snap.current.repo
      BY <1>4, <1>9, <2>1, <2>6 DEF InScope, Nested
    <3>2. /\ key = <<b.repo, b.branch>> /\ b.branchEpoch \in {0, BranchEpoch(m, b)}
          /\ b.branch = branch
      BY <1>4, <1>9, <3>1 DEF MatchesCurrent, key
    <3>3. m.branchEpoch[key] \in Nat /\ snap.clock < m.branchEpoch[key]
      BY <1>2, <1>9 DEF Good, EpochsOK
    <3>4. b.branchEpoch = 0
      BY <1>2, <1>6, <2>1, <3>2, <3>3, DrawnSince
    <3>5. Awaits(snap, b)
      BY <1>1, <2>1, <2>6, <3>1, <3>2 DEF Abides, MatchesCurrent
    <3> QED
      BY <1>6, <2>6, <3>2, <3>4, <3>5 DEF Awaits, NeverEntered
  <2>7. Holds(snap, m, b)
    BY <2>3, <2>4, <2>5, <2>6 DEF Holds
  <2> QED
    BY <2>7 DEF b
<1>13. \A id \in DOMAIN snap.bindings : Turned(snap, m, snap.bindings[id], m.bindings[id])
  BY <1>8, <1>11, <1>12, ScopeTurns
<1>14. Grows(m, u)
  BY <1>1, <1>11, GrowsRebind
<1> HIDE DEF u
<1>15. Step(snap, u)
  BY <1>1, <1>11, <1>13, <1>14, MidStep
<1> QED
  BY <1>1, <1>15

LEMMA CommitChangeSteps ==
    ASSUME IInv(snap), NEW commit \in Commits, CommitChange(commit)
    PROVE  snap.events < MaxEvents /\ \E u : Step(snap, u) /\ Commit(u)
<1> DEFINE here(k) == k[1] = snap.current.repo /\ k[2] = snap.current.branch
           moved == [snap EXCEPT !.current.commit = commit]
           s1 == EnterCommit(moved)
           ps == [k \in PathKeys |->
                     IF here(k) /\ s1.paths[k].status = "active" /\ s1.paths[k].commit # commit
                     THEN Marked(s1.paths[k], "stale") ELSE s1.paths[k]]
           s2 == [s1 EXCEPT !.paths = ps]
           hit == {id \in LeftBehind(s2) : s2.bindings[id].branch = s2.current.branch}
           m == MarkStale(s2, hit)
           u == RebindActiveTask(BindTaskEvent(m))
           key == <<snap.current.repo, snap.current.branch, commit>>
<1>1. /\ snap.events < MaxEvents /\ Commit(u)
      /\ None \notin {snap.current.repo, snap.current.branch, snap.current.commit}
      /\ commit # snap.current.commit
  BY DEF CommitChange, Derives
<1>2. Good(snap) /\ Fields \subseteq DOMAIN snap /\ CurrentTyped(snap) /\ PathsTyped(snap)
  BY DEF IInv, Good
<1>3. /\ moved.current = [snap.current EXCEPT !.commit = commit]
      /\ moved.paths = snap.paths /\ moved.bindings = snap.bindings
      /\ moved.events = snap.events /\ Keeps(snap, moved)
  BY <1>2 DEF Fields, Keeps
<1> HIDE DEF moved
<1>4. /\ moved.current.repo = snap.current.repo /\ moved.current.task = snap.current.task
      /\ moved.current.branch = snap.current.branch /\ moved.current.commit = commit
      /\ CurrentTyped(moved)
  BY <1>2, <1>3 DEF CurrentTyped
<1>5. Good(moved) /\ Advances(snap, moved) /\ moved.clock = snap.clock
  BY <1>2, <1>3, KeepsAdvances DEF Good, Keeps, EpochsOK
<1>6. /\ Fields \subseteq DOMAIN s1 /\ Advances(moved, s1)
      /\ s1.current = moved.current /\ s1.paths = snap.paths /\ s1.bindings = snap.bindings
      /\ s1.events = snap.events
      /\ s1.branchEpoch = snap.branchEpoch /\ s1.pathEpoch = snap.pathEpoch
      /\ \A k \in CommitKeys :
            s1.commitEpoch[k] = IF k = key THEN snap.clock + 1 ELSE snap.commitEpoch[k]
  <2>1. /\ <<moved.current.repo, moved.current.branch, moved.current.commit>> = key
        /\ None \notin {moved.current.repo, moved.current.branch, moved.current.commit}
    BY <1>1, <1>4, NoneAssumption
  <2>2. \A k \in CommitKeys :
           s1.commitEpoch[k] = IF k = key THEN moved.clock + 1 ELSE moved.commitEpoch[k]
    <3> HIDE DEF key
    <3> QED
      BY <1>5, <2>1, EnterCommitDraws
  <2>3. \A k \in CommitKeys :
           s1.commitEpoch[k] = IF k = key THEN snap.clock + 1 ELSE snap.commitEpoch[k]
    <3> HIDE DEF key, s1
    <3> QED
      BY <1>3, <1>5, <2>2 DEF Keeps
  <2> QED
    BY <1>3, <1>5, <2>3, EnterCommitIs, EnterCommitAdvances DEF Good, Keeps
<1> HIDE DEF s1, key
<1>7. /\ ps \in [PathKeys -> PathStates]
      /\ \A k \in PathKeys : snap.paths[k].status = "invalidated" => ps[k] = snap.paths[k]
  <2>1. \A k \in PathKeys : s1.paths[k] \in PathStates
    BY <1>2, <1>6 DEF PathsTyped, PathStates
  <2>2. \A k \in PathKeys : Marked(s1.paths[k], "stale") \in PathStates
    BY <2>1, MarkedPath DEF Statuses
  <2> QED
    BY <1>6, <2>1, <2>2
<1>8. /\ Keeps(s1, s2) /\ s2.current = moved.current /\ s2.bindings = snap.bindings
      /\ s2.events = snap.events /\ s2.paths = ps
  BY <1>6 DEF Keeps, Fields
<1> HIDE DEF ps, s2, hit
<1>9. /\ SameScope(s2, m) /\ DOMAIN m.bindings = DOMAIN snap.bindings
      /\ \A x \in DOMAIN snap.bindings :
            m.bindings[x] = IF x \in hit /\ snap.bindings[x].status = "active"
                            THEN Marked(snap.bindings[x], "stale") ELSE snap.bindings[x]
  BY <1>8, MarkStaleIs DEF Keeps
<1> HIDE DEF m
<1>10. /\ m.current = moved.current /\ m.paths = ps /\ m.events = snap.events
       /\ m.branchEpoch = snap.branchEpoch /\ m.commitEpoch = s1.commitEpoch
       /\ \A b : MatchesCurrent(m, b) <=> MatchesCurrent(s2, b)
  BY <1>6, <1>8, <1>9, ScopeDecides DEF SameScope, Keeps
<1>11. Advances(snap, m)
  <2>1. Advances(s1, s2)
    BY <1>6, <1>8, KeepsAdvances DEF Advances
  <2>2. Advances(s2, m)
    BY <1>9, <2>1, KeepsAdvances DEF SameScope, Advances
  <2> QED
    BY <1>2, <1>5, <1>6, <2>1, <2>2, AdvancesTransitive
<1>12. Mid(snap, m)
  BY <1>4, <1>7, <1>9, <1>10, <1>11 DEF Mid, CurrentTyped, PathsTyped, PathStates
<1>13. ASSUME NEW id \in DOMAIN snap.bindings, id \notin hit, snap.bindings[id].status = "active"
       PROVE  Holds(snap, m, snap.bindings[id])
  <2> DEFINE b == snap.bindings[id]
  <2>1. /\ Nested(b.gates) /\ EpochsBehind(snap, b) /\ Known(snap, b) /\ Abides(snap, b)
        /\ b.path # None => "commit" \in b.gates
    BY <1>13 DEF IInv, Stands, Shaped
  <2>2. "branch" \in b.gates /\ b.repo = snap.current.repo /\ b.branch = snap.current.branch
           => MatchesCurrent(m, b)
    BY <1>4, <1>8, <1>10, <1>13 DEF LeftBehind, hit
  <2> HIDE DEF b
  <2>3. BranchEpoch(m, b) = BranchEpoch(snap, b)
    BY <1>10 DEF BranchEpoch
\* The epochs of other branches stay.
  <2>4. ASSUME "branch" \in b.gates, b.repo = snap.current.repo
        PROVE  MatchesCurrent(m, b) \/ Awaits(m, b)
    <3>1. CASE b.branch = snap.current.branch
      BY <2>2, <2>4, <3>1
    <3>2. CASE b.branch # snap.current.branch
      <4>1. CommitEpoch(m, b) = CommitEpoch(snap, b)
        BY <1>6, <1>10, <3>2 DEF CommitEpoch, key
      <4>2. Awaits(snap, b)
        BY <2>1, <2>4, <3>2 DEF Abides, MatchesCurrent
      <4> QED
        BY <1>4, <1>10, <2>3, <3>2, <4>1, <4>2 DEF Awaits
    <3> QED
      BY <3>1, <3>2
  <2>5. Known(m, b) /\ Abides(m, b)
    BY <1>4, <1>10, <2>1, <2>4 DEF Known, Abides
  <2>6. "branch" \notin b.gates => (InScope(m, b) <=> InScope(snap, b))
    BY <1>4, <1>10, <2>1 DEF InScope, Nested, PathCurrent
\* A gate on the commit cannot be passed before and after.
  <2>7. "branch" \in b.gates /\ InScope(snap, b) => InScope(m, b)
    <3> SUFFICES ASSUME "branch" \in b.gates, InScope(snap, b)
                 PROVE  InScope(m, b)
      OBVIOUS
    <3>1. MatchesCurrent(snap, b) /\ b.repo = snap.current.repo
      BY <2>1 DEF InScope, Nested
    <3>2. MatchesCurrent(m, b)
      BY <2>2, <3>1 DEF MatchesCurrent
    <3>3. "commit" \notin b.gates
      BY <1>1, <1>4, <1>10, <3>1, <3>2 DEF MatchesCurrent
    <3> QED
      BY <1>4, <1>10, <2>1, <3>2, <3>3 DEF InScope, PathCurrent
\* What comes into scope awaited the commit, and its epoch is older than the new one.
  <2>8. ASSUME "branch" \in b.gates, InScope(m, b)
        PROVE  InScope(snap, b) \/ NeverEntered(snap, b)
    <3>1. MatchesCurrent(m, b) /\ b.repo = snap.current.repo /\ b.branch = snap.current.branch
      BY <1>4, <1>10, <2>1, <2>8 DEF InScope, Nested, MatchesCurrent
    <3>2. CASE "commit" \notin b.gates
      <4>1. MatchesCurrent(snap, b) /\ b.path = None
        BY <1>4, <1>10, <2>1, <2>3, <3>1, <3>2 DEF MatchesCurrent
      <4> QED
        BY <1>4, <1>10, <2>8, <4>1 DEF InScope, PathCurrent
    <3>3. CASE "commit" \in b.gates
      <4>1. b.commit = commit /\ b.commitEpoch \in {0, CommitEpoch(m, b)}
        BY <1>4, <1>10, <3>1, <3>3 DEF MatchesCurrent
      <4>2. Awaits(snap, b)
        BY <1>1, <2>1, <2>8, <3>1, <3>3, <4>1 DEF Abides, MatchesCurrent
      <4>3. b.commitEpoch = 0
        <5>1. b.commitEpoch \in 0..snap.clock /\ snap.clock \in Nat
          BY <1>2, <2>1 DEF EpochsBehind, Good, EpochsOK
        <5>2. <<b.repo, b.branch, b.commit>> = key
          BY <3>1, <4>1 DEF key
        <5>3. CommitEpoch(m, b) \in {0, snap.clock + 1}
          BY <1>6, <1>10, <5>2 DEF CommitEpoch
        <5> QED
          BY <4>1, <5>1, <5>3
      <4>4. b.commit # None
        BY <4>1, NoneAssumption
      <4> QED
        BY <2>8, <3>3, <4>2, <4>3, <4>4 DEF Awaits, NeverEntered
    <3> QED
      BY <3>2, <3>3
  <2>9. Holds(snap, m, b)
    BY <2>5, <2>6, <2>7, <2>8 DEF Holds
  <2> QED
    BY <2>9 DEF b
<1>14. \A id \in DOMAIN snap.bindings : Turned(snap, m, snap.bindings[id], m.bindings[id])
  BY <1>9, <1>12, <1>13, ScopeTurns
<1>15. Grows(m, u)
  BY <1>1, <1>12, GrowsRebind
<1> HIDE DEF u
<1>16. Step(snap, u)
  BY <1>1, <1>12, <1>14, <1>15, MidStep
<1> QED
  BY <1>1, <1>16

LEMMA TaskStartedSteps ==
    ASSUME IInv(snap), NEW repo \in Repos, NEW branch \in Branches, NEW commit \in MaybeCommits,
           TaskStarted(repo, branch, commit)
    PROVE  snap.events < MaxEvents /\ \E u : Step(snap, u) /\ Commit(u)
<1> DEFINE t == NextId(snap, "T")
           over == Ended(snap, repo)
           s1 == MarkStale(snap, over)
           moved == [s1 EXCEPT !.current = [repo |-> repo, task |-> t,
                                            branch |-> branch, commit |-> commit]]
           ticked == [moved EXCEPT !.clock = @ + 1]
           s2 == EnterRepo(moved)
           left == {id \in DOMAIN s2.bindings : /\ "branch" \in s2.bindings[id].gates
                                                /\ ~MatchesCurrent(s2, s2.bindings[id])}
           m == MarkStale(s2, left)
           e == BindTaskEvent(m)
           u == BindRecord(e, t, GatesOf("task"), {})
           key == <<repo, branch>>
           hit == over \cup left
<1>1. snap.events < MaxEvents /\ Commit(u)
  BY DEF TaskStarted, Derives
<1>2. Good(snap) /\ Fields \subseteq DOMAIN snap /\ CurrentTyped(snap) /\ PathsTyped(snap)
      /\ snap.clock \in Nat
  BY DEF IInv, Good, EpochsOK
<1>3. t \in Ids
  BY <1>1, NextIds, BoundFinite DEF IInv, Allocated
<1> HIDE DEF t, over
<1>4. /\ SameScope(snap, s1) /\ DOMAIN s1.bindings = DOMAIN snap.bindings
      /\ \A x \in DOMAIN snap.bindings :
            s1.bindings[x] = IF x \in over /\ snap.bindings[x].status = "active"
                             THEN Marked(snap.bindings[x], "stale") ELSE snap.bindings[x]
  BY <1>2, MarkStaleIs
<1> HIDE DEF s1
<1>5. /\ moved.current = [repo |-> repo, task |-> t, branch |-> branch, commit |-> commit]
      /\ moved.paths = snap.paths /\ moved.bindings = s1.bindings
      /\ moved.events = snap.events /\ Keeps(snap, moved)
  BY <1>4 DEF SameScope, Fields, Keeps
<1> HIDE DEF moved
<1>6. /\ Fields \subseteq DOMAIN ticked /\ ticked.clock = snap.clock + 1
      /\ ticked.current = moved.current /\ ticked.paths = snap.paths
      /\ ticked.bindings = s1.bindings /\ ticked.events = snap.events
      /\ ticked.pathEpoch = snap.pathEpoch /\ ticked.branchEpoch = snap.branchEpoch
      /\ ticked.commitEpoch = snap.commitEpoch
  BY <1>5 DEF Fields, Keeps
<1> HIDE DEF ticked
<1>7. Advances(snap, ticked) /\ Good(ticked)
  BY <1>2, <1>6, TickAdvances DEF Advances
<1>8. /\ moved.current.repo = repo /\ moved.current.task = t
      /\ moved.current.branch = branch /\ moved.current.commit = commit
      /\ CurrentTyped(moved) /\ None \notin {repo, branch} /\ key \in BranchKeys
  BY <1>3, <1>5, NoneAssumption DEF CurrentTyped, MaybeRepos, MaybeBranches, MaybeCommits, BranchKeys
<1>9. s2 = EnterBranch(ticked)
  <2>1. moved.current.repo # None
    BY <1>8
  <2> QED
    BY <2>1 DEF EnterRepo, ticked
<1>10. /\ Fields \subseteq DOMAIN s2 /\ Advances(ticked, s2)
       /\ s2.current = moved.current /\ s2.paths = snap.paths /\ s2.bindings = s1.bindings
       /\ s2.events = snap.events /\ s2.pathEpoch = snap.pathEpoch
       /\ s2.branchEpoch[key] = snap.clock + 1 + 1
  BY <1>6, <1>7, <1>8, <1>9, EnterBranchIs, EnterBranchAdvances
<1> HIDE DEF s2, left
<1>11. /\ SameScope(s2, m) /\ DOMAIN m.bindings = DOMAIN snap.bindings
       /\ \A x \in DOMAIN snap.bindings :
             m.bindings[x] = IF x \in left /\ s1.bindings[x].status = "active"
                             THEN Marked(s1.bindings[x], "stale") ELSE s1.bindings[x]
  BY <1>4, <1>10, MarkStaleIs
<1> HIDE DEF m, key
<1>12. /\ m.current = moved.current /\ m.paths = snap.paths /\ m.events = snap.events
       /\ m.pathEpoch = snap.pathEpoch
       /\ m.branchEpoch[key] = snap.clock + 1 + 1
       /\ \A b : MatchesCurrent(m, b) <=> MatchesCurrent(s2, b)
  BY <1>10, <1>11, ScopeDecides DEF SameScope, Keeps
<1>13. Advances(snap, m)
  <2>1. Advances(s2, m)
    BY <1>10, <1>11, KeepsAdvances DEF SameScope, Advances
  <2> QED
    BY <1>2, <1>7, <1>10, <2>1, AdvancesTransitive
<1>14. Mid(snap, m)
  BY <1>2, <1>8, <1>11, <1>12, <1>13 DEF Mid, CurrentTyped, PathsTyped
<1>15. ASSUME NEW id \in DOMAIN snap.bindings
       PROVE  /\ id \in over /\ snap.bindings[id].status = "active"
                    => s1.bindings[id].status = "stale"
              /\ id \notin over => s1.bindings[id] = snap.bindings[id]
  <2>1. Marked(snap.bindings[id], "stale").status = "stale"
    BY <1>2, MarkedStands, KeepsAdvances DEF IInv, Keeps, Good
  <2> QED
    BY <1>4, <2>1
<1>16. \A id \in DOMAIN snap.bindings :
          m.bindings[id] = IF id \in hit /\ snap.bindings[id].status = "active"
                           THEN Marked(snap.bindings[id], "stale") ELSE snap.bindings[id]
  <2> SUFFICES ASSUME NEW id \in DOMAIN snap.bindings
               PROVE  m.bindings[id] = IF id \in hit /\ snap.bindings[id].status = "active"
                                       THEN Marked(snap.bindings[id], "stale")
                                       ELSE snap.bindings[id]
    OBVIOUS
  <2>1. CASE id \in over /\ snap.bindings[id].status = "active"
    BY <1>4, <1>11, <1>15, <2>1
  <2>2. CASE ~(id \in over /\ snap.bindings[id].status = "active")
    BY <1>4, <1>11, <2>2
  <2> QED
    BY <2>1, <2>2
<1>17. ASSUME NEW id \in DOMAIN snap.bindings, id \notin hit, snap.bindings[id].status = "active"
       PROVE  Holds(snap, m, snap.bindings[id])
  <2> DEFINE b == snap.bindings[id]
  <2>1. /\ Nested(b.gates) /\ EpochsBehind(snap, b) /\ Known(snap, b) /\ Abides(snap, b)
        /\ b.path # None => "commit" \in b.gates
    BY <1>17 DEF IInv, Stands, Shaped
  <2>2. "task" \notin b.gates /\ (b.gates # {} => snap.current.repo = repo)
    BY <1>17 DEF over, Ended
  <2>3. "branch" \in b.gates => MatchesCurrent(m, b)
    <3>1. s2.bindings[id] = b /\ id \in DOMAIN s2.bindings
      BY <1>4, <1>10, <1>15, <1>17
    <3> QED
      BY <1>12, <1>17, <3>1 DEF left
  <2> HIDE DEF b
  <2>4. Known(m, b) /\ Abides(m, b)
    BY <1>8, <2>1, <2>2, <2>3 DEF Known, Abides
  <2>5. PathCurrent(m, b) <=> PathCurrent(snap, b)
    BY <1>12 DEF PathCurrent, PathEpoch, TerminalOverlap
  <2>6. InScope(snap, b) => InScope(m, b)
    BY <1>8, <1>12, <2>2, <2>3, <2>5 DEF InScope
\* What comes into scope awaited the branch, and its epoch is older than the new one.
  <2>7. ASSUME "branch" \in b.gates, InScope(m, b)
        PROVE  InScope(snap, b) \/ NeverEntered(snap, b)
    <3>1. MatchesCurrent(m, b) /\ b.repo = repo /\ b.repo = snap.current.repo
      BY <1>8, <1>12, <2>1, <2>2, <2>7 DEF InScope, Nested
    <3>2. /\ key = <<b.repo, b.branch>> /\ b.branchEpoch \in {0, BranchEpoch(m, b)}
          /\ b.branch = branch
      BY <1>8, <1>12, <3>1 DEF MatchesCurrent, key
    <3>3. m.branchEpoch[key] \in Nat /\ snap.clock < m.branchEpoch[key]
      BY <1>2, <1>12
    <3>4. b.branchEpoch = 0
      BY <1>2, <1>8, <2>1, <3>2, <3>3, DrawnSince
    <3>5. CASE MatchesCurrent(snap, b)
      BY <2>2, <2>5, <2>7, <3>1, <3>5 DEF InScope
    <3>6. CASE Awaits(snap, b)
      BY <1>8, <2>7, <3>2, <3>4, <3>6 DEF Awaits, NeverEntered
    <3> QED
      BY <2>1, <2>7, <3>1, <3>5, <3>6 DEF Abides
  <2>8. "branch" \notin b.gates /\ InScope(m, b) => InScope(snap, b)
    BY <1>8, <1>12, <2>2, <2>5 DEF InScope
  <2>9. Holds(snap, m, b)
    BY <2>4, <2>6, <2>7, <2>8 DEF Holds
  <2> QED
    BY <2>9 DEF b
<1> HIDE DEF hit
<1>18. \A id \in DOMAIN snap.bindings : Turned(snap, m, snap.bindings[id], m.bindings[id])
  BY <1>14, <1>16, <1>17, ScopeTurns
<1>19. Grows(m, e)
  BY <1>1, <1>14, GrowsFromItself, GrowsTaskEvent
<1> HIDE DEF e
<1>20. Grows(m, u)
  <2>1. \E kind \in Allocated : t = NextId(snap, kind)
    BY DEF t, Allocated
  <2> QED
    BY <1>1, <1>14, <1>19, <2>1, GrowsTaskRecord
<1> HIDE DEF u
<1>21. Step(snap, u)
  BY <1>1, <1>14, <1>18, <1>20, MidStep
<1> QED
  BY <1>1, <1>21

-----------------------------------------------------------------------------
(* What the properties see of a transaction.                               *)

LEMMA CommitGives ==
    ASSUME IInv(snap), NEW u, Step(snap, u), Commit(u), snap.events < MaxEvents
    PROVE  /\ snap'.current = u.current /\ snap'.paths = u.paths /\ snap'.bindings = u.bindings
           /\ \A b : (InScope(snap', b) <=> InScope(u, b))
           /\ Eligible(snap') = Eligible(u)
           /\ Bound \subseteq DOMAIN u.bindings
           /\ \A id \in Bound : Stands(snap, snap.bindings[id])
           /\ \A id \in Bound : snap.bindings[id].evidence # EventId(snap)
<1>1. Fields \subseteq DOMAIN u /\ IsFiniteSet(DOMAIN u.bindings)
  BY StepFinite DEF Step, Advances, Good
<1>2. \A id \in Bound : id \in DOMAIN u.bindings /\ Stands(snap, snap.bindings[id])
  BY DEF Step, Old, Bound, IInv
<1>3. ASSUME NEW id \in Bound
      PROVE  snap.bindings[id].evidence # EventId(snap)
  <2>1. snap.bindings[id].evidence \in EventIds(snap.events) /\ snap.events \in Nat
    BY MaxEventsAssumption DEF IInv, Bound, IdsOK
  <2> QED
    BY <2>1 DEF EventIds, EventId
<1> QED
  BY <1>1, <1>2, <1>3, CommitIs

\* What an old binding that is not doomed may become, as the properties see it.
LEMMA TurnedIs ==
    ASSUME NEW s, NEW u, IInv(s), s.events < MaxEvents, Step(s, u),
           NEW b, Stands(s, b), NEW c, Turned(s, u, b, c)
    PROVE  \/ c = b /\ (b.status = "active" => Holds(s, u, b))
           \/ b.status = "active" /\ c.status = "stale" /\ c.evidence = b.evidence
           \/ c.status = "active" /\ c.evidence = EventId(s) /\ InScope(u, c) /\ c.refs = {}
           \/ /\ b.status = "stale" /\ c.status = "active" /\ InScope(u, c)
              /\ c.refs \subseteq Eligible(u) /\ u.current = s.current
<1>1. Good(s) /\ Good(u) /\ CurrentTyped(u) /\ Advances(s, u)
  BY DEF Step, Advances, IInv
<1>2. CASE b.status = "active" /\ c = Marked(b, "stale")
  BY <1>1, <1>2, MarkedStands
<1>3. CASE c = TaskBinding(u)
  <2>1. EventId(u) = EventId(s) /\ EventId(u) \in Ids
    BY NextIds, BoundFinite DEF IInv, EventId, Step
  <2> QED
    BY <1>1, <1>3, <2>1, TaskBindingIs
<1>4. CASE b.status = "stale" /\ u.current = s.current /\ c = Retargeted(u, b) /\ Grounded(u, b)
  BY <1>1, <1>4, RetargetedStands DEF Grounded
<1> QED
  BY <1>2, <1>3, <1>4 DEF Turned

LEMMA StepTerminates ==
    ASSUME IInv(snap), NEW u, Step(snap, u), Commit(u), snap.events < MaxEvents
    PROVE  /\ \A id \in Bound : snap.bindings[id].status = "invalidated" =>
                 snap'.bindings[id] = snap.bindings[id] \/ Rebound(id)
           /\ \A k \in PathKeys : snap.paths[k].status = "invalidated" =>
                 snap'.paths[k] = snap.paths[k]
<1>1. ASSUME NEW id \in Bound, snap.bindings[id].status = "invalidated"
      PROVE  snap'.bindings[id] = snap.bindings[id] \/ Rebound(id)
  <2> DEFINE b == snap.bindings[id]
             c == u.bindings[id]
  <2>1. Turned(snap, u, b, c)
    BY <1>1 DEF Step, Old, Bound, Valid
  <2>2. Stands(snap, b) /\ b.evidence # EventId(snap) /\ snap'.bindings = u.bindings
    BY CommitGives
  <2>3. c = b \/ c.evidence = EventId(snap)
    BY <1>1, <2>1, <2>2, TurnedIs
  <2> QED
    BY <2>2, <2>3 DEF Rebound
<1>2. ASSUME NEW k \in PathKeys, snap.paths[k].status = "invalidated"
      PROVE  snap'.paths[k] = snap.paths[k]
  BY <1>2, CommitGives DEF Step
<1> QED
  BY <1>1, <1>2

LEMMA StepCascades ==
    ASSUME IInv(snap), NEW u, Step(snap, u), Commit(u), snap.events < MaxEvents
    PROVE  \A id, dep \in Bound :
              /\ snap.bindings[id].status # "invalidated"
              /\ snap'.bindings[id].status = "invalidated"
              /\ (id \in snap.bindings[dep].refs \/ snap.bindings[dep].evidence = id)
              => snap'.bindings[dep].status = "invalidated"
<1>1. PICK doomed \in SUBSET Valid(snap) :
        /\ Closed(snap, doomed)
        /\ \A id \in DOMAIN snap.bindings :
              /\ id \in DOMAIN u.bindings
              /\ IF id \in doomed THEN u.bindings[id] = Marked(snap.bindings[id], "invalidated")
                 ELSE /\ Turned(snap, u, snap.bindings[id], u.bindings[id])
                      /\ doomed # {} => u.bindings[id] = snap.bindings[id]
  BY DEF Step, Old
<1> SUFFICES ASSUME NEW id \in Bound, NEW dep \in Bound,
                    snap.bindings[id].status # "invalidated",
                    snap'.bindings[id].status = "invalidated",
                    id \in snap.bindings[dep].refs \/ snap.bindings[dep].evidence = id
             PROVE  snap'.bindings[dep].status = "invalidated"
  OBVIOUS
<1>2. /\ snap'.bindings = u.bindings
      /\ Stands(snap, snap.bindings[id]) /\ Stands(snap, snap.bindings[dep])
  BY CommitGives
<1>3. id \in doomed
  <2>1. CASE id \notin doomed
    <3>1. Turned(snap, u, snap.bindings[id], u.bindings[id])
      BY <1>1, <2>1 DEF Bound
    <3> QED
      BY <1>2, <3>1, TurnedIs
  <2> QED
    BY <2>1
<1>4. CASE dep \in doomed
  <2>1. u.bindings[dep] = Marked(snap.bindings[dep], "invalidated")
    BY <1>1, <1>4 DEF Bound
  <2>2. Good(snap) /\ Advances(snap, u)
    BY DEF IInv, Step
  <2> QED
    BY <1>2, <2>1, <2>2, MarkedStands
<1>5. CASE dep \notin doomed
  <2>1. snap.bindings[dep].status = "invalidated"
    BY <1>1, <1>3, <1>5 DEF Closed, Follows, Valid, Bound
  <2>2. u.bindings[dep] = snap.bindings[dep]
    BY <1>1, <1>3, <1>5 DEF Bound
  <2> QED
    BY <1>2, <2>1, <2>2
<1> QED
  BY <1>4, <1>5

LEMMA StepRevalidates ==
    ASSUME IInv(snap), NEW u, Step(snap, u), Commit(u), snap.events < MaxEvents
    PROVE  \A id \in Bound :
              /\ snap.bindings[id].status = "stale" /\ snap'.bindings[id].status = "active"
              => id \in Eligible(snap')
<1> SUFFICES ASSUME NEW id \in Bound,
                    snap.bindings[id].status = "stale", snap'.bindings[id].status = "active"
             PROVE  id \in Eligible(snap')
  OBVIOUS
<1> DEFINE b == snap.bindings[id]
           c == u.bindings[id]
<1>1. /\ Stands(snap, b) /\ snap'.bindings = u.bindings /\ Eligible(snap') = Eligible(u)
      /\ id \in DOMAIN u.bindings
  BY CommitGives
<1>2. Turned(snap, u, b, c)
  <2>1. c # Marked(b, "invalidated")
    BY <1>1, MarkedStands DEF IInv, Step
  <2> QED
    BY <2>1 DEF Step, Old, Bound
<1>3. c.status = "active" /\ InScope(u, c) /\ c.refs \subseteq Eligible(u)
  BY <1>1, <1>2, TurnedIs
<1>4. id \in Sound(u)
  BY <1>1, <1>3 DEF Sound
<1> QED
  BY <1>1, <1>3, <1>4, EligibleSettles, StepFinite

LEMMA StepLapses ==
    ASSUME IInv(snap), NEW u, Step(snap, u), Commit(u), snap.events < MaxEvents
    PROVE  \A id \in Bound :
              Live(snap, id) /\ ~InScope(snap', snap'.bindings[id])
                  => snap'.bindings[id].status # "active"
<1> SUFFICES ASSUME NEW id \in Bound, Live(snap, id), snap'.bindings[id].status = "active"
             PROVE  InScope(snap', snap'.bindings[id])
  OBVIOUS
<1> DEFINE b == snap.bindings[id]
           c == u.bindings[id]
<1>1. /\ Stands(snap, b) /\ snap'.bindings = u.bindings
      /\ (InScope(snap', c) <=> InScope(u, c))
  BY CommitGives
<1>2. Turned(snap, u, b, c)
  <2>1. c # Marked(b, "invalidated")
    BY <1>1, MarkedStands DEF IInv, Step
  <2> QED
    BY <2>1 DEF Step, Old, Bound
<1>3. InScope(u, c)
  BY <1>1, <1>2, TurnedIs DEF Live, Holds
<1> QED
  BY <1>1, <1>3

LEMMA StepRevivesNothing ==
    ASSUME IInv(snap), NEW u, Step(snap, u), Commit(u), snap.events < MaxEvents,
           snap'.current # snap.current
    PROVE  \A id \in Bound :
              Live(snap', id) => \/ Live(snap, id)
                                 \/ Rebound(id)
                                 \/ NeverEntered(snap, snap.bindings[id])
<1> SUFFICES ASSUME NEW id \in Bound, Live(snap', id), ~Rebound(id)
             PROVE  Live(snap, id) \/ NeverEntered(snap, snap.bindings[id])
  OBVIOUS
<1> DEFINE b == snap.bindings[id]
           c == u.bindings[id]
<1>1. /\ Stands(snap, b) /\ snap'.bindings = u.bindings /\ u.current = snap'.current
      /\ (InScope(snap', c) <=> InScope(u, c)) /\ b.evidence # EventId(snap)
  BY CommitGives
<1>2. c.status = "active" /\ InScope(u, c) /\ c.evidence = b.evidence
  BY <1>1 DEF Live, Rebound
<1>3. Turned(snap, u, b, c)
  <2>1. c # Marked(b, "invalidated")
    BY <1>1, <1>2, MarkedStands DEF IInv, Step
  <2> QED
    BY <2>1 DEF Step, Old, Bound
<1>4. c = b /\ Holds(snap, u, b)
  BY <1>1, <1>2, <1>3, TurnedIs
<1> QED
  BY <1>1, <1>2, <1>4 DEF Live, Holds

-----------------------------------------------------------------------------
(* Theorems.                                                               *)

\* An event that derives a record only binds.
LEMMA RecordGrows ==
    ASSUME IInv(snap), RecordEvent
    PROVE  snap.events < MaxEvents /\ \E u : Grows(snap, u) /\ Commit(u)
<1>1. \A input \in {"command_output", "decision", "avoid"} :
         \A e \in Envelopes[input] : e[1] \in MaybeBranches /\ e[2] \in MaybeCommits
  BY EnvelopesAssumption, EnvelopeIs
<1>2. CASE \E e \in Envelopes["command_output"], p \in Paths \cup {None} : CommandFails(e[1], e[2], p)
  BY <1>1, <1>2, CommandFailsGrows
<1>3. CASE \E scope \in Scopes, e \in Envelopes["decision"], refs \in RefChoices :
              Decision(scope, e[1], e[2], refs)
  BY <1>1, <1>3, DecisionGrows
<1>4. CASE \E scope \in Scopes, e \in Envelopes["avoid"], refs \in RefChoices, id \in Bound :
              DecisionWithAvoid(scope, e[1], e[2], refs, id)
  BY <1>1, <1>4, AvoidGrows
<1> QED
  BY <1>2, <1>3, <1>4, InstructionGrows, NextActionGrows DEF RecordEvent

\* Every event is a transaction that the invariant describes.
LEMMA NextSteps ==
    ASSUME IInv(snap), Next
    PROVE  snap.events < MaxEvents /\ \E u : Step(snap, u) /\ Commit(u)
<1>1. CASE ScopeEvent
  BY <1>1, TaskStartedSteps, BranchChangeSteps, CommitChangeSteps DEF ScopeEvent
<1>2. CASE PathEvent
  <2>1. \A e \in Envelopes["file_renamed"] : e[2] \in MaybeCommits
    BY EnvelopesAssumption, EnvelopeIs
  <2> QED
    BY <1>2, <2>1, FileSnapshotSteps, FileRenamedSteps, InvalidatePathSteps, RevalidatePathSteps
    DEF PathEvent
<1>3. CASE RecordEvent
  BY <1>3, RecordGrows, RecordSteps
<1>4. CASE StandingEvent
  BY <1>4, InvalidateSteps, RevalidateSteps DEF StandingEvent
<1> QED
  BY <1>1, <1>2, <1>3, <1>4 DEF Next

LEMMA InitStands ==
    ASSUME Init
    PROVE  IInv(snap)
<1>1. Good(snap)
  BY DEF Init, Good, Fields, EpochsOK
<1>2. CurrentTyped(snap) /\ PathsTyped(snap)
  BY DEF Init, CurrentTyped, PathsTyped, MaybeRepos, MaybeBranches, Statuses
<1>3. DOMAIN snap.bindings = {} /\ snap.events = 0
  BY DEF Init
<1>4. IdsOK(snap)
  <2>1. \A kind \in Allocated : OfKind(snap, kind) = {kind} \X (1..0)
    BY <1>3 DEF OfKind
  <2> QED
    BY <1>3, <2>1, MaxEventsAssumption DEF IdsOK, Numbered
<1> QED
  BY <1>1, <1>2, <1>3, <1>4 DEF IInv

\* Between events every binding is shaped by its gates, its epochs are behind the
\* clock, and what is active and gated by a branch of the current repository either
\* matches the current scope as it is now, or names another branch or commit in the
\* epochs that these still have (applyEvent marks what a transition leaves behind,
\* canonicalizeBindingScope and captureEpochs shape what it binds); the ids of a kind
\* are the first ones.
THEOREM InvariantStands == Spec => []IInv(snap)
<1>1. Init => IInv(snap)
  BY InitStands
<1>2. IInv(snap) /\ [Next]_snap => IInv(snap)'
  <2>1. CASE Next
    BY <2>1, NextSteps, StepKeeps
  <2>2. CASE UNCHANGED snap
    BY <2>2
  <2> QED
    BY <2>1, <2>2
<1> QED
  BY <1>1, <1>2, PTL DEF Spec

LEMMA IInvTyped ==
    ASSUME IInv(snap)
    PROVE  TypeOK
<1>1. DOMAIN snap.bindings \subseteq Ids
  BY BoundFinite
<1>2. \A id \in DOMAIN snap.bindings :
         /\ snap.bindings[id] \in Bindings
         /\ {snap.bindings[id].branchEpoch, snap.bindings[id].commitEpoch,
             snap.bindings[id].pathEpoch} \subseteq 0..snap.clock
  BY DEF IInv, Stands, Shaped, EpochsBehind
<1> QED
  BY <1>1, <1>2 DEF TypeOK, IInv, Good, CurrentTyped, PathsTyped, IdsOK, MaybeRepos, MaybeBranches

\* The snapshot of a session is of its type, with every epoch at or below the clock
\* and every id within what the events so far can have named.
THEOREM TypeCorrect == Spec => []TypeOK
  BY IInvTyped, InvariantStands, PTL

\* An event that takes a live binding out of scope takes its active status with it
\* (applyEvent), so only a revalidation, or its record emitted again, brings it back.
THEOREM LapsesAreStale == Spec => LapsedMeansStale
<1>1. IInv(snap) /\ [Next]_snap =>
        [\A id \in Bound :
            Live(snap, id) /\ ~InScope(snap', snap'.bindings[id])
                => snap'.bindings[id].status # "active"]_snap
  BY NextSteps, StepLapses
<1> QED
  BY <1>1, InvariantStands, PTL DEF Spec, LapsedMeansStale

\* No change of task, branch or commit makes live what was not, except what names,
\* from its envelope, a branch or a commit that is entered now for the first time: a
\* binding captured before a round trip stays behind it (enterCurrentScope draws new
\* epochs).
THEOREM RoundTripsReviveNothing == Spec => ScopeChangesReviveNothing
<1>1. IInv(snap) /\ [Next]_snap =>
        [snap'.current # snap.current =>
          \A id \in Bound :
              Live(snap', id) => \/ Live(snap, id)
                                 \/ Rebound(id)
                                 \/ NeverEntered(snap, snap.bindings[id])]_snap
  BY NextSteps, StepRevivesNothing
<1> QED
  BY <1>1, InvariantStands, PTL DEF Spec, ScopeChangesReviveNothing

\* What becomes active again is eligible at once: applyRevalidation repairs scope,
\* epochs and refs in the step that makes it active.
THEOREM RevalidationsHold == Spec => RevalidatedIsEligible
<1>1. IInv(snap) /\ [Next]_snap =>
        [\A id \in Bound :
            /\ snap.bindings[id].status = "stale" /\ snap'.bindings[id].status = "active"
            => id \in Eligible(snap')]_snap
  BY NextSteps, StepRevalidates
<1> QED
  BY <1>1, InvariantStands, PTL DEF Spec, RevalidatedIsEligible

\* Whatever depends on what ends in a step, by its refs or its evidence, has ended
\* when the step is over (cascadeInvalidation), at any depth.
THEOREM CascadesComplete == Spec => CascadeComplete
<1>1. IInv(snap) /\ [Next]_snap =>
        [\A id, dep \in Bound :
            /\ snap.bindings[id].status # "invalidated"
            /\ snap'.bindings[id].status = "invalidated"
            /\ (id \in snap.bindings[dep].refs \/ snap.bindings[dep].evidence = id)
            => snap'.bindings[dep].status = "invalidated"]_snap
  BY NextSteps, StepCascades
<1> QED
  BY <1>1, InvariantStands, PTL DEF Spec, CascadeComplete

\* An invalidated binding changes only if its record is emitted again, and an
\* invalidated path never does (terminalPathOverlap refuses the events that would).
THEOREM EndsAreFinal == Spec => TerminalUnlessEmittedAgain
<1>1. IInv(snap) /\ [Next]_snap =>
        [/\ \A id \in Bound : snap.bindings[id].status = "invalidated" =>
                snap'.bindings[id] = snap.bindings[id] \/ Rebound(id)
         /\ \A k \in PathKeys : snap.paths[k].status = "invalidated" =>
                snap'.paths[k] = snap.paths[k]]_snap
  BY NextSteps, StepTerminates
<1> QED
  BY <1>1, InvariantStands, PTL DEF Spec, TerminalUnlessEmittedAgain

\* The generation of a page never goes back, and while it stays the same no
\* component of the page's scope has moved (coherence.Generation, "a collision-free
\* summary"), whatever the repositories, branches, commits, paths and events are.
THEOREM EpochsAreTokens == Spec => GenerationsAreTokens
<1>1. ASSUME IInv(snap), Next
      PROVE  Good(snap) /\ Advances(snap, snap')
  <2>1. PICK u : Step(snap, u) /\ Commit(u)
    BY <1>1, NextSteps
  <2> QED
    BY <1>1, <2>1, CommitAdvances DEF IInv, Step
<1>2. IInv(snap) /\ [Next]_snap =>
        [\A d \in Descriptors :
            LET before == Epochs(snap, d)
                after == Epochs(snap', d)
            IN /\ Generation(before) <= Generation(after)
               /\ Generation(before) = Generation(after) => before = after]_snap
  BY <1>1, AdvanceMovesGeneration
<1> QED
  BY <1>2, InvariantStands, PTL DEF Spec, GenerationsAreTokens
=============================================================================
