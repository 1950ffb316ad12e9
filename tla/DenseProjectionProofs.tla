------------------------ MODULE DenseProjectionProofs ------------------------
(***************************************************************************)
(* Proofs about DenseProjection for every set of pages, events and denied  *)
(* tuples, every batch size and every bound: the five tables agree, what a *)
(* query can meet was computed from what its page holds now, and a worker  *)
(* that sleeps on missing pages has said so or is about to be woken.       *)
(***************************************************************************)
EXTENDS DenseProjection, FiniteSetTheorems, NaturalsInduction, TLAPS

RowsIn(D) == {D.map[p].row : p \in DOMAIN D.map}

\* The tables D describe the same pages, whatever the pages hold.
IsProjection(D) ==
    D = [map |-> D.map, rows |-> D.rows, vec |-> D.vec, shadow |-> D.shadow,
         suppressed |-> D.suppressed]
MapApart(D) ==
    /\ DOMAIN D.map \subseteq Pages
    /\ \A p \in DOMAIN D.map : D.map[p] \in [row : Nat \ {0}, version : Nat \ {0}]
    /\ \A p, q \in DOMAIN D.map : D.map[p].row = D.map[q].row => p = q
VectorsMapped(D) ==
    /\ DOMAIN D.vec = RowsIn(D)
    /\ \A p \in DOMAIN D.map :
          D.vec[D.map[p].row] = [page |-> p, version |-> D.map[p].version]
RowsMapped(D) ==
    /\ DOMAIN D.rows \subseteq RowsIn(D)
    /\ \A p \in DOMAIN D.map : D.map[p].row \in DOMAIN D.rows => D.rows[D.map[p].row] = p
ShadowsMapped(D) ==
    /\ DOMAIN D.shadow \subseteq DOMAIN D.map
    /\ \A p \in DOMAIN D.shadow : D.shadow[p] = [page |-> p, version |-> D.map[p].version]
SuppressedApart(D) ==
    /\ DOMAIN D.suppressed \subseteq Pages
    /\ DOMAIN D.map \cap DOMAIN D.suppressed = {}

Sound(D) ==
    /\ IsProjection(D) /\ MapApart(D) /\ VectorsMapped(D) /\ RowsMapped(D)
    /\ ShadowsMapped(D) /\ SuppressedApart(D)
Complete(D) == DOMAIN D.rows = RowsIn(D)

\* The tables D are of the contents c of the pages.
Matches(D, c) ==
    /\ \A p \in DOMAIN D.map : c[p] = [version |-> D.map[p].version, active |-> TRUE]
    /\ \A p \in DOMAIN D.suppressed :
          c[p] = [version |-> D.suppressed[p], active |-> TRUE]

Typed ==
    /\ pages \in [Pages -> PageStates]
    /\ \A p \in Pages : pages[p].active => pages[p].version # 0
    /\ seq \in 0..MaxSeq
    /\ phase \in {"closed", "opening", "open", "closing"}
    /\ owed \in BOOLEAN /\ wake \in BOOLEAN /\ degraded \in BOOLEAN
    /\ wpc \in WorkerPcs
    /\ batch \subseteq Records
    /\ faults \in Nat

\* Before the worker is started nobody owes it a wake.
NotStarted == phase \in {"closed", "opening"} => wpc = "none" /\ ~owed

\* What the worker has in hand has changed, or is missing, only if a wake is on
\* its way; or it has failed and says so.
Alerted == wake \/ owed
BatchIsFresh ==
    wpc \in {"embed", "store", "single"} => Alerted \/ \A rec \in batch : Current(rec)
DoneIsCovered == wpc = "ok" => Alerted \/ Missing = {}
SleepIsExcused ==
    wpc = "wait" => Alerted \/ Missing = {} \/ (faults > 0 /\ degraded)

Tables ==
    /\ Sound(dense)
    /\ phase # "closed" => Complete(dense)
    /\ Matches(dense, pages)
Waking == NotStarted /\ BatchIsFresh /\ DoneIsCovered /\ SleepIsExcused

IInv == Typed /\ Tables /\ Waking

-----------------------------------------------------------------------------
(* The tables.                                                             *)

Gone(D, K) == {D.map[p].row : p \in K \cap DOMAIN D.map}

LEMMA EvictedIs ==
    ASSUME NEW D, NEW K, IsProjection(D)
    PROVE  /\ IsProjection(Evicted(D, K))
           /\ Evicted(D, K).map = Less(D.map, K)
           /\ Evicted(D, K).rows = Less(D.rows, Gone(D, K))
           /\ Evicted(D, K).vec = Less(D.vec, Gone(D, K))
           /\ Evicted(D, K).shadow = Less(D.shadow, K)
           /\ Evicted(D, K).suppressed = D.suppressed
BY DEF Evicted, IsProjection, Gone

LEMMA EvictedSound ==
    ASSUME NEW D, NEW K, Sound(D)
    PROVE  /\ Sound(Evicted(D, K))
           /\ Complete(D) => Complete(Evicted(D, K))
<1>. DEFINE E == Evicted(D, K)
<1>1. /\ IsProjection(E)
      /\ E.map = Less(D.map, K)
      /\ E.rows = Less(D.rows, Gone(D, K))
      /\ E.vec = Less(D.vec, Gone(D, K))
      /\ E.shadow = Less(D.shadow, K)
      /\ E.suppressed = D.suppressed
  BY EvictedIs DEF Sound
<1>. HIDE DEF E
<1>2. DOMAIN E.map = DOMAIN D.map \ K /\ \A p \in DOMAIN E.map : E.map[p] = D.map[p]
  BY <1>1 DEF Less, Restrict
<1>3. RowsIn(E) = RowsIn(D) \ Gone(D, K)
  BY <1>2 DEF RowsIn, Gone, Sound, MapApart
<1>4. MapApart(E)
  BY <1>2 DEF Sound, MapApart
<1>5. \A p \in DOMAIN E.map : E.map[p].row \in RowsIn(D) \ Gone(D, K)
  BY <1>2, <1>3 DEF RowsIn
<1>6. VectorsMapped(E)
  <2>1. DOMAIN E.vec = RowsIn(E)
    BY <1>1, <1>3 DEF Less, Restrict, Sound, VectorsMapped
  <2>2. ASSUME NEW p \in DOMAIN E.map
        PROVE  E.vec[E.map[p].row] = [page |-> p, version |-> E.map[p].version]
    <3>1. E.vec[E.map[p].row] = D.vec[E.map[p].row]
      BY <1>1, <1>5 DEF Less, Restrict, Sound, VectorsMapped
    <3>. QED  BY <3>1, <1>2 DEF Sound, VectorsMapped
  <2>. QED  BY <2>1, <2>2 DEF VectorsMapped
<1>7. RowsMapped(E)
  <2>1. DOMAIN E.rows \subseteq RowsIn(E)
    BY <1>1, <1>3 DEF Less, Restrict, Sound, RowsMapped
  <2>2. ASSUME NEW p \in DOMAIN E.map, E.map[p].row \in DOMAIN E.rows
        PROVE  E.rows[E.map[p].row] = p
    <3>1. E.map[p].row \in DOMAIN D.rows /\ E.rows[E.map[p].row] = D.rows[E.map[p].row]
      BY <1>1, <2>2 DEF Less, Restrict
    <3>. QED  BY <3>1, <1>2 DEF Sound, RowsMapped
  <2>. QED  BY <2>1, <2>2 DEF RowsMapped
<1>8. ShadowsMapped(E)
  BY <1>1, <1>2 DEF Less, Restrict, Sound, ShadowsMapped
<1>9. SuppressedApart(E)
  BY <1>1, <1>2 DEF Sound, SuppressedApart
<1>10. Complete(D) => Complete(E)
  BY <1>1, <1>3 DEF Less, Restrict, Complete
<1>. QED  BY <1>1, <1>4, <1>5, <1>6, <1>8, <1>9, <1>10, <1>7 DEF Sound, E

LEMMA ForgottenIs ==
    ASSUME NEW D, NEW K, Sound(D)
    PROVE  /\ Sound(Forgotten(D, K))
           /\ Complete(D) => Complete(Forgotten(D, K))
           /\ Forgotten(D, K).map = Less(D.map, K)
           /\ Forgotten(D, K).suppressed = Less(D.suppressed, K)
<1>. DEFINE F == [D EXCEPT !.suppressed = Less(@, K)]
<1>1. F = [map |-> D.map, rows |-> D.rows, vec |-> D.vec, shadow |-> D.shadow,
           suppressed |-> Less(D.suppressed, K)]
  BY DEF Sound, IsProjection
<1>. HIDE DEF F
<1>2. /\ F.map = D.map /\ F.rows = D.rows /\ F.vec = D.vec /\ F.shadow = D.shadow
      /\ F.suppressed = Less(D.suppressed, K)
      /\ IsProjection(F)
  BY <1>1 DEF IsProjection
<1>3. Sound(F) /\ (Complete(D) => Complete(F))
  <2>1. RowsIn(F) = RowsIn(D)
    BY <1>2 DEF RowsIn
  <2>2. MapApart(F) /\ ShadowsMapped(F)
    BY <1>2 DEF Sound, MapApart, ShadowsMapped
  <2>3. VectorsMapped(F) /\ RowsMapped(F) /\ (Complete(D) => Complete(F))
    BY <1>2, <2>1 DEF Sound, VectorsMapped, RowsMapped, Complete
  <2>4. SuppressedApart(F)
    BY <1>2 DEF Less, Restrict, Sound, SuppressedApart
  <2>. QED  BY <1>2, <2>2, <2>3, <2>4 DEF Sound
<1>4. Forgotten(D, K) = Evicted(F, K)
  BY DEF Forgotten, F
<1>. QED  BY <1>2, <1>3, <1>4, EvictedSound, EvictedIs

-----------------------------------------------------------------------------
(* The rows.                                                               *)

LEMMA FiniteMax ==
    ASSUME NEW S \in SUBSET Nat, S # {}, IsFiniteSet(S)
    PROVE  Max(S) \in S /\ \A y \in S : y <= Max(S)
<1>. DEFINE above(x) == {y \in S : y > x}
            less == {ss \in Nat \X Nat : ss[1] < ss[2]}
            T == {Cardinality(above(x)) : x \in S}
<1>1. \A x \in S : IsFiniteSet(above(x)) /\ Cardinality(above(x)) \in Nat
  <2>. TAKE x \in S
  <2>1. IsFiniteSet(above(x))
    <3>1. above(x) \subseteq S
      OBVIOUS
    <3>. QED  BY <3>1, FS_Subset
  <2>. QED  BY <2>1, FS_CardinalityType
<1>2. PICK n \in T : \A k \in T : ~(<<k, n>> \in less)
  <2>1. IsWellFoundedOn(less, Nat)
    BY NatLessThanWellFounded DEF OpToRel
  <2>2. T \in SUBSET Nat /\ T # {}
    <3>. HIDE DEF above
    <3>. QED  BY <1>1
  <2>. HIDE DEF less, T
  <2>. QED  BY <2>1, <2>2, WFMin
<1>3. PICK x \in S : n = Cardinality(above(x))
  OBVIOUS
<1>4. \A y \in S : y <= x
  <2>. SUFFICES ASSUME NEW y \in S, y > x PROVE FALSE
    OBVIOUS
  <2>1. above(y) \subseteq above(x) /\ above(y) # above(x)
    <3>1. y \in above(x) /\ y \notin above(y)
      OBVIOUS
    <3>2. \A z \in S : z > y => z > x
      OBVIOUS
    <3>3. above(y) \subseteq above(x)
      BY <3>2
    <3>. HIDE DEF above
    <3>. QED  BY <3>1, <3>3
  <2>2. Cardinality(above(y)) < Cardinality(above(x))
    <3>. HIDE DEF above
    <3>. QED  BY <1>1, <2>1, FS_Subset
  <2>3. Cardinality(above(y)) \in T /\ n \in T /\ T \subseteq Nat
    <3>. HIDE DEF above
    <3>. QED  BY <1>1
  <2>4. <<Cardinality(above(y)), n>> \in less
    <3>. HIDE DEF above, T
    <3>. QED  BY <2>2, <2>3, <1>3
  <2>. HIDE DEF less, T
  <2>. QED  BY <1>2, <2>3, <2>4
<1>. QED  BY <1>4 DEF Max

LEMMA TopIsAbove ==
    ASSUME NEW map, IsFiniteSet(DOMAIN map), \A p \in DOMAIN map : map[p].row \in Nat
    PROVE  Top(map) \in Nat /\ \A p \in DOMAIN map : map[p].row <= Top(map)
<1>. DEFINE S == {0} \cup {map[p].row : p \in DOMAIN map}
<1>1. IsFiniteSet(S)
  <2>1. IsFiniteSet({map[p].row : p \in DOMAIN map})
    <3>. DEFINE rows == [p \in DOMAIN map |-> map[p].row]
    <3>1. rows \in Surjection(DOMAIN map, {map[p].row : p \in DOMAIN map})
      BY DEF Surjection
    <3>. HIDE DEF rows
    <3>. QED  BY <3>1, FS_Surjection
  <2>. QED  BY <2>1, FS_Singleton, FS_Union
<1>2. S \in SUBSET Nat /\ S # {}
  OBVIOUS
<1>3. Top(map) = Max(S)
  BY DEF Top
<1>4. \A p \in DOMAIN map : map[p].row \in S
  OBVIOUS
<1>. HIDE DEF S
<1>. QED  BY <1>1, <1>2, <1>3, <1>4, FiniteMax

LEMMA RowsAreFresh ==
    ASSUME NEW D, MapApart(D), NEW P, NEW row \in RowsFor(D.map, P)
    PROVE  /\ DOMAIN row = P
           /\ \A p \in P : row[p] \in Nat \ {0}
           /\ \A p, q \in P : row[p] = row[q] => p = q
           /\ \A p \in P, q \in DOMAIN D.map : row[p] = D.map[q].row => p = q
           /\ \A p \in P : p \in DOMAIN D.map => row[p] = D.map[p].row
<1>1. IsFiniteSet(DOMAIN D.map) /\ \A p \in DOMAIN D.map : D.map[p].row \in Nat
  BY PagesAssumption, FS_Subset DEF MapApart
<1>2. Top(D.map) \in Nat /\ \A p \in DOMAIN D.map : D.map[p].row <= Top(D.map)
  BY <1>1, TopIsAbove
<1>3. /\ row \in [P -> 1..Top(D.map) + Cardinality(P \ DOMAIN D.map)]
      /\ IsInjective(row)
      /\ \A p \in P : IF p \in P \ DOMAIN D.map THEN row[p] > Top(D.map)
                      ELSE row[p] = D.map[p].row
  BY DEF RowsFor
<1>4. DOMAIN row = P /\ \A p \in P : row[p] \in Nat \ {0}
  BY <1>3
<1>5. ASSUME NEW p \in P, NEW q \in DOMAIN D.map, row[p] = D.map[q].row
      PROVE  p = q
  <2>1. p \in DOMAIN D.map
    BY <1>1, <1>2, <1>3, <1>4, <1>5
  <2>2. row[p] = D.map[p].row
    BY <2>1, <1>3
  <2>. QED  BY <2>1, <2>2, <1>5 DEF MapApart
<1>. QED  BY <1>3, <1>4, <1>5 DEF IsInjective

\* What upsertCanonicalVectorTx leaves: the vectors of records, and of the
\* others those there were.
LEMMA VectoredIs ==
    ASSUME NEW D, Sound(D), NEW records \in SUBSET Records,
           \A r1, r2 \in records : r1.page = r2.page => r1 = r2,
           NEW row \in RowsFor(D.map, PagesOf(Accepted(D, records)))
    PROVE  /\ Sound(Vectored(D, records, row))
           /\ Complete(D) => Complete(Vectored(D, records, row))
           /\ \A p \in DOMAIN Vectored(D, records, row).map :
                 \/ /\ p \in DOMAIN D.map
                    /\ Vectored(D, records, row).map[p].version = D.map[p].version
                 \/ [page |-> p, version |-> Vectored(D, records, row).map[p].version]
                       \in records
           /\ DOMAIN Vectored(D, records, row).suppressed \subseteq DOMAIN D.suppressed
           /\ \A p \in DOMAIN Vectored(D, records, row).suppressed :
                 Vectored(D, records, row).suppressed[p] = D.suppressed[p]
<1>. DEFINE P == PagesOf(Accepted(D, records))
            E == Evicted(D, PagesOf(records \ Accepted(D, records)))
            of(p) == CHOOSE rec \in records : rec.page = p
            at(r) == CHOOSE p \in P : row[p] = r
            used == {row[p] : p \in P}
            V == Vectored(D, records, row)
<1>1. /\ DOMAIN row = P
      /\ \A p \in P : row[p] \in Nat \ {0}
      /\ \A p, q \in P : row[p] = row[q] => p = q
      /\ \A p \in P, q \in DOMAIN D.map : row[p] = D.map[q].row => p = q
      /\ \A p \in P : p \in DOMAIN D.map => row[p] = D.map[p].row
  <2>. HIDE DEF P
  <2>1. row \in RowsFor(D.map, P)
    BY DEF P
  <2>2. MapApart(D)
    BY DEF Sound
  <2>. HIDE DEF used
  <2>. QED  BY <2>1, <2>2, RowsAreFresh
<1>2. \A p \in P : of(p) \in records /\ of(p).page = p /\ of(p).version \in Nat \ {0}
                /\ of(p) = [page |-> p, version |-> of(p).version] /\ p \in Pages
  <2>1. \A rec \in records : rec = [page |-> rec.page, version |-> rec.version]
                             /\ rec.page \in Pages /\ rec.version \in Nat \ {0}
    BY DEF Records
  <2>2. \A p \in P : \E rec \in records : rec.page = p
    BY DEF PagesOf, Accepted
  <2>3. \A p \in P : of(p) \in records /\ of(p).page = p
    <3>. HIDE DEF P
    <3>. QED  BY <2>2
  <2>. HIDE DEF of, P
  <2>. QED  BY <2>1, <2>3
<1>3. \A p \in P : at(row[p]) = p
  <2>. HIDE DEF P
  <2>. QED  BY <1>1
<1>4. Sound(E) /\ (Complete(D) => Complete(E))
  BY EvictedSound
<1>5. /\ DOMAIN E.map \subseteq DOMAIN D.map
      /\ \A p \in DOMAIN E.map : E.map[p] = D.map[p]
      /\ E.suppressed = D.suppressed
  <2>1. IsProjection(D)
    BY DEF Sound
  <2>2. E.map = Less(D.map, PagesOf(records \ Accepted(D, records)))
        /\ E.suppressed = D.suppressed
    BY <2>1, EvictedIs
  <2>. HIDE DEF E
  <2>. QED  BY <2>2 DEF Less, Restrict
<1>6. /\ V.map = Updated(E.map, [p \in P |-> [row |-> row[p], version |-> of(p).version]])
      /\ V.rows = Updated(E.rows, [r \in used |-> at(r)])
      /\ V.vec = Updated(E.vec, [r \in used |-> of(at(r))])
      /\ V.shadow = Updated(E.shadow, [p \in P |-> of(p)])
      /\ V.suppressed = Less(D.suppressed, P)
      /\ IsProjection(V)
  BY <1>1, <1>5 DEF Vectored, Range, IsProjection
<1>. HIDE DEF P, E, of, at, V
<1>7. /\ DOMAIN V.map = DOMAIN E.map \cup P
      /\ \A p \in P : V.map[p].row = row[p] /\ V.map[p].version = of(p).version
                    /\ V.map[p] = [row |-> row[p], version |-> of(p).version]
      /\ \A p \in DOMAIN E.map \ P : V.map[p] = E.map[p]
  BY <1>6 DEF Updated
<1>8. \A p \in P, q \in DOMAIN E.map \ P : row[p] # E.map[q].row
  BY <1>1, <1>5
<1>9. MapApart(V)
  <2>1. DOMAIN V.map \subseteq Pages
    BY <1>2, <1>4, <1>7 DEF Sound, MapApart
  <2>2. \A p \in DOMAIN V.map : V.map[p] \in [row : Nat \ {0}, version : Nat \ {0}]
    <3>1. \A p \in P : V.map[p] \in [row : Nat \ {0}, version : Nat \ {0}]
      <4>. TAKE p \in P
      <4>1. V.map[p] = [row |-> row[p], version |-> of(p).version]
        BY <1>7
      <4>2. row[p] \in Nat \ {0} /\ of(p).version \in Nat \ {0}
        BY <1>1, <1>2
      <4>. QED  BY <4>1, <4>2
    <3>2. \A p \in DOMAIN E.map \ P : V.map[p] \in [row : Nat \ {0}, version : Nat \ {0}]
      BY <1>4, <1>7 DEF Sound, MapApart
    <3>. QED  BY <3>1, <3>2, <1>7
  <2>3. \A p, q \in DOMAIN V.map : V.map[p].row = V.map[q].row => p = q
    <3>1. ASSUME NEW p \in P, NEW q \in DOMAIN V.map, V.map[p].row = V.map[q].row
          PROVE  p = q
      <4>1. CASE q \in P
        <5>1. row[p] = row[q]
          BY <3>1, <4>1, <1>7
        <5>. QED  BY <5>1, <4>1, <1>1
      <4>2. CASE q \in DOMAIN E.map \ P
        <5>1. row[p] = E.map[q].row
          BY <3>1, <4>2, <1>7
        <5>. QED  BY <5>1, <4>2, <1>8
      <4>. QED  BY <3>1, <4>1, <4>2, <1>7
    <3>2. ASSUME NEW p \in DOMAIN E.map \ P, NEW q \in DOMAIN E.map \ P,
                 V.map[p].row = V.map[q].row
          PROVE  p = q
      BY <3>2, <1>4, <1>7 DEF Sound, MapApart
    <3>. QED  BY <3>1, <3>2, <1>7
  <2>. QED  BY <2>1, <2>2, <2>3 DEF MapApart
<1>10. RowsIn(V) = RowsIn(E) \cup used
  <2>1. \A p \in DOMAIN E.map : E.map[p].row \in RowsIn(V)
    <3>1. ASSUME NEW p \in DOMAIN E.map, p \in P PROVE E.map[p].row = row[p]
      BY <3>1, <1>1, <1>5
    <3>. QED  BY <3>1, <1>7 DEF RowsIn
  <2>2. RowsIn(V) \subseteq RowsIn(E) \cup used
    <3>1. \A p \in P : V.map[p].row \in used
      BY <1>7
    <3>2. \A p \in DOMAIN E.map \ P : V.map[p].row \in RowsIn(E)
      BY <1>7 DEF RowsIn
    <3>. QED  BY <3>1, <3>2, <1>7 DEF RowsIn
  <2>3. used \subseteq RowsIn(V)
    <3>. SUFFICES ASSUME NEW r \in used PROVE r \in RowsIn(V)
      OBVIOUS
    <3>1. PICK p \in P : r = row[p]
      OBVIOUS
    <3>2. p \in DOMAIN V.map /\ V.map[p].row = r
      BY <3>1, <1>7
    <3>. QED  BY <3>2 DEF RowsIn
  <2>4. RowsIn(E) \subseteq RowsIn(V)
    BY <2>1 DEF RowsIn
  <2>. QED  BY <2>2, <2>3, <2>4
<1>11. VectorsMapped(V)
  <2>1. DOMAIN V.vec = RowsIn(V)
    BY <1>4, <1>6, <1>10 DEF Sound, VectorsMapped, Updated
  <2>2. ASSUME NEW p \in P
        PROVE  V.vec[V.map[p].row] = [page |-> p, version |-> V.map[p].version]
    <3>1. V.vec[row[p]] = of(at(row[p]))
      BY <1>6 DEF Updated
    <3>2. at(row[p]) = p /\ of(p) = [page |-> p, version |-> of(p).version]
      BY <1>2, <1>3
    <3>3. V.map[p].row = row[p] /\ V.map[p].version = of(p).version
      BY <1>7
    <3>. QED  BY <3>1, <3>2, <3>3, Zenon
  <2>3. ASSUME NEW p \in DOMAIN E.map \ P
        PROVE  V.vec[V.map[p].row] = [page |-> p, version |-> V.map[p].version]
    <3>1. E.map[p].row \notin used /\ E.map[p].row \in DOMAIN E.vec
      BY <1>4, <1>8 DEF Sound, VectorsMapped, RowsIn
    <3>2. V.vec[E.map[p].row] = E.vec[E.map[p].row]
      BY <3>1, <1>6 DEF Updated
    <3>. QED  BY <3>2, <1>4, <1>7 DEF Sound, VectorsMapped
  <2>. QED  BY <2>1, <2>2, <2>3, <1>7 DEF VectorsMapped
<1>12. RowsMapped(V) /\ (Complete(D) => Complete(V))
  <2>1. DOMAIN V.rows = DOMAIN E.rows \cup used
    BY <1>6 DEF Updated
  <2>2. DOMAIN V.rows \subseteq RowsIn(V) /\ (Complete(D) => Complete(V))
    BY <2>1, <1>4, <1>10 DEF Sound, RowsMapped, Complete
  <2>3. ASSUME NEW p \in P PROVE V.rows[V.map[p].row] = p
    <3>1. V.rows[row[p]] = at(row[p])
      BY <1>6 DEF Updated
    <3>. QED  BY <3>1, <1>3, <1>7
  <2>4. ASSUME NEW p \in DOMAIN E.map \ P, V.map[p].row \in DOMAIN V.rows
        PROVE  V.rows[V.map[p].row] = p
    <3>1. E.map[p].row \notin used
      BY <1>8
    <3>2. E.map[p].row \in DOMAIN E.rows
      BY <3>1, <2>1, <2>4, <1>7
    <3>3. V.rows[E.map[p].row] = E.rows[E.map[p].row]
      BY <3>1, <3>2, <1>6 DEF Updated
    <3>. QED  BY <3>2, <3>3, <1>4, <1>7 DEF Sound, RowsMapped
  <2>. QED  BY <2>2, <2>3, <2>4, <1>7 DEF RowsMapped
<1>13. ShadowsMapped(V)
  <2>1. DOMAIN V.shadow = DOMAIN E.shadow \cup P
    BY <1>6 DEF Updated
  <2>2. ASSUME NEW p \in P PROVE V.shadow[p] = [page |-> p, version |-> V.map[p].version]
    <3>1. V.shadow[p] = of(p)
      BY <1>6 DEF Updated
    <3>2. of(p) = [page |-> p, version |-> of(p).version]
      BY <1>2
    <3>3. V.map[p].version = of(p).version
      BY <1>7
    <3>. QED  BY <3>1, <3>2, <3>3, Zenon
  <2>3. ASSUME NEW p \in DOMAIN E.shadow \ P
        PROVE  V.shadow[p] = [page |-> p, version |-> V.map[p].version]
    <3>1. V.shadow[p] = E.shadow[p]
      BY <1>6 DEF Updated
    <3>. QED  BY <3>1, <1>4, <1>7 DEF Sound, ShadowsMapped
  <2>. QED  BY <2>1, <2>2, <2>3, <1>4, <1>7 DEF Sound, ShadowsMapped
<1>14. /\ DOMAIN V.suppressed = DOMAIN D.suppressed \ P
       /\ \A p \in DOMAIN V.suppressed : V.suppressed[p] = D.suppressed[p]
  BY <1>6 DEF Less, Restrict
<1>15. SuppressedApart(V)
  BY <1>4, <1>5, <1>7, <1>14 DEF Sound, SuppressedApart
<1>16. Sound(V)
  BY <1>6, <1>9, <1>11, <1>12, <1>13, <1>15 DEF Sound
<1>17. \A p \in DOMAIN V.map :
          \/ p \in DOMAIN D.map /\ V.map[p].version = D.map[p].version
          \/ [page |-> p, version |-> V.map[p].version] \in records
  <2>1. ASSUME NEW p \in P PROVE [page |-> p, version |-> V.map[p].version] \in records
    <3>1. of(p) \in records /\ of(p) = [page |-> p, version |-> of(p).version]
      BY <1>2
    <3>2. V.map[p].version = of(p).version
      BY <1>7
    <3>. QED  BY <3>1, <3>2, Zenon
  <2>2. ASSUME NEW p \in DOMAIN E.map \ P
        PROVE  p \in DOMAIN D.map /\ V.map[p].version = D.map[p].version
    BY <1>5, <1>7
  <2>. QED  BY <2>1, <2>2, <1>7
<1>. QED  BY <1>12, <1>14, <1>16, <1>17 DEF V

Suppressing(D, rec) ==
    [Evicted(D, {rec.page}) EXCEPT
        !.suppressed = Updated(@, [p \in {rec.page} |-> rec.version])]

LEMMA SuppressingIs ==
    ASSUME NEW D, Sound(D), NEW rec \in Records
    PROVE  /\ Sound(Suppressing(D, rec))
           /\ Complete(D) => Complete(Suppressing(D, rec))
           /\ Suppressing(D, rec).map = Less(D.map, {rec.page})
           /\ Suppressing(D, rec).suppressed
                = Updated(D.suppressed, [p \in {rec.page} |-> rec.version])
<1>. DEFINE E == Evicted(D, {rec.page})
            F == Suppressing(D, rec)
            one == [p \in {rec.page} |-> rec.version]
<1>1. /\ Sound(E) /\ (Complete(D) => Complete(E))
      /\ IsProjection(E)
      /\ E.map = Less(D.map, {rec.page}) /\ E.suppressed = D.suppressed
  BY EvictedSound, EvictedIs DEF Sound
<1>2. F = [E EXCEPT !.suppressed = Updated(E.suppressed, one)]
  BY DEF Suppressing
<1>. HIDE DEF E, one, F
<1>3. F = [map |-> E.map, rows |-> E.rows, vec |-> E.vec, shadow |-> E.shadow,
           suppressed |-> Updated(E.suppressed, one)]
  BY <1>1, <1>2 DEF IsProjection
<1>4. /\ F.map = E.map /\ F.rows = E.rows /\ F.vec = E.vec /\ F.shadow = E.shadow
      /\ F.suppressed = Updated(E.suppressed, one)
      /\ IsProjection(F)
  BY <1>3 DEF IsProjection
<1>5. RowsIn(F) = RowsIn(E)
  BY <1>4 DEF RowsIn
<1>6. MapApart(F) /\ ShadowsMapped(F)
  BY <1>1, <1>4 DEF Sound, MapApart, ShadowsMapped
<1>7. VectorsMapped(F) /\ RowsMapped(F) /\ (Complete(D) => Complete(F))
  BY <1>1, <1>4, <1>5 DEF Sound, VectorsMapped, RowsMapped, Complete
<1>8. SuppressedApart(F)
  <2>1. DOMAIN F.suppressed = DOMAIN E.suppressed \cup {rec.page}
    BY <1>4 DEF Updated, one
  <2>2. rec.page \in Pages /\ rec.page \notin DOMAIN F.map
    BY <1>1, <1>4 DEF Records, Less, Restrict
  <2>. QED  BY <2>1, <2>2, <1>1, <1>4 DEF Sound, SuppressedApart
<1>9. Sound(F)
  BY <1>4, <1>6, <1>7, <1>8 DEF Sound
<1>. QED  BY <1>1, <1>4, <1>7, <1>9 DEF F, one

\* An empty projection, and one of a generation before the shadow table.
LEMMA NoVectorsSound == Sound(NoVectors) /\ Complete(NoVectors) /\ NoVectors.map = <<>>
                        /\ DOMAIN NoVectors.map = {} /\ DOMAIN NoVectors.suppressed = {}
<1>1. /\ DOMAIN NoVectors.map = {} /\ DOMAIN NoVectors.rows = {} /\ DOMAIN NoVectors.vec = {}
      /\ DOMAIN NoVectors.shadow = {} /\ DOMAIN NoVectors.suppressed = {}
      /\ NoVectors.map = <<>>
  BY DEF NoVectors
<1>2. IsProjection(NoVectors)
  BY DEF NoVectors, IsProjection
<1>3. RowsIn(NoVectors) = {}
  BY <1>1 DEF RowsIn
<1>. QED  BY <1>1, <1>2, <1>3 DEF Sound, Complete, MapApart, VectorsMapped, RowsMapped,
            ShadowsMapped, SuppressedApart

LEMMA LegacySound ==
    ASSUME NEW S \in SUBSET Pages, NEW row \in RowsFor(<<>>, S)
    PROVE  /\ Sound(Legacy(row))
           /\ DOMAIN Legacy(row).map = S /\ DOMAIN Legacy(row).suppressed = {}
           /\ \A p \in S : Legacy(row).map[p].version = 1
<1>1. /\ DOMAIN row = S
      /\ \A p \in S : row[p] \in Nat \ {0}
      /\ \A p, q \in S : row[p] = row[q] => p = q
  <2>. DEFINE last == Top(<<>>) + Cardinality(S \ DOMAIN <<>>)
  <2>1. row \in [S -> 1..last] /\ IsInjective(row)
    BY DEF RowsFor
  <2>. HIDE DEF last
  <2>2. DOMAIN row = S /\ \A p \in S : row[p] \in 1..last
    BY <2>1
  <2>3. \A p, q \in S : row[p] = row[q] => p = q
    BY <2>1, <2>2 DEF IsInjective
  <2>. QED  BY <2>2, <2>3
<1>. DEFINE L == Legacy(row)
            at(r) == CHOOSE p \in DOMAIN row : row[p] = r
            used == {row[p] : p \in DOMAIN row}
<1>2. L = [map |-> [p \in DOMAIN row |-> [row |-> row[p], version |-> 1]],
           rows |-> <<>>,
           vec |-> [r \in used |-> [page |-> at(r), version |-> 1]],
           shadow |-> <<>>, suppressed |-> <<>>]
  BY DEF Legacy, Range
<1>3. \A p \in S : at(row[p]) = p /\ row[p] \in used
  BY <1>1
<1>4. \A r \in used : \E p \in S : r = row[p]
  BY <1>1
<1>. HIDE DEF L, at, used
<1>5. /\ DOMAIN L.map = S
      /\ \A p \in S : L.map[p] = [row |-> row[p], version |-> 1]
      /\ DOMAIN L.vec = used
      /\ \A r \in used : L.vec[r] = [page |-> at(r), version |-> 1]
      /\ DOMAIN L.rows = {} /\ DOMAIN L.shadow = {} /\ DOMAIN L.suppressed = {}
      /\ IsProjection(L)
  <2>. DEFINE map == [p \in DOMAIN row |-> [row |-> row[p], version |-> 1]]
              vec == [r \in used |-> [page |-> at(r), version |-> 1]]
  <2>1. /\ DOMAIN map = S /\ \A p \in S : map[p] = [row |-> row[p], version |-> 1]
        /\ DOMAIN vec = used /\ \A r \in used : vec[r] = [page |-> at(r), version |-> 1]
    BY <1>1
  <2>. HIDE DEF map, vec
  <2>2. L = [map |-> map, rows |-> <<>>, vec |-> vec, shadow |-> <<>>, suppressed |-> <<>>]
    BY <1>2 DEF map, vec
  <2>. QED  BY <2>1, <2>2 DEF IsProjection
<1>6. \A p \in S : L.map[p].row = row[p] /\ L.map[p].version = 1
  <2>. TAKE p \in S
  <2>1. L.map[p] = [row |-> row[p], version |-> 1]
    BY <1>5
  <2>. QED  BY <2>1
<1>7. RowsIn(L) = used
  BY <1>5, <1>6, <1>3, <1>4 DEF RowsIn
<1>8. MapApart(L)
  <2>1. \A p \in S : L.map[p] \in [row : Nat \ {0}, version : Nat \ {0}]
    <3>. TAKE p \in S
    <3>1. L.map[p] = [row |-> row[p], version |-> 1] /\ row[p] \in Nat \ {0}
      BY <1>1, <1>5
    <3>. QED  BY <3>1
  <2>2. \A p, q \in S : L.map[p].row = L.map[q].row => p = q
    BY <1>1, <1>6
  <2>. QED  BY <2>1, <2>2, <1>5 DEF MapApart
<1>9. VectorsMapped(L)
  <2>1. ASSUME NEW p \in S
        PROVE  L.vec[L.map[p].row] = [page |-> p, version |-> L.map[p].version]
    <3>1. row[p] \in used /\ at(row[p]) = p
      BY <1>3
    <3>2. L.map[p] = [row |-> row[p], version |-> 1]
      BY <1>5
    <3>. QED  BY <3>1, <3>2, <1>5
  <2>. QED  BY <2>1, <1>5, <1>7 DEF VectorsMapped
<1>. HIDE DEF used
<1>10. RowsMapped(L) /\ ShadowsMapped(L) /\ SuppressedApart(L)
  BY <1>5 DEF RowsMapped, ShadowsMapped, SuppressedApart
<1>11. Sound(L)
  BY <1>5, <1>8, <1>9, <1>10 DEF Sound
<1>. QED  BY <1>5, <1>11, <1>6 DEF L

LEMMA EnsuredIs ==
    ASSUME Sound(dense)
    PROVE  /\ Sound(TablesEnsured) /\ Complete(TablesEnsured)
           /\ TablesEnsured.map = dense.map /\ TablesEnsured.suppressed = dense.suppressed
<1>. DEFINE F == TablesEnsured
            mapped == RowsIn(dense)
            at(r) == CHOOSE p \in DOMAIN dense.map : dense.map[p].row = r
            rows == Updated([r \in mapped |-> at(r)], dense.rows)
<1>1. F = [dense EXCEPT !.rows = rows]
  BY DEF TablesEnsured, RowsIn
<1>. HIDE DEF F, rows
<1>2. F = [map |-> dense.map, rows |-> rows, vec |-> dense.vec, shadow |-> dense.shadow,
           suppressed |-> dense.suppressed]
  BY <1>1 DEF Sound, IsProjection
<1>3. /\ F.map = dense.map /\ F.rows = rows /\ F.vec = dense.vec
      /\ F.shadow = dense.shadow /\ F.suppressed = dense.suppressed
      /\ IsProjection(F)
  BY <1>2 DEF IsProjection
<1>4. RowsIn(F) = RowsIn(dense)
  BY <1>3 DEF RowsIn
<1>5. DOMAIN rows = RowsIn(dense)
  BY DEF rows, Updated, Sound, RowsMapped
<1>6. ASSUME NEW p \in DOMAIN dense.map PROVE rows[dense.map[p].row] = p
  <2>1. dense.map[p].row \in mapped
    BY DEF RowsIn
  <2>2. at(dense.map[p].row) = p
    BY DEF Sound, MapApart
  <2>. HIDE DEF at, mapped
  <2>3. CASE dense.map[p].row \in DOMAIN dense.rows
    <3>1. rows[dense.map[p].row] = dense.rows[dense.map[p].row]
      BY <2>3 DEF rows, Updated
    <3>. QED  BY <3>1, <2>3 DEF Sound, RowsMapped
  <2>4. CASE dense.map[p].row \notin DOMAIN dense.rows
    BY <2>1, <2>2, <2>4 DEF rows, Updated
  <2>. QED  BY <2>3, <2>4
<1>7. RowsMapped(F) /\ Complete(F)
  BY <1>3, <1>4, <1>5, <1>6 DEF RowsMapped, Complete
<1>8. MapApart(F) /\ ShadowsMapped(F) /\ SuppressedApart(F)
  BY <1>3 DEF Sound, MapApart, ShadowsMapped, SuppressedApart
<1>9. VectorsMapped(F)
  BY <1>3, <1>4 DEF Sound, VectorsMapped
<1>. QED  BY <1>3, <1>7, <1>8, <1>9 DEF Sound, F

-----------------------------------------------------------------------------
(* Steps that leave the index alone.                                       *)

LEMMA TablesStay ==
    ASSUME Tables, UNCHANGED durable, phase' # "closed" => phase # "closed"
    PROVE  Tables'
BY DEF Tables, durable

LEMMA MissingStays ==
    ASSUME UNCHANGED durable
    PROVE  Missing' = Missing
BY DEF Missing, Suppressed, Mapped, durable

\* A listing that finds nothing has nothing to find.
LEMMA NothingListed ==
    ASSUME Oldest({})
    PROVE  Missing = {}
<1>1. IsFiniteSet(Missing) /\ Cardinality(Missing) \in Nat
  <2>1. Missing \subseteq Pages
    BY DEF Missing
  <2>. QED  BY <2>1, PagesAssumption, FS_Subset, FS_CardinalityType
<1>2. Min({BatchSize, Cardinality(Missing)}) = 0
  BY FS_EmptySet DEF Oldest
<1>3. \E x \in {BatchSize, Cardinality(Missing)} :
         \A y \in {BatchSize, Cardinality(Missing)} : x =< y
  <2>. HIDE DEF Missing
  <2>. QED  BY <1>1, BatchAssumption
<1>4. Min({BatchSize, Cardinality(Missing)}) \in {BatchSize, Cardinality(Missing)}
  <2>. DEFINE T == {BatchSize, Cardinality(Missing)}
  <2>1. \E x \in T : \A y \in T : x =< y
    BY <1>3
  <2>. HIDE DEF T
  <2>2. Min(T) \in T
    BY <2>1 DEF Min
  <2>. QED  BY <2>2 DEF T
<1>5. Cardinality(Missing) = 0
  BY <1>2, <1>4, BatchAssumption
<1>. QED  BY <1>1, <1>5, FS_EmptySet

LEMMA ControlSteps ==
    ASSUME IInv,
           \/ OpenReturns \/ CloseBegins \/ CloseReturns \/ Crash \/ Wake
           \/ WorkerWakes \/ SelfCheck \/ RecordEmbeddingOK \/ Embed
           \/ SinglesDone \/ BackoffEnds \/ WorkerStops \/ SelfCheckFails
           \/ EmbedFails \/ EmbedRefused \/ IndexFails \/ UNCHANGED vars
    PROVE  IInv'
<1>. USE DEF IInv, Typed, Tables, Waking, NotStarted, BatchIsFresh, DoneIsCovered,
             SleepIsExcused, Alerted, Current, WorkerPcs, durable, session, signals,
             Goto, Fails
<1>1. UNCHANGED durable /\ (phase' # "closed" => phase # "closed")
  BY DEF OpenReturns, CloseBegins, CloseReturns, Crash, Wake, WorkerWakes, SelfCheck,
         RecordEmbeddingOK, Embed, SinglesDone, BackoffEnds, WorkerStops,
         SelfCheckFails, EmbedFails, EmbedRefused, IndexFails, vars
<1>2. Tables' /\ Missing' = Missing
  BY <1>1, TablesStay, MissingStays
<1>3. CASE OpenReturns
  BY <1>1, <1>2, <1>3 DEF OpenReturns
<1>4. CASE CloseBegins
  BY <1>1, <1>2, <1>4 DEF CloseBegins
<1>5. CASE CloseReturns
  BY <1>1, <1>2, <1>5 DEF CloseReturns
<1>6. CASE Crash
  BY <1>1, <1>2, <1>6 DEF Crash
<1>7. CASE Wake
  BY <1>1, <1>2, <1>7 DEF Wake
<1>8. CASE WorkerWakes
  BY <1>1, <1>2, <1>8 DEF WorkerWakes
<1>9. CASE SelfCheck
  BY <1>1, <1>2, <1>9 DEF SelfCheck
<1>10. CASE RecordEmbeddingOK
  BY <1>1, <1>2, <1>10 DEF RecordEmbeddingOK
<1>11. CASE Embed
  BY <1>1, <1>2, <1>11 DEF Embed
<1>12. CASE SinglesDone
  BY <1>1, <1>2, <1>12 DEF SinglesDone
<1>13. CASE BackoffEnds
  BY <1>1, <1>2, <1>13 DEF BackoffEnds
<1>14. CASE WorkerStops
  BY <1>1, <1>2, <1>14 DEF WorkerStops
<1>15. CASE SelfCheckFails
  BY <1>1, <1>2, <1>15 DEF SelfCheckFails
<1>16. CASE EmbedFails
  BY <1>1, <1>2, <1>16 DEF EmbedFails
<1>17. CASE EmbedRefused
  BY <1>1, <1>2, <1>17 DEF EmbedRefused
<1>18. CASE IndexFails
  BY <1>1, <1>2, <1>18 DEF IndexFails
<1>19. CASE UNCHANGED vars
  BY <1>1, <1>2, <1>19 DEF vars
<1>. QED  BY <1>3, <1>4, <1>5, <1>6, <1>7, <1>8, <1>9, <1>10, <1>11, <1>12, <1>13,
             <1>14, <1>15, <1>16, <1>17, <1>18, <1>19

LEMMA ListingStep ==
    ASSUME IInv, MissingVectorPages
    PROVE  IInv'
<1>1. UNCHANGED durable /\ phase' = phase
  BY DEF MissingVectorPages, durable, session
<1>2. Tables' /\ Missing' = Missing
  BY <1>1, TablesStay, MissingStays DEF IInv
<1>3. PICK B \in SUBSET Missing :
         /\ Oldest(B)
         /\ batch' = {Page(p) : p \in B}
         /\ wpc' = IF B = {} THEN "ok" ELSE "embed"
  BY DEF MissingVectorPages
<1>4. \A p \in Missing : Page(p) \in Records /\ Current(Page(p))
  BY DEF Missing, Page, Records, Current, IInv, Typed, PageStates
<1>5. batch' \subseteq Records /\ \A rec \in batch' : Current(rec)
  BY <1>3, <1>4
<1>6. B = {} => Missing = {}
  BY <1>3, NothingListed
<1>7. Typed'
  BY <1>1, <1>3, <1>5 DEF IInv, Typed, MissingVectorPages, durable, session, signals,
        WorkerPcs
<1>8. Waking'
  BY <1>1, <1>2, <1>3, <1>5, <1>6
     DEF IInv, Waking, NotStarted, BatchIsFresh, DoneIsCovered, SleepIsExcused, Alerted,
         Current, MissingVectorPages, durable, session, signals
<1>. QED  BY <1>2, <1>7, <1>8 DEF IInv

-----------------------------------------------------------------------------
(* Steps that change the index.                                            *)

LEMMA InitInv ==
    ASSUME Init
    PROVE  IInv
<1>1. PICK S \in SUBSET Pages :
         /\ pages = [p \in Pages |->
                       IF p \in S THEN [version |-> 1, active |-> TRUE] ELSE Untouched]
         /\ \E row \in RowsFor(<<>>, S) : dense = Legacy(row)
         /\ seq = IF S = {} THEN 0 ELSE 1
  BY DEF Init
<1>2. PICK row \in RowsFor(<<>>, S) : dense = Legacy(row)
  BY <1>1
<1>3. /\ Sound(dense) /\ DOMAIN dense.map = S /\ DOMAIN dense.suppressed = {}
      /\ \A p \in S : dense.map[p].version = 1
  BY <1>2, LegacySound
<1>4. Matches(dense, pages)
  BY <1>1, <1>3 DEF Matches
<1>5. Typed
  <2>1. seq \in 0..MaxSeq
    BY <1>1, BoundsAssumption
  <2>2. \A p \in Pages : /\ pages[p] \in PageStates
                         /\ pages[p].active => pages[p].version # 0
    <3>. TAKE p \in Pages
    <3>1. CASE p \in S
      <4>1. pages[p] = [version |-> 1, active |-> TRUE]
        BY <1>1, <3>1
      <4>. QED  BY <4>1 DEF PageStates
    <3>2. CASE p \notin S
      <4>1. pages[p] = [version |-> 0, active |-> FALSE]
        BY <1>1, <3>2 DEF Untouched
      <4>. QED  BY <4>1 DEF PageStates
    <3>. QED  BY <3>1, <3>2
  <2>3. pages \in [Pages -> PageStates]
    BY <1>1, <2>2
  <2>. QED  BY <2>1, <2>2, <2>3 DEF Init, Typed, WorkerPcs
<1>. QED  BY <1>3, <1>4, <1>5 DEF Init, IInv, Tables, Waking, NotStarted, BatchIsFresh,
             DoneIsCovered, SleepIsExcused

LEMMA OpenStep ==
    ASSUME IInv, OpenSession
    PROVE  IInv'
<1>1. /\ Sound(dense') /\ Complete(dense')
      /\ dense'.map = dense.map /\ dense'.suppressed = dense.suppressed
  BY EnsuredIs DEF OpenSession, IInv, Tables
<1>2. Matches(dense', pages')
  BY <1>1 DEF Matches, OpenSession, IInv, Tables
<1>3. Typed' /\ Waking'
  BY DEF OpenSession, IInv, Typed, Waking, NotStarted, BatchIsFresh, DoneIsCovered,
         SleepIsExcused, WorkerPcs
<1>. QED  BY <1>1, <1>2, <1>3 DEF IInv, Tables

LEMMA RebuildStep ==
    ASSUME IInv, Rebuild
    PROVE  IInv'
<1>. DEFINE records == {Page(p) : p \in Compatible}
<1>1. PICK row \in RowsFor(<<>>, Compatible) : dense' = Vectored(NoVectors, records, row)
  BY DEF Rebuild
<1>2. ASSUME NEW p \in Compatible
      PROVE  /\ Page(p) \in Records /\ Page(p).page = p
             /\ pages[p] = [version |-> Page(p).version, active |-> TRUE]
  <2>1. /\ pages[p] = [version |-> dense.map[p].version, active |-> TRUE]
        /\ p \in Pages /\ dense.map[p].version \in Nat \ {0}
    BY DEF Compatible, Current, IInv, Tables, Sound, MapApart
  <2>. QED  BY <2>1 DEF Page, Records
<1>3. records \in SUBSET Records /\ \A r1, r2 \in records : r1.page = r2.page => r1 = r2
  <2>1. \A p, q \in Compatible : Page(p).page = Page(q).page => Page(p) = Page(q)
    BY <1>2
  <2>2. \A rec \in records : \E p \in Compatible : rec = Page(p)
    OBVIOUS
  <2>. HIDE DEF records
  <2>3. \A rec \in records : rec \in Records
    BY <1>2, <2>2
  <2>4. ASSUME NEW r1 \in records, NEW r2 \in records, r1.page = r2.page PROVE r1 = r2
    <3>1. PICK p \in Compatible : r1 = Page(p)
      BY <2>2
    <3>2. PICK q \in Compatible : r2 = Page(q)
      BY <2>2
    <3>. QED  BY <2>1, <2>4, <3>1, <3>2
  <2>. QED  BY <2>3, <2>4
<1>4. /\ \A rec \in records : pages[rec.page] = [version |-> rec.version, active |-> TRUE]
      /\ PagesOf(records) = Compatible
  <2>1. \A rec \in records : \E p \in Compatible : rec = Page(p)
    OBVIOUS
  <2>2. \A p \in Compatible : Page(p) \in records /\ Page(p).page = p
    BY <1>2
  <2>. HIDE DEF records
  <2>3. \A rec \in records :
           rec.page \in Compatible /\ pages[rec.page] = [version |-> rec.version, active |-> TRUE]
    <3>. TAKE rec \in records
    <3>1. PICK p \in Compatible : rec = Page(p)
      BY <2>1
    <3>. QED  BY <3>1, <1>2
  <2>. QED  BY <2>2, <2>3 DEF PagesOf
<1>. HIDE DEF records
<1>5. PagesOf(Accepted(NoVectors, records)) = Compatible
  <2>1. Accepted(NoVectors, records) = records
    BY NoVectorsSound DEF Accepted
  <2>. QED  BY <2>1, <1>4
<1>6. row \in RowsFor(NoVectors.map, PagesOf(Accepted(NoVectors, records)))
  BY <1>5, NoVectorsSound
<1>7. /\ Sound(dense') /\ (Complete(NoVectors) => Complete(dense'))
      /\ \A p \in DOMAIN dense'.map :
            \/ p \in DOMAIN NoVectors.map /\ dense'.map[p].version = NoVectors.map[p].version
            \/ [page |-> p, version |-> dense'.map[p].version] \in records
      /\ DOMAIN dense'.suppressed \subseteq DOMAIN NoVectors.suppressed
  BY <1>1, <1>3, <1>6, NoVectorsSound, VectoredIs
<1>8. Matches(dense', pages')
  <2>1. ASSUME NEW p \in DOMAIN dense'.map
        PROVE  pages[p] = [version |-> dense'.map[p].version, active |-> TRUE]
    <3>1. [page |-> p, version |-> dense'.map[p].version] \in records
      BY <1>7, NoVectorsSound
    <3>. QED  BY <3>1, <1>4
  <2>. QED  BY <2>1, <1>7, NoVectorsSound DEF Matches, Rebuild
<1>9. Typed' /\ Waking'
  BY DEF Rebuild, IInv, Typed, Waking, NotStarted, BatchIsFresh, DoneIsCovered,
         SleepIsExcused, WorkerPcs, session, signals
<1>. QED  BY <1>7, <1>8, <1>9, NoVectorsSound DEF IInv, Tables

LEMMA ApplyStep ==
    ASSUME IInv, NEW e \in Events, Apply(e)
    PROVE  IInv'
<1>. DEFINE K == {p \in Pages : e[p] # "none"}
<1>1. /\ Sound(dense') /\ (Complete(dense) => Complete(dense'))
      /\ dense'.map = Less(dense.map, K)
      /\ dense'.suppressed = Less(dense.suppressed, K)
  <2>1. dense' = Forgotten(dense, K)
    BY DEF Apply
  <2>. HIDE DEF K
  <2>. QED  BY <2>1, ForgottenIs DEF IInv, Tables
<1>2. \A p \in Pages : e[p] \in MutationOps
  BY EventsAssumption
<1>3. /\ \A p \in Pages \ K : pages'[p] = pages[p]
      /\ pages' \in [Pages -> PageStates]
      /\ \A p \in Pages : pages'[p].active => pages'[p].version # 0
  <2>1. seq \in Nat /\ pages' = ApplyMutations(pages, e, seq + 1)
    BY BoundsAssumption DEF Apply, IInv, Typed
  <2>2. \A p \in Pages :
           pages'[p] = CASE e[p] = "none"       -> pages[p]
                         [] e[p] = "upsert"     -> Upserted(pages[p], seq + 1)
                         [] e[p] = "invalidate" -> Invalidated(pages[p], seq + 1)
    BY <2>1 DEF ApplyMutations
  <2>3. \A p \in Pages : /\ pages'[p] \in PageStates
                         /\ pages'[p].active => pages'[p].version # 0
                         /\ p \notin K => pages'[p] = pages[p]
    <3>. TAKE p \in Pages
    <3>1. pages[p] \in PageStates /\ (pages[p].active => pages[p].version # 0)
      BY DEF IInv, Typed
    <3>2. CASE e[p] = "none"
      BY <2>2, <3>1, <3>2
    <3>3. CASE e[p] = "upsert"
      <4>1. pages'[p] \in {[version |-> seq + 1, active |-> TRUE], pages[p]}
        BY <2>2, <3>3 DEF Upserted
      <4>. DEFINE new == [version |-> seq + 1, active |-> TRUE]
      <4>2. new \in PageStates /\ new.version # 0
        BY <2>1 DEF PageStates
      <4>3. p \in K
        BY <3>3
      <4>. HIDE DEF new, K
      <4>4. CASE pages'[p] = new
        BY <4>2, <4>3, <4>4
      <4>5. CASE pages'[p] = pages[p]
        BY <3>1, <4>5
      <4>. QED  BY <4>1, <4>4, <4>5 DEF new
    <3>4. CASE e[p] = "invalidate"
      <4>1. pages'[p] = [version |-> seq + 1, active |-> FALSE]
        BY <2>2, <3>4 DEF Invalidated
      <4>2. pages'[p] \in PageStates /\ pages'[p].active = FALSE
        <5>1. seq + 1 \in Nat
          BY <2>1
        <5>. QED  BY <4>1, <5>1 DEF PageStates
      <4>3. p \in K
        BY <3>4
      <4>. QED  BY <4>2, <4>3
    <3>. QED  BY <1>2, <3>2, <3>3, <3>4 DEF MutationOps
  <2>4. pages' \in [Pages -> PageStates]
    BY <2>1, <2>3 DEF ApplyMutations
  <2>. QED  BY <2>3, <2>4
<1>. HIDE DEF K
<1>4. Matches(dense', pages')
  <2>1. /\ DOMAIN dense'.map = DOMAIN dense.map \ K
        /\ \A p \in DOMAIN dense'.map : dense'.map[p] = dense.map[p]
        /\ DOMAIN dense'.suppressed = DOMAIN dense.suppressed \ K
        /\ \A p \in DOMAIN dense'.suppressed : dense'.suppressed[p] = dense.suppressed[p]
    BY <1>1 DEF Less, Restrict
  <2>2. DOMAIN dense.map \subseteq Pages /\ DOMAIN dense.suppressed \subseteq Pages
    BY DEF IInv, Tables, Sound, MapApart, SuppressedApart
  <2>3. Matches(dense, pages)
    BY DEF IInv, Tables
  <2>. QED  BY <2>1, <2>2, <2>3, <1>3 DEF Matches
<1>5. Typed'
  BY <1>3, BoundsAssumption DEF Apply, IInv, Typed, session, WorkerPcs
<1>6. Waking'
  BY DEF Apply, IInv, Typed, Waking, NotStarted, BatchIsFresh, DoneIsCovered,
         SleepIsExcused, Alerted, session
<1>. QED  BY <1>1, <1>4, <1>5, <1>6 DEF IInv, Tables, Apply, session

\* UpsertVectors of records that are all current keeps the tables and matches.
LEMMA UpsertKeepsTables ==
    ASSUME IInv, NEW records \in SUBSET Records, UpsertVectors(records),
           UNCHANGED <<pages, phase>>
    PROVE  Tables'
<1>1. \A rec \in records : pages[rec.page] = [version |-> rec.version, active |-> TRUE]
  BY DEF UpsertVectors, Current
<1>2. \A r1, r2 \in records : r1.page = r2.page => r1 = r2
  <2>. SUFFICES ASSUME NEW r1 \in records, NEW r2 \in records, r1.page = r2.page
                PROVE  r1 = r2
    OBVIOUS
  <2>1. /\ pages[r1.page] = [version |-> r1.version, active |-> TRUE]
        /\ pages[r2.page] = [version |-> r2.version, active |-> TRUE]
    BY <1>1
  <2>2. r1.version = pages[r1.page].version /\ r2.version = pages[r2.page].version
    BY <2>1
  <2>3. /\ r1 = [page |-> r1.page, version |-> r1.version]
        /\ r2 = [page |-> r2.page, version |-> r2.version]
    BY DEF Records
  <2>. QED  BY <2>3, <2>2
<1>3. PICK row \in RowsFor(dense.map, PagesOf(Accepted(dense, records))) :
         dense' = Vectored(dense, records, row)
  BY DEF UpsertVectors
<1>4. Sound(dense) /\ Matches(dense, pages)
  BY DEF IInv, Tables
<1>5. /\ Sound(dense') /\ (Complete(dense) => Complete(dense'))
      /\ \A p \in DOMAIN dense'.map :
            \/ p \in DOMAIN dense.map /\ dense'.map[p].version = dense.map[p].version
            \/ [page |-> p, version |-> dense'.map[p].version] \in records
      /\ DOMAIN dense'.suppressed \subseteq DOMAIN dense.suppressed
      /\ \A p \in DOMAIN dense'.suppressed : dense'.suppressed[p] = dense.suppressed[p]
  BY <1>2, <1>3, <1>4, VectoredIs
<1>6. Matches(dense', pages)
  <2>1. ASSUME NEW p \in DOMAIN dense'.map
        PROVE  pages[p] = [version |-> dense'.map[p].version, active |-> TRUE]
    <3>1. CASE p \in DOMAIN dense.map /\ dense'.map[p].version = dense.map[p].version
      BY <3>1, <1>4 DEF Matches
    <3>2. CASE [page |-> p, version |-> dense'.map[p].version] \in records
      BY <3>2, <1>1
    <3>. QED  BY <3>1, <3>2, <1>5
  <2>. QED  BY <2>1, <1>4, <1>5 DEF Matches
<1>. QED  BY <1>5, <1>6 DEF IInv, Tables

LEMMA SuppressKeepsTables ==
    ASSUME IInv, NEW rec \in Records, SuppressVector(rec), UNCHANGED <<pages, phase>>
    PROVE  Tables'
<1>1. dense' = Suppressing(dense, rec) /\ Current(rec)
  BY DEF SuppressVector, Suppressing
<1>2. Sound(dense) /\ Matches(dense, pages)
  BY DEF IInv, Tables
<1>3. /\ Sound(dense') /\ (Complete(dense) => Complete(dense'))
      /\ dense'.map = Less(dense.map, {rec.page})
      /\ dense'.suppressed = Updated(dense.suppressed, [p \in {rec.page} |-> rec.version])
  BY <1>1, <1>2, SuppressingIs
<1>4. /\ DOMAIN dense'.map \subseteq DOMAIN dense.map
      /\ \A p \in DOMAIN dense'.map : dense'.map[p] = dense.map[p]
      /\ DOMAIN dense'.suppressed = DOMAIN dense.suppressed \cup {rec.page}
      /\ dense'.suppressed[rec.page] = rec.version
      /\ \A p \in DOMAIN dense.suppressed \ {rec.page} :
            dense'.suppressed[p] = dense.suppressed[p]
  BY <1>3 DEF Less, Restrict, Updated
<1>5. Matches(dense', pages)
  BY <1>1, <1>2, <1>4 DEF Matches, Current
<1>. QED  BY <1>3, <1>5 DEF IInv, Tables

LEMMA StoreStep ==
    ASSUME IInv, StoreBatch
    PROVE  IInv'
<1>1. wpc = "store" /\ UNCHANGED <<pages, seq, session, signals, faults>>
  BY DEF StoreBatch
<1>2. CASE UpsertVectors(batch) /\ wpc' = "check" /\ batch' = {} /\ UNCHANGED degraded
  <2>1. Tables'
    BY <1>1, <1>2, UpsertKeepsTables DEF session, IInv, Typed
  <2>2. Typed' /\ Waking'
    BY <1>1, <1>2 DEF IInv, Typed, Waking, NotStarted, BatchIsFresh, DoneIsCovered,
          SleepIsExcused, WorkerPcs, session, signals
  <2>. QED  BY <2>1, <2>2 DEF IInv
<1>3. CASE Stale(batch)
  <2>1. Tables' /\ Typed'
    BY <1>1, <1>3, TablesStay DEF Stale, IInv, Typed, WorkerPcs, session, signals, durable
  <2>2. wpc' = "wait" /\ batch' = {} /\ wake' = wake /\ owed' = owed /\ phase' = phase
    BY <1>1, <1>3 DEF Stale, session, signals
  <2>3. Alerted
    BY <1>1, <1>3 DEF Stale, IInv, Waking, BatchIsFresh
  <2>4. Waking'
    BY <1>1, <2>2, <2>3 DEF IInv, Waking, NotStarted, BatchIsFresh, DoneIsCovered,
          SleepIsExcused, Alerted
  <2>. QED  BY <2>1, <2>4 DEF IInv
<1>. QED  BY <1>2, <1>3 DEF StoreBatch

LEMMA EmbedOneStep ==
    ASSUME IInv, EmbedOne
    PROVE  IInv'
<1>1. /\ wpc = "single" /\ UNCHANGED <<pages, seq, session, signals, wpc, degraded, faults>>
      /\ phase' = phase /\ wake' = wake /\ owed' = owed
  BY DEF EmbedOne, session, signals
<1>2. PICK rec \in batch :
         /\ IF rec \in Denied THEN SuppressVector(rec) ELSE UpsertVectors({rec})
         /\ batch' = batch \ {rec}
  BY DEF EmbedOne
<1>3. rec \in Records /\ {rec} \in SUBSET Records
  BY DEF IInv, Typed
<1>4. Tables'
  <2>1. CASE rec \in Denied
    BY <1>1, <1>2, <1>3, <2>1, SuppressKeepsTables
  <2>2. CASE rec \notin Denied
    BY <1>1, <1>2, <1>3, <2>2, UpsertKeepsTables
  <2>. QED  BY <2>1, <2>2
<1>5. Typed'
  BY <1>1, <1>2 DEF IInv, Typed
<1>6. Waking'
  BY <1>1, <1>2 DEF IInv, Waking, NotStarted, BatchIsFresh, DoneIsCovered,
        SleepIsExcused, Alerted, Current
<1>. QED  BY <1>4, <1>5, <1>6 DEF IInv

LEMMA EmbedOneStaleStep ==
    ASSUME IInv, EmbedOneStale
    PROVE  IInv'
<1>1. wpc = "single" /\ UNCHANGED <<pages, seq, session, signals, faults>>
  BY DEF EmbedOneStale
<1>2. PICK rec \in batch : Stale({rec})
  BY DEF EmbedOneStale
<1>3. Tables' /\ Typed'
  BY <1>1, <1>2, TablesStay DEF Stale, IInv, Typed, WorkerPcs, session, signals, durable
<1>4. wpc' = "wait" /\ batch' = {} /\ wake' = wake /\ owed' = owed /\ phase' = phase
  BY <1>1, <1>2 DEF Stale, session, signals
<1>5. Alerted
  BY <1>1, <1>2 DEF Stale, IInv, Waking, BatchIsFresh
<1>6. Waking'
  BY <1>1, <1>4, <1>5 DEF IInv, Waking, NotStarted, BatchIsFresh, DoneIsCovered,
        SleepIsExcused, Alerted
<1>. QED  BY <1>3, <1>6 DEF IInv

\* The inductive invariant holds of every state: the tables, whatever is applied,
\* embedded, denied, lost or rebuilt, and the worker's promise to be woken.
THEOREM Invariance == Spec => []IInv
<1>1. Init => IInv
  BY InitInv
<1>2. IInv /\ [Next]_vars => IInv'
  <2>. SUFFICES ASSUME IInv, [Next]_vars PROVE IInv'
    OBVIOUS
  <2>1. CASE \E e \in Events : Apply(e)
    BY <2>1, ApplyStep
  <2>2. CASE OpenSession \/ Rebuild
    BY <2>2, OpenStep, RebuildStep
  <2>3. CASE MissingVectorPages \/ StoreBatch \/ EmbedOne \/ EmbedOneStale
    BY <2>3, ListingStep, StoreStep, EmbedOneStep, EmbedOneStaleStep
  <2>. QED  BY <2>1, <2>2, <2>3, ControlSteps DEF Next, WorkerStep
<1>. QED  BY <1>1, <1>2, PTL DEF Spec

\* dense.go: while a session is open the five tables describe the same pages, and
\* the listing of missing pages leaves out exactly those a query can meet.
THEOREM TablesAgree == Spec => []ProjectionsAgree
<1>1. IInv => ProjectionsAgree
  <2>. SUFFICES ASSUME IInv PROVE ProjectionsAgree
    OBVIOUS
  <2>1. Sound(dense)
    BY DEF IInv, Tables
  <2>2. TypeOK
    <3>1. \A p \in DOMAIN dense.map : dense.map[p] \in [row : Nat, version : Nat]
      BY <2>1 DEF Sound, MapApart
    <3>2. \A r \in DOMAIN dense.vec : dense.vec[r] \in Records
      <4>. TAKE r \in DOMAIN dense.vec
      <4>1. PICK p \in DOMAIN dense.map : r = dense.map[p].row
        BY <2>1 DEF Sound, VectorsMapped, RowsIn
      <4>2. dense.vec[r] = [page |-> p, version |-> dense.map[p].version]
        BY <2>1, <4>1 DEF Sound, VectorsMapped
      <4>3. p \in Pages /\ dense.map[p].version \in Nat \ {0}
        BY <2>1 DEF Sound, MapApart
      <4>. QED  BY <4>2, <4>3 DEF Records
    <3>3. Range(dense.rows) \subseteq Pages
      <4>1. \A r \in DOMAIN dense.rows : dense.rows[r] \in DOMAIN dense.map
        BY <2>1 DEF Sound, RowsMapped, RowsIn
      <4>. QED  BY <4>1, <2>1 DEF Range, Sound, MapApart
    <3>4. UNION {DOMAIN dense.map, DOMAIN dense.shadow, DOMAIN dense.suppressed,
                 Range(dense.rows)} \subseteq Pages
      BY <3>3, <2>1 DEF Sound, MapApart, ShadowsMapped, SuppressedApart
    <3>. QED  BY <3>1, <3>2, <3>4 DEF TypeOK, IInv, Typed
  <2>3. ASSUME phase # "closed"
        PROVE  /\ DOMAIN dense.rows = DOMAIN dense.vec
               /\ DOMAIN dense.vec = {dense.map[p].row : p \in DOMAIN dense.map}
    BY <2>1, <2>3 DEF IInv, Tables, Complete, Sound, VectorsMapped, RowsIn
  <2>4. ASSUME phase # "closed", NEW p \in DOMAIN dense.map
        PROVE  LET row == dense.map[p].row
               IN /\ dense.rows[row] = p
                  /\ dense.vec[row].page = p
                  /\ p \in DOMAIN dense.shadow => dense.shadow[p] = dense.vec[row]
    <3>1. dense.map[p].row \in DOMAIN dense.rows
      BY <2>3, <2>4
    <3>2. dense.rows[dense.map[p].row] = p
      BY <2>1, <3>1 DEF Sound, RowsMapped
    <3>3. dense.vec[dense.map[p].row] = [page |-> p, version |-> dense.map[p].version]
      BY <2>1 DEF Sound, VectorsMapped
    <3>4. dense.vec[dense.map[p].row].page = p
      BY <3>3
    <3>5. p \in DOMAIN dense.shadow => dense.shadow[p] = dense.vec[dense.map[p].row]
      BY <2>1, <3>3 DEF Sound, ShadowsMapped
    <3>. QED  BY <3>2, <3>4, <3>5
  <2>5. /\ DOMAIN dense.shadow \subseteq DOMAIN dense.map
        /\ DOMAIN dense.map \cap DOMAIN dense.suppressed = {}
    BY <2>1 DEF Sound, ShadowsMapped, SuppressedApart
  <2>6. ASSUME NEW p \in Pages, pages[p].active
        PROVE  Servable(p) = (p \notin Missing /\ ~Suppressed(p))
    <3>1. Mapped(p) => dense.map[p].row \in DOMAIN dense.vec /\ ~Suppressed(p)
      BY <2>1 DEF Mapped, Suppressed, Sound, VectorsMapped, RowsIn, SuppressedApart
    <3>. QED  BY <2>6, <3>1 DEF Servable, Missing
  <2>. QED  BY <2>2, <2>3, <2>4, <2>5, <2>6 DEF ProjectionsAgree
<1>. QED  BY <1>1, Invariance, PTL

\* requireCurrentPageTuple and deleteVectorTx: a vector a query can meet, and a
\* suppression, are of what the page holds now.
THEOREM VectorsAreCurrent == Spec => []VectorsMatchPages
<1>1. IInv => VectorsMatchPages
  <2>. SUFFICES ASSUME IInv PROVE VectorsMatchPages
    OBVIOUS
  <2>1. Sound(dense) /\ Matches(dense, pages)
    BY DEF IInv, Tables
  <2>2. ASSUME NEW p \in DOMAIN dense.map
        PROVE  /\ Current([page |-> p, version |-> dense.map[p].version])
               /\ dense.vec[dense.map[p].row] = Page(p)
    <3>1. pages[p] = [version |-> dense.map[p].version, active |-> TRUE]
      BY <2>1 DEF Matches
    <3>2. dense.vec[dense.map[p].row] = [page |-> p, version |-> dense.map[p].version]
      BY <2>1 DEF Sound, VectorsMapped
    <3>. QED  BY <3>1, <3>2 DEF Current, Page
  <2>3. ASSUME NEW p \in DOMAIN dense.suppressed PROVE Current(Page(p)) /\ Suppressed(p)
    <3>1. pages[p] = [version |-> dense.suppressed[p], active |-> TRUE]
      BY <2>1 DEF Matches
    <3>. QED  BY <3>1 DEF Current, Page, Suppressed
  <2>. QED  BY <2>2, <2>3 DEF VectorsMatchPages
<1>. QED  BY <1>1, Invariance, PTL

\* embeddingWorker: it sleeps on missing pages only after a failure it has
\* recorded, or with its wake pending or owed.
THEOREM SleepMeansCovered == Spec => []QuiescentMeansCovered
<1>1. IInv => QuiescentMeansCovered
  BY DEF IInv, Waking, SleepIsExcused, Alerted, QuiescentMeansCovered, AtRest
<1>. QED  BY <1>1, Invariance, PTL
=============================================================================
