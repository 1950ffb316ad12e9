---------------------------- MODULE HierarchyProofs ----------------------------
(***************************************************************************)
(* Proofs about Hierarchy, for any pages, sizes, caps and horizon.  First  *)
(* what the operators of BoundedFifo do, for every table, key and cap: the *)
(* account, the order and the entries stay in step, and the caps hold once *)
(* the excess has left.  Then the residents, and the bookkeeping around    *)
(* them.                                                                   *)
(***************************************************************************)
EXTENDS Hierarchy, SequenceTheorems, FiniteSetTheorems, WellFoundedInduction, TLAPS

-----------------------------------------------------------------------------
(* Totals.                                                                 *)

Weights(w) == IsFiniteSet(DOMAIN w) /\ \A x \in DOMAIN w : w[x] \in Nat

Units(w, S) == UNION {{x} \X (1..w[x]) : x \in S}

LEMMA UpToFinite ==
    ASSUME NEW n \in Nat
    PROVE  IsFiniteSet(1..n) /\ Cardinality(1..n) = n
<1>1. /\ IsFiniteSet(1..n)
      /\ Cardinality(1..n) = IF 1 > n THEN 0 ELSE n - 1 + 1
  BY FS_Interval
<1>. QED  BY <1>1

LEMMA Disjoint ==
    ASSUME NEW S, NEW T, IsFiniteSet(S), IsFiniteSet(T), S \cap T = {}
    PROVE  IsFiniteSet(S \cup T) /\ Cardinality(S \cup T) = Cardinality(S) + Cardinality(T)
<1>1. Cardinality(S \cup T) = Cardinality(S) + Cardinality(T) - Cardinality(S \cap T)
  BY FS_Union
<1>2. Cardinality(S \cap T) = 0
  BY FS_EmptySet
<1>3. Cardinality(S) \in Nat /\ Cardinality(T) \in Nat
  BY FS_CardinalityType
<1>. QED  BY <1>1, <1>2, <1>3, FS_Union

LEMMA UnitsFinite ==
    ASSUME NEW w, NEW S, IsFiniteSet(S), \A x \in S : w[x] \in Nat
    PROVE  IsFiniteSet(Units(w, S)) /\ Cardinality(Units(w, S)) \in Nat
<1>. DEFINE T == {{x} \X (1..w[x]) : x \in S}
            f == [x \in S |-> {x} \X (1..w[x])]
<1>1. f \in Surjection(S, T)
  BY DEF Surjection
<1>2. IsFiniteSet(T)
  BY <1>1, FS_Surjection
<1>3. ASSUME NEW U \in T
      PROVE  IsFiniteSet(U)
  <2>1. PICK x \in S : U = {x} \X (1..w[x])
    OBVIOUS
  <2>2. IsFiniteSet({x})
    BY FS_Singleton
  <2>3. IsFiniteSet(1..w[x])
    BY UpToFinite
  <2>. QED  BY <2>1, <2>2, <2>3, FS_Product
<1>. HIDE DEF T
<1>4. IsFiniteSet(UNION T)
  BY <1>2, <1>3, FS_UNION
<1>5. IsFiniteSet(Units(w, S))
  BY <1>4 DEF Units, T
<1>. QED  BY <1>5, FS_CardinalityType

LEMMA TotalNat ==
    ASSUME NEW w, Weights(w)
    PROVE  Total(w) \in Nat
BY UnitsFinite DEF Weights, Total, Units

LEMMA TotalSplit ==
    ASSUME NEW w, Weights(w), NEW S, S \subseteq DOMAIN w
    PROVE  /\ Weights(Restrict(w, S)) /\ Weights(Restrict(w, DOMAIN w \ S))
           /\ Total(w) = Total(Restrict(w, S)) + Total(Restrict(w, DOMAIN w \ S))
<1>. DEFINE R == DOMAIN w \ S
<1>1. /\ IsFiniteSet(S) /\ IsFiniteSet(R) /\ IsFiniteSet(DOMAIN w)
      /\ \A x \in DOMAIN w : w[x] \in Nat
  BY FS_Subset, FS_Difference DEF Weights
<1>2. /\ Restrict(w, S) = [x \in S |-> w[x]] /\ Restrict(w, R) = [x \in R |-> w[x]]
  BY DEF Restrict
<1>3. Weights(Restrict(w, S)) /\ Weights(Restrict(w, R))
  BY <1>1, <1>2 DEF Weights
<1>4. /\ Total(Restrict(w, S)) = Cardinality(Units(w, S))
      /\ Total(Restrict(w, R)) = Cardinality(Units(w, R))
      /\ Total(w) = Cardinality(Units(w, DOMAIN w))
  <2>1. UNION {{x} \X (1..Restrict(w, S)[x]) : x \in DOMAIN Restrict(w, S)} = Units(w, S)
    BY <1>2 DEF Units
  <2>2. UNION {{x} \X (1..Restrict(w, R)[x]) : x \in DOMAIN Restrict(w, R)} = Units(w, R)
    BY <1>2 DEF Units
  <2>. QED  BY <2>1, <2>2 DEF Total, Units
<1>5. Units(w, DOMAIN w) = Units(w, S) \cup Units(w, R)
  BY DEF Units
<1>6. Units(w, S) \cap Units(w, R) = {}
  BY DEF Units
<1>7. /\ IsFiniteSet(Units(w, S)) /\ Cardinality(Units(w, S)) \in Nat
      /\ IsFiniteSet(Units(w, R)) /\ Cardinality(Units(w, R)) \in Nat
  BY <1>1, UnitsFinite
<1>8. Cardinality(Units(w, S) \cup Units(w, R))
        = Cardinality(Units(w, S)) + Cardinality(Units(w, R))
  BY <1>6, <1>7, Disjoint
<1>. QED  BY <1>3, <1>4, <1>5, <1>8

LEMMA TotalNone ==
    ASSUME NEW w, DOMAIN w = {}
    PROVE  Total(w) = 0
<1>1. UNION {{x} \X (1..w[x]) : x \in DOMAIN w} = {}
  OBVIOUS
<1>. QED  BY <1>1, FS_EmptySet DEF Total

LEMMA TotalOne ==
    ASSUME NEW x, NEW n \in Nat
    PROVE  Total([y \in {x} |-> n]) = n
<1>1. UNION {{y} \X (1..[z \in {x} |-> n][y]) : y \in DOMAIN [z \in {x} |-> n]} = {x} \X (1..n)
  OBVIOUS
<1>2. Cardinality({x} \X (1..n)) = n
  <2>1. IsFiniteSet({x}) /\ Cardinality({x}) = 1
    BY FS_Singleton
  <2>2. IsFiniteSet(1..n) /\ Cardinality(1..n) = n
    BY UpToFinite
  <2>3. Cardinality({x} \X (1..n)) = Cardinality({x}) * Cardinality(1..n)
    BY <2>1, <2>2, FS_Product
  <2>. QED  BY <2>1, <2>2, <2>3
<1>. QED  BY <1>1, <1>2 DEF Total

\* One value changes, or comes in.
LEMMA TotalWith ==
    ASSUME NEW w, Weights(w), NEW x, NEW n \in Nat
    PROVE  /\ Weights(With(w, x, n))
           /\ x \in DOMAIN w => Total(With(w, x, n)) = Total(w) - w[x] + n
           /\ x \notin DOMAIN w => Total(With(w, x, n)) = Total(w) + n
<1>. DEFINE v == With(w, x, n)
            rest == DOMAIN w \ {x}
<1>1. /\ v = [y \in DOMAIN w \cup {x} |-> IF y = x THEN n ELSE w[y]]
      /\ IsFiniteSet(DOMAIN w) /\ \A y \in DOMAIN w : w[y] \in Nat
  BY DEF With, Weights
<1>2. Weights(v) /\ DOMAIN v = DOMAIN w \cup {x}
  BY <1>1, FS_AddElement DEF Weights
<1>3. Restrict(v, {x}) = [y \in {x} |-> n] /\ Restrict(v, DOMAIN v \ {x}) = Restrict(w, rest)
  BY <1>1 DEF Restrict
<1>4. Total(v) = n + Total(Restrict(w, rest)) /\ Total(Restrict(w, rest)) \in Nat
  <2>1. /\ Weights(Restrict(v, DOMAIN v \ {x}))
        /\ Total(v) = Total(Restrict(v, {x})) + Total(Restrict(v, DOMAIN v \ {x}))
    <3>. HIDE DEF v
    <3>1. {x} \subseteq DOMAIN v
      BY <1>2
    <3>. QED  BY <1>2, <3>1, TotalSplit
  <2>2. Total([y \in {x} |-> n]) = n
    BY TotalOne
  <2>3. Total(Restrict(w, rest)) \in Nat
    BY <1>3, <2>1, TotalNat
  <2>. QED  BY <1>3, <2>1, <2>2, <2>3
<1>. HIDE DEF v
<1>5. CASE x \in DOMAIN w
  <2>1. Restrict(w, {x}) = [y \in {x} |-> w[x]]
    BY DEF Restrict
  <2>2. Total(w) = w[x] + Total(Restrict(w, rest)) /\ w[x] \in Nat
    <3>1. Total(w) = Total(Restrict(w, {x})) + Total(Restrict(w, rest))
      <4>1. {x} \subseteq DOMAIN w
        BY <1>5
      <4>. QED  BY <4>1, TotalSplit
    <3>2. w[x] \in Nat /\ Total([y \in {x} |-> w[x]]) = w[x]
      BY <1>1, <1>5, TotalOne
    <3>3. Total(Restrict(w, {x})) = w[x]
      BY <2>1, <3>2
    <3>. QED  BY <3>1, <3>2, <3>3
  <2>. QED  BY <1>2, <1>4, <1>5, <2>2 DEF v
<1>6. CASE x \notin DOMAIN w
  <2>1. /\ Total(w) = Total(Restrict(w, {})) + Total(Restrict(w, DOMAIN w \ {}))
        /\ DOMAIN Restrict(w, {}) = {}
    BY TotalSplit DEF Restrict
  <2>2. Total(Restrict(w, {})) = 0
    BY <2>1, TotalNone
  <2>3. DOMAIN w \ {} = rest
    BY <1>6
  <2>4. Total(w) = Total(Restrict(w, rest))
    BY <1>4, <2>1, <2>2, <2>3
  <2>. HIDE DEF rest
  <2>. QED  BY <1>2, <1>4, <1>6, <2>4 DEF v
<1>. QED  BY <1>5, <1>6

\* What weighs nothing does not count.
LEMMA TotalOf ==
    ASSUME NEW w, Weights(w), NEW S, S \subseteq DOMAIN w, \A x \in DOMAIN w \ S : w[x] = 0
    PROVE  Total(w) = Total(Restrict(w, S))
<1>. DEFINE r == Restrict(w, DOMAIN w \ S)
<1>1. /\ Weights(Restrict(w, S)) /\ Total(w) = Total(Restrict(w, S)) + Total(r)
  BY TotalSplit
<1>2. \A x \in DOMAIN r : r[x] = 0
  BY DEF Restrict
<1>. HIDE DEF r
<1>3. 1..0 = {}
  OBVIOUS
<1>4. UNION {{x} \X (1..r[x]) : x \in DOMAIN r} = {}
  BY <1>2, <1>3
<1>5. Total(r) = 0
  BY <1>4, FS_EmptySet DEF Total
<1>. QED  BY <1>1, <1>5, TotalNat

\* One unit each is their number.
LEMMA TotalOnes ==
    ASSUME NEW S, IsFiniteSet(S), NEW w, DOMAIN w = S, \A x \in S : w[x] = 1
    PROVE  Total(w) = Cardinality(S)
<1>1. \A x \in S : 1..w[x] = {1}
  <2>1. 1..1 = {1}
    OBVIOUS
  <2>. QED  BY <2>1
<1>2. UNION {{x} \X (1..w[x]) : x \in S} = S \X {1}
  <2>1. \A u : u \in UNION {{x} \X (1..w[x]) : x \in S} <=> \E x \in S : u \in {x} \X {1}
    BY <1>1
  <2>2. \A u : u \in S \X {1} <=> \E x \in S : u \in {x} \X {1}
    OBVIOUS
  <2>. QED  BY <2>1, <2>2
<1>3. Cardinality(S \X {1}) = Cardinality(S)
  <2>1. IsFiniteSet({1}) /\ Cardinality({1}) = 1
    BY FS_Singleton
  <2>2. Cardinality(S \X {1}) = Cardinality(S) * Cardinality({1})
    BY <2>1, FS_Product
  <2>3. Cardinality(S) \in Nat
    BY FS_CardinalityType
  <2>. QED  BY <2>1, <2>2, <2>3
<1>. QED  BY <1>2, <1>3 DEF Total

-----------------------------------------------------------------------------
(* Orders.                                                                 *)

\* t lists what s has at the positions in kept, each once.
Picks(s, kept, t) ==
    \E K \in 0..Len(s) : \E at \in Bijection(1..K, kept) : t = [n \in 1..K |-> s[at[n]]]

\* Such a list has the members at those positions, each as often as there.
LEMMA PicksAre ==
    ASSUME NEW S, NEW s \in Seq(S), NEW kept \in SUBSET DOMAIN s, NEW t, Picks(s, kept, t)
    PROVE  /\ t \in Seq(S)
           /\ Range(t) = {s[i] : i \in kept}
           /\ IsInjective(s) => IsInjective(t)
<1>1. PICK K \in 0..Len(s) : \E at \in Bijection(1..K, kept) : t = [n \in 1..K |-> s[at[n]]]
  BY DEF Picks
<1>2. PICK at \in Bijection(1..K, kept) : t = [n \in 1..K |-> s[at[n]]]
  BY <1>1
<1>3. /\ K \in Nat
      /\ \A n \in 1..K : at[n] \in kept
      /\ \A i \in kept : \E n \in 1..K : at[n] = i
      /\ \A m, n \in 1..K : at[m] = at[n] => m = n
  BY DEF Bijection, Injection, IsInjective, Surjection
<1>4. t \in Seq(S)
  BY <1>2, <1>3
<1>5. Range(t) = {s[i] : i \in kept}
  <2>1. DOMAIN t = 1..K /\ \A n \in 1..K : t[n] = s[at[n]]
    BY <1>2
  <2>2. Range(t) = {t[n] : n \in 1..K}
    BY <2>1 DEF Range
  <2>3. ASSUME NEW n \in 1..K PROVE t[n] \in {s[i] : i \in kept}
    BY <2>1, <1>3
  <2>4. ASSUME NEW i \in kept PROVE \E n \in 1..K : t[n] = s[i]
    BY <2>1, <1>3
  <2>. QED  BY <2>2, <2>3, <2>4
<1>6. ASSUME IsInjective(s)
      PROVE  IsInjective(t)
  BY <1>2, <1>3, <1>6 DEF IsInjective
<1>. QED  BY <1>4, <1>5, <1>6

\* A filtered sequence lists what is at the positions kept, each once.
LEMMA FilteredPicks ==
    ASSUME NEW S, NEW s \in Seq(S), NEW gone
    PROVE  Picks(s, {i \in DOMAIN s : s[i] \notin gone}, Filtered(s, gone))
<1>. DEFINE kept == {i \in DOMAIN s : s[i] \notin gone}
            upTo(i) == {j \in kept : j <= i}
            K == Cardinality(kept)
            rank == [i \in kept |-> Cardinality(upTo(i))]
            at == [n \in 1..K |-> CHOOSE i \in kept : Cardinality(upTo(i)) = n]
<1>1. kept \in SUBSET (1..Len(s)) /\ Len(s) \in Nat
  OBVIOUS
<1>2. IsFiniteSet(kept) /\ K \in 0..Len(s) /\ Cardinality(1..K) = K /\ IsFiniteSet(1..K)
  <2>1. IsFiniteSet(1..Len(s)) /\ Cardinality(1..Len(s)) = Len(s)
    BY <1>1, UpToFinite
  <2>2. IsFiniteSet(kept) /\ K <= Len(s)
    BY <1>1, <2>1, FS_Subset
  <2>3. K \in Nat
    BY <2>2, FS_CardinalityType
  <2>. QED  BY <1>1, <2>2, <2>3, UpToFinite
<1>3. ASSUME NEW i \in kept
      PROVE  IsFiniteSet(upTo(i)) /\ Cardinality(upTo(i)) \in 1..K
  <2>1. upTo(i) \in SUBSET kept /\ i \in upTo(i)
    BY <1>1
  <2>2. IsFiniteSet(upTo(i)) /\ Cardinality(upTo(i)) <= K
    BY <1>2, <2>1, FS_Subset
  <2>3. Cardinality(upTo(i)) \in Nat /\ Cardinality(upTo(i)) # 0
    BY <2>1, <2>2, FS_CardinalityType, FS_EmptySet
  <2>. HIDE DEF upTo
  <2>. QED  BY <1>2, <2>2, <2>3
<1>4. ASSUME NEW i \in kept, NEW j \in kept, i < j
      PROVE  Cardinality(upTo(i)) # Cardinality(upTo(j))
  <2>1. upTo(i) \in SUBSET upTo(j) /\ j \in upTo(j) /\ j \notin upTo(i)
    BY <1>1, <1>4
  <2>. QED  BY <1>3, <2>1, FS_Subset
<1>. HIDE DEF upTo, kept
<1>5. rank \in Injection(kept, 1..K)
  <2>1. rank \in [kept -> 1..K]
    BY <1>3
  <2>2. ASSUME NEW i \in kept, NEW j \in kept, rank[i] = rank[j]
        PROVE  i = j
    <3>1. i \in Int /\ j \in Int
      BY <1>1
    <3>. QED  BY <1>4, <2>2, <3>1
  <2>. QED  BY <2>1, <2>2 DEF Injection, IsInjective
<1>6. rank \in Surjection(kept, 1..K)
  BY <1>2, <1>5, FS_Injection
<1>7. ASSUME NEW n \in 1..K
      PROVE  at[n] \in kept /\ rank[at[n]] = n
  <2>1. \E i \in kept : Cardinality(upTo(i)) = n
    BY <1>6 DEF Surjection
  <2>. QED  BY <2>1
<1>8. at \in Bijection(1..K, kept)
  <2>1. at \in [1..K -> kept]
    BY <1>7
  <2>2. ASSUME NEW i \in kept
        PROVE  rank[i] \in 1..K /\ at[rank[i]] = i
    <3>1. rank[i] \in 1..K
      BY <1>3
    <3>2. at[rank[i]] \in kept /\ rank[at[rank[i]]] = rank[i]
      BY <1>7, <3>1
    <3>. QED  BY <1>5, <3>1, <3>2 DEF Injection, IsInjective
  <2>3. \A m, n \in 1..K : at[m] = at[n] => m = n
    BY <1>7
  <2>4. at \in Injection(1..K, kept)
    BY <2>1, <2>3 DEF Injection, IsInjective
  <2>5. at \in Surjection(1..K, kept)
    BY <2>1, <2>2 DEF Surjection
  <2>. QED  BY <2>4, <2>5 DEF Bijection
<1>9. Filtered(s, gone) = [n \in 1..K |-> s[at[n]]]
  BY DEF Filtered, kept, upTo
<1>10. Picks(s, kept, Filtered(s, gone))
  BY <1>2, <1>8, <1>9 DEF Picks
<1>. QED  BY <1>10 DEF kept

\* What is kept keeps its type, and is listed once if it was.
LEMMA FilteredKeeps ==
    ASSUME NEW S, NEW s \in Seq(S), NEW gone
    PROVE  /\ Filtered(s, gone) \in Seq(S)
           /\ Range(Filtered(s, gone)) = Range(s) \ gone
           /\ IsInjective(s) => IsInjective(Filtered(s, gone))
<1>. DEFINE kept == {i \in DOMAIN s : s[i] \notin gone}
<1>1. Picks(s, kept, Filtered(s, gone))
  BY FilteredPicks
<1>2. {s[i] : i \in kept} = Range(s) \ gone
  BY DEF Range
<1>3. kept \in SUBSET DOMAIN s
  OBVIOUS
<1>. HIDE DEF kept
<1>. QED  BY <1>1, <1>2, <1>3, PicksAre

\* A list without repetitions is as long as it has members.
LEMMA InjectiveLength ==
    ASSUME NEW S, NEW s \in Seq(S), IsInjective(s)
    PROVE  IsFiniteSet(Range(s)) /\ Cardinality(Range(s)) = Len(s)
<1>1. s \in Bijection(1..Len(s), Range(s))
  BY DEF Bijection, Injection, Surjection, Range
<1>2. IsFiniteSet(1..Len(s)) /\ Cardinality(1..Len(s)) = Len(s)
  BY UpToFinite
<1>. QED  BY <1>1, <1>2, FS_Bijection DEF ExistsBijection

-----------------------------------------------------------------------------
(* Tables.                                                                 *)

\* What a table with keys in S is, whatever its caps.
IsTable(q, S) ==
    /\ {"of", "order", "bytes"} \subseteq DOMAIN q
    /\ q.order \in Seq(S)
    /\ \A k \in DOMAIN q.of : q.of[k].size \in Nat
    /\ Consistent(q)

Sizes(of) == [k \in DOMAIN of |-> of[k].size]

\* A table is finite, and its account a number.
LEMMA TableFinite ==
    ASSUME NEW S, NEW q, IsTable(q, S)
    PROVE  /\ IsFiniteSet(DOMAIN q.of) /\ Cardinality(DOMAIN q.of) = Len(q.order)
           /\ DOMAIN q.of \subseteq S
           /\ Weights(Sizes(q.of)) /\ Total(Sizes(q.of)) = q.bytes /\ q.bytes \in Nat
<1>1. IsFiniteSet(DOMAIN q.of) /\ Cardinality(DOMAIN q.of) = Len(q.order)
  BY InjectiveLength DEF IsTable, Consistent
<1>2. DOMAIN q.of \subseteq S
  BY DEF IsTable, Consistent, Range
<1>3. Weights(Sizes(q.of))
  BY <1>1 DEF Weights, Sizes, IsTable
<1>4. Total(Sizes(q.of)) = q.bytes
  BY DEF Sizes, SizeOf, IsTable, Consistent
<1>. QED  BY <1>1, <1>2, <1>3, <1>4, TotalNat

\* of without the keys in K.
Less(of, K) == [k \in DOMAIN of \ K |-> of[k]]

\* The keys that leave and those that stay weigh what they all did.
LEMMA SizesSplit ==
    ASSUME NEW S, NEW q, IsTable(q, S), NEW gone \in SUBSET DOMAIN q.of
    PROVE  /\ SizeOf(q.of, gone) \in Nat /\ SizeOf(q.of, DOMAIN q.of \ gone) \in Nat
           /\ q.bytes = SizeOf(q.of, gone) + SizeOf(q.of, DOMAIN q.of \ gone)
<1>. DEFINE v == Sizes(q.of)
            rest == DOMAIN q.of \ gone
<1>1. Weights(v) /\ DOMAIN v = DOMAIN q.of /\ gone \subseteq DOMAIN v /\ Total(v) = q.bytes
  BY TableFinite DEF Sizes
<1>2. /\ Restrict(v, gone) = [k \in gone |-> q.of[k].size]
      /\ Restrict(v, DOMAIN v \ gone) = [k \in rest |-> q.of[k].size]
  BY DEF Restrict, Sizes
<1>. HIDE DEF v
<1>3. /\ Weights(Restrict(v, gone)) /\ Weights(Restrict(v, DOMAIN v \ gone))
      /\ Total(v) = Total(Restrict(v, gone)) + Total(Restrict(v, DOMAIN v \ gone))
  BY <1>1, TotalSplit
<1>4. Total(Restrict(v, gone)) \in Nat /\ Total(Restrict(v, DOMAIN v \ gone)) \in Nat
  BY <1>3, TotalNat
<1>. QED  BY <1>1, <1>2, <1>3, <1>4 DEF SizeOf

\* Keys leave: what stays is as it was.
LEMMA WithoutTable ==
    ASSUME NEW S, NEW q, IsTable(q, S), NEW K
    PROVE  IsTable(Without(q, K), S) /\ Without(q, K).of = Less(q.of, K)
<1>. DEFINE gone == K \cap DOMAIN q.of
            w == Without(q, K)
            rest == DOMAIN q.of \ gone
<1>1. w = [q EXCEPT !.of = Restrict(q.of, DOMAIN q.of \ gone),
                    !.order = Filtered(q.order, gone),
                    !.bytes = q.bytes - SizeOf(q.of, gone)]
  BY DEF Without
<1>2. /\ DOMAIN w = DOMAIN q
      /\ w.of = Restrict(q.of, DOMAIN q.of \ gone)
      /\ w.order = Filtered(q.order, gone)
      /\ w.bytes = q.bytes - SizeOf(q.of, gone)
  BY <1>1 DEF IsTable
<1>. HIDE DEF w
<1>3. w.of = [k \in rest |-> q.of[k]] /\ DOMAIN w.of = rest
  BY <1>2 DEF Restrict
<1>4. /\ w.order \in Seq(S) /\ IsInjective(w.order) /\ Range(w.order) = rest
  BY <1>2, FilteredKeeps DEF IsTable, Consistent
<1>5. w.bytes = SizeOf(w.of, DOMAIN w.of)
  <2>1. /\ SizeOf(q.of, gone) \in Nat /\ SizeOf(q.of, rest) \in Nat
        /\ q.bytes = SizeOf(q.of, gone) + SizeOf(q.of, rest)
    BY SizesSplit
  <2>2. SizeOf(w.of, rest) = SizeOf(q.of, rest)
    <3>1. [k \in rest |-> w.of[k].size] = [k \in rest |-> q.of[k].size]
      BY <1>3
    <3>. QED  BY <3>1 DEF SizeOf
  <2>. QED  BY <1>2, <1>3, <2>1, <2>2
<1>6. IsTable(w, S)
  BY <1>2, <1>3, <1>4, <1>5 DEF IsTable, Consistent
<1>7. w.of = Less(q.of, K)
  BY <1>3 DEF Less
<1>. QED  BY <1>6, <1>7 DEF w

\* The order and the account lose what left.
LEMMA WithoutCounts ==
    ASSUME NEW S, NEW q, IsTable(q, S), NEW K
    PROVE  /\ SizeOf(q.of, K \cap DOMAIN q.of) \in Nat
           /\ Without(q, K).bytes = q.bytes - SizeOf(q.of, K \cap DOMAIN q.of)
           /\ Cardinality(K \cap DOMAIN q.of) \in Nat
           /\ Len(Without(q, K).order) = Len(q.order) - Cardinality(K \cap DOMAIN q.of)
<1>. DEFINE gone == K \cap DOMAIN q.of
            w == Without(q, K)
            rest == DOMAIN q.of \ K
<1>1. SizeOf(q.of, gone) \in Nat
  BY SizesSplit
<1>2. w.bytes = q.bytes - SizeOf(q.of, gone)
  BY DEF Without, IsTable
<1>3. IsTable(w, S) /\ w.of = Less(q.of, K)
  BY WithoutTable
<1>. HIDE DEF w
<1>4. w.order \in Seq(S) /\ IsInjective(w.order) /\ Range(w.order) = rest
  BY <1>3 DEF IsTable, Consistent, Less
<1>5. /\ Cardinality(gone) \in Nat
      /\ Len(w.order) = Len(q.order) - Cardinality(gone)
  <2>1. IsFiniteSet(gone) /\ Cardinality(gone) \in Nat
    BY TableFinite, FS_Subset, FS_CardinalityType
  <2>2. IsFiniteSet(rest) /\ Cardinality(rest) = Len(w.order)
    BY <1>4, InjectiveLength
  <2>3. Cardinality(gone \cup rest) = Cardinality(gone) + Cardinality(rest)
    BY <2>1, <2>2, Disjoint
  <2>4. gone \cup rest = DOMAIN q.of
    OBVIOUS
  <2>5. Len(w.order) \in Nat
    BY <1>4
  <2>6. Cardinality(DOMAIN q.of) = Len(q.order)
    BY TableFinite
  <2>7. Len(q.order) = Cardinality(gone) + Len(w.order)
    BY <2>2, <2>3, <2>4, <2>6
  <2>. HIDE DEF gone
  <2>. QED  BY <2>1, <2>5, <2>7
<1>. QED  BY <1>1, <1>2, <1>5 DEF w

\* An entry comes in, or takes the place of the one with its key.
LEMMA PutTable ==
    ASSUME NEW S, NEW q, IsTable(q, S), NEW k \in S, NEW e, e.size \in Nat
    PROVE  /\ IsTable(Put(q, k, e), S)
           /\ Put(q, k, e).of = With(q.of, k, e)
           /\ Len(Put(q, k, e).order) =
                 IF k \in DOMAIN q.of THEN Len(q.order) ELSE Len(q.order) + 1
<1>. DEFINE p == Put(q, k, e)
            had == k \in DOMAIN q.of
<1>1. /\ DOMAIN p = DOMAIN q
      /\ p.of = With(q.of, k, e)
      /\ p.order = IF had THEN q.order ELSE Append(q.order, k)
      /\ p.bytes = q.bytes - (IF had THEN q.of[k].size ELSE 0) + e.size
  BY DEF Put, IsTable
<1>. HIDE DEF p
<1>2. DOMAIN p.of = DOMAIN q.of \cup {k}
      /\ \A j \in DOMAIN p.of : p.of[j] = IF j = k THEN e ELSE q.of[j]
  BY <1>1 DEF With
<1>3. /\ p.order \in Seq(S) /\ IsInjective(p.order) /\ Range(p.order) = DOMAIN p.of
      /\ Len(p.order) = IF had THEN Len(q.order) ELSE Len(q.order) + 1
  <2>1. CASE had
    BY <1>1, <1>2, <2>1 DEF IsTable, Consistent
  <2>2. CASE ~had
    <3>1. p.order \in Seq(S) /\ Len(p.order) = Len(q.order) + 1
      BY <1>1, <2>2 DEF IsTable
    <3>2. Range(p.order) = DOMAIN p.of
      <4>1. q.order \in Seq(S) /\ Range(q.order) = DOMAIN q.of
        BY DEF IsTable, Consistent
      <4>2. p.order = Append(q.order, k)
        BY <1>1, <2>2
      <4>3. /\ DOMAIN p.order = 1..Len(q.order) + 1
            /\ \A i \in 1..Len(q.order) : p.order[i] = q.order[i]
            /\ p.order[Len(q.order) + 1] = k
        BY <4>1, <4>2
      <4>4. Range(p.order) = Range(q.order) \cup {k}
        <5>. DEFINE m == Len(q.order)
        <5>1. /\ m \in Nat /\ Range(q.order) = {q.order[i] : i \in 1..m}
              /\ Range(p.order) = {p.order[i] : i \in 1..m + 1}
          BY <4>1, <4>3 DEF Range
        <5>2. /\ \A i \in 1..m : p.order[i] = q.order[i]
              /\ p.order[m + 1] = k
          BY <4>3
        <5>3. 1..m + 1 = (1..m) \cup {m + 1}
          BY <5>1
        <5>. HIDE DEF m
        <5>. QED  BY <5>1, <5>2, <5>3
      <4>. QED  BY <4>1, <4>4, <1>2
    <3>3. IsInjective(p.order)
      BY <1>1, <2>2 DEF IsTable, Consistent, Range, IsInjective
    <3>. QED  BY <2>2, <3>1, <3>2, <3>3
  <2>. QED  BY <2>1, <2>2
<1>4. p.bytes = SizeOf(p.of, DOMAIN p.of)
  <2>. DEFINE v == Sizes(q.of)
  <2>1. Weights(v) /\ Total(v) = q.bytes /\ DOMAIN v = DOMAIN q.of
        /\ (had => v[k] = q.of[k].size)
    BY TableFinite DEF Sizes
  <2>2. [j \in DOMAIN p.of |-> p.of[j].size] = With(v, k, e.size)
    BY <1>2 DEF With, Sizes
  <2>. HIDE DEF v
  <2>3. Total(With(v, k, e.size)) = q.bytes - (IF had THEN q.of[k].size ELSE 0) + e.size
    <3>1. had => Total(With(v, k, e.size)) = Total(v) - v[k] + e.size
      BY <2>1, TotalWith
    <3>2. ~had => Total(With(v, k, e.size)) = Total(v) + e.size
      BY <2>1, TotalWith
    <3>3. q.bytes \in Nat
      BY TableFinite
    <3>. QED  BY <2>1, <3>1, <3>2, <3>3
  <2>. QED  BY <1>1, <2>2, <2>3 DEF SizeOf
<1>5. \A j \in DOMAIN p.of : p.of[j].size \in Nat
  BY <1>2 DEF IsTable
<1>6. IsTable(p, S)
  BY <1>1, <1>3, <1>4, <1>5 DEF IsTable, Consistent
<1>. QED  BY <1>1, <1>3, <1>6 DEF p

\* Numbers are well founded, so the least of them exists.
LEMMA NatMin ==
    ASSUME NEW T \in SUBSET Nat, T # {}
    PROVE  Min(T) \in T
<1>. DEFINE less == {ss \in Nat \X Nat : ss[1] < ss[2]}
<1>1. IsWellFoundedOn(less, Nat)
  BY NatLessThanWellFounded DEF OpToRel
<1>2. PICK m \in T : \A k \in T : ~(<<k, m>> \in less)
  <2>. HIDE DEF less
  <2>. QED BY <1>1, WFMin
<1>3. \A k \in T : m <= k
  <2>. TAKE k \in T
  <2>1. ~(k < m)
    BY <1>2
  <2>. QED  BY <2>1
<1>. QED  BY <1>3 DEF Min

\* enforceGhostCapLocked and enforceShadowCapLocked: the oldest leave until both
\* caps hold, and there is such a number of keys.
THEOREM ExcessFits ==
    ASSUME NEW S, NEW q, IsTable(q, S), NEW most \in Nat, NEW room \in Nat
    PROVE  Within(Without(q, Excess(q, most, room)), most, room)
<1>. DEFINE n == Len(q.order)
            oldest(i) == {q.order[j] : j \in 1..i}
            fits(i) == n - i <= most /\ q.bytes - SizeOf(q.of, oldest(i)) <= room
            T == {i \in 0..n : fits(i)}
<1>1. n \in Nat /\ oldest(n) = DOMAIN q.of
  <2>1. n \in Nat /\ DOMAIN q.order = 1..n
    BY DEF IsTable
  <2>. QED  BY <2>1 DEF IsTable, Consistent, Range
<1>2. fits(n)
  <2>1. SizeOf(q.of, DOMAIN q.of) = q.bytes /\ q.bytes \in Nat
    BY TableFinite DEF IsTable, Consistent
  <2>. HIDE DEF oldest
  <2>. QED  BY <1>1, <2>1
<1>. HIDE DEF fits
<1>3. Min(T) \in T
  <2>1. n \in T
    BY <1>1, <1>2
  <2>2. T \in SUBSET Nat
    BY <1>1
  <2>. HIDE DEF T
  <2>. QED  BY <2>1, <2>2, NatMin
<1>. DEFINE k == Min(T)
<1>4. k \in 0..n /\ fits(k)
  <2>. HIDE DEF k
  <2>1. k \in T
    BY <1>3 DEF k
  <2>. QED  BY <2>1
<1>. DEFINE gone == oldest(k)
<1>5. Excess(q, most, room) = gone
  BY DEF Excess, fits
<1>. HIDE DEF T, k
<1>6. gone \subseteq DOMAIN q.of /\ gone = gone \cap DOMAIN q.of
  BY <1>1, <1>4
<1>7. Cardinality(gone) = k
  <2>. DEFINE head == [j \in 1..k |-> q.order[j]]
  <2>1. head \in Bijection(1..k, gone)
    BY <1>4 DEF IsTable, Consistent, IsInjective, Bijection, Injection, Surjection
  <2>2. IsFiniteSet(1..k) /\ Cardinality(1..k) = k
    BY <1>4, UpToFinite
  <2>. QED  BY <2>1, <2>2, FS_Bijection DEF ExistsBijection
<1>8. fits(k) <=> n - k <= most /\ q.bytes - SizeOf(q.of, gone) <= room
  BY DEF fits
<1>. HIDE DEF oldest, gone
<1>9. /\ Len(Without(q, gone).order) = n - k
      /\ Without(q, gone).bytes = q.bytes - SizeOf(q.of, gone)
  <2>1. /\ Len(Without(q, gone).order) = n - Cardinality(gone \cap DOMAIN q.of)
        /\ Without(q, gone).bytes = q.bytes - SizeOf(q.of, gone \cap DOMAIN q.of)
    <3>. HIDE DEF n
    <3>. QED  BY WithoutCounts DEF n
  <2>. QED  BY <1>6, <1>7, <2>1
<1>. HIDE DEF n
<1>. QED  BY <1>4, <1>5, <1>8, <1>9 DEF Within

\* Fewer keys are within the same caps.
LEMMA WithoutWithin ==
    ASSUME NEW S, NEW q, IsTable(q, S), NEW K, NEW most \in Nat, NEW room \in Nat,
           Within(q, most, room)
    PROVE  Within(Without(q, K), most, room)
<1>1. /\ SizeOf(q.of, K \cap DOMAIN q.of) \in Nat
      /\ Without(q, K).bytes = q.bytes - SizeOf(q.of, K \cap DOMAIN q.of)
      /\ Cardinality(K \cap DOMAIN q.of) \in Nat
      /\ Len(Without(q, K).order) = Len(q.order) - Cardinality(K \cap DOMAIN q.of)
  BY WithoutCounts
<1>2. q.bytes \in Nat /\ Len(q.order) \in Nat
  BY TableFinite DEF IsTable
<1>. QED  BY <1>1, <1>2 DEF Within

-----------------------------------------------------------------------------
(* Residents.                                                              *)

Fields == {"of", "order", "clock", "bytes", "pinnedBytes", "pinnedPages", "l2", "l3"}

\* An entry of id, which has a body exactly when it says so.
EntryOf(e, id) ==
    /\ e \in Entries /\ e.page.id = id
    /\ e.materialized <=> e.page.body # 0

Typed(R) ==
    /\ Fields \subseteq DOMAIN R
    /\ \A id \in DOMAIN R.of : EntryOf(R.of[id], id)
    /\ R.clock \in Nat

Ordered(R) ==
    /\ R.order \in Seq(Ids) /\ IsInjective(R.order) /\ Range(R.order) = DOMAIN R.of
    /\ R.clock < Len(R.order) \/ R.clock = 0

Tiered(R) ==
    /\ R.l3 = {id \in DOMAIN R.of : R.of[id].state = "cold"}
    /\ R.l2 = {id \in DOMAIN R.of : R.of[id].state # "cold"}

\* What a resident adds to each of the three accounts.
Weight(e)    == PageSize(e.page)
PinWeight(e) == IF e.state = "pinned" THEN PageSize(e.page) ELSE 0
PinCount(e)  == IF e.state = "pinned" THEN 1 ELSE 0

WeightsOf(of)    == [id \in DOMAIN of |-> Weight(of[id])]
PinWeightsOf(of) == [id \in DOMAIN of |-> PinWeight(of[id])]
PinCountsOf(of)  == [id \in DOMAIN of |-> PinCount(of[id])]

Balanced(R) ==
    /\ R.bytes = Total(WeightsOf(R.of))
    /\ R.pinnedBytes = Total(PinWeightsOf(R.of))
    /\ R.pinnedPages = Total(PinCountsOf(R.of))

Residents(R) == Typed(R) /\ Ordered(R) /\ Tiered(R) /\ Balanced(R)

\* Sizes are numbers, and no page is empty: it has metadata.
LEMMA EntrySizes ==
    ASSUME NEW e \in Entries
    PROVE  /\ Weight(e) \in Nat \ {0} /\ PinWeight(e) \in Nat /\ PinCount(e) \in Nat
           /\ PinWeight(e) <= Weight(e) /\ PinCount(e) <= 1
           /\ e.page \in Pages
<1>1. e.page.meta \in Nat \ {0} /\ e.page.body \in Nat /\ e.page \in Pages
  <2>1. e.page \in Pages
    BY DEF Entries
  <2>2. e.page.meta \in MetaSizes /\ e.page.body \in BodySizes \cup {0}
    BY <2>1 DEF Pages
  <2>3. MetaSizes \subseteq Nat \ {0} /\ BodySizes \subseteq Nat
    BY SizesAssumption
  <2>4. e.page.body \in BodySizes \/ e.page.body = 0
    BY <2>2
  <2>5. e.page.meta \in Nat \ {0}
    BY <2>2, <2>3
  <2>6. e.page.body \in Nat
    <3>1. CASE e.page.body \in BodySizes
      BY <2>3, <3>1
    <3>2. CASE e.page.body = 0
      BY <3>2
    <3>. QED  BY <2>4, <3>1, <3>2
  <2>. QED  BY <2>1, <2>5, <2>6
<1>. QED  BY <1>1 DEF Weight, PinWeight, PinCount, PageSize

\* The residents are finitely many, and the accounts are numbers.
LEMMA ResidentsFinite ==
    ASSUME NEW R, Typed(R), Ordered(R)
    PROVE  /\ IsFiniteSet(DOMAIN R.of) /\ Cardinality(DOMAIN R.of) = Len(R.order)
           /\ DOMAIN R.of \subseteq Ids /\ Len(R.order) \in Nat
           /\ Weights(WeightsOf(R.of)) /\ Weights(PinWeightsOf(R.of)) /\ Weights(PinCountsOf(R.of))
<1>1. IsFiniteSet(DOMAIN R.of) /\ Cardinality(DOMAIN R.of) = Len(R.order)
  BY InjectiveLength DEF Ordered
<1>2. DOMAIN R.of \subseteq Ids /\ Len(R.order) \in Nat
  BY DEF Ordered, Range
<1>3. \A id \in DOMAIN R.of : /\ Weight(R.of[id]) \in Nat
                              /\ PinWeight(R.of[id]) \in Nat /\ PinCount(R.of[id]) \in Nat
  BY EntrySizes DEF Typed, EntryOf
<1>. QED  BY <1>1, <1>2, <1>3 DEF Weights, WeightsOf, PinWeightsOf, PinCountsOf

LEMMA AccountsAreNumbers ==
    ASSUME NEW R, Residents(R)
    PROVE  R.bytes \in Nat /\ R.pinnedBytes \in Nat /\ R.pinnedPages \in Nat
BY ResidentsFinite, TotalNat DEF Residents, Balanced

\* The entry of id is written: what the sums become.
LEMMA WritingBalances ==
    ASSUME NEW R, Residents(R), NEW id, NEW e, EntryOf(e, id)
    PROVE  LET of == With(R.of, id, e)
               was(n) == IF id \in DOMAIN R.of THEN n ELSE 0
           IN  /\ Total(WeightsOf(of)) = R.bytes - was(Weight(R.of[id])) + Weight(e)
               /\ Total(PinWeightsOf(of)) = R.pinnedBytes - was(PinWeight(R.of[id])) + PinWeight(e)
               /\ Total(PinCountsOf(of)) = R.pinnedPages - was(PinCount(R.of[id])) + PinCount(e)
<1>. DEFINE of == With(R.of, id, e)
<1>1. /\ Weight(e) \in Nat /\ PinWeight(e) \in Nat /\ PinCount(e) \in Nat
  BY EntrySizes DEF EntryOf
<1>2. /\ WeightsOf(of) = With(WeightsOf(R.of), id, Weight(e))
      /\ PinWeightsOf(of) = With(PinWeightsOf(R.of), id, PinWeight(e))
      /\ PinCountsOf(of) = With(PinCountsOf(R.of), id, PinCount(e))
  BY DEF With, WeightsOf, PinWeightsOf, PinCountsOf
<1>3. /\ DOMAIN WeightsOf(R.of) = DOMAIN R.of /\ DOMAIN PinWeightsOf(R.of) = DOMAIN R.of
      /\ DOMAIN PinCountsOf(R.of) = DOMAIN R.of
      /\ id \in DOMAIN R.of => /\ WeightsOf(R.of)[id] = Weight(R.of[id])
                               /\ PinWeightsOf(R.of)[id] = PinWeight(R.of[id])
                               /\ PinCountsOf(R.of)[id] = PinCount(R.of[id])
  BY DEF WeightsOf, PinWeightsOf, PinCountsOf
<1>4. Weights(WeightsOf(R.of)) /\ Weights(PinWeightsOf(R.of)) /\ Weights(PinCountsOf(R.of))
  BY ResidentsFinite DEF Residents
<1>5. R.bytes \in Nat /\ R.pinnedBytes \in Nat /\ R.pinnedPages \in Nat
  BY AccountsAreNumbers
<1>6. CASE id \in DOMAIN R.of
  <2>1. /\ Total(WeightsOf(of)) = R.bytes - Weight(R.of[id]) + Weight(e)
        /\ Total(PinWeightsOf(of)) = R.pinnedBytes - PinWeight(R.of[id]) + PinWeight(e)
        /\ Total(PinCountsOf(of)) = R.pinnedPages - PinCount(R.of[id]) + PinCount(e)
    BY <1>1, <1>2, <1>3, <1>4, <1>6, TotalWith DEF Residents, Balanced
  <2>. QED  BY <1>6, <2>1
<1>7. CASE id \notin DOMAIN R.of
  <2>1. /\ Total(WeightsOf(of)) = R.bytes + Weight(e)
        /\ Total(PinWeightsOf(of)) = R.pinnedBytes + PinWeight(e)
        /\ Total(PinCountsOf(of)) = R.pinnedPages + PinCount(e)
    BY <1>1, <1>2, <1>3, <1>4, <1>7, TotalWith DEF Residents, Balanced
  <2>. QED  BY <1>1, <1>5, <1>7, <2>1
<1>. QED  BY <1>6, <1>7

\* The entry of id goes: what the sums become.
LEMMA RemovingBalances ==
    ASSUME NEW R, Residents(R), NEW id \in DOMAIN R.of
    PROVE  LET of == Restrict(R.of, DOMAIN R.of \ {id})
           IN  /\ Total(WeightsOf(of)) = R.bytes - Weight(R.of[id])
               /\ Total(PinWeightsOf(of)) = R.pinnedBytes - PinWeight(R.of[id])
               /\ Total(PinCountsOf(of)) = R.pinnedPages - PinCount(R.of[id])
<1>. DEFINE of == Restrict(R.of, DOMAIN R.of \ {id})
            wo == WeightsOf(of)
            po == PinWeightsOf(of)
            co == PinCountsOf(of)
<1>1. EntryOf(R.of[id], id) /\ R.of[id] \in Entries
  BY DEF Residents, Typed, EntryOf
<1>2. /\ WeightsOf(R.of) = With(wo, id, Weight(R.of[id]))
      /\ PinWeightsOf(R.of) = With(po, id, PinWeight(R.of[id]))
      /\ PinCountsOf(R.of) = With(co, id, PinCount(R.of[id]))
      /\ id \notin DOMAIN wo /\ id \notin DOMAIN po /\ id \notin DOMAIN co
  BY DEF With, Restrict, WeightsOf, PinWeightsOf, PinCountsOf
<1>3. /\ Weight(R.of[id]) \in Nat /\ PinWeight(R.of[id]) \in Nat /\ PinCount(R.of[id]) \in Nat
  BY <1>1, EntrySizes
<1>4. Weights(wo) /\ Weights(po) /\ Weights(co)
  <2>1. /\ DOMAIN of \subseteq DOMAIN R.of /\ \A x \in DOMAIN of : of[x] = R.of[x]
    BY DEF Restrict
  <2>2. IsFiniteSet(DOMAIN of)
    BY <2>1, ResidentsFinite, FS_Subset DEF Residents
  <2>3. \A x \in DOMAIN of : /\ Weight(of[x]) \in Nat
                             /\ PinWeight(of[x]) \in Nat /\ PinCount(of[x]) \in Nat
    BY <2>1, EntrySizes DEF Residents, Typed, EntryOf
  <2>. HIDE DEF of
  <2>. QED  BY <2>2, <2>3 DEF Weights, WeightsOf, PinWeightsOf, PinCountsOf
<1>5. Total(wo) \in Nat /\ Total(po) \in Nat /\ Total(co) \in Nat
  BY <1>4, TotalNat
<1>. HIDE DEF wo, po, co
<1>6. /\ R.bytes = Total(wo) + Weight(R.of[id])
      /\ R.pinnedBytes = Total(po) + PinWeight(R.of[id])
      /\ R.pinnedPages = Total(co) + PinCount(R.of[id])
  BY <1>2, <1>3, <1>4, TotalWith DEF Residents, Balanced
<1>7. /\ Total(wo) = R.bytes - Weight(R.of[id])
      /\ Total(po) = R.pinnedBytes - PinWeight(R.of[id])
      /\ Total(co) = R.pinnedPages - PinCount(R.of[id])
  BY <1>3, <1>5, <1>6
<1>. QED  BY <1>7 DEF wo, po, co

\* Q is R with e for the entry of id, in the tables and in the accounts.
Rewrites(Q, R, id, e) ==
    /\ Fields \subseteq DOMAIN Q
    /\ Q.of = With(R.of, id, e) /\ Q.order = R.order
    /\ Q.l2 = IF e.state = "cold" THEN R.l2 \ {id} ELSE R.l2 \cup {id}
    /\ Q.l3 = IF e.state = "cold" THEN R.l3 \cup {id} ELSE R.l3 \ {id}

Reweighs(Q, R, id, e) ==
    /\ Q.bytes = R.bytes - Weight(R.of[id]) + Weight(e)
    /\ Q.pinnedBytes = R.pinnedBytes - PinWeight(R.of[id]) + PinWeight(e)
    /\ Q.pinnedPages = R.pinnedPages - PinCount(R.of[id]) + PinCount(e)

LEMMA RewritingKeeps ==
    ASSUME NEW R, Residents(R), NEW id \in DOMAIN R.of, NEW e, EntryOf(e, id), NEW Q,
           Rewrites(Q, R, id, e), Reweighs(Q, R, id, e),
           Q.clock \in Nat, Q.clock < Len(R.order) \/ Q.clock = 0
    PROVE  Residents(Q) /\ DOMAIN Q.of = DOMAIN R.of
<1>1. /\ DOMAIN Q.of = DOMAIN R.of
      /\ \A x \in DOMAIN R.of : Q.of[x] = IF x = id THEN e ELSE R.of[x]
  BY DEF With, Rewrites
<1>2. Typed(Q)
  BY <1>1 DEF Residents, Typed, Rewrites
<1>3. Ordered(Q)
  BY <1>1 DEF Residents, Ordered, Rewrites
<1>4. Tiered(Q)
  BY <1>1 DEF Residents, Tiered, Rewrites
<1>5. Balanced(Q)
  BY WritingBalances DEF Balanced, Rewrites, Reweighs
<1>. QED  BY <1>1, <1>2, <1>3, <1>4, <1>5 DEF Residents

LEMMA WithEntryWrites ==
    ASSUME NEW R, Fields \subseteq DOMAIN R, NEW id, NEW e
    PROVE  /\ Rewrites(WithEntry(R, id, e), R, id, e)
           /\ DOMAIN WithEntry(R, id, e) = DOMAIN R
           /\ WithEntry(R, id, e).clock = R.clock
           /\ WithEntry(R, id, e).bytes = R.bytes
           /\ WithEntry(R, id, e).pinnedBytes = R.pinnedBytes
           /\ WithEntry(R, id, e).pinnedPages = R.pinnedPages
BY DEF WithEntry, Fields, Rewrites

LEMMA ReplacedKeeps ==
    ASSUME NEW R, Residents(R), NEW id \in DOMAIN R.of, NEW e, EntryOf(e, id)
    PROVE  /\ Residents(Replaced(R, id, e))
           /\ Rewrites(Replaced(R, id, e), R, id, e) /\ Reweighs(Replaced(R, id, e), R, id, e)
           /\ DOMAIN Replaced(R, id, e).of = DOMAIN R.of
<1>. DEFINE Q == Replaced(R, id, e)
            U == WithEntry(R, id, e)
            pin(x) == IF x.state = "pinned" THEN 1 ELSE 0
<1>1. Fields \subseteq DOMAIN R /\ R.clock \in Nat /\ (R.clock < Len(R.order) \/ R.clock = 0)
  BY DEF Residents, Typed, Ordered
<1>2. Q = [U EXCEPT !.bytes = @ - Weight(R.of[id]) + Weight(e),
                    !.pinnedBytes = @ - pin(R.of[id]) * Weight(R.of[id]) + pin(e) * Weight(e),
                    !.pinnedPages = @ - pin(R.of[id]) + pin(e)]
  BY DEF Replaced, Weight
<1>. HIDE DEF Q, U
<1>3. /\ Rewrites(U, R, id, e) /\ DOMAIN U = DOMAIN R /\ U.clock = R.clock
      /\ U.bytes = R.bytes /\ U.pinnedBytes = R.pinnedBytes /\ U.pinnedPages = R.pinnedPages
  BY <1>1, WithEntryWrites DEF U
<1>4. /\ Rewrites(Q, R, id, e) /\ Q.clock = R.clock
      /\ Q.bytes = R.bytes - Weight(R.of[id]) + Weight(e)
      /\ Q.pinnedBytes = R.pinnedBytes - pin(R.of[id]) * Weight(R.of[id]) + pin(e) * Weight(e)
      /\ Q.pinnedPages = R.pinnedPages - pin(R.of[id]) + pin(e)
  BY <1>1, <1>2, <1>3 DEF Fields, Rewrites
<1>5. Weight(R.of[id]) \in Nat /\ Weight(e) \in Nat
  BY EntrySizes DEF Residents, Typed, EntryOf
<1>6. /\ pin(R.of[id]) * Weight(R.of[id]) = PinWeight(R.of[id])
      /\ pin(e) * Weight(e) = PinWeight(e)
      /\ pin(R.of[id]) = PinCount(R.of[id]) /\ pin(e) = PinCount(e)
  BY <1>5 DEF PinWeight, PinCount, Weight
<1>7. Reweighs(Q, R, id, e)
  BY <1>4, <1>6 DEF Reweighs
<1>8. Q.clock \in Nat /\ (Q.clock < Len(R.order) \/ Q.clock = 0)
  BY <1>1, <1>4
<1>9. Residents(Q) /\ DOMAIN Q.of = DOMAIN R.of
  BY <1>4, <1>7, <1>8, RewritingKeeps
<1>. QED  BY <1>4, <1>7, <1>9 DEF Q

\* Only the state of the entry changes, and not whether it is pinned; the hand
\* may move.
Restates(e, old) == e.page = old.page /\ (e.state = "pinned" <=> old.state = "pinned")

LEMMA RestatingKeeps ==
    ASSUME NEW R, Residents(R), NEW id \in DOMAIN R.of, NEW e, EntryOf(e, id),
           Restates(e, R.of[id]), NEW Q, Rewrites(Q, R, id, e),
           Q.bytes = R.bytes, Q.pinnedBytes = R.pinnedBytes, Q.pinnedPages = R.pinnedPages,
           Q.clock \in Nat, Q.clock < Len(R.order) \/ Q.clock = 0
    PROVE  Residents(Q) /\ DOMAIN Q.of = DOMAIN R.of
<1>1. /\ Weight(e) = Weight(R.of[id]) /\ PinWeight(e) = PinWeight(R.of[id])
      /\ PinCount(e) = PinCount(R.of[id])
      /\ Weight(e) \in Nat /\ PinWeight(e) \in Nat /\ PinCount(e) \in Nat
  BY EntrySizes DEF Weight, PinWeight, PinCount, EntryOf, Restates
<1>2. R.bytes \in Nat /\ R.pinnedBytes \in Nat /\ R.pinnedPages \in Nat
  BY AccountsAreNumbers
<1>3. Reweighs(Q, R, id, e)
  BY <1>1, <1>2 DEF Reweighs
<1>. QED  BY <1>3, RewritingKeeps

LEMMA WithEntryKeeps ==
    ASSUME NEW R, Residents(R), NEW id \in DOMAIN R.of, NEW e, EntryOf(e, id),
           Restates(e, R.of[id])
    PROVE  Residents(WithEntry(R, id, e)) /\ DOMAIN WithEntry(R, id, e).of = DOMAIN R.of
<1>1. Fields \subseteq DOMAIN R /\ R.clock \in Nat /\ (R.clock < Len(R.order) \/ R.clock = 0)
  BY DEF Residents, Typed, Ordered
<1>2. /\ Rewrites(WithEntry(R, id, e), R, id, e)
      /\ WithEntry(R, id, e).clock = R.clock
      /\ WithEntry(R, id, e).bytes = R.bytes
      /\ WithEntry(R, id, e).pinnedBytes = R.pinnedBytes
      /\ WithEntry(R, id, e).pinnedPages = R.pinnedPages
  BY <1>1, WithEntryWrites
<1>. QED  BY <1>1, <1>2, RestatingKeeps

\* s without its i-th place.
Dropped(s, i) == SubSeq(s, 1, i - 1) \o SubSeq(s, i + 1, Len(s))

LEMMA DroppedKeeps ==
    ASSUME NEW S, NEW s \in Seq(S), IsInjective(s), NEW i \in 1..Len(s)
    PROVE  /\ Dropped(s, i) \in Seq(S) /\ Len(Dropped(s, i)) = Len(s) - 1
           /\ \A j \in 1..Len(s) - 1 : Dropped(s, i)[j] = IF j < i THEN s[j] ELSE s[j + 1]
           /\ IsInjective(Dropped(s, i)) /\ Range(Dropped(s, i)) = Range(s) \ {s[i]}
<1>. DEFINE t == Dropped(s, i)
<1>1. /\ t \in Seq(S) /\ Len(t) = Len(s) - 1
      /\ \A j \in 1..Len(s) - 1 : t[j] = IF j < i THEN s[j] ELSE s[j + 1]
  <2>. DEFINE u == SubSeq(s, 1, i - 1)
              v == SubSeq(s, i + 1, Len(s))
  <2>1. /\ u \in Seq(S) /\ Len(u) = i - 1
        /\ \A j \in 1..i - 1 : u[j] = s[j]
    OBVIOUS
  <2>2. /\ v \in Seq(S) /\ Len(v) = Len(s) - i
        /\ \A j \in 1..Len(s) - i : v[j] = s[i + j]
    OBVIOUS
  <2>3. t = u \o v
    BY DEF Dropped
  <2>. HIDE DEF t, u, v
  <2>4. /\ t \in Seq(S) /\ Len(t) = Len(u) + Len(v)
        /\ \A j \in 1..Len(u) + Len(v) : t[j] = IF j <= Len(u) THEN u[j] ELSE v[j - Len(u)]
    BY <2>1, <2>2, <2>3, ConcatProperties
  <2>5. ASSUME NEW j \in 1..Len(s) - 1
        PROVE  t[j] = IF j < i THEN s[j] ELSE s[j + 1]
    <3>1. Len(u) = i - 1 /\ j \in 1..Len(u) + Len(v) /\ Len(s) \in Nat
      BY <2>1, <2>2
    <3>2. t[j] = IF j <= i - 1 THEN u[j] ELSE v[j - (i - 1)]
      BY <2>4, <3>1
    <3>3. CASE j < i
      BY <2>1, <3>2, <3>3
    <3>4. CASE j >= i
      <4>1. j - (i - 1) \in 1..Len(s) - i /\ i + (j - (i - 1)) = j + 1 /\ ~(j <= i - 1)
        BY <3>1, <3>4
      <4>2. v[j - (i - 1)] = s[i + (j - (i - 1))]
        BY <2>2, <4>1
      <4>. QED  BY <3>2, <3>4, <4>1, <4>2
    <3>. QED  BY <3>3, <3>4
  <2>. QED  BY <2>1, <2>2, <2>4, <2>5
<1>. HIDE DEF t
<1>2. IsInjective(t)
  <2>1. DOMAIN t = 1..Len(s) - 1 /\ DOMAIN s = 1..Len(s) /\ Len(s) \in Nat
    BY <1>1
  <2>2. SUFFICES ASSUME NEW x \in 1..Len(s) - 1, NEW y \in 1..Len(s) - 1, t[x] = t[y]
                 PROVE  x = y
    BY <2>1 DEF IsInjective
  <2>. DEFINE u == IF x < i THEN x ELSE x + 1
              v == IF y < i THEN y ELSE y + 1
  <2>3. u \in 1..Len(s) /\ v \in 1..Len(s) /\ t[x] = s[u] /\ t[y] = s[v]
    BY <1>1, <2>1
  <2>4. u = v => x = y
    BY <2>1
  <2>. HIDE DEF u, v
  <2>. QED  BY <2>1, <2>2, <2>3, <2>4 DEF IsInjective
<1>3. Range(t) = Range(s) \ {s[i]}
  <2>1. ASSUME NEW x \in Range(t)
        PROVE  x \in Range(s) \ {s[i]}
    BY <1>1 DEF Range, IsInjective
  <2>2. ASSUME NEW x \in Range(s), x # s[i]
        PROVE  x \in Range(t)
    <3>1. PICK j \in 1..Len(s) : s[j] = x
      BY DEF Range
    <3>2. CASE j < i
      BY <1>1, <3>1, <3>2 DEF Range
    <3>3. CASE j > i
      <4>1. j - 1 \in 1..Len(s) - 1 /\ t[j - 1] = x
        BY <1>1, <3>1, <3>3
      <4>. QED  BY <1>1, <4>1 DEF Range
    <3>. QED  BY <2>2, <3>1, <3>2, <3>3
  <2>. QED  BY <2>1, <2>2
<1>. QED  BY <1>1, <1>2, <1>3 DEF t

\* The place a resident has in the order.
Place(R, id) == CHOOSE i \in DOMAIN R.order : R.order[i] = id

LEMMA PlaceIs ==
    ASSUME NEW R, Ordered(R), NEW id \in DOMAIN R.of
    PROVE  /\ Place(R, id) \in 1..Len(R.order) /\ R.order[Place(R, id)] = id
           /\ \A i \in 1..Len(R.order) : R.order[i] = id => i = Place(R, id)
<1>1. \E i \in DOMAIN R.order : R.order[i] = id
  BY DEF Ordered, Range
<1>2. Place(R, id) \in DOMAIN R.order /\ R.order[Place(R, id)] = id
  BY <1>1 DEF Place
<1>. QED  BY <1>2 DEF Ordered, IsInjective

\* The hand stays on a resident, or at the start of an empty order.
LEMMA HandStays ==
    ASSUME NEW n \in Nat \ {0}, NEW clock \in 0..n - 1, NEW removed \in 0..n - 1
    PROVE  /\ HandAfter(clock, removed, n - 1) \in Nat
           /\ HandAfter(clock, removed, n - 1) < n - 1 \/ HandAfter(clock, removed, n - 1) = 0
BY DEF HandAfter

\* Q is R without id.
Drops(Q, R, id) ==
    /\ Fields \subseteq DOMAIN Q
    /\ Q.of = Restrict(R.of, DOMAIN R.of \ {id})
    /\ Q.order = Dropped(R.order, Place(R, id))
    /\ Q.clock = HandAfter(R.clock, Place(R, id) - 1, Len(R.order) - 1)
    /\ Q.bytes = R.bytes - Weight(R.of[id])
    /\ Q.pinnedBytes = R.pinnedBytes - PinWeight(R.of[id])
    /\ Q.pinnedPages = R.pinnedPages - PinCount(R.of[id])
    /\ Q.l2 = R.l2 \ {id} /\ Q.l3 = R.l3 \ {id}

LEMMA RemoveResidentKeeps ==
    ASSUME NEW R, Residents(R), NEW id \in DOMAIN R.of
    PROVE  Residents(RemoveResident(R, id)) /\ Drops(RemoveResident(R, id), R, id)
<1>. DEFINE Q == RemoveResident(R, id)
            size == PageSize(R.of[id].page)
            isPin == R.of[id].state = "pinned"
<1>1. Fields \subseteq DOMAIN R
  BY DEF Residents, Typed
<1>2. /\ Weight(R.of[id]) \in Nat /\ R.bytes \in Nat /\ R.pinnedBytes \in Nat
      /\ R.pinnedPages \in Nat
  BY EntrySizes, AccountsAreNumbers DEF Residents, Typed, EntryOf
<1>3. Q = [R EXCEPT !.of = Restrict(R.of, DOMAIN R.of \ {id}),
                    !.order = Dropped(R.order, Place(R, id)),
                    !.clock = HandAfter(R.clock, Place(R, id) - 1, Len(R.order) - 1),
                    !.bytes = R.bytes - size,
                    !.pinnedBytes = IF isPin THEN R.pinnedBytes - size ELSE R.pinnedBytes,
                    !.pinnedPages = IF isPin THEN R.pinnedPages - 1 ELSE R.pinnedPages,
                    !.l2 = R.l2 \ {id},
                    !.l3 = R.l3 \ {id}]
  BY DEF RemoveResident, Dropped, Place, Resident
<1>. HIDE DEF Q
<1>4. Drops(Q, R, id)
  BY <1>1, <1>2, <1>3 DEF Drops, Fields, Weight, PinWeight, PinCount
<1>5. /\ DOMAIN Q.of = DOMAIN R.of \ {id}
      /\ \A x \in DOMAIN Q.of : Q.of[x] = R.of[x]
  BY <1>4 DEF Drops, Restrict
<1>6. /\ Q.order \in Seq(Ids) /\ IsInjective(Q.order) /\ Range(Q.order) = DOMAIN Q.of
      /\ Len(Q.order) = Len(R.order) - 1 /\ Place(R, id) \in 1..Len(R.order)
  <2>1. R.order \in Seq(Ids) /\ IsInjective(R.order) /\ Range(R.order) = DOMAIN R.of
    BY DEF Residents, Ordered
  <2>2. Place(R, id) \in 1..Len(R.order) /\ R.order[Place(R, id)] = id
    BY PlaceIs DEF Residents
  <2>3. Q.order = Dropped(R.order, Place(R, id))
    BY <1>4 DEF Drops
  <2>. QED  BY <1>5, <2>1, <2>2, <2>3, DroppedKeeps
<1>7. Q.clock \in Nat /\ (Q.clock < Len(Q.order) \/ Q.clock = 0)
  <2>1. Len(R.order) \in Nat \ {0} /\ R.clock \in 0..Len(R.order) - 1
    BY <1>6 DEF Residents, Typed, Ordered
  <2>2. Place(R, id) - 1 \in 0..Len(R.order) - 1
    BY <1>6
  <2>. QED  BY <1>4, <1>6, <2>1, <2>2, HandStays DEF Drops
<1>8. Typed(Q)
  BY <1>4, <1>5, <1>7 DEF Residents, Typed, Drops
<1>9. Ordered(Q)
  BY <1>6, <1>7 DEF Ordered
<1>10. Tiered(Q)
  <2>1. /\ R.l3 = {x \in DOMAIN R.of : R.of[x].state = "cold"}
        /\ R.l2 = {x \in DOMAIN R.of : R.of[x].state # "cold"}
    BY DEF Residents, Tiered
  <2>2. Q.l2 = R.l2 \ {id} /\ Q.l3 = R.l3 \ {id}
    BY <1>4 DEF Drops
  <2>. QED  BY <1>5, <2>1, <2>2 DEF Tiered
<1>11. Balanced(Q)
  <2>. DEFINE of == Restrict(R.of, DOMAIN R.of \ {id})
  <2>1. /\ Total(WeightsOf(of)) = R.bytes - Weight(R.of[id])
        /\ Total(PinWeightsOf(of)) = R.pinnedBytes - PinWeight(R.of[id])
        /\ Total(PinCountsOf(of)) = R.pinnedPages - PinCount(R.of[id])
    BY RemovingBalances
  <2>2. /\ Q.of = of /\ Q.bytes = R.bytes - Weight(R.of[id])
        /\ Q.pinnedBytes = R.pinnedBytes - PinWeight(R.of[id])
        /\ Q.pinnedPages = R.pinnedPages - PinCount(R.of[id])
    BY <1>4 DEF Drops
  <2>. HIDE DEF of
  <2>. QED  BY <2>1, <2>2, Zenon DEF Balanced
<1>. QED  BY <1>4, <1>8, <1>9, <1>10, <1>11 DEF Residents, Q

\* Q is R with e for a new entry, at the end of the order.
Adds(Q, R, id, e) ==
    /\ Fields \subseteq DOMAIN Q
    /\ Q.of = With(R.of, id, e) /\ Q.order = Append(R.order, id) /\ Q.clock = R.clock
    /\ Q.bytes = R.bytes + Weight(e)
    /\ Q.pinnedBytes = R.pinnedBytes + PinWeight(e)
    /\ Q.pinnedPages = R.pinnedPages + PinCount(e)

LEMMA InsertedKeeps ==
    ASSUME NEW R, Residents(R), NEW id \in Ids, id \notin DOMAIN R.of, NEW e, EntryOf(e, id)
    PROVE  Residents(Inserted(R, e)) /\ Adds(Inserted(R, e), R, id, e)
<1>. DEFINE Q == Inserted(R, e)
            U == WithEntry(R, id, e)
            size == PageSize(e.page)
            isPin == e.state = "pinned"
<1>1. Fields \subseteq DOMAIN R /\ e.page.id = id
  BY DEF Residents, Typed, EntryOf
<1>2. Weight(e) \in Nat /\ R.bytes \in Nat /\ R.pinnedBytes \in Nat /\ R.pinnedPages \in Nat
  BY EntrySizes, AccountsAreNumbers DEF EntryOf
<1>3. Q = [U EXCEPT !.order = Append(@, id),
                    !.bytes = @ + size,
                    !.pinnedBytes = IF isPin THEN @ + size ELSE @,
                    !.pinnedPages = IF isPin THEN @ + 1 ELSE @]
  BY <1>1 DEF Inserted
<1>. HIDE DEF Q, U
<1>4. /\ Rewrites(U, R, id, e) /\ DOMAIN U = DOMAIN R /\ U.clock = R.clock
      /\ U.bytes = R.bytes /\ U.pinnedBytes = R.pinnedBytes /\ U.pinnedPages = R.pinnedPages
  BY <1>1, WithEntryWrites DEF U
<1>5. /\ Adds(Q, R, id, e) /\ Q.l2 = U.l2 /\ Q.l3 = U.l3
  BY <1>1, <1>2, <1>3, <1>4 DEF Adds, Rewrites, Fields, Weight, PinWeight, PinCount
<1>6. /\ DOMAIN Q.of = DOMAIN R.of \cup {id}
      /\ \A x \in DOMAIN Q.of : Q.of[x] = IF x = id THEN e ELSE R.of[x]
  BY <1>5 DEF Adds, With
<1>7. Typed(Q)
  BY <1>5, <1>6 DEF Residents, Typed, Adds
<1>8. Ordered(Q)
  <2>1. Q.order \in Seq(Ids) /\ Len(Q.order) = Len(R.order) + 1
    BY <1>5 DEF Adds, Residents, Ordered
  <2>2. IsInjective(Q.order) /\ Range(Q.order) = DOMAIN Q.of
    BY <1>5, <1>6 DEF Adds, Residents, Ordered, IsInjective, Range
  <2>. QED  BY <1>5, <2>1, <2>2 DEF Adds, Residents, Typed, Ordered
<1>9. Tiered(Q)
  BY <1>4, <1>5, <1>6 DEF Residents, Tiered, Rewrites
<1>10. Balanced(Q)
  <2>1. /\ Total(WeightsOf(Q.of)) = R.bytes - 0 + Weight(e)
        /\ Total(PinWeightsOf(Q.of)) = R.pinnedBytes - 0 + PinWeight(e)
        /\ Total(PinCountsOf(Q.of)) = R.pinnedPages - 0 + PinCount(e)
    BY <1>5, WritingBalances DEF Adds
  <2>. QED  BY <1>2, <1>5, <2>1 DEF Balanced, Adds
<1>. QED  BY <1>5, <1>7, <1>8, <1>9, <1>10 DEF Residents, Q

-----------------------------------------------------------------------------
(* Ghosts.                                                                 *)

GhostEntries == [version : Versions, size : MetaSizes]

Ghosts(G) ==
    /\ IsTable(G, Ids) /\ Within(G, MaxGhostEntries, MaxGhostBytes)
    /\ \A id \in DOMAIN G.of : G.of[id] \in GhostEntries

\* The ghost of a resident is of the resident's version.
Exactly(G, R) ==
    \A id \in DOMAIN G.of \cap DOMAIN R.of : G.of[id].version = R.of[id].page.version

LEMMA GhostsWithout ==
    ASSUME NEW G, Ghosts(G), NEW K
    PROVE  /\ Ghosts(Without(G, K))
           /\ Without(G, K).of = Less(G.of, K)
<1>1. IsTable(Without(G, K), Ids) /\ Without(G, K).of = Less(G.of, K)
  BY WithoutTable DEF Ghosts
<1>2. Within(Without(G, K), MaxGhostEntries, MaxGhostBytes)
  BY WithoutWithin, PolicyAssumption DEF Ghosts
<1>. QED  BY <1>1, <1>2 DEF Ghosts, Less

\* An evicted page leaves its metadata, and the oldest ghosts make room.
LEMMA GhostAdded ==
    ASSUME NEW G, Ghosts(G), NEW p \in Pages
    PROVE  /\ Ghosts(WithGhost(G, p))
           /\ \A id \in DOMAIN WithGhost(G, p).of :
                 id # p.id => id \in DOMAIN G.of /\ WithGhost(G, p).of[id] = G.of[id]
<1>1. CASE MaxGhostEntries = 0 \/ p.meta > MaxGhostBytes
  BY <1>1 DEF WithGhost
<1>2. CASE ~(MaxGhostEntries = 0 \/ p.meta > MaxGhostBytes)
  <2>. DEFINE e == [version |-> p.version, size |-> p.meta]
              q == Put(G, p.id, e)
              gone == Excess(q, MaxGhostEntries, MaxGhostBytes)
  <2>1. p.id \in Ids /\ e \in GhostEntries /\ e.size \in Nat
    BY SizesAssumption DEF Pages, GhostEntries
  <2>2. WithGhost(G, p) = Without(q, gone)
    BY <1>2 DEF WithGhost
  <2>. HIDE DEF e
  <2>3. IsTable(q, Ids) /\ q.of = With(G.of, p.id, e)
    BY <2>1, PutTable DEF Ghosts
  <2>4. \A id \in DOMAIN q.of : q.of[id] \in GhostEntries
    BY <2>1, <2>3 DEF Ghosts, With
  <2>. HIDE DEF q
  <2>5. Within(Without(q, gone), MaxGhostEntries, MaxGhostBytes)
    BY <2>3, ExcessFits, PolicyAssumption
  <2>. HIDE DEF gone
  <2>6. /\ IsTable(Without(q, gone), Ids)
        /\ Without(q, gone).of = Less(q.of, gone)
    BY <2>3, WithoutTable
  <2>7. Ghosts(Without(q, gone))
    BY <2>4, <2>5, <2>6 DEF Ghosts, Less
  <2>8. \A id \in DOMAIN Without(q, gone).of :
           id # p.id => id \in DOMAIN G.of /\ Without(q, gone).of[id] = G.of[id]
    BY <2>3, <2>6 DEF With, Less
  <2>. QED  BY <2>2, <2>7, <2>8
<1>. QED  BY <1>1, <1>2

-----------------------------------------------------------------------------
(* Shadows.                                                                *)

ShadowKeys == Tuples \X Namespaces

\* Observations that wait for a use.
Trials(of) == {k \in DOMAIN of : ~of[k].useful}

\* Between two steps of one operation ages and caps may be exceeded.
Observations(S) ==
    /\ IsTable(S, ShadowKeys) /\ "pending" \in DOMAIN S
    /\ \A k \in DOMAIN S.of : S.of[k] \in [useful : BOOLEAN, age : Nat, size : MetaSizes]
    /\ S.pending = Cardinality(Trials(S.of))
    /\ \A k, l \in DOMAIN S.of : k[1][1] = l[1][1] => k[1] = l[1]

Shadows(S) ==
    /\ Observations(S) /\ Within(S, MaxShadowEntries, MaxShadowBytes)
    /\ \A k \in DOMAIN S.of : S.of[k].age <= ShadowUseHorizon

LEMMA TrialsFinite ==
    ASSUME NEW S, Observations(S)
    PROVE  IsFiniteSet(Trials(S.of)) /\ S.pending \in Nat
<1>1. IsFiniteSet(DOMAIN S.of)
  BY TableFinite DEF Observations
<1>2. IsFiniteSet(Trials(S.of))
  BY <1>1, FS_Subset DEF Trials
<1>. QED  BY <1>2, FS_CardinalityType DEF Observations

\* A trial that leaves is counted once.
LEMMA ObservationsWithout ==
    ASSUME NEW S, Observations(S), NEW K
    PROVE  /\ Observations(ShadowsWithout(S, K))
           /\ ShadowsWithout(S, K).of = Less(S.of, K)
           /\ ShadowsWithout(S, K).order = Without(S, K).order
           /\ ShadowsWithout(S, K).bytes = Without(S, K).bytes
<1>. DEFINE q == Without(S, K)
            T == ShadowsWithout(S, K)
            ended == {k \in DOMAIN S.of \cap K : ~S.of[k].useful}
<1>1. IsTable(q, ShadowKeys) /\ q.of = Less(S.of, K)
  BY WithoutTable DEF Observations
<1>2. "pending" \in DOMAIN q /\ q.pending = S.pending
  BY DEF Without, Observations
<1>3. T = [q EXCEPT !.pending = @ - Cardinality(ended)]
  BY DEF ShadowsWithout
<1>. HIDE DEF q, T
<1>4. /\ DOMAIN T = DOMAIN q /\ T.of = q.of /\ T.order = q.order /\ T.bytes = q.bytes
      /\ T.pending = S.pending - Cardinality(ended)
  BY <1>1, <1>2, <1>3 DEF IsTable
<1>5. IsTable(T, ShadowKeys)
  BY <1>1, <1>4 DEF IsTable, Consistent
<1>6. S.pending - Cardinality(ended) = Cardinality(Trials(T.of))
  <2>1. Trials(T.of) = Trials(S.of) \ K /\ ended = Trials(S.of) \cap K
    BY <1>1, <1>4 DEF Trials, Less
  <2>2. Cardinality(Trials(S.of) \ K)
          = Cardinality(Trials(S.of)) - Cardinality(Trials(S.of) \cap K)
    BY TrialsFinite, FS_Difference
  <2>. QED  BY <2>1, <2>2 DEF Observations
<1>7. \A k \in DOMAIN T.of : k \in DOMAIN S.of /\ T.of[k] = S.of[k]
  BY <1>1, <1>4 DEF Less
<1>8. Observations(T)
  BY <1>2, <1>4, <1>5, <1>6, <1>7 DEF Observations
<1>. QED  BY <1>1, <1>4, <1>8 DEF q, T

LEMMA ShadowsFewer ==
    ASSUME NEW S, Shadows(S), NEW K
    PROVE  /\ Shadows(ShadowsWithout(S, K))
           /\ ShadowsWithout(S, K).of = Less(S.of, K)
<1>. DEFINE T == ShadowsWithout(S, K)
<1>1. /\ Observations(T) /\ T.of = Less(S.of, K)
      /\ T.order = Without(S, K).order /\ T.bytes = Without(S, K).bytes
  BY ObservationsWithout DEF Shadows
<1>2. Within(Without(S, K), MaxShadowEntries, MaxShadowBytes)
  BY WithoutWithin, PolicyAssumption DEF Shadows, Observations
<1>. HIDE DEF T
<1>3. Shadows(T)
  BY <1>1, <1>2 DEF Shadows, Within, Less
<1>. QED  BY <1>1, <1>3 DEF T

\* The entries change and no size does: the table is as it was.
LEMMA Aged ==
    ASSUME NEW S, IsTable(S, ShadowKeys), "pending" \in DOMAIN S, NEW of,
           DOMAIN of = DOMAIN S.of, \A k \in DOMAIN of : of[k].size = S.of[k].size,
           NEW T, DOMAIN T = DOMAIN S, T.of = of, T.order = S.order, T.bytes = S.bytes
    PROVE  IsTable(T, ShadowKeys)
<1>1. [k \in DOMAIN of |-> of[k].size] = [k \in DOMAIN S.of |-> S.of[k].size]
  OBVIOUS
<1>2. SizeOf(of, DOMAIN of) = SizeOf(S.of, DOMAIN S.of)
  BY <1>1 DEF SizeOf
<1>. QED  BY <1>2 DEF IsTable, Consistent

\* A use settles every trial of its page, and ends those beyond the horizon.
LEMMA SettledKeeps ==
    ASSUME NEW S, Shadows(S), NEW p
    PROVE  Shadows(Settled(S, p))
<1>. DEFINE aged == [k \in DOMAIN S.of |-> [S.of[k] EXCEPT !.age = @ + 1]]
            S1 == [S EXCEPT !.of = aged]
            old == {k \in DOMAIN aged : aged[k].age > ShadowUseHorizon}
            T == ShadowsWithout(S1, old)
            hits == {k \in DOMAIN T.of : k[1] = Tuple(p) /\ ~T.of[k].useful}
            settled == [k \in DOMAIN T.of |-> [T.of[k] EXCEPT !.useful = @ \/ k \in hits]]
            U == [T EXCEPT !.of = settled, !.pending = @ - Cardinality(hits)]
<1>1. IsTable(S, ShadowKeys) /\ "pending" \in DOMAIN S /\ {"of", "order", "bytes"} \subseteq DOMAIN S
  BY DEF Shadows, Observations, IsTable
<1>2. \A k \in DOMAIN S.of : S.of[k] \in [useful : BOOLEAN, age : Nat, size : MetaSizes]
  BY DEF Shadows, Observations
<1>3. /\ DOMAIN aged = DOMAIN S.of
      /\ \A k \in DOMAIN aged : /\ aged[k] \in [useful : BOOLEAN, age : Nat, size : MetaSizes]
                               /\ aged[k].size = S.of[k].size /\ aged[k].useful = S.of[k].useful
  BY <1>2
<1>. HIDE DEF aged
<1>4. /\ DOMAIN S1 = DOMAIN S /\ S1.of = aged /\ S1.order = S.order /\ S1.bytes = S.bytes
      /\ S1.pending = S.pending
  BY <1>1
<1>. HIDE DEF S1
<1>5. Observations(S1)
  <2>1. IsTable(S1, ShadowKeys)
    BY <1>1, <1>3, <1>4, Aged
  <2>2. Trials(S1.of) = Trials(S.of)
    BY <1>3, <1>4 DEF Trials
  <2>. QED  BY <1>1, <1>3, <1>4, <2>1, <2>2 DEF Shadows, Observations
<1>6. /\ Observations(T) /\ T.of = Less(S1.of, old)
      /\ T.order = Without(S1, old).order /\ T.bytes = Without(S1, old).bytes
  BY <1>5, ObservationsWithout
<1>7. Within(Without(S1, old), MaxShadowEntries, MaxShadowBytes)
  <2>1. Within(S1, MaxShadowEntries, MaxShadowBytes)
    BY <1>4 DEF Shadows, Within
  <2>. QED  BY <1>5, <2>1, WithoutWithin, PolicyAssumption DEF Observations
<1>8. \A k \in DOMAIN T.of : T.of[k].age <= ShadowUseHorizon
  <2>. HIDE DEF T
  <2>1. ASSUME NEW k \in DOMAIN T.of
        PROVE  T.of[k].age <= ShadowUseHorizon
    <3>1. k \in DOMAIN aged /\ k \notin old /\ T.of[k] = aged[k]
      BY <1>4, <1>6 DEF Less
    <3>2. ~(aged[k].age > ShadowUseHorizon) /\ aged[k].age \in Nat /\ ShadowUseHorizon \in Nat
      BY <1>3, <3>1, PolicyAssumption
    <3>. QED  BY <3>1, <3>2
  <2>. QED  BY <2>1
<1>. HIDE DEF T, old
<1>9. /\ IsTable(T, ShadowKeys) /\ "pending" \in DOMAIN T
      /\ \A k \in DOMAIN T.of : T.of[k] \in [useful : BOOLEAN, age : Nat, size : MetaSizes]
      /\ {"of", "order", "bytes"} \subseteq DOMAIN T
  BY <1>6 DEF Observations, IsTable
<1>10. /\ DOMAIN settled = DOMAIN T.of
       /\ \A k \in DOMAIN settled :
             /\ settled[k] \in [useful : BOOLEAN, age : Nat, size : MetaSizes]
             /\ settled[k].size = T.of[k].size /\ settled[k].age = T.of[k].age
             /\ settled[k].useful <=> T.of[k].useful \/ k \in hits
  BY <1>9
<1>11. hits \subseteq Trials(T.of) /\ IsFiniteSet(Trials(T.of))
       /\ T.pending = Cardinality(Trials(T.of))
  BY <1>6, TrialsFinite DEF Trials, Observations
<1>. HIDE DEF settled, hits
<1>12. /\ DOMAIN U = DOMAIN T /\ U.of = settled /\ U.order = T.order /\ U.bytes = T.bytes
       /\ U.pending = T.pending - Cardinality(hits)
  BY <1>9
<1>. HIDE DEF U
<1>13. Observations(U)
  <2>1. IsTable(U, ShadowKeys)
    BY <1>9, <1>10, <1>12, Aged
  <2>2. U.pending = Cardinality(Trials(U.of))
    <3>1. Trials(U.of) = Trials(T.of) \ hits /\ hits = Trials(T.of) \cap hits
      BY <1>10, <1>11, <1>12 DEF Trials
    <3>2. Cardinality(Trials(T.of) \ hits)
            = Cardinality(Trials(T.of)) - Cardinality(Trials(T.of) \cap hits)
      BY <1>11, FS_Difference
    <3>. QED  BY <1>11, <1>12, <3>1, <3>2
  <2>. QED  BY <1>6, <1>9, <1>10, <1>12, <2>1, <2>2 DEF Observations
<1>14. Shadows(U)
  <2>1. Within(U, MaxShadowEntries, MaxShadowBytes)
    BY <1>6, <1>7, <1>12 DEF Within
  <2>. QED  BY <1>8, <1>10, <1>12, <1>13, <2>1 DEF Shadows
<1>15. Settled(S, p) = U
  BY DEF Settled, U, settled, hits, T, old, S1, aged
<1>. QED  BY <1>14, <1>15

\* An observation comes in, or is repeated.
Noted(T, key, e) ==
    [Put(T, key, e) EXCEPT !.pending = IF key \in DOMAIN T.of THEN @ ELSE @ + 1]

LEMMA PutObservation ==
    ASSUME NEW T, Observations(T), NEW key \in ShadowKeys, NEW e,
           e \in [useful : BOOLEAN, age : Nat, size : MetaSizes],
           key \in DOMAIN T.of => e.useful = T.of[key].useful,
           key \notin DOMAIN T.of => ~e.useful,
           \A k \in DOMAIN T.of : k[1][1] = key[1][1] => k[1] = key[1]
    PROVE  /\ Observations(Noted(T, key, e)) /\ Noted(T, key, e).of = With(T.of, key, e)
           /\ Len(Noted(T, key, e).order) =
                 IF key \in DOMAIN T.of THEN Len(T.order) ELSE Len(T.order) + 1
<1>. DEFINE q == Put(T, key, e)
            had == key \in DOMAIN T.of
            U == Noted(T, key, e)
<1>1. /\ e.size \in Nat /\ IsTable(T, ShadowKeys) /\ "pending" \in DOMAIN T
  BY SizesAssumption DEF Observations
<1>2. /\ IsTable(q, ShadowKeys) /\ q.of = With(T.of, key, e)
      /\ Len(q.order) = IF had THEN Len(T.order) ELSE Len(T.order) + 1
  BY <1>1, PutTable
<1>3. DOMAIN q = DOMAIN T /\ q.pending = T.pending
  BY <1>1 DEF Put, IsTable
<1>. HIDE DEF q
<1>4. /\ DOMAIN U = DOMAIN q /\ U.of = q.of /\ U.order = q.order /\ U.bytes = q.bytes
      /\ U.pending = IF had THEN T.pending ELSE T.pending + 1
  BY <1>1, <1>2, <1>3 DEF IsTable, Noted, q
<1>. HIDE DEF U
<1>5. IsTable(U, ShadowKeys)
  BY <1>2, <1>4 DEF IsTable, Consistent
<1>6. /\ DOMAIN U.of = DOMAIN T.of \cup {key}
      /\ \A k \in DOMAIN U.of : U.of[k] = IF k = key THEN e ELSE T.of[k]
  BY <1>2, <1>4 DEF With
<1>7. U.pending = Cardinality(Trials(U.of))
  <2>1. CASE had
    <3>1. Trials(U.of) = Trials(T.of)
      BY <1>6, <2>1 DEF Trials
    <3>. QED  BY <1>4, <2>1, <3>1 DEF Observations
  <2>2. CASE ~had
    <3>1. Trials(U.of) = Trials(T.of) \cup {key} /\ key \notin Trials(T.of)
      BY <1>6, <2>2 DEF Trials
    <3>2. Cardinality(Trials(T.of) \cup {key}) = Cardinality(Trials(T.of)) + 1
      BY <3>1, TrialsFinite, FS_AddElement
    <3>. QED  BY <1>4, <2>2, <3>1, <3>2 DEF Observations
  <2>. QED  BY <2>1, <2>2
<1>8. Observations(U)
  BY <1>1, <1>3, <1>4, <1>5, <1>6, <1>7 DEF Observations
<1>. QED  BY <1>2, <1>4, <1>8 DEF U

\* An observation replaces those of other versions, and the oldest make room.
LEMMA ObservedKeeps ==
    ASSUME NEW S, Shadows(S), NEW p \in Pages, NEW ns \in Namespaces
    PROVE  Shadows(Observed(S, p, ns))
<1>. DEFINE T == ShadowsWithout(S, MismatchedShadows(S, p))
            key == <<Tuple(p), ns>>
            had == key \in DOMAIN T.of
            e == IF had THEN [T.of[key] EXCEPT !.size = p.meta]
                 ELSE [useful |-> FALSE, age |-> 0, size |-> p.meta]
            U == Noted(T, key, e)
            gone == Excess(U, MaxShadowEntries, MaxShadowBytes)
<1>1. /\ Shadows(T) /\ Observations(T) /\ T.of = Less(S.of, MismatchedShadows(S, p))
  BY ShadowsFewer DEF Shadows
<1>2. key \in ShadowKeys /\ key[1] = Tuple(p) /\ Tuple(p)[1] = p.id /\ p.meta \in MetaSizes
  BY DEF ShadowKeys, Tuples, Tuple, Pages
<1>3. \A k \in DOMAIN T.of : k[1][1] = key[1][1] => k[1] = key[1]
  BY <1>1, <1>2 DEF Less, MismatchedShadows, ShadowsOf
<1>. HIDE DEF T, key
<1>4. /\ e \in [useful : BOOLEAN, age : Nat, size : MetaSizes] /\ e.age <= ShadowUseHorizon
      /\ had => e.useful = T.of[key].useful
      /\ ~had => ~e.useful
  <2>1. CASE had
    <3>1. /\ T.of[key] \in [useful : BOOLEAN, age : Nat, size : MetaSizes]
          /\ T.of[key].age <= ShadowUseHorizon
      BY <1>1, <2>1 DEF Shadows, Observations
    <3>. QED  BY <1>2, <2>1, <3>1
  <2>2. CASE ~had
    <3>1. 0 <= ShadowUseHorizon
      BY PolicyAssumption
    <3>. QED  BY <1>2, <2>2, <3>1
  <2>. QED  BY <2>1, <2>2
<1>. HIDE DEF e
<1>5. /\ Observations(U) /\ U.of = With(T.of, key, e)
      /\ Len(U.order) = IF had THEN Len(T.order) ELSE Len(T.order) + 1
  BY <1>1, <1>2, <1>3, <1>4, PutObservation
<1>6. \A k \in DOMAIN U.of : U.of[k].age <= ShadowUseHorizon
  BY <1>1, <1>4, <1>5 DEF Shadows, With
<1>7. Observed(S, p, ns) = IF had THEN IF U.bytes > MaxShadowBytes THEN T ELSE U
                           ELSE ShadowsWithout(U, gone)
  BY DEF Observed, Noted, T, key, e
<1>. HIDE DEF U
<1>8. CASE had /\ U.bytes > MaxShadowBytes
  BY <1>1, <1>7, <1>8
<1>9. CASE had /\ ~(U.bytes > MaxShadowBytes)
  <2>1. U.bytes \in Nat /\ MaxShadowBytes \in Nat
    BY <1>5, TableFinite, PolicyAssumption DEF Observations
  <2>2. Within(U, MaxShadowEntries, MaxShadowBytes)
    BY <1>1, <1>5, <1>9, <2>1 DEF Shadows, Within
  <2>. QED  BY <1>5, <1>6, <1>7, <1>9, <2>2 DEF Shadows
<1>10. CASE ~had
  <2>1. Within(Without(U, gone), MaxShadowEntries, MaxShadowBytes)
    BY <1>5, ExcessFits, PolicyAssumption DEF Observations
  <2>. DEFINE V == ShadowsWithout(U, gone)
  <2>. HIDE DEF gone
  <2>2. /\ Observations(V) /\ V.of = Less(U.of, gone)
        /\ V.order = Without(U, gone).order /\ V.bytes = Without(U, gone).bytes
    BY <1>5, ObservationsWithout
  <2>. HIDE DEF V
  <2>3. Shadows(V)
    BY <1>6, <2>1, <2>2 DEF Shadows, Within, Less
  <2>. QED  BY <1>7, <1>10, <2>3 DEF V
<1>. QED  BY <1>8, <1>9, <1>10

-----------------------------------------------------------------------------
(* The sweep.                                                              *)

\* Steps of the hand until it is on the i-th resident of the order.
Distance(R, i) ==
    IF i - 1 >= R.clock THEN i - 1 - R.clock ELSE i - 1 - R.clock + Len(R.order)

At(R, i) == R.of[R.order[i]]

\* Scans until the i-th resident is a victim: the hand comes to it, and once
\* more for its reference bit and once more for its demotion.
Due(R, i) ==
    Distance(R, i) + 1 + (IF At(R, i).state = "hot" THEN Len(R.order) ELSE 0)
                       + (IF At(R, i).ref THEN Len(R.order) ELSE 0)

Spent(e) == e.state = "cold" /\ ~e.ref

\* A budget without a victim yet has enough left for each unpinned resident.
Affords(R, left) ==
    \A i \in 1..Len(R.order) : At(R, i).state # "pinned" => Due(R, i) <= left

\* What could be reclaimed at once is ahead of what the sweep has worn down.
EasyAhead(R, easy) ==
    /\ \A i \in 1..Len(R.order) : R.order[i] \in easy => Spent(At(R, i))
    /\ \A i, j \in 1..Len(R.order) :
          R.order[i] \in easy /\ R.order[j] \notin easy /\ Spent(At(R, j))
             => Distance(R, i) < Distance(R, j)

Sweeping(R, w) ==
    /\ w \in [left : Nat \ {0}, evicted : BOOLEAN, easy : SUBSET Ids]
    /\ OverCapacity(R)
    /\ ~w.evicted => Affords(R, w.left)
    /\ EasyAhead(R, w.easy)

PinsFit(R) == R.pinnedPages <= MaxPinnedPages /\ R.pinnedBytes <= MaxPinnedBytes

LEMMA HandIs ==
    ASSUME NEW R, Residents(R), NEW i \in 1..Len(R.order)
    PROVE  /\ R.clock \in Nat /\ Len(R.order) \in Nat /\ R.clock < Len(R.order)
           /\ Distance(R, i) \in 0..Len(R.order) - 1
           /\ R.order[i] \in DOMAIN R.of /\ At(R, i) \in Entries
<1>1. R.clock \in Nat /\ Len(R.order) \in Nat /\ R.clock < Len(R.order)
  BY DEF Residents, Typed, Ordered
<1>2. R.order[i] \in DOMAIN R.of
  BY DEF Residents, Ordered, Range
<1>3. At(R, i) \in Entries
  BY <1>2 DEF At, Residents, Typed, EntryOf
<1>. QED  BY <1>1, <1>2, <1>3 DEF Distance

\* Three visits and one scan are enough for anyone.
LEMMA BudgetAffords ==
    ASSUME NEW R, Residents(R)
    PROVE  ScanBudget(R) \in Nat \ {0} /\ Affords(R, ScanBudget(R))
<1>1. Len(R.order) \in Nat
  BY ResidentsFinite DEF Residents
<1>2. ASSUME NEW i \in 1..Len(R.order)
      PROVE  Due(R, i) <= ScanBudget(R)
  BY HandIs DEF Due, ScanBudget
<1>. QED  BY <1>1, <1>2 DEF Affords, ScanBudget

LEMMA SweepBegins ==
    ASSUME NEW R, Residents(R), OverCapacity(R)
    PROVE  Sweeping(R, BeginSweep(R))
<1>1. EasyVictims(R) \subseteq Ids
  BY ResidentsFinite DEF EasyVictims, Residents
<1>2. EasyAhead(R, EasyVictims(R))
  BY HandIs DEF EasyAhead, EasyVictims, Spent, At
<1>. QED  BY <1>1, <1>2, BudgetAffords DEF Sweeping, BeginSweep

-----------------------------------------------------------------------------
(* The invariant.                                                          *)

Capacity ==
    /\ lock \in {"free", "sweep", "apply"}
    /\ lock # "sweep" => ~OverCapacity(residency) /\ sweep = NoSweep
    /\ lock = "sweep" => Sweeping(residency, sweep)

IInv ==
    /\ Residents(residency) /\ PinsFit(residency) /\ Capacity
    /\ Ghosts(ghosts) /\ Exactly(ghosts, residency)
    /\ Shadows(shadows)
    /\ listed \in Seq(Tuples)

LEMMA InitHolds == Init => IInv
<1>. SUFFICES ASSUME Init PROVE IInv
  OBVIOUS
<1>1. Total(WeightsOf(<<>>)) = 0 /\ Total(PinWeightsOf(<<>>)) = 0 /\ Total(PinCountsOf(<<>>)) = 0
  BY TotalNone DEF WeightsOf, PinWeightsOf, PinCountsOf
<1>2. Residents(residency)
  BY <1>1 DEF Init, Residents, Typed, Fields, Ordered, Tiered, Balanced, IsInjective, Range
<1>3. Cardinality(DOMAIN residency.of) = 0 /\ residency.bytes = 0
  BY FS_EmptySet DEF Init
<1>4. PinsFit(residency) /\ Capacity
  BY <1>3, PolicyAssumption DEF Init, PinsFit, Capacity, OverCapacity
<1>5. SizeOf(<<>>, {}) = 0
  BY TotalNone DEF SizeOf
<1>6. Ghosts(ghosts) /\ Exactly(ghosts, residency)
  BY <1>5, PolicyAssumption
     DEF Init, Ghosts, Exactly, EmptyFifo, IsTable, Consistent, Within, IsInjective, Range
<1>7. Shadows(shadows)
  <2>1. Trials(shadows.of) = {}
    BY DEF Init, Trials
  <2>2. shadows.pending = Cardinality(Trials(shadows.of))
    BY <2>1, FS_EmptySet DEF Init
  <2>. QED  BY <1>5, <2>2, PolicyAssumption
     DEF Init, Shadows, Observations, IsTable, Consistent, Within, IsInjective, Range
<1>. QED  BY <1>2, <1>4, <1>6, <1>7 DEF Init, IInv

\* The lock is free, and stays so unless the admission needs room.
LEMMA LandingKeeps ==
    ASSUME Capacity, lock = "free", NEW R, Residents(R), Land(R)
    PROVE  Capacity'
<1>1. CASE OverCapacity(R)
  <2>1. residency' = R /\ lock' = "sweep" /\ sweep' = BeginSweep(R)
    BY <1>1 DEF Land
  <2>. QED  BY <1>1, <2>1, SweepBegins DEF Capacity
<1>2. CASE ~OverCapacity(R)
  BY <1>2 DEF Land, Capacity
<1>. QED  BY <1>1, <1>2

-----------------------------------------------------------------------------
(* Admission.                                                              *)

Modes == {"demand", "cold", "warm", "pinned", "hot"}

LEMMA UsedOnceIs ==
    ASSUME NEW e, NEW id, EntryOf(e, id)
    PROVE  /\ EntryOf(UsedOnce(e), id) /\ UsedOnce(e).page = e.page
           /\ UsedOnce(e).state = "pinned" <=> e.state = "pinned"
<1>. DEFINE uses == IF e.uses = 2 THEN 2 ELSE e.uses + 1
            state == IF e.state = "cold" /\ e.uses >= 1 THEN "hot" ELSE e.state
<1>1. e \in Entries /\ e.uses \in 0..2
  BY DEF EntryOf, Entries
<1>2. uses \in 0..2 /\ state \in {"cold", "hot", "pinned"}
      /\ (state = "pinned" <=> e.state = "pinned")
  BY <1>1 DEF Entries
<1>3. UsedOnce(e) = [e EXCEPT !.uses = uses, !.ref = TRUE, !.state = state]
  BY DEF UsedOnce
<1>. HIDE DEF uses, state
<1>. QED  BY <1>1, <1>2, <1>3 DEF EntryOf, Entries

LEMMA RefreshedIs ==
    ASSUME NEW old, NEW p \in Pages, EntryOf(old, p.id), NEW mode \in Modes
    PROVE  /\ EntryOf(Refreshed(old, p, mode), p.id) /\ Refreshed(old, p, mode).page = p
           /\ Refreshed(old, p, mode).state = "pinned" <=> mode = "pinned" \/ old.state = "pinned"
<1>. DEFINE now == [old EXCEPT !.page = p, !.materialized = p.body # 0]
<1>1. /\ EntryOf(now, p.id) /\ now.page = p /\ now.state = old.state /\ now.uses = old.uses
  BY DEF EntryOf, Entries
<1>. HIDE DEF now
<1>2. CASE mode = "demand"
  <2>1. Refreshed(old, p, mode) = UsedOnce(now)
    BY <1>2 DEF Refreshed, now
  <2>. QED  BY <1>1, <1>2, <2>1, UsedOnceIs
<1>3. CASE mode = "cold"
  <2>1. Refreshed(old, p, mode) = now
    BY <1>3 DEF Refreshed, now
  <2>. QED  BY <1>1, <1>3, <2>1
<1>4. CASE mode = "warm"
  <2>1. Refreshed(old, p, mode) =
          IF old.state = "pinned" THEN now ELSE [now EXCEPT !.state = "cold", !.ref = FALSE]
    BY <1>4 DEF Refreshed, now
  <2>. QED  BY <1>1, <1>4, <2>1 DEF EntryOf, Entries
<1>5. CASE mode = "pinned"
  <2>1. Refreshed(old, p, mode) = [now EXCEPT !.state = "pinned", !.ref = TRUE]
    BY <1>5 DEF Refreshed, now
  <2>. QED  BY <1>1, <1>5, <2>1 DEF EntryOf, Entries
<1>6. CASE mode = "hot"
  <2>1. Refreshed(old, p, mode) =
          [now EXCEPT !.state = IF old.state = "pinned" THEN @ ELSE "hot", !.ref = TRUE]
    BY <1>6 DEF Refreshed, now
  <2>. QED  BY <1>1, <1>6, <2>1 DEF EntryOf, Entries
<1>. QED  BY <1>2, <1>3, <1>4, <1>5, <1>6 DEF Modes

LEMMA NewcomerIs ==
    ASSUME NEW p \in Pages, NEW mode \in Modes, NEW refault \in BOOLEAN
    PROVE  /\ EntryOf(Newcomer(p, mode, refault), p.id) /\ Newcomer(p, mode, refault).page = p
           /\ Newcomer(p, mode, refault).state = "pinned" <=> mode = "pinned"
<1>. DEFINE e == Newcomer(p, mode, refault)
<1>1. DOMAIN e = {"page", "state", "ref", "uses", "materialized"} /\ e.page = p
      /\ e.ref \in BOOLEAN /\ e.uses \in 0..2 /\ e.materialized = (p.body # 0)
      /\ e = [page |-> e.page, state |-> e.state, ref |-> e.ref, uses |-> e.uses,
              materialized |-> e.materialized]
  BY DEF Newcomer
<1>2. e.state \in {"cold", "hot", "pinned"} /\ (e.state = "pinned" <=> mode = "pinned")
  BY DEF Newcomer, Modes
<1>. HIDE DEF e
<1>3. e \in Entries
  BY <1>1, <1>2 DEF Entries
<1>4. EntryOf(e, p.id) /\ e.page = p /\ (e.state = "pinned" <=> mode = "pinned")
  BY <1>1, <1>2, <1>3 DEF EntryOf
<1>. QED  BY <1>4 DEF e

\* The same tuple again: its weight changes, and Feasible has foreseen it.
LEMMA AdmittedAgain ==
    ASSUME NEW R, Residents(R), NEW p \in Pages, NEW mode \in Modes, Exact(R, p),
           Feasible(R, p, mode = "pinned" \/ (Pinned(R, p.id) /\ Exact(R, p)))
    PROVE  LET Q == Replaced(R, p.id, Refreshed(R.of[p.id], p, mode))
           IN  /\ Residents(Q) /\ PinsFit(Q) /\ DOMAIN Q.of = DOMAIN R.of
               /\ \A id \in DOMAIN Q.of : Q.of[id].page.version = R.of[id].page.version
<1>. DEFINE old == R.of[p.id]
            e == Refreshed(old, p, mode)
            Q == Replaced(R, p.id, e)
            isPinned == mode = "pinned" \/ (Pinned(R, p.id) /\ Exact(R, p))
<1>1. p.id \in DOMAIN R.of /\ EntryOf(old, p.id) /\ old.page.version = p.version
  BY DEF Exact, Resident, Residents, Typed
<1>2. EntryOf(e, p.id) /\ e.page = p /\ (e.state = "pinned" <=> mode = "pinned" \/ old.state = "pinned")
  BY <1>1, RefreshedIs
<1>3. e.state = "pinned" <=> isPinned
  BY <1>1, <1>2 DEF Pinned, Resident, Exact
<1>. HIDE DEF e
<1>4. /\ Residents(Q) /\ Rewrites(Q, R, p.id, e) /\ Reweighs(Q, R, p.id, e)
      /\ DOMAIN Q.of = DOMAIN R.of
  BY <1>1, <1>2, ReplacedKeeps
<1>. HIDE DEF Q
<1>5. PinsFit(Q)
  <2>1. /\ R.pinnedPages - (IF Pinned(R, p.id) THEN 1 ELSE 0) + (IF isPinned THEN 1 ELSE 0)
              <= MaxPinnedPages
        /\ R.pinnedBytes - (IF Pinned(R, p.id) THEN Weight(old) ELSE 0)
                         + (IF isPinned THEN Weight(e) ELSE 0) <= MaxPinnedBytes
    BY <1>1, <1>2 DEF Feasible, Weight, Pinned, Resident
  <2>2. /\ PinCount(old) = IF Pinned(R, p.id) THEN 1 ELSE 0
        /\ PinWeight(old) = IF Pinned(R, p.id) THEN Weight(old) ELSE 0
        /\ PinCount(e) = IF isPinned THEN 1 ELSE 0
        /\ PinWeight(e) = IF isPinned THEN Weight(e) ELSE 0
    BY <1>1, <1>3 DEF PinCount, PinWeight, Weight, Pinned, Resident
  <2>. QED  BY <1>4, <2>1, <2>2 DEF PinsFit, Reweighs
<1>6. \A id \in DOMAIN Q.of : Q.of[id].page.version = R.of[id].page.version
  BY <1>1, <1>2, <1>4 DEF Rewrites, With
<1>. QED  BY <1>4, <1>5, <1>6 DEF Q, e

\* An absent resident is removed to no effect.
LEMMA RemovedIs ==
    ASSUME NEW R, Residents(R), NEW id
    PROVE  /\ Residents(RemoveResident(R, id))
           /\ DOMAIN RemoveResident(R, id).of = DOMAIN R.of \ {id}
           /\ \A x \in DOMAIN R.of \ {id} : RemoveResident(R, id).of[x] = R.of[x]
           /\ id \in DOMAIN R.of => Drops(RemoveResident(R, id), R, id)
           /\ id \notin DOMAIN R.of => RemoveResident(R, id) = R
<1>1. CASE id \in DOMAIN R.of
  BY <1>1, RemoveResidentKeeps DEF Drops, Restrict
<1>2. CASE id \notin DOMAIN R.of
  BY <1>2 DEF RemoveResident, Resident
<1>. QED  BY <1>1, <1>2

\* Less weighs less.
LEMMA RemovedFits ==
    ASSUME NEW R, Residents(R), NEW id
    PROVE  /\ PinsFit(R) => PinsFit(RemoveResident(R, id))
           /\ ~OverCapacity(R) => ~OverCapacity(RemoveResident(R, id))
<1>. DEFINE Q == RemoveResident(R, id)
<1>1. CASE id \in DOMAIN R.of
  <2>1. Drops(Q, R, id) /\ DOMAIN Q.of = DOMAIN R.of \ {id} /\ Residents(Q)
    BY <1>1, RemovedIs
  <2>2. /\ Weight(R.of[id]) \in Nat /\ PinWeight(R.of[id]) \in Nat /\ PinCount(R.of[id]) \in Nat
        /\ R.bytes \in Nat /\ R.pinnedBytes \in Nat /\ R.pinnedPages \in Nat
    BY <1>1, EntrySizes, AccountsAreNumbers DEF Residents, Typed, EntryOf
  <2>3. Cardinality(DOMAIN R.of) \in Nat /\ Cardinality(DOMAIN Q.of) \in Nat
        /\ Cardinality(DOMAIN Q.of) <= Cardinality(DOMAIN R.of)
    BY <2>1, ResidentsFinite, FS_CardinalityType, FS_Subset DEF Residents
  <2>. HIDE DEF Q
  <2>4. /\ Q.bytes = R.bytes - Weight(R.of[id])
        /\ Q.pinnedBytes = R.pinnedBytes - PinWeight(R.of[id])
        /\ Q.pinnedPages = R.pinnedPages - PinCount(R.of[id])
    BY <2>1 DEF Drops
  <2>5. PinsFit(R) => PinsFit(Q)
    BY <2>2, <2>4, PolicyAssumption DEF PinsFit
  <2>6. ~OverCapacity(R) => ~OverCapacity(Q)
    BY <2>2, <2>3, <2>4, PolicyAssumption DEF OverCapacity
  <2>. QED  BY <2>5, <2>6 DEF Q
<1>2. CASE id \notin DOMAIN R.of
  BY <1>2, RemovedIs
<1>. QED  BY <1>1, <1>2

\* A newcomer, in the place of whatever its id had.
LEMMA AdmittedNew ==
    ASSUME NEW R, Residents(R), PinsFit(R), NEW p \in Pages, NEW mode \in Modes, ~Exact(R, p),
           Resident(R, p.id) => mode = "demand",
           Feasible(R, p, mode = "pinned" \/ (Pinned(R, p.id) /\ Exact(R, p))),
           NEW refault \in BOOLEAN
    PROVE  LET Q == Inserted(RemoveResident(R, p.id), Newcomer(p, mode, refault))
           IN  /\ Residents(Q) /\ PinsFit(Q) /\ DOMAIN Q.of = DOMAIN R.of \cup {p.id}
               /\ \A id \in DOMAIN Q.of : Q.of[id].page.version =
                     IF id = p.id THEN p.version ELSE R.of[id].page.version
<1>. DEFINE R1 == RemoveResident(R, p.id)
            e == Newcomer(p, mode, refault)
            Q == Inserted(R1, e)
            old == R.of[p.id]
<1>1. EntryOf(e, p.id) /\ e.page = p /\ (e.state = "pinned" <=> mode = "pinned") /\ p.id \in Ids
  BY NewcomerIs DEF Pages
<1>2. /\ Residents(R1) /\ DOMAIN R1.of = DOMAIN R.of \ {p.id}
      /\ \A x \in DOMAIN R.of \ {p.id} : R1.of[x] = R.of[x]
      /\ p.id \in DOMAIN R.of => Drops(R1, R, p.id)
      /\ p.id \notin DOMAIN R.of => R1 = R
  BY RemovedIs
<1>. HIDE DEF R1, e
<1>3. Residents(Q) /\ Adds(Q, R1, p.id, e)
  BY <1>1, <1>2, InsertedKeeps
<1>. HIDE DEF Q
<1>4. /\ DOMAIN Q.of = DOMAIN R.of \cup {p.id}
      /\ \A id \in DOMAIN Q.of : Q.of[id] = IF id = p.id THEN e ELSE R.of[id]
  BY <1>2, <1>3 DEF Adds, With
<1>5. PinsFit(Q)
  <2>. DEFINE isPinned == mode = "pinned"
  <2>1. /\ R.pinnedPages - (IF Pinned(R, p.id) THEN 1 ELSE 0) + (IF isPinned THEN 1 ELSE 0)
              <= MaxPinnedPages
        /\ R.pinnedBytes - (IF Pinned(R, p.id) THEN Weight(old) ELSE 0)
                         + (IF isPinned THEN Weight(e) ELSE 0) <= MaxPinnedBytes
    BY <1>1 DEF Feasible, Weight, Pinned, Resident
  <2>2. /\ PinCount(e) = IF isPinned THEN 1 ELSE 0
        /\ PinWeight(e) = IF isPinned THEN Weight(e) ELSE 0
    BY <1>1 DEF PinCount, PinWeight, Weight
  <2>3. R.pinnedPages \in Nat /\ R.pinnedBytes \in Nat
    BY AccountsAreNumbers
  <2>4. /\ R1.pinnedPages = R.pinnedPages - (IF Pinned(R, p.id) THEN 1 ELSE 0)
        /\ R1.pinnedBytes = R.pinnedBytes - (IF Pinned(R, p.id) THEN Weight(old) ELSE 0)
    <3>1. CASE p.id \in DOMAIN R.of
      BY <1>2, <3>1 DEF Drops, PinCount, PinWeight, Weight, Pinned, Resident
    <3>2. CASE p.id \notin DOMAIN R.of
      BY <1>2, <2>3, <3>2 DEF Pinned, Resident
    <3>. QED  BY <3>1, <3>2
  <2>. QED  BY <1>3, <2>1, <2>2, <2>4 DEF PinsFit, Adds
<1>6. \A id \in DOMAIN Q.of : Q.of[id].page.version =
         IF id = p.id THEN p.version ELSE R.of[id].page.version
  BY <1>1, <1>4
<1>. QED  BY <1>3, <1>4, <1>5, <1>6 DEF Q, R1, e

\* admitLocked, whatever the mode and the outcome.
LEMMA AdmitKeeps ==
    ASSUME Capacity, lock = "free", listed \in Seq(Tuples), UNCHANGED listed,
           NEW R, Residents(R), PinsFit(R), ~OverCapacity(R),
           NEW G, Ghosts(G), Exactly(G, R), NEW S, Shadows(S),
           NEW p \in Pages, NEW mode \in Modes, Admit(R, G, S, p, mode)
    PROVE  IInv'
<1>1. CASE ~Admits(R, p, mode)
  <2>1. residency' = R /\ ghosts' = G /\ shadows' = S /\ UNCHANGED <<lock, sweep>>
    BY <1>1 DEF Admit
  <2>2. Capacity'
    BY <2>1 DEF Capacity
  <2>. QED  BY <2>1, <2>2 DEF IInv
<1>2. CASE Admits(R, p, mode) /\ Exact(R, p)
  <2>. DEFINE Q == Replaced(R, p.id, Refreshed(R.of[p.id], p, mode))
  <2>1. Land(Q) /\ ghosts' = G /\ shadows' = S
    BY <1>2 DEF Admit
  <2>2. /\ Residents(Q) /\ PinsFit(Q) /\ DOMAIN Q.of = DOMAIN R.of
        /\ \A id \in DOMAIN Q.of : Q.of[id].page.version = R.of[id].page.version
    BY <1>2, AdmittedAgain DEF Admits
  <2>. HIDE DEF Q
  <2>3. Capacity' /\ residency' = Q
    BY <2>1, <2>2, LandingKeeps DEF Land
  <2>4. Exactly(G, Q)
    BY <2>2 DEF Exactly
  <2>. QED  BY <2>1, <2>2, <2>3, <2>4 DEF IInv
<1>3. CASE Admits(R, p, mode) /\ ~Exact(R, p)
  <2>. DEFINE replaced == ReplacesStale(R, p, mode)
              G1 == Without(G, IF replaced THEN {p.id} ELSE MismatchedGhost(G, p))
              S1 == ShadowsWithout(S, IF replaced THEN ShadowsOf(S, p.id)
                                                  ELSE MismatchedShadows(S, p))
              refault == mode = "demand" /\ ExactGhost(G1, p)
              Q == Inserted(RemoveResident(R, p.id), Newcomer(p, mode, refault))
  <2>1. /\ Land(Q) /\ shadows' = S1
        /\ ghosts' = IF refault THEN Without(G1, {p.id}) ELSE G1
    BY <1>3 DEF Admit
  <2>2. Shadows(S1)
    BY ShadowsFewer
  <2>3. Ghosts(G1) /\ G1.of = Less(G.of, IF replaced THEN {p.id} ELSE MismatchedGhost(G, p))
    BY GhostsWithout
  <2>4. \A id \in DOMAIN G1.of :
           /\ id \in DOMAIN G.of /\ G1.of[id] = G.of[id]
           /\ id = p.id => G1.of[id].version = p.version
    BY <2>3 DEF Less, MismatchedGhost, ExactGhost
  <2>5. refault \in BOOLEAN
    OBVIOUS
  <2>. HIDE DEF G1, S1, refault
  <2>6. /\ Residents(Q) /\ PinsFit(Q) /\ DOMAIN Q.of = DOMAIN R.of \cup {p.id}
        /\ \A id \in DOMAIN Q.of : Q.of[id].page.version =
              IF id = p.id THEN p.version ELSE R.of[id].page.version
    <3>1. Resident(R, p.id) => mode = "demand"
      BY <1>3 DEF Admits, ReplacesStale
    <3>. QED  BY <1>3, <2>5, <3>1, AdmittedNew DEF Admits
  <2>. HIDE DEF Q
  <2>7. Exactly(G1, Q)
    <3>1. ASSUME NEW id \in DOMAIN G1.of, id \in DOMAIN Q.of
          PROVE  G1.of[id].version = Q.of[id].page.version
      <4>1. CASE id = p.id
        BY <2>4, <2>6, <3>1, <4>1
      <4>2. CASE id # p.id
        <5>1. id \in DOMAIN G.of /\ id \in DOMAIN R.of /\ G1.of[id] = G.of[id]
          BY <2>4, <2>6, <3>1, <4>2
        <5>2. G.of[id].version = R.of[id].page.version
          BY <5>1 DEF Exactly
        <5>. QED  BY <2>6, <3>1, <4>2, <5>1, <5>2
      <4>. QED  BY <4>1, <4>2
    <3>. QED  BY <3>1 DEF Exactly
  <2>8. Ghosts(ghosts') /\ Exactly(ghosts', Q)
    <3>1. Ghosts(Without(G1, {p.id})) /\ Without(G1, {p.id}).of = Less(G1.of, {p.id})
      BY <2>3, GhostsWithout
    <3>. QED  BY <2>1, <2>3, <2>7, <3>1 DEF Exactly, Less
  <2>9. Capacity' /\ residency' = Q
    BY <2>1, <2>6, LandingKeeps DEF Land
  <2>. QED  BY <2>1, <2>2, <2>6, <2>8, <2>9 DEF IInv
<1>. QED  BY <1>1, <1>2, <1>3

-----------------------------------------------------------------------------
(* The actions.                                                            *)

LEMMA AdmissionStep ==
    ASSUME IInv, NEW p \in Admissible,
           \/ AdmitDemand(p) \/ AdmitCold(p) \/ Pin(p) \/ PutL2(p) \/ PutL3(p)
           \/ AdmitAuthoritativeDemand(p)
    PROVE  IInv'
<1>1. p \in Pages /\ {"demand", "cold", "warm", "pinned", "hot"} = Modes
  BY DEF Admissible, Modes
<1>2. lock = "free" /\ UNCHANGED listed /\ ~OverCapacity(residency)
  BY DEF AdmitDemand, AdmitCold, Pin, PutL2, PutL3, AdmitAuthoritativeDemand, Free,
         IInv, Capacity
<1>3. Shadows(Settled(shadows, p))
  BY SettledKeeps DEF IInv
<1>4. CASE AdmitDemand(p)
  <2>1. Admit(residency, ghosts, Settled(shadows, p), p, "demand")
    BY <1>4 DEF AdmitDemand
  <2>. QED  BY <1>1, <1>2, <1>3, <2>1, AdmitKeeps DEF IInv
<1>5. CASE AdmitCold(p) \/ Pin(p) \/ PutL2(p) \/ PutL3(p)
  <2>1. PICK mode \in Modes : Admit(residency, ghosts, shadows, p, mode)
    BY <1>1, <1>5 DEF AdmitCold, Pin, PutL2, PutL3
  <2>. QED  BY <1>1, <1>2, <2>1, AdmitKeeps DEF IInv
<1>6. CASE AdmitAuthoritativeDemand(p)
  <2>. DEFINE R == IF Exact(residency, p) THEN residency ELSE RemoveResident(residency, p.id)
              G == Without(ghosts, MismatchedGhost(ghosts, p))
              T == Settled(shadows, p)
              S == ShadowsWithout(T, MismatchedShadows(T, p))
  <2>1. Admit(R, G, S, p, "demand")
    BY <1>6 DEF AdmitAuthoritativeDemand
  <2>2. /\ Residents(R) /\ PinsFit(R) /\ ~OverCapacity(R)
        /\ DOMAIN R.of \subseteq DOMAIN residency.of
        /\ \A id \in DOMAIN R.of : R.of[id] = residency.of[id]
    BY <1>2, RemovedIs, RemovedFits DEF IInv
  <2>3. Ghosts(G) /\ G.of = Less(ghosts.of, MismatchedGhost(ghosts, p))
    BY GhostsWithout DEF IInv
  <2>4. Shadows(S)
    BY <1>3, ShadowsFewer
  <2>. HIDE DEF R, G, S
  <2>5. Exactly(G, R)
    BY <2>2, <2>3 DEF IInv, Exactly, Less
  <2>. QED  BY <1>1, <1>2, <2>1, <2>2, <2>3, <2>4, <2>5, AdmitKeeps DEF IInv
<1>. QED  BY <1>4, <1>5, <1>6

\* The entry of a resident changes its state, and neither its page nor its pin.
LEMMA RestatedStep ==
    ASSUME IInv, lock = "free", UNCHANGED <<ghosts, lock, sweep, listed>>, Shadows(shadows'),
           NEW id \in DOMAIN residency.of, NEW e, EntryOf(e, id),
           Restates(e, residency.of[id]), residency' = WithEntry(residency, id, e)
    PROVE  IInv'
<1>. DEFINE Q == WithEntry(residency, id, e)
<1>1. Residents(Q) /\ DOMAIN Q.of = DOMAIN residency.of
  BY WithEntryKeeps DEF IInv
<1>2. /\ Rewrites(Q, residency, id, e) /\ Q.bytes = residency.bytes
      /\ Q.pinnedBytes = residency.pinnedBytes /\ Q.pinnedPages = residency.pinnedPages
  BY WithEntryWrites DEF IInv, Residents, Typed
<1>. HIDE DEF Q
<1>3. Exactly(ghosts, Q)
  BY <1>1, <1>2 DEF IInv, Exactly, Rewrites, With, Restates
<1>4. PinsFit(Q) /\ ~OverCapacity(Q)
  BY <1>1, <1>2 DEF IInv, PinsFit, Capacity, OverCapacity
<1>5. residency' = Q
  BY DEF Q
<1>. QED  BY <1>1, <1>3, <1>4, <1>5 DEF IInv, Capacity

LEMMA UseStep ==
    ASSUME IInv, NEW id \in Ids, Use(id)
    PROVE  IInv'
<1>1. /\ id \in DOMAIN residency.of /\ EntryOf(residency.of[id], id)
      /\ lock = "free" /\ UNCHANGED <<ghosts, lock, sweep, listed>>
      /\ residency' = WithEntry(residency, id, UsedOnce(residency.of[id]))
      /\ shadows' = Settled(shadows, residency.of[id].page)
  BY DEF Use, Free, Resident, IInv, Residents, Typed
<1>2. EntryOf(UsedOnce(residency.of[id]), id) /\ Restates(UsedOnce(residency.of[id]), residency.of[id])
  BY <1>1, UsedOnceIs DEF Restates
<1>3. Shadows(shadows')
  BY <1>1, SettledKeeps DEF IInv
<1>. QED  BY <1>1, <1>2, <1>3, RestatedStep

LEMMA RecordAccessStep ==
    ASSUME IInv, NEW id \in Ids, RecordAccess(id)
    PROVE  IInv'
<1>. DEFINE e == [residency.of[id] EXCEPT !.ref = TRUE]
<1>1. /\ id \in DOMAIN residency.of /\ EntryOf(residency.of[id], id)
      /\ lock = "free" /\ UNCHANGED <<ghosts, shadows, lock, sweep, listed>>
      /\ residency' = [residency EXCEPT !.of[id].ref = TRUE]
  BY DEF RecordAccess, Free, Resident, IInv, Residents, Typed
<1>2. EntryOf(e, id) /\ Restates(e, residency.of[id]) /\ e.state = residency.of[id].state
  BY <1>1 DEF EntryOf, Entries, Restates
<1>3. residency' = [residency EXCEPT !.of = With(residency.of, id, e)]
  <2>1. [residency.of EXCEPT ![id].ref = TRUE] = With(residency.of, id, e)
    BY <1>1 DEF With
  <2>. QED  BY <1>1, <2>1
<1>. HIDE DEF e
<1>4. /\ Rewrites(residency', residency, id, e)
      /\ residency'.bytes = residency.bytes /\ residency'.pinnedBytes = residency.pinnedBytes
      /\ residency'.pinnedPages = residency.pinnedPages /\ residency'.clock = residency.clock
  <2>1. Fields \subseteq DOMAIN residency
    BY DEF IInv, Residents, Typed
  <2>2. /\ residency.l2 = IF e.state = "cold" THEN residency.l2 \ {id} ELSE residency.l2 \cup {id}
        /\ residency.l3 = IF e.state = "cold" THEN residency.l3 \cup {id} ELSE residency.l3 \ {id}
    BY <1>1, <1>2 DEF IInv, Residents, Tiered
  <2>. QED  BY <1>3, <2>1, <2>2 DEF Fields, Rewrites
<1>5. Residents(residency') /\ DOMAIN residency'.of = DOMAIN residency.of
  <2>1. residency'.clock \in Nat
        /\ (residency'.clock < Len(residency.order) \/ residency'.clock = 0)
    BY <1>4 DEF IInv, Residents, Typed, Ordered
  <2>2. Residents(residency)
    BY DEF IInv
  <2>. QED  BY <1>1, <1>2, <1>4, <2>1, <2>2, RestatingKeeps
<1>6. Exactly(ghosts, residency')
  BY <1>1, <1>2, <1>4, <1>5 DEF IInv, Exactly, Rewrites, With, Restates
<1>7. PinsFit(residency') /\ ~OverCapacity(residency')
  BY <1>1, <1>4, <1>5 DEF IInv, PinsFit, Capacity, OverCapacity
<1>. QED  BY <1>1, <1>5, <1>6, <1>7 DEF IInv, Capacity

\* A resident's page changes in place, within the caps.
LEMMA ReplacedStep ==
    ASSUME IInv, lock # "sweep", lock' \in {"free", "apply"}, sweep' = sweep,
           listed' \in Seq(Tuples), Ghosts(ghosts'), Exactly(ghosts', residency),
           Shadows(shadows'),
           NEW id \in DOMAIN residency.of, NEW e, EntryOf(e, id),
           e.page.version = residency.of[id].page.version,
           residency' = Replaced(residency, id, e),
           residency.bytes - Weight(residency.of[id]) + Weight(e) <= MaxResidentBytes,
           residency.pinnedBytes - PinWeight(residency.of[id]) + PinWeight(e) <= MaxPinnedBytes,
           residency.pinnedPages - PinCount(residency.of[id]) + PinCount(e) <= MaxPinnedPages
    PROVE  IInv'
<1>. DEFINE Q == Replaced(residency, id, e)
<1>1. /\ Residents(Q) /\ Rewrites(Q, residency, id, e) /\ Reweighs(Q, residency, id, e)
      /\ DOMAIN Q.of = DOMAIN residency.of
  BY ReplacedKeeps DEF IInv
<1>2. residency' = Q
  OBVIOUS
<1>. HIDE DEF Q
<1>3. PinsFit(Q)
  BY <1>1 DEF PinsFit, Reweighs
<1>4. Q.bytes <= MaxResidentBytes /\ Q.bytes \in Nat /\ MaxResidentBytes \in Nat
  BY <1>1, AccountsAreNumbers, PolicyAssumption DEF Reweighs
<1>5. ~OverCapacity(Q)
  BY <1>1, <1>4 DEF IInv, Capacity, OverCapacity
<1>6. Exactly(ghosts', Q)
  BY <1>1 DEF Exactly, Rewrites, With
<1>. QED  BY <1>1, <1>2, <1>3, <1>5, <1>6 DEF IInv, Capacity

\* A resident goes, and its hints with it or not.
LEMMA RemovedStep ==
    ASSUME IInv, lock # "sweep", lock' \in {"free", "apply"}, sweep' = sweep,
           listed' \in Seq(Tuples), Ghosts(ghosts'), Exactly(ghosts', residency),
           Shadows(shadows'),
           NEW id, residency' = RemoveResident(residency, id)
    PROVE  IInv'
<1>. DEFINE Q == RemoveResident(residency, id)
<1>1. /\ Residents(Q) /\ DOMAIN Q.of = DOMAIN residency.of \ {id}
      /\ \A x \in DOMAIN residency.of \ {id} : Q.of[x] = residency.of[x]
  BY RemovedIs DEF IInv
<1>2. PinsFit(Q) /\ ~OverCapacity(Q)
  BY RemovedFits DEF IInv, Capacity
<1>3. residency' = Q
  OBVIOUS
<1>. HIDE DEF Q
<1>4. Exactly(ghosts', Q)
  BY <1>1 DEF Exactly
<1>. QED  BY <1>1, <1>2, <1>3, <1>4 DEF IInv, Capacity

\* Fewer ghosts are as exact.
LEMMA GhostsFewer ==
    ASSUME NEW G, Ghosts(G), NEW R, Exactly(G, R), NEW K
    PROVE  Ghosts(Without(G, K)) /\ Exactly(Without(G, K), R)
<1>1. Ghosts(Without(G, K)) /\ Without(G, K).of = Less(G.of, K)
  BY GhostsWithout
<1>. QED  BY <1>1 DEF Exactly, Less

LEMMA ShotStep ==
    ASSUME IInv, lock # "sweep", lock' \in {"free", "apply"}, sweep' = sweep,
           listed' \in Seq(Tuples), NEW id, Shot(id)
    PROVE  IInv'
<1>1. /\ residency' = RemoveResident(residency, id) /\ ghosts' = Without(ghosts, {id})
      /\ shadows' = ShadowsWithout(shadows, ShadowsOf(shadows, id))
  BY DEF Shot
<1>2. Ghosts(ghosts') /\ Exactly(ghosts', residency)
  BY <1>1, GhostsFewer DEF IInv
<1>3. Shadows(shadows')
  BY <1>1, ShadowsFewer DEF IInv
<1>. QED  BY <1>1, <1>2, <1>3, RemovedStep

LEMMA HintStep ==
    ASSUME IInv, \/ \E p \in Metadata, ns \in Namespaces : ObserveSemantic(p, ns)
                 \/ PurgeAllGhosts \/ CensorAllShadows
    PROVE  IInv'
<1>1. UNCHANGED <<residency, lock, sweep, listed>>
  BY DEF ObserveSemantic, PurgeAllGhosts, CensorAllShadows, Free
<1>2. Ghosts(ghosts') /\ Exactly(ghosts', residency)
  <2>1. CASE ghosts' = ghosts
    BY <2>1 DEF IInv
  <2>2. CASE ghosts' = Without(ghosts, DOMAIN ghosts.of)
    BY <2>2, GhostsFewer DEF IInv
  <2>. QED  BY <2>1, <2>2 DEF ObserveSemantic, PurgeAllGhosts, CensorAllShadows
<1>3. Shadows(shadows')
  <2>1. ASSUME NEW p \in Metadata, NEW ns \in Namespaces, ObserveSemantic(p, ns)
        PROVE  Shadows(shadows')
    <3>1. shadows' = Observed(shadows, p, ns) /\ p \in Pages
      BY <2>1 DEF ObserveSemantic, Metadata
    <3>. QED  BY <3>1, ObservedKeeps DEF IInv
  <2>2. CASE PurgeAllGhosts
    BY <2>2 DEF PurgeAllGhosts, IInv
  <2>3. CASE CensorAllShadows
    <3>1. shadows' = ShadowsWithout(shadows, DOMAIN shadows.of)
      BY <2>3 DEF CensorAllShadows
    <3>. QED  BY <3>1, ShadowsFewer DEF IInv
  <2>. QED  BY <2>1, <2>2, <2>3
<1>. QED  BY <1>1, <1>2, <1>3 DEF IInv, Capacity

\* A resident's page is rewritten, and the entry says whether it has a body.
Repaged(e, q, m) == [e EXCEPT !.page = q, !.materialized = m]

LEMMA RepagedIs ==
    ASSUME NEW e, NEW id, EntryOf(e, id), NEW q \in Pages, q.id = id,
           NEW m \in BOOLEAN, m <=> q.body # 0
    PROVE  /\ EntryOf(Repaged(e, q, m), id) /\ Repaged(e, q, m).page = q
           /\ Repaged(e, q, m).state = e.state
<1>. DEFINE new == Repaged(e, q, m)
<1>1. e \in Entries /\ e.page.id = id
  BY DEF EntryOf
<1>2. new \in Entries /\ new.page = q /\ new.materialized = m /\ new.state = e.state
  BY <1>1 DEF Entries, Repaged
<1>. HIDE DEF new
<1>3. EntryOf(new, id) /\ new.page = q /\ new.state = e.state
  BY <1>2 DEF EntryOf
<1>. QED  BY <1>3 DEF new

\* A body leaves: the entry weighs its metadata.
LEMMA EmptiedIs ==
    ASSUME NEW e, NEW id, EntryOf(e, id)
    PROVE  /\ EntryOf(Emptied(e), id) /\ Emptied(e).page.version = e.page.version
           /\ Emptied(e).state = e.state /\ ~Emptied(e).page.stale
           /\ Weight(Emptied(e)) <= Weight(e) /\ PinWeight(Emptied(e)) <= PinWeight(e)
           /\ PinCount(Emptied(e)) = PinCount(e)
<1>. DEFINE q == [e.page EXCEPT !.stale = FALSE, !.body = 0]
<1>1. e \in Entries /\ e.page \in Pages /\ e.page.id = id
  BY DEF EntryOf, Entries
<1>2. Emptied(e) = Repaged(e, q, FALSE)
  BY <1>1 DEF Emptied, Repaged, Entries, Pages
<1>3. /\ q.id = e.page.id /\ q.version = e.page.version /\ q.meta = e.page.meta
      /\ q.body = 0 /\ q.stale = FALSE
  BY <1>1 DEF Pages
<1>4. 0 \in BodySizes \cup {0} /\ FALSE \in BOOLEAN
  OBVIOUS
<1>5. q \in Pages
  <2>1. /\ DOMAIN e.page = {"id", "version", "meta", "body", "stale"}
        /\ q = [x \in DOMAIN e.page |-> q[x]]
    BY <1>1 DEF Pages
  <2>2. e.page.id \in Ids /\ e.page.version \in Versions /\ e.page.meta \in MetaSizes
    BY <1>1 DEF Pages
  <2>3. /\ q.id \in Ids /\ q.version \in Versions /\ q.meta \in MetaSizes
        /\ q.stale \in BOOLEAN
    BY <1>3, <2>2
  <2>4. q.body \in BodySizes \cup {0}
    BY <1>3, <1>4
  <2>. HIDE DEF q
  <2>. QED  BY <2>1, <2>3, <2>4 DEF Pages
<1>. HIDE DEF q
<1>6. /\ EntryOf(Emptied(e), id) /\ Emptied(e).page = q /\ Emptied(e).state = e.state
  <2>1. FALSE <=> q.body # 0
    BY <1>3
  <2>2. /\ EntryOf(Repaged(e, q, FALSE), id) /\ Repaged(e, q, FALSE).page = q
        /\ Repaged(e, q, FALSE).state = e.state
    BY <1>1, <1>3, <1>4, <1>5, <2>1, RepagedIs
  <2>. QED  BY <1>2, <2>2
<1>7. e.page.meta \in Nat /\ e.page.body \in Nat
  <2>1. e.page.meta \in MetaSizes /\ (e.page.body \in BodySizes \/ e.page.body = 0)
    BY <1>1 DEF Pages
  <2>2. MetaSizes \subseteq Nat \ {0} /\ BodySizes \subseteq Nat
    BY SizesAssumption
  <2>3. e.page.meta \in Nat
    BY <2>1, <2>2
  <2>4. CASE e.page.body \in BodySizes
    BY <2>2, <2>3, <2>4
  <2>5. CASE e.page.body = 0
    <3>1. e.page.body \in Nat
      BY <2>5
    <3>. QED  BY <2>3, <3>1
  <2>. QED  BY <2>1, <2>4, <2>5
<1>. QED  BY <1>3, <1>6, <1>7 DEF Weight, PinWeight, PinCount, PageSize

LEMMA PinStep ==
    ASSUME IInv, NEW p \in Metadata, PinResident(p) \/ Unpin(p)
    PROVE  IInv'
<1>. DEFINE id == p.id
            old == residency.of[id]
            pinning == PinResident(p)
            e == [old EXCEPT !.state = IF pinning THEN "pinned" ELSE "hot", !.ref = TRUE]
<1>1. /\ id \in DOMAIN residency.of /\ EntryOf(old, id) /\ lock = "free"
      /\ UNCHANGED <<ghosts, shadows, lock, sweep, listed>>
      /\ pinning => /\ old.state # "pinned"
                    /\ residency.pinnedPages + 1 <= MaxPinnedPages
                    /\ residency.pinnedBytes + PageSize(old.page) <= MaxPinnedBytes
      /\ ~pinning => old.state = "pinned"
      /\ residency' = Replaced(residency, id, e)
  BY DEF PinResident, Unpin, Free, Exact, Resident, Pinned, IInv, Residents, Typed
<1>. HIDE DEF pinning
<1>2. /\ EntryOf(e, id) /\ e.page = old.page
      /\ e.state = IF pinning THEN "pinned" ELSE "hot"
  BY <1>1 DEF EntryOf, Entries
<1>. HIDE DEF e
<1>3. Weight(e) = Weight(old) /\ Weight(old) = PageSize(old.page) /\ Weight(old) \in Nat
  BY <1>1, <1>2, EntrySizes DEF Weight, EntryOf
<1>4. /\ residency.bytes \in Nat /\ residency.pinnedBytes \in Nat /\ residency.pinnedPages \in Nat
      /\ residency.bytes <= MaxResidentBytes /\ MaxResidentBytes \in Nat
      /\ MaxPinnedBytes \in Nat /\ MaxPinnedPages \in Nat
      /\ residency.pinnedBytes <= MaxPinnedBytes /\ residency.pinnedPages <= MaxPinnedPages
  <2>. HIDE DEF old, e
  <2>1. residency.bytes \in Nat /\ residency.pinnedBytes \in Nat /\ residency.pinnedPages \in Nat
    BY AccountsAreNumbers DEF IInv
  <2>2. MaxResidentBytes \in Nat /\ MaxPinnedBytes \in Nat /\ MaxPinnedPages \in Nat
    BY PolicyAssumption
  <2>3. ~OverCapacity(residency)
    BY <1>1 DEF IInv, Capacity
  <2>4. residency.bytes <= MaxResidentBytes
    BY <2>1, <2>2, <2>3 DEF OverCapacity
  <2>. QED  BY <2>1, <2>2, <2>4 DEF IInv, PinsFit
<1>5. residency.bytes - Weight(old) + Weight(e) <= MaxResidentBytes
  BY <1>3, <1>4
<1>6. /\ residency.pinnedBytes - PinWeight(old) + PinWeight(e) <= MaxPinnedBytes
      /\ residency.pinnedPages - PinCount(old) + PinCount(e) <= MaxPinnedPages
  BY <1>1, <1>2, <1>3, <1>4 DEF PinWeight, PinCount, Weight
<1>7. Ghosts(ghosts') /\ Exactly(ghosts', residency) /\ Shadows(shadows')
      /\ listed' \in Seq(Tuples) /\ lock' \in {"free", "apply"}
  BY <1>1 DEF IInv
<1>. QED  BY <1>1, <1>2, <1>5, <1>6, <1>7, ReplacedStep

LEMMA RevalidateStep ==
    ASSUME IInv, NEW p \in Metadata, Revalidate(p)
    PROVE  IInv'
<1>. DEFINE id == p.id
            old == residency.of[id]
            e == Emptied(old)
<1>1. /\ id \in DOMAIN residency.of /\ EntryOf(old, id) /\ lock = "free"
      /\ UNCHANGED <<ghosts, shadows, lock, sweep, listed>>
      /\ residency' = Replaced(residency, id, e)
  BY DEF Revalidate, Free, Exact, Resident, IInv, Residents, Typed
<1>2. /\ EntryOf(e, id) /\ e.page.version = old.page.version
      /\ Weight(e) <= Weight(old) /\ PinWeight(e) <= PinWeight(old) /\ PinCount(e) = PinCount(old)
  BY <1>1, EmptiedIs
<1>. HIDE DEF e
<1>3. /\ Weight(e) \in Nat /\ Weight(old) \in Nat /\ PinWeight(e) \in Nat
      /\ PinWeight(old) \in Nat /\ PinCount(e) \in Nat
  BY <1>1, <1>2, EntrySizes DEF EntryOf
<1>4. /\ residency.bytes \in Nat /\ residency.pinnedBytes \in Nat /\ residency.pinnedPages \in Nat
      /\ residency.bytes <= MaxResidentBytes /\ MaxResidentBytes \in Nat
      /\ MaxPinnedBytes \in Nat /\ MaxPinnedPages \in Nat
      /\ residency.pinnedBytes <= MaxPinnedBytes /\ residency.pinnedPages <= MaxPinnedPages
  BY <1>1, AccountsAreNumbers, PolicyAssumption DEF IInv, PinsFit, Capacity, OverCapacity
<1>5. /\ residency.bytes - Weight(old) + Weight(e) <= MaxResidentBytes
      /\ residency.pinnedBytes - PinWeight(old) + PinWeight(e) <= MaxPinnedBytes
      /\ residency.pinnedPages - PinCount(old) + PinCount(e) <= MaxPinnedPages
  BY <1>2, <1>3, <1>4
<1>6. Ghosts(ghosts') /\ Exactly(ghosts', residency) /\ Shadows(shadows')
      /\ listed' \in Seq(Tuples) /\ lock' \in {"free", "apply"}
  BY <1>1 DEF IInv
<1>. QED  BY <1>1, <1>2, <1>5, <1>6, ReplacedStep

LEMMA ShootdownStep ==
    ASSUME IInv, NEW id, Free, Shot(id), UNCHANGED <<lock, sweep>>
    PROVE  IInv'
<1>1. lock # "sweep" /\ lock' \in {"free", "apply"} /\ sweep' = sweep /\ listed' \in Seq(Tuples)
  BY DEF Free, IInv
<1>. QED  BY <1>1, ShotStep

-----------------------------------------------------------------------------
(* Reconcile.                                                              *)

LEMMA ReconcileListsStep ==
    ASSUME IInv, ReconcileLists
    PROVE  IInv'
<1>. DEFINE s == [i \in DOMAIN residency.order |->
                     Tuple(residency.of[residency.order[i]].page)]
<1>1. listed' = s /\ UNCHANGED <<residency, ghosts, shadows, lock, sweep>>
  BY DEF ReconcileLists
<1>2. s \in Seq(Tuples)
  <2>1. DOMAIN residency.order = 1..Len(residency.order) /\ Len(residency.order) \in Nat
    BY DEF IInv, Residents, Ordered
  <2>2. ASSUME NEW i \in 1..Len(residency.order)
        PROVE  Tuple(residency.of[residency.order[i]].page) \in Tuples
    <3>1. residency.order[i] \in DOMAIN residency.of /\ residency.of[residency.order[i]] \in Entries
      BY HandIs DEF IInv, At
    <3>. QED  BY <3>1 DEF Entries, Pages, Tuple, Tuples
  <2>. QED  BY <2>1, <2>2
<1>. QED  BY <1>1, <1>2 DEF IInv, Capacity

\* What a verdict makes of an entry, when it does not remove it.
Judged(e, verdict, meta) ==
    [IF e.page.stale /\ verdict = "active" THEN Emptied(e) ELSE e
     EXCEPT !.page.stale = verdict = "stale", !.page.meta = meta]

LEMMA JudgedIs ==
    ASSUME NEW e, NEW id, EntryOf(e, id), NEW verdict, NEW meta \in MetaSizes
    PROVE  /\ EntryOf(Judged(e, verdict, meta), id)
           /\ Judged(e, verdict, meta).page.version = e.page.version
           /\ Judged(e, verdict, meta).state = e.state
<1>. DEFINE b == IF e.page.stale /\ verdict = "active" THEN Emptied(e) ELSE e
            q == [b.page EXCEPT !.stale = verdict = "stale", !.meta = meta]
<1>1. EntryOf(b, id) /\ b.page.version = e.page.version /\ b.state = e.state
  BY EmptiedIs
<1>2. Judged(e, verdict, meta) = [b EXCEPT !.page.stale = verdict = "stale", !.page.meta = meta]
  BY DEF Judged
<1>. HIDE DEF b
<1>3. b \in Entries /\ b.page \in Pages /\ b.page.id = id /\ b.materialized \in BOOLEAN
      /\ (b.materialized <=> b.page.body # 0)
  BY <1>1 DEF EntryOf, Entries
<1>4. q \in Pages /\ q.id = id /\ q.version = b.page.version /\ q.body = b.page.body
  BY <1>3 DEF Pages
<1>5. Judged(e, verdict, meta) = Repaged(b, q, b.materialized)
  BY <1>2, <1>3 DEF Repaged, Entries, Pages
<1>. HIDE DEF q
<1>6. /\ EntryOf(Repaged(b, q, b.materialized), id)
      /\ Repaged(b, q, b.materialized).page = q
      /\ Repaged(b, q, b.materialized).state = b.state
  BY <1>1, <1>3, <1>4, RepagedIs
<1>. QED  BY <1>1, <1>4, <1>5, <1>6

\* The new metadata fits, or the page goes.
LEMMA RefreshStep ==
    ASSUME IInv, lock # "sweep", lock' \in {"free", "apply"}, sweep' = sweep,
           listed' \in Seq(Tuples), NEW id \in DOMAIN residency.of,
           NEW next, EntryOf(next, id), next.state = residency.of[id].state,
           next.page.version = residency.of[id].page.version,
           Refresh(residency.of[id], next)
    PROVE  IInv'
<1>. DEFINE e == residency.of[id]
            diff == PageSize(next.page) - PageSize(e.page)
            fits == /\ PageSize(next.page) <= MaxPageBytes
                    /\ residency.bytes + diff <= MaxResidentBytes
                    /\ e.state = "pinned" => residency.pinnedBytes + diff <= MaxPinnedBytes
            wakes == e.page.stale /\ ~next.page.stale
<1>1. EntryOf(e, id) /\ e.page.id = id
  BY DEF IInv, Residents, Typed, EntryOf
<1>2. /\ residency' = IF fits THEN Replaced(residency, id, next) ELSE RemoveResident(residency, id)
      /\ ghosts' = IF fits /\ ~wakes THEN ghosts ELSE Without(ghosts, {id})
      /\ shadows' = shadows
  BY <1>1 DEF Refresh
<1>3. Ghosts(ghosts') /\ Exactly(ghosts', residency) /\ Shadows(shadows')
  BY <1>2, GhostsFewer DEF IInv
<1>4. CASE fits
  <2>1. /\ Weight(e) \in Nat /\ Weight(next) \in Nat
        /\ Weight(e) = PageSize(e.page) /\ Weight(next) = PageSize(next.page)
    BY <1>1, EntrySizes DEF Weight, EntryOf
  <2>2. /\ residency.bytes \in Nat /\ residency.pinnedBytes \in Nat /\ residency.pinnedPages \in Nat
        /\ MaxResidentBytes \in Nat /\ MaxPinnedBytes \in Nat /\ MaxPinnedPages \in Nat
        /\ residency.pinnedBytes <= MaxPinnedBytes /\ residency.pinnedPages <= MaxPinnedPages
    BY AccountsAreNumbers, PolicyAssumption DEF IInv, PinsFit
  <2>3. residency.bytes - Weight(e) + Weight(next) <= MaxResidentBytes
    BY <1>4, <2>1, <2>2
  <2>4. /\ residency.pinnedBytes - PinWeight(e) + PinWeight(next) <= MaxPinnedBytes
        /\ residency.pinnedPages - PinCount(e) + PinCount(next) <= MaxPinnedPages
    <3>1. CASE e.state = "pinned"
      BY <1>4, <2>1, <2>2, <3>1 DEF PinWeight, PinCount, Weight
    <3>2. CASE e.state # "pinned"
      BY <2>2, <3>2 DEF PinWeight, PinCount
    <3>. QED  BY <3>1, <3>2
  <2>5. residency' = Replaced(residency, id, next)
    BY <1>2, <1>4
  <2>. QED  BY <1>3, <2>3, <2>4, <2>5, ReplacedStep
<1>5. CASE ~fits
  <2>1. residency' = RemoveResident(residency, id)
    BY <1>2, <1>5
  <2>. QED  BY <1>3, <2>1, RemovedStep
<1>. QED  BY <1>4, <1>5

LEMMA ReconcilePageStep ==
    ASSUME IInv, NEW verdict \in Verdicts, NEW meta \in MetaSizes, ReconcilePage(verdict, meta)
    PROVE  IInv'
<1>. DEFINE id == Head(listed)[1]
            e == residency.of[id]
<1>1. /\ lock # "sweep" /\ lock' \in {"free", "apply"} /\ sweep' = sweep
      /\ listed # <<>> /\ listed' = Tail(listed)
  BY DEF ReconcilePage
<1>2. listed' \in Seq(Tuples)
  BY <1>1 DEF IInv
<1>3. CASE ~StillThere /\ UNCHANGED <<residency, ghosts, shadows>>
  BY <1>1, <1>2, <1>3 DEF IInv, Capacity
<1>4. CASE Shot(id)
  BY <1>1, <1>2, <1>4, ShotStep
<1>5. CASE StillThere /\ Refresh(e, Judged(e, verdict, meta))
  <2>1. id \in DOMAIN residency.of /\ EntryOf(e, id)
    BY <1>5 DEF StillThere, Resident, IInv, Residents, Typed
  <2>2. /\ EntryOf(Judged(e, verdict, meta), id)
        /\ Judged(e, verdict, meta).page.version = e.page.version
        /\ Judged(e, verdict, meta).state = e.state
    BY <2>1, JudgedIs
  <2>. QED  BY <1>1, <1>2, <1>5, <2>1, <2>2, RefreshStep
<1>6. \/ ~StillThere /\ UNCHANGED <<residency, ghosts, shadows>>
      \/ Shot(id)
      \/ StillThere /\ Refresh(e, Judged(e, verdict, meta))
  BY DEF ReconcilePage, Judged
<1>. QED  BY <1>3, <1>4, <1>5, <1>6

-----------------------------------------------------------------------------
(* The scans.                                                              *)

\* The pages and the bytes that are pinned.
LEMMA PinsAre ==
    ASSUME NEW R, Residents(R)
    PROVE  LET pins == {id \in DOMAIN R.of : R.of[id].state = "pinned"}
           IN  /\ R.pinnedBytes = Total([id \in pins |-> PageSize(R.of[id].page)])
               /\ R.pinnedPages = Cardinality(pins)
<1>. DEFINE pins == {id \in DOMAIN R.of : R.of[id].state = "pinned"}
            w == PinWeightsOf(R.of)
            c == PinCountsOf(R.of)
<1>1. /\ Weights(w) /\ Weights(c) /\ R.pinnedBytes = Total(w) /\ R.pinnedPages = Total(c)
  BY ResidentsFinite DEF Residents, Balanced
<1>2. /\ pins \subseteq DOMAIN w /\ \A x \in DOMAIN w \ pins : w[x] = 0
      /\ pins \subseteq DOMAIN c /\ \A x \in DOMAIN c \ pins : c[x] = 0
  BY DEF PinWeightsOf, PinCountsOf, PinWeight, PinCount
<1>3. /\ Restrict(w, pins) = [id \in pins |-> PageSize(R.of[id].page)]
      /\ DOMAIN Restrict(c, pins) = pins /\ \A x \in pins : Restrict(c, pins)[x] = 1
  BY DEF Restrict, PinWeightsOf, PinCountsOf, PinWeight, PinCount
<1>4. IsFiniteSet(pins)
  BY ResidentsFinite, FS_Subset DEF Residents
<1>. HIDE DEF w, c, pins
<1>5. Total(w) = Total(Restrict(w, pins)) /\ Total(c) = Total(Restrict(c, pins))
  BY <1>1, <1>2, TotalOf
<1>6. Total(Restrict(c, pins)) = Cardinality(pins)
  BY <1>3, <1>4, TotalOnes
<1>7. /\ R.pinnedBytes = Total([id \in pins |-> PageSize(R.of[id].page)])
      /\ R.pinnedPages = Cardinality(pins)
  BY <1>1, <1>3, <1>5, <1>6
<1>. QED  BY <1>7 DEF pins

\* The pins fit in the caps, so where a cap is exceeded something can go.
LEMMA SomeoneCanGo ==
    ASSUME NEW R, Residents(R), PinsFit(R), OverCapacity(R)
    PROVE  \E i \in 1..Len(R.order) : At(R, i).state # "pinned"
<1>. SUFFICES ASSUME \A i \in 1..Len(R.order) : At(R, i).state = "pinned"
              PROVE  FALSE
  OBVIOUS
<1>1. \A id \in DOMAIN R.of : R.of[id].state = "pinned"
  BY DEF Residents, Ordered, Range, At
<1>2. {id \in DOMAIN R.of : R.of[id].state = "pinned"} = DOMAIN R.of
  BY <1>1
<1>3. R.pinnedPages = Cardinality(DOMAIN R.of)
  BY <1>2, PinsAre
<1>4. PinWeightsOf(R.of) = WeightsOf(R.of)
  BY <1>1 DEF PinWeightsOf, WeightsOf, PinWeight, Weight
<1>5. R.pinnedBytes = R.bytes
  BY <1>4 DEF Residents, Balanced
<1>. QED  BY <1>3, <1>5, AccountsAreNumbers, PolicyAssumption DEF PinsFit, OverCapacity

\* So a sweep has a resident under the hand.
LEMMA HandOnResident ==
    ASSUME NEW R, Residents(R), PinsFit(R), OverCapacity(R)
    PROVE  /\ R.clock \in 0..Len(R.order) - 1 /\ R.clock + 1 \in 1..Len(R.order)
           /\ AtHand(R) = R.order[R.clock + 1] /\ AtHand(R) \in DOMAIN R.of
           /\ EntryOf(R.of[AtHand(R)], AtHand(R)) /\ Place(R, AtHand(R)) = R.clock + 1
           /\ R.of[AtHand(R)] = At(R, R.clock + 1)
<1>1. PICK i \in 1..Len(R.order) : At(R, i).state # "pinned"
  BY SomeoneCanGo
<1>2. R.clock \in Nat /\ Len(R.order) \in Nat /\ R.clock < Len(R.order)
  BY <1>1, HandIs
<1>3. R.clock \in 0..Len(R.order) - 1 /\ R.clock + 1 \in 1..Len(R.order)
  BY <1>2
<1>4. AtHand(R) = R.order[R.clock + 1]
  BY <1>2 DEF AtHand
<1>5. AtHand(R) \in DOMAIN R.of
  BY <1>3, <1>4, HandIs
<1>6. EntryOf(R.of[AtHand(R)], AtHand(R))
  BY <1>5 DEF Residents, Typed
<1>7. Place(R, AtHand(R)) = R.clock + 1
  BY <1>3, <1>4, <1>5, PlaceIs DEF Residents
<1>. QED  BY <1>3, <1>4, <1>5, <1>6, <1>7 DEF At

\* The hand goes one place on: everyone is one step nearer, but for the one it
\* leaves.
LEMMA Wraps ==
    ASSUME NEW n \in Nat \ {0}, NEW c \in 0..n - 1
    PROVE  (c + 1) % n = IF c + 1 = n THEN 0 ELSE c + 1
<1>1. CASE c + 1 = n
  BY <1>1
<1>2. CASE c + 1 # n
  BY <1>2
<1>. QED  BY <1>1, <1>2

LEMMA HandMoves ==
    ASSUME NEW R, Residents(R), R.clock + 1 \in 1..Len(R.order), NEW Q, Q.order = R.order,
           Q.clock = IF R.clock + 1 = Len(R.order) THEN 0 ELSE R.clock + 1
    PROVE  /\ Q.clock \in 0..Len(R.order) - 1
           /\ Distance(R, R.clock + 1) = 0
           /\ Distance(Q, R.clock + 1) = Len(R.order) - 1
           /\ \A i \in 1..Len(R.order) :
                 i # R.clock + 1 => Distance(Q, i) = Distance(R, i) - 1
<1>. DEFINE n == Len(R.order)
            h == R.clock
<1>1. h \in Nat /\ n \in Nat /\ h < n
  BY HandIs
<1>2. \A i : Distance(R, i) = IF i - 1 >= h THEN i - 1 - h ELSE i - 1 - h + n
  BY DEF Distance
<1>3. \A i : Distance(Q, i) = IF i - 1 >= Q.clock THEN i - 1 - Q.clock
                              ELSE i - 1 - Q.clock + n
  BY DEF Distance
<1>4. Q.clock = IF h + 1 = n THEN 0 ELSE h + 1
  OBVIOUS
<1>. HIDE DEF n, h
<1>5. Q.clock \in 0..n - 1 /\ Distance(R, h + 1) = 0 /\ Distance(Q, h + 1) = n - 1
  BY <1>1, <1>2, <1>3, <1>4
<1>6. \A i \in 1..n : i # h + 1 => Distance(Q, i) = Distance(R, i) - 1
  BY <1>1, <1>2, <1>3, <1>4
<1>. QED  BY <1>5, <1>6 DEF n, h

\* The same when the one at the hand goes: the order closes up.
Was(R, j) == IF j < R.clock + 1 THEN j ELSE j + 1

LEMMA HandStaysOver ==
    ASSUME NEW R, Residents(R), R.clock + 1 \in 1..Len(R.order),
           NEW Q, Len(Q.order) = Len(R.order) - 1,
           Q.clock = HandAfter(R.clock, R.clock, Len(R.order) - 1)
    PROVE  \A j \in 1..Len(Q.order) :
              /\ Was(R, j) \in 1..Len(R.order)
              /\ Distance(Q, j) = Distance(R, Was(R, j)) - 1
<1>1. R.clock \in Nat /\ Len(R.order) \in Nat /\ R.clock < Len(R.order)
  BY HandIs
<1>2. Q.clock = IF R.clock >= Len(R.order) - 1 /\ Len(R.order) - 1 > 0 THEN 0 ELSE R.clock
  BY <1>1 DEF HandAfter
<1>. DEFINE n == Len(R.order)
            h == R.clock
<1>3. /\ n \in Nat /\ h \in 0..n - 1 /\ Len(Q.order) = n - 1
      /\ Q.clock = IF h >= n - 1 /\ n - 1 > 0 THEN 0 ELSE h
  BY <1>1, <1>2
<1>4. \A j : Distance(R, j) = IF j - 1 >= h THEN j - 1 - h ELSE j - 1 - h + n
  BY DEF Distance
<1>5. \A j : Distance(Q, j) = IF j - 1 >= Q.clock THEN j - 1 - Q.clock
                              ELSE j - 1 - Q.clock + (n - 1)
  BY <1>3 DEF Distance
<1>6. \A j : Was(R, j) = IF j < h + 1 THEN j ELSE j + 1
  BY DEF Was
<1>. HIDE DEF n, h
<1>7. ASSUME NEW j \in 1..n - 1
      PROVE  Was(R, j) \in 1..n /\ Distance(Q, j) = Distance(R, Was(R, j)) - 1
  <2>1. CASE j < h + 1
    <3>1. Was(R, j) = j /\ Distance(R, j) = j - 1 - h + n
      BY <1>3, <1>4, <1>6, <2>1
    <3>. QED  BY <1>3, <1>5, <2>1, <3>1
  <2>2. CASE j >= h + 1
    <3>1. Was(R, j) = j + 1 /\ Distance(R, j + 1) = j - h
      BY <1>3, <1>4, <1>6, <2>2
    <3>2. Q.clock = h
      BY <1>3, <2>2
    <3>. QED  BY <1>3, <1>5, <2>2, <3>1, <3>2
  <2>. QED  BY <1>3, <2>1, <2>2
<1>. QED  BY <1>3, <1>7 DEF n

\* A scan done: the sweep goes on with what it can afford, or all fits.
LEMMA ScannedKeeps ==
    ASSUME IInv, lock = "sweep", NEW Q, NEW evicts \in BOOLEAN, Residents(Q), PinsFit(Q),
           Ghosts(ghosts'), Exactly(ghosts', Q), EasyAhead(Q, sweep.easy),
           ~sweep.evicted /\ ~evicts => Affords(Q, sweep.left - 1),
           Scanned(Q, evicts)
    PROVE  IInv'
<1>. DEFINE left == sweep.left - 1
            evicted == sweep.evicted \/ evicts
<1>1. /\ sweep \in [left : Nat \ {0}, evicted : BOOLEAN, easy : SUBSET Ids]
      /\ left \in Nat /\ evicted \in BOOLEAN
  <2>1. sweep \in [left : Nat \ {0}, evicted : BOOLEAN, easy : SUBSET Ids]
    BY DEF IInv, Capacity, Sweeping
  <2>2. sweep.left \in Nat \ {0} /\ sweep.evicted \in BOOLEAN
    BY <2>1
  <2>3. left \in Nat
    BY <2>2
  <2>. QED  BY <2>1, <2>2, <2>3
<1>2. /\ residency' = Q /\ UNCHANGED <<shadows, listed>>
      /\ IF ~OverCapacity(Q) \/ (left = 0 /\ ~evicted)
         THEN lock' = "free" /\ sweep' = NoSweep
         ELSE /\ UNCHANGED lock
              /\ sweep' = [sweep EXCEPT !.left = IF left = 0 THEN ScanBudget(Q) ELSE left,
                                        !.evicted = evicted /\ left > 0]
  BY DEF Scanned
<1>3. ~evicted => Affords(Q, left)
  OBVIOUS
<1>. HIDE DEF left, evicted
<1>4. Shadows(shadows') /\ listed' \in Seq(Tuples)
  BY <1>2 DEF IInv
<1>5. CASE ~OverCapacity(Q)
  BY <1>2, <1>4, <1>5 DEF IInv, Capacity
<1>6. CASE OverCapacity(Q)
  <2>1. ~(left = 0 /\ ~evicted)
    <3>1. SUFFICES ASSUME left = 0, ~evicted PROVE FALSE
      OBVIOUS
    <3>2. PICK i \in 1..Len(Q.order) : At(Q, i).state # "pinned"
      BY <1>6, SomeoneCanGo
    <3>3. Due(Q, i) <= 0
      BY <1>3, <3>1, <3>2 DEF Affords
    <3>4. Distance(Q, i) \in Nat /\ Len(Q.order) \in Nat
      BY HandIs
    <3>. QED  BY <3>3, <3>4 DEF Due
  <2>. DEFINE w == [sweep EXCEPT !.left = IF left = 0 THEN ScanBudget(Q) ELSE left,
                                 !.evicted = evicted /\ left > 0]
  <2>2. lock' = "sweep" /\ sweep' = w
    BY <1>2, <1>6, <2>1
  <2>3. ScanBudget(Q) \in Nat \ {0} /\ Affords(Q, ScanBudget(Q))
    BY BudgetAffords
  <2>4. /\ w \in [left : Nat \ {0}, evicted : BOOLEAN, easy : SUBSET Ids]
        /\ w.easy = sweep.easy /\ w.left = (IF left = 0 THEN ScanBudget(Q) ELSE left)
        /\ w.evicted <=> evicted /\ left > 0
    BY <1>1, <2>3
  <2>. HIDE DEF w
  <2>5. ~w.evicted => Affords(Q, w.left)
    <3>1. CASE left = 0
      BY <2>3, <2>4, <3>1
    <3>2. CASE left # 0
      BY <1>1, <1>3, <2>4, <3>2
    <3>. QED  BY <3>1, <3>2
  <2>6. Sweeping(Q, w)
    BY <1>6, <2>4, <2>5 DEF Sweeping
  <2>. QED  BY <1>2, <1>4, <2>2, <2>6 DEF IInv, Capacity
<1>. QED  BY <1>5, <1>6

\* The hand passes a resident that is pinned or takes something from it.
LEMMA ScanPassesStep ==
    ASSUME IInv, ScanPasses
    PROVE  IInv'
<1>. DEFINE R == residency
            id == AtHand(R)
            old == R.of[id]
            n == Len(R.order)
            a == R.clock + 1
<1>1. /\ lock = "sweep" /\ OverCapacity(R) /\ Residents(R) /\ PinsFit(R)
      /\ ~sweep.evicted => Affords(R, sweep.left)
      /\ EasyAhead(R, sweep.easy) /\ sweep.left \in Nat \ {0} /\ ghosts' = ghosts
  BY DEF ScanPasses, IInv, Capacity, Sweeping
<1>2. /\ R.clock \in 0..n - 1 /\ a \in 1..n /\ id = R.order[a] /\ id \in DOMAIN R.of
      /\ EntryOf(old, id) /\ old = At(R, a)
  BY <1>1, HandOnResident
<1>3. PICK e : /\ Scanned(Passed(R, e), FALSE)
               /\ \/ old.state = "pinned" /\ e = old
                  \/ old.state # "pinned" /\ old.ref /\ e = [old EXCEPT !.ref = FALSE]
                  \/ old.state = "hot" /\ ~old.ref /\ e = [old EXCEPT !.state = "cold"]
  BY DEF ScanPasses
<1>4. /\ EntryOf(e, id) /\ Restates(e, old) /\ e.page.id = id
      /\ \/ old.state = "pinned" /\ e.state = "pinned"
         \/ old.state # "pinned" /\ old.ref /\ e.state = old.state /\ ~e.ref
         \/ old.state = "hot" /\ ~old.ref /\ e.state = "cold" /\ ~e.ref
  BY <1>2, <1>3 DEF EntryOf, Entries, Restates
<1>. DEFINE Q == Passed(R, e)
<1>5. /\ Rewrites(Q, R, id, e) /\ Q.bytes = R.bytes /\ Q.pinnedBytes = R.pinnedBytes
      /\ Q.pinnedPages = R.pinnedPages /\ Q.clock = IF a = n THEN 0 ELSE a
  <2>. DEFINE U == WithEntry(R, id, e)
  <2>1. /\ Rewrites(U, R, id, e) /\ DOMAIN U = DOMAIN R /\ U.clock = R.clock
        /\ U.bytes = R.bytes /\ U.pinnedBytes = R.pinnedBytes /\ U.pinnedPages = R.pinnedPages
        /\ Fields \subseteq DOMAIN R
    BY <1>1, WithEntryWrites DEF Residents, Typed
  <2>2. Q = [U EXCEPT !.clock = ((IF @ < n THEN @ ELSE 0) + 1) % n]
    BY <1>4 DEF Passed
  <2>. HIDE DEF U, Q
  <2>3. U.clock = R.clock /\ R.clock < n /\ n \in Nat \ {0}
    BY <1>2, <2>1 DEF Rewrites
  <2>4. (R.clock + 1) % n = IF a = n THEN 0 ELSE a
    BY <1>2, <2>3, Wraps
  <2>5. Q = [U EXCEPT !.clock = IF a = n THEN 0 ELSE a]
    BY <2>2, <2>3, <2>4
  <2>. QED  BY <2>1, <2>5 DEF Rewrites, Fields
<1>6. Scanned(Q, FALSE)
  BY <1>3
<1>. HIDE DEF Q
<1>7. Q.order = R.order
  BY <1>5 DEF Rewrites
<1>8. /\ Q.clock \in 0..n - 1 /\ Distance(R, a) = 0 /\ Distance(Q, a) = n - 1
      /\ \A i \in 1..n : i # a => Distance(Q, i) = Distance(R, i) - 1
  BY <1>1, <1>2, <1>5, <1>7, HandMoves
<1>9. Residents(Q) /\ DOMAIN Q.of = DOMAIN R.of
  <2>1. Q.clock \in Nat /\ (Q.clock < Len(R.order) \/ Q.clock = 0)
    BY <1>1, <1>8, ResidentsFinite DEF Residents
  <2>. QED  BY <1>1, <1>2, <1>4, <1>5, <2>1, RestatingKeeps
<1>10. At(Q, a) = e /\ \A i \in 1..n : i # a => At(Q, i) = At(R, i)
  <2>1. Q.of = With(R.of, id, e)
    BY <1>5 DEF Rewrites
  <2>2. \A i \in 1..n : R.order[i] \in DOMAIN R.of /\ (R.order[i] = id => i = a)
    <3>1. IsInjective(R.order) /\ DOMAIN R.order = 1..n
      BY <1>1 DEF Residents, Ordered
    <3>. QED  BY <1>1, <1>2, <3>1, HandIs DEF IsInjective
  <2>. QED  BY <1>2, <1>7, <2>1, <2>2 DEF At, With
<1>11. n \in Nat /\ \A i \in 1..n : Distance(R, i) \in 0..n - 1
  BY <1>1, <1>2, HandIs
<1>12. PinsFit(Q) /\ Exactly(ghosts', Q) /\ Ghosts(ghosts')
  BY <1>1, <1>4, <1>5, <1>9 DEF PinsFit, IInv, Exactly, Rewrites, With, Restates
<1>13. ~sweep.evicted => Affords(Q, sweep.left - 1)
  <2>. SUFFICES ASSUME ~sweep.evicted, NEW i \in 1..n, At(Q, i).state # "pinned"
                PROVE  Due(Q, i) <= sweep.left - 1
    BY <1>7 DEF Affords
  <2>1. CASE i # a
    <3>1. At(Q, i) = At(R, i) /\ Distance(Q, i) = Distance(R, i) - 1 /\ Distance(R, i) \in Nat
      BY <1>8, <1>10, <1>11, <2>1
    <3>2. Due(R, i) <= sweep.left
      BY <1>1, <3>1 DEF Affords
    <3>. QED  BY <1>1, <1>7, <1>11, <3>1, <3>2 DEF Due
  <2>2. CASE i = a
    <3>1. Due(R, a) <= sweep.left
      BY <1>1, <1>2, <1>4, <1>10, <2>2 DEF Affords
    <3>2. Distance(R, a) = 0 /\ Distance(Q, a) = n - 1
      BY <1>8
    <3>3. /\ Due(R, a) = 0 + 1 + (IF old.state = "hot" THEN n ELSE 0) + (IF old.ref THEN n ELSE 0)
          /\ Due(Q, a) = n - 1 + 1 + (IF e.state = "hot" THEN n ELSE 0) + (IF e.ref THEN n ELSE 0)
      BY <1>2, <1>7, <1>10, <3>2 DEF Due
    <3>4. /\ ~e.ref /\ e.state # "pinned"
          /\ \/ old.ref /\ e.state = old.state
             \/ ~old.ref /\ old.state = "hot" /\ e.state = "cold"
      BY <1>4, <1>10, <2>2
    <3>5. n \in Nat /\ sweep.left \in Nat
      BY <1>1, <1>11
    <3>6. Due(R, a) = Due(Q, a) + 1 /\ Due(Q, a) \in Nat
      <4>1. CASE old.ref
        <5>1. /\ (IF old.ref THEN n ELSE 0) = n /\ (IF e.ref THEN n ELSE 0) = 0
              /\ (IF e.state = "hot" THEN n ELSE 0) = (IF old.state = "hot" THEN n ELSE 0)
              /\ (IF old.state = "hot" THEN n ELSE 0) \in Nat
          BY <3>4, <3>5, <4>1
        <5>. HIDE DEF n, old
        <5>. QED  BY <3>3, <3>5, <5>1
      <4>2. CASE ~old.ref
        <5>1. /\ (IF old.ref THEN n ELSE 0) = 0 /\ (IF e.ref THEN n ELSE 0) = 0
              /\ (IF e.state = "hot" THEN n ELSE 0) = 0 /\ (IF old.state = "hot" THEN n ELSE 0) = n
          BY <3>4, <3>5, <4>2
        <5>. HIDE DEF n, old
        <5>. QED  BY <3>3, <3>5, <5>1
      <4>. QED  BY <4>1, <4>2
    <3>7. Due(Q, a) <= sweep.left - 1
      BY <3>1, <3>5, <3>6
    <3>. QED  BY <2>2, <3>7
  <2>. QED  BY <2>1, <2>2
<1>14. EasyAhead(Q, sweep.easy)
  <2>1. R.order[a] \notin sweep.easy
    BY <1>1, <1>2, <1>4 DEF EasyAhead, Spent
  <2>2. \A i \in 1..n : Q.order[i] \in sweep.easy => i # a /\ Spent(At(Q, i))
    BY <1>1, <1>7, <1>10, <2>1 DEF EasyAhead
  <2>3. ASSUME NEW i \in 1..n, NEW j \in 1..n,
               Q.order[i] \in sweep.easy, Q.order[j] \notin sweep.easy, Spent(At(Q, j))
        PROVE  Distance(Q, i) < Distance(Q, j)
    <3>1. i # a /\ Distance(Q, i) = Distance(R, i) - 1
      BY <1>8, <2>2, <2>3
    <3>2. CASE j = a
      BY <1>8, <1>11, <3>1, <3>2
    <3>3. CASE j # a
      <4>1. Distance(Q, j) = Distance(R, j) - 1 /\ At(Q, j) = At(R, j)
        BY <1>8, <1>10, <3>3
      <4>2. Distance(R, i) < Distance(R, j)
        BY <1>1, <1>7, <2>3, <4>1 DEF EasyAhead
      <4>. QED  BY <1>11, <3>1, <4>1, <4>2
    <3>. QED  BY <3>2, <3>3
  <2>. QED  BY <1>7, <2>2, <2>3 DEF EasyAhead
<1>. QED  BY <1>1, <1>6, <1>9, <1>12, <1>13, <1>14, ScannedKeeps

\* The one at the hand goes, and leaves its metadata.
LEMMA ScanEvictsStep ==
    ASSUME IInv, ScanEvicts
    PROVE  IInv'
<1>. DEFINE R == residency
            id == AtHand(R)
            n == Len(R.order)
            a == R.clock + 1
            Q == RemoveResident(R, id)
<1>1. /\ lock = "sweep" /\ OverCapacity(R) /\ Residents(R) /\ PinsFit(R)
      /\ EasyAhead(R, sweep.easy)
  BY DEF ScanEvicts, IInv, Capacity, Sweeping
<1>2. /\ R.clock \in 0..n - 1 /\ a \in 1..n /\ id = R.order[a] /\ id \in DOMAIN R.of
      /\ EntryOf(R.of[id], id) /\ Place(R, id) = a /\ R.of[id].page.id = id
  BY <1>1, HandOnResident DEF EntryOf
<1>3. ghosts' = WithGhost(ghosts, R.of[id].page) /\ Scanned(Q, TRUE)
  BY <1>2 DEF ScanEvicts
<1>4. /\ Residents(Q) /\ Drops(Q, R, id) /\ DOMAIN Q.of = DOMAIN R.of \ {id}
      /\ \A x \in DOMAIN R.of \ {id} : Q.of[x] = R.of[x]
      /\ PinsFit(Q)
  BY <1>1, <1>2, RemovedIs, RemovedFits
<1>. HIDE DEF Q
<1>5. /\ Q.order = Dropped(R.order, a) /\ Len(Q.order) = n - 1
      /\ \A j \in 1..n - 1 : Q.order[j] = R.order[Was(R, j)]
      /\ Q.clock = HandAfter(R.clock, R.clock, n - 1)
  <2>1. R.order \in Seq(Ids) /\ IsInjective(R.order)
    BY <1>1 DEF Residents, Ordered
  <2>2. Q.order = Dropped(R.order, a)
    BY <1>2, <1>4 DEF Drops
  <2>3. /\ Len(Dropped(R.order, a)) = n - 1
        /\ \A j \in 1..n - 1 : Dropped(R.order, a)[j] =
                                  IF j < a THEN R.order[j] ELSE R.order[j + 1]
    <3>. DEFINE s == R.order
    <3>1. s \in Seq(Ids) /\ IsInjective(s) /\ a \in 1..Len(s)
      BY <1>2, <2>1
    <3>. HIDE DEF s, a
    <3>2. /\ Len(Dropped(s, a)) = Len(s) - 1
          /\ \A j \in 1..Len(s) - 1 :
                Dropped(s, a)[j] = IF j < a THEN s[j] ELSE s[j + 1]
      BY <3>1, DroppedKeeps
    <3>. QED  BY <3>2 DEF s
  <2>4. a - 1 = R.clock
    BY <1>2
  <2>5. Q.clock = HandAfter(R.clock, a - 1, n - 1)
    BY <1>2, <1>4 DEF Drops
  <2>. QED  BY <2>2, <2>3, <2>4, <2>5 DEF Was
<1>6. \A j \in 1..Len(Q.order) :
         Was(R, j) \in 1..n /\ Distance(Q, j) = Distance(R, Was(R, j)) - 1
  BY <1>1, <1>2, <1>5, HandStaysOver
<1>7. \A j \in 1..Len(Q.order) :
         /\ Was(R, j) \in 1..n /\ Q.order[j] = R.order[Was(R, j)]
         /\ At(Q, j) = At(R, Was(R, j))
         /\ Distance(R, Was(R, j)) \in Nat /\ Distance(Q, j) = Distance(R, Was(R, j)) - 1
  <2>. SUFFICES ASSUME NEW j \in 1..Len(Q.order)
                PROVE  /\ Was(R, j) \in 1..n /\ Q.order[j] = R.order[Was(R, j)]
                       /\ At(Q, j) = At(R, Was(R, j))
                       /\ Distance(R, Was(R, j)) \in Nat
                       /\ Distance(Q, j) = Distance(R, Was(R, j)) - 1
    OBVIOUS
  <2>1. /\ Was(R, j) \in 1..n /\ Distance(Q, j) = Distance(R, Was(R, j)) - 1
        /\ Q.order[j] = R.order[Was(R, j)]
    BY <1>5, <1>6
  <2>2. Distance(R, Was(R, j)) \in Nat
    BY <1>1, <2>1, HandIs
  <2>3. Q.order[j] \in DOMAIN Q.of
    BY <1>4, HandIs
  <2>4. At(Q, j) = At(R, Was(R, j))
    BY <1>4, <2>1, <2>3 DEF At
  <2>. QED  BY <2>1, <2>2, <2>4
<1>8. EasyAhead(Q, sweep.easy)
  <2>1. ASSUME NEW j \in 1..Len(Q.order), Q.order[j] \in sweep.easy
        PROVE  Spent(At(Q, j))
    BY <1>1, <1>7, <2>1 DEF EasyAhead
  <2>2. ASSUME NEW i \in 1..Len(Q.order), NEW j \in 1..Len(Q.order),
               Q.order[i] \in sweep.easy, Q.order[j] \notin sweep.easy, Spent(At(Q, j))
        PROVE  Distance(Q, i) < Distance(Q, j)
    <3>1. /\ Was(R, i) \in 1..n /\ R.order[Was(R, i)] \in sweep.easy
          /\ Was(R, j) \in 1..n /\ R.order[Was(R, j)] \notin sweep.easy
          /\ Spent(At(R, Was(R, j)))
      BY <1>7, <2>2
    <3>2. Distance(R, Was(R, i)) < Distance(R, Was(R, j))
      BY <1>1, <3>1 DEF EasyAhead
    <3>. QED  BY <1>7, <3>2
  <2>. QED  BY <2>1, <2>2 DEF EasyAhead
<1>9. Ghosts(ghosts') /\ Exactly(ghosts', Q)
  <2>1. R.of[id].page \in Pages
    BY <1>2 DEF EntryOf, Entries
  <2>2. /\ Ghosts(ghosts')
        /\ \A x \in DOMAIN ghosts'.of :
              x # id => x \in DOMAIN ghosts.of /\ ghosts'.of[x] = ghosts.of[x]
    BY <1>2, <1>3, <2>1, GhostAdded DEF IInv
  <2>. QED  BY <1>4, <2>2 DEF IInv, Exactly
<1>. QED  BY <1>1, <1>3, <1>4, <1>8, <1>9, ScannedKeeps

-----------------------------------------------------------------------------
(* The theorems.                                                           *)

LEMMA NextKeeps == IInv /\ [Next]_vars => IInv'
<1>. SUFFICES ASSUME IInv, [Next]_vars PROVE IInv'
  OBVIOUS
<1>1. ASSUME NEW p \in Admissible,
             \/ AdmitDemand(p) \/ AdmitCold(p) \/ Pin(p) \/ PutL2(p) \/ PutL3(p)
             \/ AdmitAuthoritativeDemand(p)
      PROVE  IInv'
  BY <1>1, AdmissionStep
<1>2. ASSUME NEW id \in Ids, Use(id) \/ RecordAccess(id) \/ Shootdown(id)
      PROVE  IInv'
  <2>1. CASE Shootdown(id)
    BY <2>1, ShootdownStep DEF Shootdown
  <2>. QED  BY <1>2, <2>1, UseStep, RecordAccessStep
<1>3. ASSUME NEW p \in Metadata, PinResident(p) \/ Unpin(p) \/ Invalidate(p) \/ Revalidate(p)
      PROVE  IInv'
  <2>1. CASE Invalidate(p)
    BY <2>1, ShootdownStep DEF Invalidate
  <2>. QED  BY <1>3, <2>1, PinStep, RevalidateStep
<1>4. ASSUME \/ \E p \in Metadata, ns \in Namespaces : ObserveSemantic(p, ns)
             \/ PurgeAllGhosts \/ CensorAllShadows
      PROVE  IInv'
  BY <1>4, HintStep
<1>5. CASE ReconcileLists
  BY <1>5, ReconcileListsStep
<1>6. ASSUME NEW verdict \in Verdicts, NEW meta \in MetaSizes, ReconcilePage(verdict, meta)
      PROVE  IInv'
  BY <1>6, ReconcilePageStep
<1>7. CASE ScanPasses
  BY <1>7, ScanPassesStep
<1>8. CASE ScanEvicts
  BY <1>8, ScanEvictsStep
<1>9. CASE UNCHANGED vars
  BY <1>9 DEF vars, IInv, Capacity
<1>. QED  BY <1>1, <1>2, <1>3, <1>4, <1>5, <1>6, <1>7, <1>8, <1>9 DEF Next

\* The invariant holds for any pages and caps: the tables and their accounts,
\* the caps, the exactness of the hints, and what the sweep has left to do.
THEOREM Invariance == Spec => []IInv
BY InitHolds, NextKeeps, PTL DEF Spec

\* Every type is kept, the hand's order lists each resident once and the tiers
\* divide them, whatever is admitted, evicted, pinned or shot down.
THEOREM ResidentsStayInOrder == Spec => []OrderIsResidents
<1>1. IInv => OrderIsResidents
  <2>. SUFFICES ASSUME IInv PROVE OrderIsResidents
    OBVIOUS
  <2>. DEFINE R == residency
  <2>1. Residents(R) /\ DOMAIN R.of \subseteq Ids
    BY ResidentsFinite DEF IInv, Residents
  <2>2. /\ \A id \in DOMAIN R.of : R.of[id] \in Entries /\ R.of[id].page.id = id
        /\ R.order \in Seq(Ids) /\ IsInjective(R.order) /\ Range(R.order) = DOMAIN R.of
        /\ R.clock < Len(R.order) \/ R.clock = 0
    BY <2>1 DEF Residents, Typed, Ordered, EntryOf
  <2>3. /\ R.l3 = {id \in DOMAIN R.of : R.of[id].state = "cold"}
        /\ R.l2 = DOMAIN R.of \ {id \in DOMAIN R.of : R.of[id].state = "cold"}
    BY <2>1 DEF Residents, Tiered
  <2>4. {R.clock, R.bytes, R.pinnedBytes, R.pinnedPages} \subseteq Nat
    BY <2>1, AccountsAreNumbers DEF Residents, Typed
  <2>5. /\ ghosts.bytes \in Nat /\ DOMAIN ghosts.of \subseteq Ids
        /\ \A id \in DOMAIN ghosts.of : ghosts.of[id] \in [version : Versions, size : MetaSizes]
    BY TableFinite DEF IInv, Ghosts, GhostEntries
  <2>6. /\ shadows.bytes \in Nat /\ DOMAIN shadows.of \subseteq Tuples \X Namespaces
        /\ shadows.pending \in Nat
    BY TableFinite, TrialsFinite DEF IInv, Shadows, Observations, ShadowKeys
  <2>7. \A k \in DOMAIN shadows.of :
           shadows.of[k] \in [useful : BOOLEAN, age : 0..ShadowUseHorizon, size : MetaSizes]
    <3>. SUFFICES ASSUME NEW k \in DOMAIN shadows.of
                  PROVE  shadows.of[k] \in
                            [useful : BOOLEAN, age : 0..ShadowUseHorizon, size : MetaSizes]
      OBVIOUS
    <3>1. /\ shadows.of[k] \in [useful : BOOLEAN, age : Nat, size : MetaSizes]
          /\ shadows.of[k].age <= ShadowUseHorizon /\ ShadowUseHorizon \in Nat
      BY PolicyAssumption DEF IInv, Shadows, Observations
    <3>2. shadows.of[k].age \in 0..ShadowUseHorizon
      BY <3>1
    <3>. QED  BY <3>1, <3>2
  <2>8. /\ lock \in {"free", "sweep", "apply"} /\ sweep.left \in Nat
        /\ lock = "sweep" <=> sweep # NoSweep
    <3>1. CASE lock = "sweep"
      <4>1. sweep.left \in Nat \ {0}
        BY <3>1 DEF IInv, Capacity, Sweeping
      <4>. QED  BY <3>1, <4>1 DEF NoSweep
    <3>2. CASE lock # "sweep"
      BY <3>2 DEF IInv, Capacity, NoSweep
    <3>. QED  BY <3>1, <3>2 DEF IInv, Capacity
  <2>9. TypeOK
    BY <2>1, <2>2, <2>4, <2>5, <2>6, <2>7, <2>8 DEF TypeOK, IInv
  <2>. QED  BY <2>2, <2>3, <2>9 DEF OrderIsResidents
<1>. QED  BY <1>1, Invariance, PTL

\* The caps hold whenever the lock is free: what preflightCapacityLocked lets
\* in, the three visits of the hand can always make room for.
THEOREM CapsAreKept == Spec => []CapsHold
<1>1. IInv => CapsHold
  BY DEF IInv, CapsHold, Capacity, PinsFit, Ghosts, Shadows
<1>. QED  BY <1>1, Invariance, PTL

\* The incremental accounts are the sums over the entries.
THEOREM AccountsAreSums == Spec => []AccountsBalance
<1>1. IInv => AccountsBalance
  <2>. SUFFICES ASSUME IInv PROVE AccountsBalance
    OBVIOUS
  <2>1. residency.bytes = Total([id \in DOMAIN residency.of |-> PageSize(residency.of[id].page)])
    BY DEF IInv, Residents, Balanced, WeightsOf, Weight
  <2>2. Residents(residency) /\ Consistent(ghosts) /\ Consistent(shadows)
    BY DEF IInv, Ghosts, Shadows, Observations, IsTable
  <2>. QED  BY <2>1, <2>2, PinsAre DEF AccountsBalance
<1>. QED  BY <1>1, Invariance, PTL

\* A resident without a body is a miss, and only such a one.
THEOREM MissesHaveNoBody == Spec => []EmptiedBodiesMiss
<1>1. IInv => EmptiedBodiesMiss
  BY DEF IInv, Residents, Typed, EntryOf, EmptiedBodiesMiss
<1>. QED  BY <1>1, Invariance, PTL

\* No hint survives a change of version.
THEOREM HintsAreExact == Spec => []EstimatorsExact
<1>1. IInv => EstimatorsExact
  BY DEF IInv, Exactly, Shadows, Observations, EstimatorsExact
<1>. QED  BY <1>1, Invariance, PTL

\* Every observation is pending or was counted, once.
THEOREM TrialsAreCounted == Spec => []ShadowsConserved
<1>1. IInv => ShadowsConserved
  BY DEF IInv, Shadows, Observations, Trials, ShadowsConserved
<1>. QED  BY <1>1, Invariance, PTL

\* The sweep reclaims a page used since the last one only when nothing is left
\* of what it could have reclaimed at once: the hand has such pages before it.
THEOREM SecondChances == Spec => EasyVictimsFirst
<1>1. IInv /\ [Next]_vars =>
         [ScanEvicts => \/ AtHand(residency) \in sweep.easy
                        \/ sweep.easy \cap DOMAIN residency.of = {}]_vars
  <2>. SUFFICES ASSUME IInv, ScanEvicts, AtHand(residency) \notin sweep.easy,
                       NEW id \in sweep.easy, id \in DOMAIN residency.of
                PROVE  FALSE
    OBVIOUS
  <2>. DEFINE R == residency
              a == R.clock + 1
  <2>1. Residents(R) /\ PinsFit(R) /\ OverCapacity(R) /\ EasyAhead(R, sweep.easy)
    BY DEF ScanEvicts, IInv, Capacity, Sweeping
  <2>2. /\ R.clock \in 0..Len(R.order) - 1 /\ a \in 1..Len(R.order)
        /\ AtHand(R) = R.order[a] /\ R.of[AtHand(R)] = At(R, a)
    BY <2>1, HandOnResident
  <2>3. Spent(At(R, a))
    BY <2>2 DEF ScanEvicts, Spent
  <2>4. PICK i \in 1..Len(R.order) : R.order[i] = id
    BY <2>1 DEF Residents, Ordered, Range
  <2>5. Distance(R, i) < Distance(R, a)
    BY <2>1, <2>2, <2>3, <2>4 DEF EasyAhead
  <2>6. Distance(R, a) = 0 /\ Distance(R, i) \in Nat
    <3>1. Distance(R, a) = 0
      BY <2>2 DEF Distance
    <3>. QED  BY <2>1, <2>4, <3>1, HandIs
  <2>. QED  BY <2>5, <2>6
<1>. QED  BY <1>1, Invariance, PTL DEF Spec, EasyVictimsFirst

\* A verdict of Reconcile touches the page it was given on, in the version it
\* was given on, and no other.
THEOREM VerdictsKeepToTheirPage == Spec => VerdictsMeetTheirPage
<1>1. IInv /\ [Next]_vars =>
         [\A verdict \in Verdicts, meta \in MetaSizes :
             ReconcilePage(verdict, meta) =>
                \A id \in DOMAIN residency.of :
                   \/ Tuple(residency.of[id].page) = Head(listed)
                   \/ /\ Resident(residency', id)
                      /\ residency'.of[id] = residency.of[id]]_vars
  <2>. SUFFICES ASSUME IInv, NEW verdict \in Verdicts, NEW meta \in MetaSizes,
                       ReconcilePage(verdict, meta), NEW id \in DOMAIN residency.of,
                       Tuple(residency.of[id].page) # Head(listed)
                PROVE  Resident(residency', id) /\ residency'.of[id] = residency.of[id]
    OBVIOUS
  <2>. DEFINE R == residency
              x == Head(listed)[1]
  <2>1. CASE residency' = residency
    BY <2>1 DEF Resident
  <2>2. CASE StillThere /\ x # id
    <3>1. Residents(R) /\ x \in DOMAIN R.of /\ EntryOf(R.of[x], x)
      BY <2>2 DEF IInv, StillThere, Resident, Residents, Typed
    <3>2. CASE residency' = RemoveResident(R, x)
      BY <2>2, <3>1, <3>2, RemovedIs DEF Resident
    <3>3. CASE Refresh(R.of[x], Judged(R.of[x], verdict, meta))
      <4>1. \/ residency' = Replaced(R, x, Judged(R.of[x], verdict, meta))
            \/ residency' = RemoveResident(R, x)
        BY <3>1, <3>3 DEF Refresh, EntryOf
      <4>2. EntryOf(Judged(R.of[x], verdict, meta), x)
        BY <3>1, JudgedIs
      <4>3. CASE residency' = Replaced(R, x, Judged(R.of[x], verdict, meta))
        <5>. DEFINE e == Judged(R.of[x], verdict, meta)
                    Q == Replaced(R, x, e)
        <5>1. residency' = Q /\ EntryOf(e, x)
          BY <4>2, <4>3
        <5>. HIDE DEF e
        <5>2. Q.of = With(R.of, x, e)
          <6>1. Rewrites(Q, R, x, e)
            BY <3>1, <5>1, ReplacedKeeps
          <6>. QED  BY <6>1 DEF Rewrites
        <5>3. id \in DOMAIN Q.of /\ Q.of[id] = R.of[id]
          BY <2>2, <5>2 DEF With
        <5>. QED  BY <5>1, <5>3 DEF Resident
      <4>. QED  BY <3>2, <4>1, <4>3
    <3>. QED  BY <2>2, <3>2, <3>3 DEF ReconcilePage, Judged, Shot
  <2>3. StillThere => x # id
    BY DEF StillThere
  <2>. QED  BY <2>1, <2>2, <2>3 DEF ReconcilePage
<1>. QED  BY <1>1, Invariance, PTL DEF Spec, VerdictsMeetTheirPage
-----------------------------------------------------------------------------
(* What the sweep does, for those who leave it out.                        *)

\* Q holds nothing but pages of R, as R has them: only their place in the clock
\* (the reference bit, hot or cold) may be another.
Holds(Q, R) ==
    \A id \in DOMAIN Q.of :
       /\ id \in DOMAIN R.of
       /\ Q.of[id].page = R.of[id].page
       /\ Q.of[id].materialized = R.of[id].materialized
       /\ Q.of[id].state = "pinned" <=> R.of[id].state = "pinned"

\* A sweep (enforceResidentCapacityLocked) takes a page only while a cap is
\* exceeded, one at a time and never a pin, changes none of those it leaves,
\* and once it lets go of the lock no cap is exceeded.
SweepReclaims ==
    [][lock = "sweep" =>
          /\ OverCapacity(residency)
          /\ \/ DOMAIN residency'.of = DOMAIN residency.of
             \/ \E id \in DOMAIN residency.of :
                   /\ ~Pinned(residency, id)
                   /\ DOMAIN residency'.of = DOMAIN residency.of \ {id}
          /\ Holds(residency', residency)
          /\ lock' = "sweep" \/ ~OverCapacity(residency')]_vars

\* Every scan that does not end the sweep takes a page, or ends a budget that
\* had a victim, or leaves less of the budget: a sweep comes to an end.
SweepShrinks ==
    [][lock = "sweep" /\ lock' = "sweep" =>
          \/ Cardinality(DOMAIN residency'.of) < Cardinality(DOMAIN residency.of)
          \/ /\ DOMAIN residency'.of = DOMAIN residency.of
             /\ \/ sweep.evicted /\ ~sweep'.evicted
                \/ /\ sweep'.evicted <=> sweep.evicted
                   /\ sweep'.left \in Nat /\ sweep'.left < sweep.left]_vars

\* While the sweep has the lock nothing else is done.
LEMMA OnlyScans ==
    ASSUME lock = "sweep", Next
    PROVE  ScanPasses \/ ScanEvicts
<1>1. ~Free /\ ~ReconcileLists
  BY DEF Free, ReconcileLists
<1>2. \A p : /\ ~AdmitDemand(p) /\ ~AdmitCold(p) /\ ~Pin(p) /\ ~PutL2(p) /\ ~PutL3(p)
             /\ ~AdmitAuthoritativeDemand(p)
  BY <1>1 DEF AdmitDemand, AdmitCold, Pin, PutL2, PutL3, AdmitAuthoritativeDemand
<1>3. \A id : ~Use(id) /\ ~RecordAccess(id) /\ ~Shootdown(id)
  BY <1>1 DEF Use, RecordAccess, Shootdown
<1>4. \A p : ~PinResident(p) /\ ~Unpin(p) /\ ~Invalidate(p) /\ ~Revalidate(p)
  BY <1>1 DEF PinResident, Unpin, Invalidate, Revalidate
<1>5. (\A p, ns : ~ObserveSemantic(p, ns)) /\ ~PurgeAllGhosts /\ ~CensorAllShadows
  BY <1>1 DEF ObserveSemantic, PurgeAllGhosts, CensorAllShadows
<1>6. \A verdict, meta : ~ReconcilePage(verdict, meta)
  BY DEF ReconcilePage
<1>. QED  BY <1>1, <1>2, <1>3, <1>4, <1>5, <1>6, Zenon DEF Next

\* A scan that passes: everyone stays, and what changes is no page and no pin.
LEMMA PassesHold ==
    ASSUME IInv, ScanPasses
    PROVE  /\ OverCapacity(residency) /\ DOMAIN residency'.of = DOMAIN residency.of
           /\ Holds(residency', residency)
           /\ Scanned(residency', FALSE) /\ sweep.left \in Nat \ {0}
<1>. DEFINE R == residency
            id == AtHand(R)
            old == R.of[id]
<1>1. /\ lock = "sweep" /\ OverCapacity(R) /\ Residents(R) /\ PinsFit(R)
      /\ sweep.left \in Nat \ {0}
  BY DEF ScanPasses, IInv, Capacity, Sweeping
<1>2. id \in DOMAIN R.of /\ EntryOf(old, id)
  BY <1>1, HandOnResident
<1>3. PICK e : /\ Scanned(Passed(R, e), FALSE)
               /\ \/ old.state = "pinned" /\ e = old
                  \/ old.state # "pinned" /\ old.ref /\ e = [old EXCEPT !.ref = FALSE]
                  \/ old.state = "hot" /\ ~old.ref /\ e = [old EXCEPT !.state = "cold"]
  BY DEF ScanPasses
<1>4. /\ e.page = old.page /\ e.page.id = id /\ e.materialized = old.materialized
      /\ e.state = "pinned" <=> old.state = "pinned"
  BY <1>2, <1>3 DEF EntryOf, Entries
<1>. DEFINE Q == Passed(R, e)
            U == WithEntry(R, id, e)
<1>5. residency' = Q
  BY <1>3 DEF Scanned
<1>6. Rewrites(U, R, id, e) /\ DOMAIN U = DOMAIN R /\ Fields \subseteq DOMAIN R
  BY <1>1, WithEntryWrites DEF Residents, Typed
<1>7. Q = [U EXCEPT !.clock = ((IF @ < Len(R.order) THEN @ ELSE 0) + 1) % Len(R.order)]
  BY <1>4 DEF Passed
<1>8. Scanned(Q, FALSE)
  BY <1>3
<1>. HIDE DEF U, Q
<1>9. Q.of = With(R.of, id, e)
  BY <1>6, <1>7 DEF Rewrites, Fields
<1>10. DOMAIN Q.of = DOMAIN R.of
  BY <1>2, <1>9 DEF With
<1>11. \A x \in DOMAIN R.of : Q.of[x] = IF x = id THEN e ELSE R.of[x]
  BY <1>2, <1>9 DEF With
<1>12. Holds(Q, R)
  BY <1>4, <1>10, <1>11 DEF Holds
<1>. QED  BY <1>1, <1>5, <1>8, <1>10, <1>12

\* A scan that evicts: the page at the hand goes, which is no pin.
LEMMA EvictsHold ==
    ASSUME IInv, ScanEvicts
    PROVE  /\ OverCapacity(residency)
           /\ \E id \in DOMAIN residency.of :
                 /\ ~Pinned(residency, id)
                 /\ DOMAIN residency'.of = DOMAIN residency.of \ {id}
           /\ Holds(residency', residency)
<1>. DEFINE R == residency
            id == AtHand(R)
<1>1. lock = "sweep" /\ OverCapacity(R) /\ Residents(R) /\ PinsFit(R)
  BY DEF ScanEvicts, IInv, Capacity, Sweeping
<1>2. id \in DOMAIN R.of /\ R.of[id].page.id = id
  BY <1>1, HandOnResident DEF EntryOf
<1>3. residency' = RemoveResident(R, id) /\ R.of[id].state = "cold"
  BY <1>2 DEF ScanEvicts, Scanned
<1>4. /\ DOMAIN residency'.of = DOMAIN R.of \ {id}
      /\ \A x \in DOMAIN R.of \ {id} : residency'.of[x] = R.of[x]
  BY <1>1, <1>3, RemovedIs
<1>5. Holds(residency', R)
  BY <1>4 DEF Holds
<1>6. ~Pinned(R, id)
  BY <1>3 DEF Pinned
<1>. QED  BY <1>1, <1>2, <1>4, <1>5, <1>6

\* A sweep reclaims what it must and nothing else.
THEOREM SweepsReclaimOnlyExcess == Spec => SweepReclaims
<1>1. IInv /\ IInv' /\ [Next]_vars =>
         [lock = "sweep" =>
             /\ OverCapacity(residency)
             /\ \/ DOMAIN residency'.of = DOMAIN residency.of
                \/ \E id \in DOMAIN residency.of :
                      /\ ~Pinned(residency, id)
                      /\ DOMAIN residency'.of = DOMAIN residency.of \ {id}
             /\ Holds(residency', residency)
             /\ lock' = "sweep" \/ ~OverCapacity(residency')]_vars
  <2>. SUFFICES ASSUME IInv, IInv', Next, lock = "sweep"
                PROVE  /\ OverCapacity(residency)
                       /\ \/ DOMAIN residency'.of = DOMAIN residency.of
                          \/ \E id \in DOMAIN residency.of :
                                /\ ~Pinned(residency, id)
                                /\ DOMAIN residency'.of = DOMAIN residency.of \ {id}
                       /\ Holds(residency', residency)
                       /\ lock' = "sweep" \/ ~OverCapacity(residency')
    OBVIOUS
  <2>1. lock' = "sweep" \/ ~OverCapacity(residency')
    BY DEF IInv, Capacity
  <2>2. CASE ScanPasses
    BY <2>1, <2>2, PassesHold
  <2>3. CASE ScanEvicts
    BY <2>1, <2>3, EvictsHold
  <2>. QED  BY <2>2, <2>3, OnlyScans
<1>. QED  BY <1>1, Invariance, PTL DEF Spec, SweepReclaims

\* Nobody holds the lock for ever: a sweep ends, of whatever pages.
THEOREM SweepsEnd == Spec => SweepShrinks
<1>1. IInv /\ IInv' /\ [Next]_vars =>
         [lock = "sweep" /\ lock' = "sweep" =>
             \/ Cardinality(DOMAIN residency'.of) < Cardinality(DOMAIN residency.of)
             \/ /\ DOMAIN residency'.of = DOMAIN residency.of
                /\ \/ sweep.evicted /\ ~sweep'.evicted
                   \/ /\ sweep'.evicted <=> sweep.evicted
                      /\ sweep'.left \in Nat /\ sweep'.left < sweep.left]_vars
  <2>. SUFFICES ASSUME IInv, IInv', Next, lock = "sweep", lock' = "sweep"
                PROVE  \/ Cardinality(DOMAIN residency'.of) < Cardinality(DOMAIN residency.of)
                       \/ /\ DOMAIN residency'.of = DOMAIN residency.of
                          /\ \/ sweep.evicted /\ ~sweep'.evicted
                             \/ /\ sweep'.evicted <=> sweep.evicted
                                /\ sweep'.left \in Nat /\ sweep'.left < sweep.left
    OBVIOUS
  <2>1. CASE ScanPasses
    <3>1. /\ DOMAIN residency'.of = DOMAIN residency.of
          /\ Scanned(residency', FALSE) /\ sweep.left \in Nat \ {0}
      BY <2>1, PassesHold
    <3>2. sweep \in [left : Nat \ {0}, evicted : BOOLEAN, easy : SUBSET Ids]
      BY DEF IInv, Capacity, Sweeping
    <3>3. /\ ~(sweep.left - 1 = 0 /\ ~sweep.evicted)
          /\ sweep' = [sweep EXCEPT !.left = IF sweep.left - 1 = 0 THEN ScanBudget(residency')
                                                                   ELSE sweep.left - 1,
                                    !.evicted = sweep.evicted /\ sweep.left - 1 > 0]
      BY <3>1 DEF Scanned
    <3>4. /\ sweep'.left = IF sweep.left - 1 = 0 THEN ScanBudget(residency')
                                                 ELSE sweep.left - 1
          /\ sweep'.evicted <=> sweep.evicted /\ sweep.left - 1 > 0
      BY <3>2, <3>3
    <3>5. CASE sweep.left - 1 = 0
      BY <3>1, <3>3, <3>4, <3>5
    <3>6. CASE sweep.left - 1 # 0
      <4>1. sweep.left - 1 \in Nat /\ sweep.left - 1 > 0 /\ sweep.left - 1 < sweep.left
        BY <3>1, <3>6
      <4>. QED  BY <3>1, <3>4, <3>6, <4>1
    <3>. QED  BY <3>5, <3>6
  <2>2. CASE ScanEvicts
    <3>1. PICK id \in DOMAIN residency.of : DOMAIN residency'.of = DOMAIN residency.of \ {id}
      BY <2>2, EvictsHold
    <3>2. IsFiniteSet(DOMAIN residency.of)
      BY ResidentsFinite DEF IInv, Residents
    <3>3. /\ Cardinality(DOMAIN residency.of \ {id}) = Cardinality(DOMAIN residency.of) - 1
          /\ Cardinality(DOMAIN residency.of) \in Nat
      BY <3>2, FS_RemoveElement, FS_CardinalityType
    <3>. QED  BY <3>1, <3>3
  <2>. QED  BY <2>1, <2>2, OnlyScans
<1>. QED  BY <1>1, Invariance, PTL DEF Spec, SweepShrinks

\* preflightCapacityLocked of a page that is neither resident nor to be pinned
\* comes down to the pins: where what is pinned leaves it bytes enough, it is
\* let in exactly when what is pinned leaves it a place.
THEOREM RoomIsWhatPinsLeave ==
    ASSUME NEW R, Residents(R), PinsFit(R), NEW p \in Pages, ~Resident(R, p.id),
           R.pinnedBytes + PageSize(p) <= MaxResidentBytes
    PROVE  Feasible(R, p, FALSE) <=>
              Cardinality({id \in DOMAIN R.of : Pinned(R, id)}) < MaxResidentPages
<1>. DEFINE pins == {id \in DOMAIN R.of : R.of[id].state = "pinned"}
<1>1. pins = {id \in DOMAIN R.of : Pinned(R, id)}
  BY DEF Pinned, Resident
<1>2. R.pinnedPages = Cardinality(pins)
  BY PinsAre
<1>3. /\ IsFiniteSet(DOMAIN R.of) /\ p.id \notin DOMAIN R.of
  BY ResidentsFinite DEF Residents, Resident
<1>4. /\ Cardinality(DOMAIN R.of \cup {p.id}) = Cardinality(DOMAIN R.of) + 1
      /\ Cardinality(DOMAIN R.of) \in Nat
  BY <1>3, FS_AddElement, FS_CardinalityType
<1>5. Cardinality(pins) \in Nat /\ Cardinality(pins) <= Cardinality(DOMAIN R.of)
  <2>1. pins \subseteq DOMAIN R.of
    OBVIOUS
  <2>. HIDE DEF pins
  <2>. QED  BY <1>3, <2>1, FS_Subset, FS_CardinalityType
<1>. HIDE DEF pins
<1>6. R.bytes \in Nat /\ R.pinnedBytes \in Nat /\ R.pinnedPages \in Nat
  BY AccountsAreNumbers
<1>7. PageSize(p) \in Nat
  <2>1. p.meta \in MetaSizes /\ p.body \in BodySizes \cup {0}
    BY DEF Pages
  <2>2. MetaSizes \subseteq Nat \ {0} /\ BodySizes \subseteq Nat
    BY SizesAssumption
  <2>3. p.meta \in Nat
    BY <2>1, <2>2
  <2>4. p.body \in Nat
    <3>1. CASE p.body \in BodySizes
      BY <2>2, <3>1
    <3>2. CASE p.body = 0
      BY <3>2
    <3>. QED  BY <2>1, <3>1, <3>2
  <2>. QED  BY <2>3, <2>4 DEF PageSize
<1>8. ~Resident(R, p.id) /\ ~Pinned(R, p.id)
  BY DEF Pinned
<1>9. Feasible(R, p, FALSE) <=>
         /\ R.pinnedPages - 0 + 0 <= MaxPinnedPages
         /\ R.pinnedBytes - 0 + 0 <= MaxPinnedBytes
         /\ \/ /\ Cardinality(DOMAIN R.of \cup {p.id}) <= MaxResidentPages
               /\ R.bytes - 0 + PageSize(p) <= MaxResidentBytes
            \/ /\ R.pinnedPages - 0 + 0 + 1 <= MaxResidentPages
               /\ R.pinnedBytes - 0 + 0 + PageSize(p) <= MaxResidentBytes
  BY <1>8 DEF Feasible
<1>10. Feasible(R, p, FALSE) <=> Cardinality(pins) < MaxResidentPages
  <2>1. {MaxResidentPages, MaxResidentBytes, MaxPinnedPages, MaxPinnedBytes} \subseteq Nat
    BY PolicyAssumption
  <2>2. R.pinnedPages <= MaxPinnedPages /\ R.pinnedBytes <= MaxPinnedBytes
    BY DEF PinsFit
  <2>3. /\ R.pinnedPages - 0 + 0 = R.pinnedPages /\ R.pinnedBytes - 0 + 0 = R.pinnedBytes
        /\ R.bytes - 0 = R.bytes
    BY <1>6
  <2>4. Feasible(R, p, FALSE) <=>
           \/ /\ Cardinality(DOMAIN R.of) + 1 <= MaxResidentPages
              /\ R.bytes + PageSize(p) <= MaxResidentBytes
           \/ Cardinality(pins) + 1 <= MaxResidentPages
    BY <1>2, <1>4, <1>9, <2>2, <2>3
  <2>5. Cardinality(DOMAIN R.of) + 1 <= MaxResidentPages
           => Cardinality(pins) + 1 <= MaxResidentPages
    BY <1>4, <1>5, <2>1
  <2>6. Cardinality(pins) + 1 <= MaxResidentPages <=> Cardinality(pins) < MaxResidentPages
    BY <1>5, <2>1
  <2>. QED  BY <2>4, <2>5, <2>6
<1>. QED  BY <1>1, <1>10
=============================================================================
