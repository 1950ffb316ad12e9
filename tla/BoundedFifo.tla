------------------------------ MODULE BoundedFifo ------------------------------
(***************************************************************************)
(* A table with entry and byte caps whose oldest entries leave first: the  *)
(* shape of the ghosts and of the semantic shadows of                      *)
(* internal/memory/hierarchy.go.  "of" maps a key to a record that has at  *)
(* least a "size"; "order" holds the keys, oldest first; "bytes" is the    *)
(* running account of the sizes.                                           *)
(***************************************************************************)
EXTENDS Integers, Sequences, FiniteSets, Functions, FiniteSetsExt

EmptyFifo == [of |-> <<>>, order |-> <<>>, bytes |-> 0]

\* f with v at x, whether or not f is defined there.
With(f, x, v) == [y \in DOMAIN f \cup {x} |-> IF y = x THEN v ELSE f[y]]

\* The sum of the values of w, as the number of units it counts out.
Total(w) == Cardinality(UNION {{x} \X (1..w[x]) : x \in DOMAIN w})

SizeOf(of, keys) == Total([k \in keys |-> of[k].size])

\* The sequence s without the members of gone.
Filtered(s, gone) ==
    LET kept == {i \in DOMAIN s : s[i] \notin gone}
        upTo(i) == {j \in kept : j <= i}
    IN [n \in 1..Cardinality(kept) |-> s[CHOOSE i \in kept : Cardinality(upTo(i)) = n]]

\* The keys of K leave, and their bytes with them.
Without(q, K) ==
    LET gone == K \cap DOMAIN q.of
    IN [q EXCEPT !.of    = Restrict(@, DOMAIN @ \ gone),
                 !.order = Filtered(@, gone),
                 !.bytes = @ - SizeOf(q.of, gone)]

\* A key already there keeps its place in the order.
Put(q, k, entry) ==
    LET had == k \in DOMAIN q.of
    IN [q EXCEPT !.of    = With(@, k, entry),
                 !.order = IF had THEN @ ELSE Append(@, k),
                 !.bytes = @ - (IF had THEN q.of[k].size ELSE 0) + entry.size]

\* The keys that have to leave, oldest first, until both caps hold.
Excess(q, maxEntries, maxBytes) ==
    LET oldest(n) == {q.order[i] : i \in 1..n}
        fits(n)   == /\ Len(q.order) - n <= maxEntries
                     /\ q.bytes - SizeOf(q.of, oldest(n)) <= maxBytes
    IN oldest(Min({n \in 0..Len(q.order) : fits(n)}))

\* The account, the order and the entries tell the same story.
Consistent(q) ==
    /\ IsInjective(q.order)
    /\ Range(q.order) = DOMAIN q.of
    /\ q.bytes = SizeOf(q.of, DOMAIN q.of)

Within(q, maxEntries, maxBytes) ==
    Len(q.order) <= maxEntries /\ q.bytes <= maxBytes
=============================================================================
