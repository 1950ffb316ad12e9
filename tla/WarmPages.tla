------------------------------ MODULE WarmPages ------------------------------
(***************************************************************************)
(* The contents of the warm (L3) page index, and what one durable event    *)
(* does to it: internal/indexer/apply.go applied to the mutations that     *)
(* internal/pages compiled for the event.                                  *)
(*                                                                         *)
(* An event is the function from pages to what its mutations do to them.   *)
(* A page compiled for the event at append sequence n has version n        *)
(* (pages/compiler.go:372), so versions are append sequences and 0 stands  *)
(* for a page the index does not hold.                                     *)
(***************************************************************************)
EXTENDS Integers, Sequences

CONSTANTS
    Pages,      \* the stable page ids
    Events      \* the kinds of durable events, told apart by their mutations

MutationOps == {"none", "upsert", "invalidate"}

ASSUME EventsAssumption == Events \subseteq [Pages -> MutationOps]

PageStates  == [version : Nat, active : BOOLEAN]
Untouched   == [version |-> 0, active |-> FALSE]
EmptyIndex  == [p \in Pages |-> Untouched]

\* upsertPage: a lower version is ignored, an equal one is already there.
Upserted(page, n) ==
    IF n > page.version THEN [version |-> n, active |-> TRUE] ELSE page

\* invalidatePage: the UPDATE sets status and version whatever the stored
\* version is, and an unknown page is inserted as an invalidated stub.
Invalidated(page, n) == [version |-> n, active |-> FALSE]

\* The mutation loop of ApplyWithWatermark for the event at sequence n.
ApplyMutations(content, event, n) ==
    [p \in Pages |->
        CASE event[p] = "none"       -> content[p]
          [] event[p] = "upsert"     -> Upserted(content[p], n)
          [] event[p] = "invalidate" -> Invalidated(content[p], n)]

-----------------------------------------------------------------------------
(* What the index ought to hold, said without the index: after the first n *)
(* events every page is as the last event that touched it left it.         *)

TouchedBy(ledger, n, p) == {i \in 1..n : ledger[i][p] # "none"}

LeftBy(ledger, i, p) == [version |-> i, active |-> ledger[i][p] = "upsert"]

IsReplayOf(content, ledger, n) ==
    \A p \in Pages :
        \/ TouchedBy(ledger, n, p) = {} /\ content[p] = Untouched
        \/ \E i \in TouchedBy(ledger, n, p) :
              /\ \A j \in TouchedBy(ledger, n, p) : j <= i
              /\ content[p] = LeftBy(ledger, i, p)
=============================================================================
