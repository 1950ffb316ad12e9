------------------------------ MODULE WarmIndex ------------------------------
(***************************************************************************)
(* What the warm index promises: it is a disposable view of a prefix of    *)
(* the append-only ledger.  The ledger only grows; the index takes in the  *)
(* events one at a time and in append order, or is thrown away and starts  *)
(* again from nothing.  Nothing else ever happens to either.               *)
(***************************************************************************)
EXTENDS WarmPages

VARIABLES
    ledger,     \* the durable events, in append order (L4)
    watermark,  \* how many of them the index has taken in
    pages       \* the indexed pages (L3)

vars == <<ledger, watermark, pages>>

Init ==
    /\ ledger = <<>>
    /\ watermark = 0
    /\ pages = EmptyIndex

\* A durable append never waits for the index and never changes it.
Record(e) ==
    /\ ledger' = Append(ledger, e)
    /\ UNCHANGED <<watermark, pages>>

\* The index takes in the next event of the ledger.
Advance ==
    /\ watermark < Len(ledger)
    /\ watermark' = watermark + 1
    /\ pages' = ApplyMutations(pages, ledger[watermark + 1], watermark + 1)
    /\ UNCHANGED ledger

\* The index is disposable.
Discard ==
    /\ watermark' = 0
    /\ pages' = EmptyIndex
    /\ UNCHANGED ledger

Next == (\E e \in Events : Record(e)) \/ Advance \/ Discard

Spec == Init /\ [][Next]_vars

\* The index is exactly the replay of the prefix its watermark names.
Prefix ==
    /\ watermark \in 0..Len(ledger)
    /\ IsReplayOf(pages, ledger, watermark)
=============================================================================
