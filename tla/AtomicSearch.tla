----------------------------- MODULE AtomicSearch -----------------------------
(***************************************************************************)
(* What a semantic search promises its caller, as if it happened in one    *)
(* instant: the evidence it returns is exact at the moment it returns, a   *)
(* miss means there was nothing to find, and everything else is reported   *)
(* as a failure and never as an answer (internal/harness/session.go,       *)
(* SemanticSearch; internal/retrieval/hybrid.go, ResolveSemantic).         *)
(* A search may look only so many times, and every look that an event      *)
(* overtakes is void: when the last one is, it abstains, whatever there    *)
(* was to find.  The caller gets the same ErrSemanticPageMiss, whose trace *)
(* says "scope" (semanticScopeMiss).                                       *)
(***************************************************************************)
EXTENDS FiniteSets, Integers

CONSTANTS
    Calls,        \* the searches, each made once
    Pages,        \* the page ids
    Matches,      \* the pages the words of the query are sure to find
    Near,         \* the pages its vector may find besides
    Harmonious,   \* the sets of pages that diversity lets one answer hold
    Budget,       \* how many tokens of evidence an answer may have
    Attempts,     \* how many looks a search may take
    Roomy         \* the pages whose evidence, cut, is sure to fit

VARIABLES
    corpus,       \* page -> the version that can be served now, 0 for none
    recorded,     \* how many events the session has recorded
    looked,       \* call -> {what recorded was when its look began}, or {}
    overtaken,    \* call -> how many of its looks an event has overtaken
    answers       \* call -> what it returned

vars == <<corpus, recorded, looked, overtaken, answers>>

Unanswered   == [kind |-> "none"]
Missed       == [kind |-> "miss"]
Abstained    == [kind |-> "scope miss"]
Failed       == [kind |-> "failure"]
Served(S, n) == [kind |-> "served", tuples |-> S, tokens |-> n]

Init ==
    /\ corpus = [p \in Pages |-> 0]
    /\ recorded = 0
    /\ looked = [c \in Calls |-> {}]
    /\ overtaken = [c \in Calls |-> 0]
    /\ answers = [c \in Calls |-> Unanswered]

\* Whatever the session records may change what can be served.
Change ==
    /\ recorded' = recorded + 1
    /\ corpus' \in [Pages -> Nat]
    /\ UNCHANGED <<looked, overtaken, answers>>

Look(c) ==
    /\ answers[c] = Unanswered /\ looked[c] = {}
    /\ looked' = [looked EXCEPT ![c] = {recorded}]
    /\ UNCHANGED <<corpus, recorded, overtaken, answers>>

\* Something was recorded since the look began.
Disturbed(c) == looked[c] \notin {{}, {recorded}}

StartOver(c) ==
    /\ Disturbed(c) /\ overtaken[c] + 1 < Attempts
    /\ looked' = [looked EXCEPT ![c] = {}]
    /\ overtaken' = [overtaken EXCEPT ![c] = @ + 1]
    /\ UNCHANGED <<corpus, recorded, answers>>

\* The call ends; with which answer, Return says.
End(c) ==
    /\ answers[c] = Unanswered
    /\ looked' = [looked EXCEPT ![c] = {}]
    /\ overtaken' = [overtaken EXCEPT ![c] = 0]
    /\ UNCHANGED <<corpus, recorded>>

Return(c, answer) == answers' = [answers EXCEPT ![c] = answer]

\* Relevant, current, diverse and within the budget, as the last look saw it.
Hit(c) ==
    /\ looked[c] = {recorded}
    /\ End(c)
    /\ \E found \in Harmonious \ {{}}, tokens \in 1..Budget :
          /\ found \subseteq Matches \union Near
          /\ \A p \in found : corpus[p] # 0
          /\ Return(c, Served({<<p, corpus[p]>> : p \in found}, tokens))

\* No page the words would find can be served.  Only where some page is too
\* long for the budget may it have used up what another needed.  Without events
\* no look is taken.
Miss(c) ==
    /\ recorded = 0 \/ looked[c] = {recorded}
    /\ End(c)
    /\ Roomy = Pages => \A p \in Matches : corpus[p] = 0
    /\ Return(c, Missed)

\* Every look that it may take has been overtaken.
Abstain(c) ==
    /\ Disturbed(c) /\ overtaken[c] + 1 = Attempts
    /\ End(c)
    /\ Return(c, Abstained)

Fail(c) == End(c) /\ Return(c, Failed)

Next ==
    \/ Change
    \/ \E c \in Calls :
          Look(c) \/ StartOver(c) \/ Hit(c) \/ Miss(c) \/ Abstain(c) \/ Fail(c)

Spec == Init /\ [][Next]_vars
=============================================================================
