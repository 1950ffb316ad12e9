---------------------------- MODULE SemanticSearch ----------------------------
(***************************************************************************)
(* SemanticSearch against everything that moves under it: appends, the     *)
(* index worker, failures of the stores, cancellation and Close            *)
(* (internal/harness/session.go, internal/retrieval/hybrid.go).            *)
(*                                                                         *)
(* A search takes appendMu only for moments: each of its critical sections *)
(* is one action, and so is each of its transactions of the index.  What   *)
(* it works from is therefore old by the time it is used; the revision of  *)
(* coherence and the append sequence it captured are how it finds out.     *)
(* Every derived event raises both by one, so they are one number here.    *)
(* What the index holds is the replay of the events it has taken (WarmIndex*)
(* shows it), so the index is one number too.  The pages a search serves   *)
(* are admitted to the resident hierarchy, which Hierarchy models.         *)
(***************************************************************************)
EXTENDS Integers, SequencesExt

CONSTANTS
    Calls,        \* calls of SemanticSearch
    Pages,        \* the stable page ids
    Events,       \* the kinds of durable events, told apart by what they do
    Matches,      \* pages the words of the query find, scored above MinScore
    Near,         \* pages its vector finds within MaxDenseDistance
    Records,      \* page -> the words of each record it renders
    Kind,         \* page -> its kind
    Alike,        \* pairs of pages with a common source or almost the same text
    Budget,       \* PageFaultTokenBudget
    MaxPerKind,   \* of HybridPolicyProfile
    MaxSelected,  \* semanticMaterializeLimit
    Attempts,     \* semanticCoherenceAttempts
    MaxSeq,       \* bound: durable events
    MaxFaults     \* bound: failures of the stores, of derivation, of embedding

\* compiles: pages the event makes a version of.  lapses: pages coherence no
\* longer holds eligible.  edits: pages that cite a record the event rewrites,
\* like the one NEXT record two checkpoints cite, which are not compiled again.
ASSUME EventsAssumption ==
    Events \subseteq [compiles : SUBSET Pages, lapses : SUBSET Pages, edits : SUBSET Pages]
ASSUME PagesAssumption ==
    /\ IsFiniteSet(Pages)
    /\ Matches \subseteq Pages /\ Near \subseteq Pages
    /\ Records \in [Pages -> Seq(Nat \ {0})]
    /\ \A pair \in Alike : pair \subseteq Pages
ASSUME BoundsAssumption ==
    /\ Budget \in Nat \ {0} /\ MaxPerKind \in Nat \ {0} /\ MaxSelected \in Nat \ {0}
    /\ Attempts \in Nat \ {0} /\ MaxSeq \in Nat /\ MaxFaults \in Nat

Channels == {"fts", "dense"}

VARIABLES
    ledger,    \* the derived events; its length is lastEvent.Seq and the revision
    taken,     \* the index's watermark
    indexErr,  \* IndexErr # nil
    failStop,  \* failStopErr # nil
    phase,     \* "open", then Close: "cancelled", "flagged", "joined", "closed"
    active,    \* the calls semanticWG counts
    ended,     \* the calls whose context is done
    search,    \* call -> what it knows, search[c].pc where it is
    reads,     \* call -> what its channel goroutines do and found
    answers,   \* call -> what it returned
    faults     \* failures so far

session == <<ledger, taken, indexErr, failStop, phase, faults>>
calls   == <<active, ended, search, reads, answers>>
vars    == <<ledger, taken, indexErr, failStop, phase, active, ended, search,
             reads, answers, faults>>

Harmonious ==
    {S \in SUBSET Pages :
        /\ Cardinality(S) <= MaxSelected
        /\ \A k \in Range(Kind) : Cardinality({p \in S : Kind[p] = k}) <= MaxPerKind
        /\ \A p, q \in S : p # q => {p, q} \notin Alike}

\* Half of a record's share of the budget is enough for it, cut; a page without
\* records shows nothing.
Roomy == {p \in Pages : Records[p] # <<>> /\ Budget >= 2 * Len(Records[p])}

-----------------------------------------------------------------------------
(* What the session and the index hold.                                    *)

LastSeq == Len(ledger)

\* The row of the page after the first n events: its version, 0 for none.
Row(p, n) == Max({i \in 1..n : p \in ledger[i].compiles} \union {0})

\* PageDescriptorEligible, now.
Eligible(p, version) ==
    \A i \in (version + 1)..LastSeq : p \notin ledger[i].lapses

\* sourceDigest of what the page cites now is still the one it was compiled with.
Intact(p, version) ==
    \A i \in (version + 1)..LastSeq : p \notin ledger[i].edits

\* ValidateMaterializable, now.
Materializable(p, version) == Eligible(p, version) /\ Intact(p, version)

Corpus ==
    [p \in Pages |-> IF Row(p, LastSeq) # 0 /\ Materializable(p, Row(p, LastSeq))
                     THEN Row(p, LastSeq) ELSE 0]

\* The sequence that the attempt of a call captured, where it is in one.
Looked(s) == IF s.pc \in {"idle", "done", "entry", "embed", "capture"} THEN {} ELSE {s.seq}

View      == [c \in Calls |-> Looked(search[c])]
Overtaken == [c \in Calls |-> search[c].attempt]

Atomic == INSTANCE AtomicSearch
          WITH corpus <- Corpus, recorded <- LastSeq, looked <- View, overtaken <- Overtaken

\* operationErrorLocked
Usable == phase \in {"open", "cancelled"} /\ ~failStop

\* What a call knows, before it knows anything.
Idle ==
    [pc |-> "idle", attempt |-> 0, dense |-> "none", seq |-> 0, tokens |-> 0,
     before |-> 0, rows |-> 0, after |-> 0, now |-> 0, unread |-> {}, eligible |-> {},
     queue |-> <<>>, chosen |-> {}, spent |-> 0, flawed |-> FALSE, verdict |-> "none"]
Off  == [state |-> "off"]
NoReads == [channel \in Channels |-> Off]

Init ==
    /\ ledger = <<>> /\ taken = 0
    /\ indexErr = FALSE /\ failStop = FALSE
    /\ phase = "open" /\ active = {} /\ ended = {}
    /\ search = [c \in Calls |-> Idle]
    /\ reads = [c \in Calls |-> NoReads]
    /\ answers = [c \in Calls |-> Atomic!Unanswered]
    /\ faults = 0

-----------------------------------------------------------------------------
(* The session around the searches.                                        *)

\* Append, under appendMu.
Record(e) ==
    /\ Usable /\ LastSeq < MaxSeq
    /\ ledger' = Append(ledger, e)
    /\ UNCHANGED <<taken, indexErr, failStop, phase, faults, calls>>

\* AfterEvent fails: nothing is derived any more, and no operation starts.
FailStop ==
    /\ Usable /\ faults < MaxFaults
    /\ failStop' = TRUE /\ faults' = faults + 1
    /\ UNCHANGED <<ledger, taken, indexErr, phase, calls>>

\* The maintenance worker applies the next event, and clears IndexErr once it
\* has nothing to repair.
TakeEvent ==
    /\ phase \in {"open", "cancelled", "flagged"} /\ taken < LastSeq
    /\ taken' = taken + 1
    /\ indexErr' \in {indexErr, FALSE}
    /\ UNCHANGED <<ledger, failStop, phase, faults, calls>>

TakeFails ==
    /\ phase \in {"open", "cancelled", "flagged"} /\ taken < LastSeq
    /\ faults < MaxFaults
    /\ indexErr' = TRUE /\ faults' = faults + 1
    /\ UNCHANGED <<ledger, taken, failStop, phase, calls>>

Phase(from, to) ==
    /\ phase = from /\ phase' = to
    /\ UNCHANGED <<ledger, taken, indexErr, failStop, faults, calls>>

Bug_CloseJoins ==  \* close the stores without semanticWG.Wait
    Phase("flagged", "joined")

\* Close: semanticCancel; the flag; the workers and the searches joined; the
\* stores closed.
CloseCancels == Phase("open", "cancelled")
CloseFlags == Phase("cancelled", "flagged")
CloseJoins == active = {} /\ Phase("flagged", "joined")
CloseStores == Phase("joined", "closed")

\* The caller's context ends, or context.AfterFunc passes semanticCancel on.
End(c) ==
    /\ c \in active \ ended
    /\ ended' = ended \union {c}
    /\ UNCHANGED <<session, active, search, reads, answers>>

Bug_LifecycleEnds(c) ==  \* a call's context does not follow the session's
    FALSE /\ End(c)

CallerCancels(c) == phase = "open" /\ End(c)
LifecycleEnds(c) == phase # "open" /\ End(c)

-----------------------------------------------------------------------------
(* How a search moves.                                                     *)

At(c, pc)   == search[c].pc = pc
Live(c, pc) == At(c, pc) /\ c \notin ended

\* The call goes on, knowing s.
Learn(c, s) ==
    /\ search' = [search EXCEPT ![c] = s]
    /\ UNCHANGED <<active, ended, answers>>

Goto(c, pc) == Learn(c, [search[c] EXCEPT !.pc = pc]) /\ UNCHANGED reads

\* SemanticSearch returns, and its deferred calls cancel the context, which
\* channel goroutines may outlive, and leave semanticWG.
Answer(c, answer) ==
    /\ answers' = [answers EXCEPT ![c] = answer]
    /\ search' = [search EXCEPT ![c] = [Idle EXCEPT !.pc = "done"]]
    /\ active' = active \ {c}
    /\ ended' = ended \ {c}
    /\ UNCHANGED reads

Fail(c) == Answer(c, Atomic!Failed)
Miss(c) == Answer(c, Atomic!Missed)

\* semanticScopeMiss
ScopeMiss(c) == Answer(c, Atomic!Abstained)

\* The scope has changed under an attempt: another one, or the scope miss that
\* ends the last, unless its resolution has failed.
Retry(c) ==
    IF search[c].attempt + 1 < Attempts
    THEN /\ Learn(c, [Idle EXCEPT !.pc = "capture", !.attempt = search[c].attempt + 1,
                                 !.dense = search[c].dense])
         /\ UNCHANGED reads
    ELSE IF search[c].verdict = "failed" THEN Fail(c) ELSE ScopeMiss(c)

Fault == faults < MaxFaults /\ faults' = faults + 1

\* A step that a fault of the stores may turn into a failure.
MayFault(c) ==
    /\ Fault /\ Fail(c)
    /\ UNCHANGED <<ledger, taken, indexErr, failStop, phase>>

-----------------------------------------------------------------------------
(* Entry and the dense query.                                              *)

\* beginSemanticOperation
Begin(c) ==
    /\ At(c, "idle")
    /\ IF Usable /\ phase = "open"
       THEN /\ active' = active \union {c}
            /\ search' = [search EXCEPT ![c] = [Idle EXCEPT !.pc = "entry"]]
            /\ UNCHANGED <<ended, reads, answers>>
       ELSE Fail(c)
    /\ UNCHANGED session

\* The index is there throughout; with no event there is nothing to find.
Entry(c) ==
    /\ At(c, "entry")
    /\ CASE ~Usable            -> Fail(c)
         [] Usable /\ LastSeq = 0 -> Miss(c)
         [] OTHER              -> Goto(c, "embed")
    /\ UNCHANGED session

\* semanticDenseQuery: "none" without an embedder or dense rows, "vector", or
\* "down" when the embedder answered with an error or an unusable vector.
Embedded(c, dense) ==
    /\ At(c, "embed")
    /\ Learn(c, [search[c] EXCEPT !.pc = "capture", !.dense = dense])
    /\ UNCHANGED reads
    /\ IF dense = "down"
       THEN Fault /\ UNCHANGED <<ledger, taken, indexErr, failStop, phase>>
       ELSE UNCHANGED session

\* The steps that look at their context, or block on it, find it done.
Checkpoints == {"embed", "before", "rows", "after", "resolve", "found", "select", "resolved", "fresh"}

Abandon(c) ==
    /\ c \in ended /\ search[c].pc \in Checkpoints
    /\ Fail(c)
    /\ UNCHANGED session

-----------------------------------------------------------------------------
(* captureSemanticAttempt: a full budget, and the pages eligible now in an *)
(* index that has taken in everything.                                     *)

CaptureBegins(c) ==
    /\ At(c, "capture")
    /\ IF Usable /\ ~indexErr
       THEN /\ Learn(c, [search[c] EXCEPT !.pc = "before", !.seq = LastSeq, !.tokens = Budget])
            /\ UNCHANGED reads
       ELSE Fail(c)
    /\ UNCHANGED session

\* readSemanticProjection, twice; ActivePageSnapshot is one transaction.
ReadBefore(c) ==
    /\ Live(c, "before")
    /\ \/ /\ Learn(c, [search[c] EXCEPT !.pc = "rows", !.before = taken])
          /\ UNCHANGED <<reads, session>>
       \/ MayFault(c)

ReadRows(c) ==
    /\ Live(c, "rows")
    /\ \/ /\ Learn(c, [search[c] EXCEPT !.pc = "filter", !.rows = taken,
                                        !.unread = {p \in Pages : Row(p, taken) # 0}])
          /\ UNCHANGED <<reads, session>>
       \/ MayFault(c)

\* PageDescriptorEligible asks coherence page by page, without appendMu.
Filter(c) ==
    /\ At(c, "filter")
    /\ IF search[c].unread = {} THEN Goto(c, "after")
       ELSE \E p \in search[c].unread :
              /\ Learn(c, [search[c] EXCEPT !.unread = @ \ {p},
                    !.eligible = IF Eligible(p, Row(p, search[c].rows))
                                 THEN @ \union {<<p, Row(p, search[c].rows)>>} ELSE @])
              /\ UNCHANGED reads
    /\ UNCHANGED session

ReadAfter(c) ==
    /\ Live(c, "after")
    /\ \/ /\ Learn(c, [search[c] EXCEPT !.pc = "relock", !.after = taken])
          /\ UNCHANGED <<reads, session>>
       \/ MayFault(c)

\* Mutant: three equal reads of an index that is behind.
Bug_Undisturbed(s) == s.before = s.rows /\ s.rows = s.after

\* The projection is the same in all three reads, and current.
Undisturbed(s) == s.before = s.rows /\ s.rows = s.after /\ s.after = s.seq

Relock(c) ==
    /\ At(c, "relock")
    /\ LET s == search[c] IN
       CASE ~Usable                      -> Fail(c)
         [] Usable /\ LastSeq # s.seq       -> Retry(c)
         [] Usable /\ LastSeq = s.seq
              /\ (indexErr \/ ~Undisturbed(s)) -> Fail(c)
         [] OTHER                        -> Goto(c, "resolve")
    /\ UNCHANGED session

-----------------------------------------------------------------------------
(* ResolveSemantic: two channels at once, then candidate by candidate.     *)

Running(tuples) == [state |-> "running", eligible |-> tuples]

\* copyDenseQuery: a query vector that can be used.
DenseActive(dense) == dense = "vector"

Resolve(c) ==
    /\ Live(c, "resolve")
    /\ Learn(c, [search[c] EXCEPT !.pc = "found"])
    /\ reads' = [reads EXCEPT ![c] = [channel \in Channels |->
           IF channel = "fts" \/ DenseActive(search[c].dense)
           THEN Running(search[c].eligible) ELSE Off]]
    /\ UNCHANGED session

\* A query is limited to the tuples it names, as the index holds them.
Limited(pages, tuples) ==
    {t \in tuples : t[1] \in pages /\ Row(t[1], taken) = t[2]}

\* One transaction each.  The embedding worker may not have come to a page yet.
SearchLexical(tuples) == {Limited(Matches, tuples)}
SearchDense(tuples)   == SUBSET Limited(Near, tuples)

\* What a goroutine finds after its call has returned stays unread.
Report(c, channel, result) ==
    /\ reads' = [reads EXCEPT ![c][channel] = IF At(c, "found") THEN result ELSE Off]
    /\ UNCHANGED <<active, ended, search, answers>>

ReadChannel(c, channel) ==
    /\ reads[c][channel].state = "running"
    /\ phase # "closed"
    /\ \E tuples \in IF channel = "fts" THEN SearchLexical(reads[c][channel].eligible)
                                      ELSE SearchDense(reads[c][channel].eligible) :
          Report(c, channel, [state |-> "done", seq |-> taken, tuples |-> tuples])
    /\ UNCHANGED session

\* The transaction fails, its context is done, or the index is closed.
ChannelFails(c, channel) ==
    /\ reads[c][channel].state = "running"
    /\ Report(c, channel, [state |-> "failed"])
    /\ \/ (c \notin active \/ c \in ended \/ phase = "closed") /\ UNCHANGED session
       \/ Fault /\ UNCHANGED <<ledger, taken, indexErr, failStop, phase>>

\* validateChannelCandidates: nothing outside the tuples the query named.
Valid(result, eligible) == result.state = "done" /\ result.tuples \subseteq eligible

Tuples(result, eligible) == IF Valid(result, eligible) THEN result.tuples ELSE {}

\* suppressTupleDisagreements: a page found in two versions is not used.
Agreed(tuples) == {t \in tuples : \A u \in tuples : u[1] = t[1] => u = t}

\* fuseCandidates and the sort, in any order: scores are data.
Rankings(tuples) == SetToSeqs(tuples)

\* Two channels that both found something must have read one snapshot, or the
\* dense one is dropped.
Fuse(c) ==
    LET fts   == reads[c]["fts"]
        dense == reads[c]["dense"]
        lexical == Tuples(fts, search[c].eligible)
        near    == Tuples(dense, search[c].eligible)
        mixed   == lexical # {} /\ near # {} /\ fts.seq # dense.seq IN
    /\ Live(c, "found")
    /\ "running" \notin {fts.state, dense.state}
    /\ \E order \in Rankings(IF mixed THEN lexical ELSE Agreed(lexical \union near)) :
          Learn(c, [search[c] EXCEPT !.pc = "select", !.queue = order,
                       !.flawed = \/ mixed \/ search[c].dense = "down"
                                  \/ ~Valid(fts, search[c].eligible)
                                  \/ dense # Off /\ ~Valid(dense, search[c].eligible)])
    /\ reads' = [reads EXCEPT ![c] = NoReads]
    /\ UNCHANGED session

\* trimBudget: a text cut to its first words ends with an ellipsis, a word too.
Cut(words, request) == IF words <= request THEN words ELSE request + 1

\* One record: cut to its share of what is left, with a word to spare for the
\* ellipsis.
ReadRecord(acc, words) ==
    LET share == acc.available \div acc.left
        body  == Cut(words, IF share > 1 THEN share - 1 ELSE share) IN
    IF ~acc.fits \/ share <= 0 THEN [acc EXCEPT !.fits = FALSE]
    ELSE IF body > acc.available
    THEN [acc EXCEPT !.fits = FALSE, !.tokens = Max({0, acc.tokens - body})]
    ELSE [fits |-> TRUE, left |-> acc.left - 1, used |-> acc.used + body,
          tokens |-> acc.tokens - body, available |-> acc.available - body]

\* materializeSemanticPage: what is read is charged even if the page fails, but to
\* the attempt's budget only.
Render(p, tokens, spent) ==
    LET words == Records[p]
        room  == Min({tokens, Budget - spent})
        after[i \in 0..Len(words)] ==
            IF i = 0
            THEN [fits |-> tokens > 0 /\ words # <<>>, left |-> Len(words), used |-> 0,
                  tokens |-> tokens, available |-> room]
            ELSE ReadRecord(after[i - 1], words[i])
    IN  after[Len(words)]

\* The caps of the policy, near duplicates, and the answer's budget.
Diverse(s, p) ==
    /\ {t[1] : t \in s.chosen} \union {p} \in Harmonious
    /\ s.spent < Budget

\* The candidate is off the queue, charged for, and chosen if all of it fits.
Rendered(s, t, r) ==
    [s EXCEPT !.queue = Tail(@), !.tokens = r.tokens,
              !.chosen = IF r.fits THEN @ \union {t} ELSE @,
              !.spent = IF r.fits THEN @ + r.used ELSE @]

\* DetailedRecheck, under appendMu: the evidence is read from L4 and L2, never
\* from the index.
Recheck(c, t) ==
    LET s == search[c] IN
    CASE ~Usable -> Learn(c, [s EXCEPT !.pc = "resolved", !.verdict = "failed"])
      [] Usable /\ (LastSeq # s.seq \/ ~Materializable(t[1], t[2])) ->
            Learn(c, [s EXCEPT !.queue = Tail(@)])
      [] OTHER -> Learn(c, Rendered(s, t, Render(t[1], s.tokens, s.spent)))

Consider(c) ==
    LET s == search[c] IN
    /\ Live(c, "select")
    /\ s.queue # <<>> /\ Cardinality(s.chosen) < MaxSelected
    /\ IF Diverse(s, s.queue[1][1])
       THEN \/ Recheck(c, s.queue[1]) /\ UNCHANGED session
            \/ /\ Learn(c, [s EXCEPT !.pc = "resolved", !.verdict = "failed"])
               /\ Fault /\ UNCHANGED <<ledger, taken, indexErr, failStop, phase>>
       ELSE Learn(c, [s EXCEPT !.queue = Tail(@)]) /\ UNCHANGED session
    /\ UNCHANGED reads

Conclude(c) ==
    LET s == search[c] IN
    /\ Live(c, "select")
    /\ s.queue = <<>> \/ Cardinality(s.chosen) = MaxSelected
    /\ Learn(c, [s EXCEPT !.pc = "resolved",
                          !.verdict = CASE s.chosen # {}             -> "selected"
                                        [] s.chosen = {} /\ s.flawed -> "failed"
                                        [] OTHER                     -> "miss"])
    /\ UNCHANGED <<reads, session>>

-----------------------------------------------------------------------------
(* validateSemanticAttemptFreshness and commitSemanticResidency.           *)

\* semanticAuthorityChanged.  A recheck that saw the revision changed sees it
\* again here: it only grows.
Authority(c, onward) ==
    IF ~Usable \/ indexErr THEN Fail(c)
    ELSE IF LastSeq # search[c].seq THEN Retry(c)
    ELSE onward

Doubt(c) ==
    /\ Live(c, "resolved")
    /\ Authority(c, Goto(c, "fresh"))
    /\ UNCHANGED session

Reread(c) ==
    /\ Live(c, "fresh")
    /\ \/ Learn(c, [search[c] EXCEPT !.pc = "confirm", !.now = taken]) /\ UNCHANGED <<reads, session>>
       \/ MayFault(c)

Verdict(c) ==
    LET s == search[c] IN
    CASE s.now # s.after \/ s.verdict = "failed" -> Fail(c)
      [] s.now = s.after /\ s.verdict = "miss"   -> Miss(c)
      [] OTHER                                   -> Goto(c, "commit")

Confirm(c) ==
    /\ At(c, "confirm")
    /\ Authority(c, Verdict(c))
    /\ UNCHANGED session

Serve(c) == Answer(c, Atomic!Served(search[c].chosen, search[c].spent))

Bug_Commit(c) ==  \* the revision and the sequence are not looked at again
    /\ At(c, "commit")
    /\ IF Usable /\ ~indexErr THEN Serve(c) ELSE Fail(c)
    /\ UNCHANGED session
Commit(c) ==
    /\ At(c, "commit")
    /\ Authority(c, Serve(c))
    /\ UNCHANGED session

-----------------------------------------------------------------------------
Search(c) ==
    \/ Entry(c) \/ Abandon(c)
    \/ CaptureBegins(c) \/ ReadBefore(c) \/ ReadRows(c) \/ Filter(c) \/ ReadAfter(c)
    \/ Relock(c) \/ Resolve(c) \/ Fuse(c) \/ Consider(c) \/ Conclude(c)
    \/ Doubt(c) \/ Reread(c) \/ Confirm(c) \/ Commit(c)

Channel(c, channel) == ReadChannel(c, channel) \/ ChannelFails(c, channel)

Close == CloseFlags \/ CloseJoins \/ CloseStores

Next ==
    \/ \E e \in Events : Record(e)
    \/ FailStop \/ TakeEvent \/ TakeFails
    \/ CloseCancels \/ Close
    \/ \E c \in Calls :
          \/ Begin(c) \/ Search(c) \/ CallerCancels(c) \/ LifecycleEnds(c)
          \/ \E dense \in {"none", "vector", "down"} : Embedded(c, dense)
          \/ \E channel \in Channels : Channel(c, channel)

Spec == Init /\ [][Next]_vars

\* Goroutines that can run do run; the embedder need never answer, and nobody
\* has to call, cancel, append or close.
Fairness ==
    /\ WF_vars(Close)
    /\ \A c \in Calls :
          /\ WF_vars(Search(c))
          /\ WF_vars(LifecycleEnds(c))
          /\ \A channel \in Channels : WF_vars(Channel(c, channel))

FairSpec == Spec /\ Fairness

-----------------------------------------------------------------------------
(* Properties.                                                             *)

(* SemanticSearch reads an index, an embedder and a ledger that move while *)
(* it works, and yet answers as if in one instant: what it serves can be   *)
(* served, in those versions, when it returns, within the budget and the   *)
(* diversity caps.  It reports a miss only if nothing was to be found, or, *)
(* with "scope" in its trace, after an event has overtaken every one of    *)
(* its attempts (semanticScopeMiss; semantic_test.go asserts that miss).   *)
SearchesAreAtomic == Atomic!Spec

(* The eligibility snapshot of captureSemanticAttempt, put together from   *)
(* three reads of the index and unlocked questions to coherence, is all of *)
(* the eligible pages and only them, as long as nothing has been appended. *)
UniverseExact ==
    \A c \in Calls :
        search[c].pc \in {"resolve", "found", "select", "resolved", "fresh", "confirm", "commit"}
            /\ search[c].seq = LastSeq
        => search[c].eligible =
              {<<p, Row(p, LastSeq)>> : p \in
                  {q \in Pages : Row(q, LastSeq) # 0 /\ Eligible(q, Row(q, LastSeq))}}

(* Close does not close the ledger, the artifacts or the index under a     *)
(* search that is still running, however the two began.                    *)
StoresOutliveSearches ==
    /\ phase = "closed" => \A c \in Calls : search[c].pc \in {"idle", "done"}
    /\ active = {c \in Calls : search[c].pc \notin {"idle", "done"}}
    /\ ended \subseteq active

(* Close ends, even while an embedder that a search waits for never does.  *)
CloseReturns == (phase = "cancelled") ~> (phase = "closed")
=============================================================================
