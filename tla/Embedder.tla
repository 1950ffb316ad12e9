------------------------------- MODULE Embedder -------------------------------
(***************************************************************************)
(* The supervised embedder (internal/embedder/supervised.go, cache.go):    *)
(* concurrent calls share a document cache in which a key that misses is   *)
(* embedded by one call, its leader, while the others follow its flight;   *)
(* and every call of the backend passes a circuit breaker with a half-open *)
(* probe.                                                                  *)
(*                                                                         *)
(* A call is one EmbedDocuments, EmbedQuery or SelfCheck, and happens at   *)
(* most once, so that a flight is named by its key and its leader.  Texts, *)
(* vectors, reasons and Health are left out: a malformed answer is a       *)
(* failure of the backend, a denied text ends its call (Reject).           *)
(***************************************************************************)
EXTENDS Integers, FiniteSets, Sequences

CONSTANTS
    Calls, Keys,
    Batches,        \* the distinct keys of a document batch, in its order
    Capacity,       \* of the cache; 0 keeps nothing
    Threshold       \* BreakerOptions.FailureThreshold

ASSUME BatchesAssumption ==
    Batches \subseteq Seq(Keys) /\ \A b \in Batches : Len(b) > 0
ASSUME LimitsAssumption == Capacity \in Nat /\ Threshold \in Nat \ {0}

VARIABLES
    cache,      \* keys of DocumentCache.entries by creation, oldest first
    flights,    \* DocumentCache.flights: the flights under way, <<key, leader>>
    landed,     \* the flights whose done channel is closed
    breaker,    \* breakerState, halfOpenProbe, consecutiveFailures, and whether
                \* the cooldown since lastFailureAt is still running
    pc,         \* where each call is
    todo,       \* keys the call has yet to look up, or to claim
    misses,     \* keys the call has looked up in vain
    leads,      \* flights the call leads and has not finished
    follows,    \* flights the call waits for
    ended       \* how the backend ended the call's flights: "ok" or "error"

cacheVars == <<cache, flights, landed>>
batchVars == <<todo, misses, leads, follows, ended>>
vars == <<cacheVars, breaker, pc, batchVars>>

Flights == Keys \X Calls

BreakerStates == {"closed", "open", "half_open"}

TypeOK ==
    /\ cache \in Seq(Keys) /\ Len(cache) <= Capacity
    /\ flights \subseteq Flights
    /\ landed \subseteq [flight : Flights, ended : {"ok", "error"}]
    /\ breaker \in [state : BreakerStates, probe : BOOLEAN,
                    failures : 0..Threshold, cooling : BOOLEAN]
    /\ pc \in [Calls -> {"idle", "look", "claim", "allow", "call", "finish",
                         "record", "wait", "returned", "failed"}]
    /\ todo \in [Calls -> Seq(Keys)]
    /\ misses \in [Calls -> Seq(Keys)]
    /\ leads \in [Calls -> Seq(Flights)]
    /\ follows \in [Calls -> Seq(Flights)]
    /\ ended \in [Calls -> {"ok", "error"}]

Init ==
    /\ cache = <<>> /\ flights = {} /\ landed = {}
    /\ breaker = [state |-> "closed", probe |-> FALSE, failures |-> 0,
                  cooling |-> FALSE]
    /\ pc = [c \in Calls |-> "idle"]
    /\ todo = [c \in Calls |-> <<>>]
    /\ misses = [c \in Calls |-> <<>>]
    /\ leads = [c \in Calls |-> <<>>]
    /\ follows = [c \in Calls |-> <<>>]
    /\ ended = [c \in Calls |-> "ok"]

Goto(c, from, to) == pc[c] = from /\ pc' = [pc EXCEPT ![c] = to]

Cached(k) == \E i \in DOMAIN cache : cache[i] = k

-----------------------------------------------------------------------------
(* The breaker.                                                            *)

\* recordFailure, whoever failed.  Failures are counted up to the threshold.
Bug_Failed ==  \* the probe's slot is not given back
    LET n == IF breaker.failures < Threshold THEN breaker.failures + 1 ELSE Threshold
    IN [breaker EXCEPT !.failures = n, !.cooling = TRUE,
                       !.state = IF n = Threshold THEN "open" ELSE @]
Failed ==
    LET n == IF breaker.failures < Threshold THEN breaker.failures + 1 ELSE Threshold
    IN [state |-> IF n = Threshold THEN "open" ELSE breaker.state,
        probe |-> FALSE, failures |-> n, cooling |-> TRUE]

\* recordSuccess, whoever succeeded.
Succeeded == [state |-> "closed", probe |-> FALSE, failures |-> 0, cooling |-> FALSE]

\* allowBackend.
Refuses ==
    \/ breaker.state = "open" /\ (breaker.cooling \/ breaker.probe)
    \/ breaker.state = "half_open" /\ breaker.probe

Allow(c) ==
    /\ ~Refuses
    /\ Goto(c, "allow", "call")
    /\ breaker' = IF breaker.state = "closed" THEN breaker
                  ELSE [breaker EXCEPT !.state = "half_open", !.probe = TRUE]
    /\ UNCHANGED <<cacheVars, batchVars>>

\* A refused batch still has to end the flights it leads.
Refuse(c) ==
    /\ Refuses
    /\ Goto(c, "allow", IF leads[c] = <<>> THEN "failed" ELSE "finish")
    /\ ended' = [ended EXCEPT ![c] = "error"]
    /\ UNCHANGED <<cacheVars, breaker, todo, misses, leads, follows>>

\* Time passes.  The deadline of a call may be longer than the cooldown: a call
\* let through before the last failure may still be at the backend.
CoolDown ==
    /\ breaker.state = "open" /\ breaker.cooling
    /\ breaker' = [breaker EXCEPT !.cooling = FALSE]
    /\ UNCHANGED <<cacheVars, pc, batchVars>>

-----------------------------------------------------------------------------
(* Calls.                                                                  *)

BeginDocuments(c) ==
    /\ Goto(c, "idle", "look")
    /\ \E b \in Batches : todo' = [todo EXCEPT ![c] = b]
    /\ UNCHANGED <<cacheVars, breaker, misses, leads, follows, ended>>

\* EmbedQuery and SelfCheck go straight to the breaker.
BeginQuery(c) ==
    /\ Goto(c, "idle", "allow")
    /\ UNCHANGED <<cacheVars, breaker, batchVars>>

\* A SelfCheck whose context has ended, or whose probe the policy refuses, is
\* recorded as a failure.
SelfCheckCancelled(c) ==
    /\ Goto(c, "idle", "failed")
    /\ breaker' = Failed
    /\ UNCHANGED <<cacheVars, batchVars>>

\* DocumentCache.get, key by key.
Look(c) ==
    /\ pc[c] = "look"
    /\ IF todo[c] = <<>>
       THEN /\ pc' = [pc EXCEPT ![c] = "claim"]
            /\ todo' = [todo EXCEPT ![c] = misses[c]]
            /\ UNCHANGED misses
       ELSE /\ todo' = [todo EXCEPT ![c] = Tail(@)]
            /\ misses' = IF Cached(Head(todo[c])) THEN misses
                         ELSE [misses EXCEPT ![c] = Append(@, Head(todo[c]))]
            /\ UNCHANGED pc
    /\ UNCHANGED <<cacheVars, breaker, leads, follows, ended>>

\* The admission policy refuses a text of the batch.
Reject(c) ==
    /\ todo[c] # <<>>
    /\ Goto(c, "look", "failed")
    /\ UNCHANGED <<cacheVars, breaker, batchVars>>

\* DocumentCache.getOrBegin, key by key: cached meanwhile, under way, or ours.
Claim(c) ==
    /\ pc[c] = "claim" /\ todo[c] # <<>>
    /\ todo' = [todo EXCEPT ![c] = Tail(@)]
    /\ LET k == Head(todo[c])
           underWay == {f \in flights : f[1] = k}
       IN \/ /\ Cached(k)
             /\ UNCHANGED <<flights, leads, follows>>
          \/ /\ ~Cached(k)
             /\ \E f \in underWay : follows' = [follows EXCEPT ![c] = Append(@, f)]
             /\ UNCHANGED <<flights, leads>>
          \/ /\ ~Cached(k) /\ underWay = {}
             /\ flights' = flights \cup {<<k, c>>}
             /\ leads' = [leads EXCEPT ![c] = Append(@, <<k, c>>)]
             /\ UNCHANGED follows
    /\ UNCHANGED <<cache, landed, breaker, pc, misses, ended>>

\* What it leads comes first; a call with nothing to lead only waits.
Bug_Claimed(c) ==  \* a call that also follows waits before it embeds
    /\ todo[c] = <<>>
    /\ Goto(c, "claim", IF leads[c] = <<>> \/ follows[c] # <<>> THEN "wait" ELSE "allow")
    /\ UNCHANGED <<cacheVars, breaker, batchVars>>
Claimed(c) ==
    /\ todo[c] = <<>>
    /\ Goto(c, "claim", IF leads[c] = <<>> THEN "wait" ELSE "allow")
    /\ UNCHANGED <<cacheVars, breaker, batchVars>>

\* An error, the deadline, the caller's own cancellation or a malformed answer:
\* the failure is recorded before the flights are ended.
Bug_CallFails(c) ==  \* an early return that does not record
    /\ Goto(c, "call", IF leads[c] = <<>> THEN "failed" ELSE "finish")
    /\ ended' = [ended EXCEPT ![c] = "error"]
    /\ UNCHANGED <<cacheVars, breaker, todo, misses, leads, follows>>
CallFails(c) ==
    /\ Goto(c, "call", IF leads[c] = <<>> THEN "failed" ELSE "finish")
    /\ breaker' = Failed
    /\ ended' = [ended EXCEPT ![c] = "error"]
    /\ UNCHANGED <<cacheVars, todo, misses, leads, follows>>

CallSucceeds(c) ==
    /\ Goto(c, "call", IF leads[c] = <<>> THEN "record" ELSE "finish")
    /\ UNCHANGED <<cacheVars, breaker, batchVars>>

\* putLocked and evictLocked: an entry that is there is created anew, and the
\* oldest one leaves a full cache.
WithEntry(k) ==
    LET at   == CHOOSE i \in DOMAIN cache : cache[i] = k
        rest == IF Cached(k) THEN SubSeq(cache, 1, at - 1) \o SubSeq(cache, at + 1, Len(cache))
                ELSE cache
        kept == Append(rest, k)
    IN IF Capacity = 0 THEN cache
       ELSE IF Len(kept) > Capacity THEN Tail(kept) ELSE kept

\* finishFlight, one flight at a time.
Bug_Finish(c) ==  \* an error is returned while flights are still open
    /\ leads[c] # <<>>
    /\ LET f == Head(leads[c])
       IN /\ flights' = flights \ {f}
          /\ landed' = landed \cup {[flight |-> f, ended |-> ended[c]]}
          /\ cache' = IF ended[c] = "ok" THEN WithEntry(f[1]) ELSE cache
    /\ leads' = [leads EXCEPT ![c] = Tail(@)]
    /\ Goto(c, "finish", IF ended[c] = "error" THEN "failed"
                      ELSE IF Tail(leads[c]) # <<>> THEN "finish" ELSE "record")
    /\ UNCHANGED <<breaker, todo, misses, follows, ended>>
Finish(c) ==
    /\ leads[c] # <<>>
    /\ LET f == Head(leads[c])
       IN /\ flights' = flights \ {f}
          /\ landed' = landed \cup {[flight |-> f, ended |-> ended[c]]}
          /\ cache' = IF ended[c] = "ok" THEN WithEntry(f[1]) ELSE cache
    /\ leads' = [leads EXCEPT ![c] = Tail(@)]
    /\ Goto(c, "finish", IF Tail(leads[c]) # <<>> THEN "finish"
                      ELSE IF ended[c] = "error" THEN "failed" ELSE "record")
    /\ UNCHANGED <<breaker, todo, misses, follows, ended>>

Record(c) ==
    /\ Goto(c, "record", "wait")
    /\ breaker' = Succeeded
    /\ UNCHANGED <<cacheVars, batchVars>>

\* waitFlight: the first flight followed has landed, well or not.
Wait(c) ==
    /\ pc[c] = "wait" /\ follows[c] # <<>>
    /\ \E l \in landed :
          /\ l.flight = Head(follows[c])
          /\ IF l.ended = "ok"
             THEN follows' = [follows EXCEPT ![c] = Tail(@)] /\ UNCHANGED pc
             ELSE Goto(c, "wait", "failed") /\ UNCHANGED follows
    /\ UNCHANGED <<cacheVars, breaker, todo, misses, leads, ended>>

\* The follower's own context ends.
WaitCancelled(c) ==
    /\ follows[c] # <<>>
    /\ Goto(c, "wait", "failed")
    /\ UNCHANGED <<cacheVars, breaker, batchVars>>

Return(c) ==
    /\ follows[c] = <<>>
    /\ Goto(c, "wait", "returned")
    /\ UNCHANGED <<cacheVars, breaker, batchVars>>

-----------------------------------------------------------------------------
Begin(c) == BeginDocuments(c) \/ BeginQuery(c) \/ SelfCheckCancelled(c)

Step(c) ==
    \/ Look(c) \/ Claim(c) \/ Claimed(c) \/ Allow(c) \/ Refuse(c)
    \/ CallFails(c) \/ CallSucceeds(c) \/ Finish(c) \/ Record(c)
    \/ Wait(c) \/ Return(c)

Next ==
    \/ \E c \in Calls : Begin(c) \/ Step(c) \/ Reject(c) \/ WaitCancelled(c)
    \/ CoolDown

Spec == Init /\ [][Next]_vars

\* A call under way goes on, and its deadline ends a backend that does not
\* answer; the cooldown passes.  No caller is assumed to give up.
Fairness == (\A c \in Calls : WF_vars(Step(c))) /\ WF_vars(CoolDown)

FairSpec == Spec /\ Fairness

-----------------------------------------------------------------------------
(* Properties.                                                             *)

Over(c) == pc[c] \in {"returned", "failed"}

\* Single flight: a key has one flight, which the call that began it still leads
\* and will end; every flight waited for has landed or is such a one.  No exit of
\* EmbedDocuments (backend error, refusal by the breaker) leaves one open behind
\* it, and no call waits while it owns a flight itself (the flights of a batch are
\* claimed first, led second, followed last).
NoOrphanFlight ==
    /\ TypeOK
    /\ \A f, g \in flights : f[1] = g[1] => f = g
    /\ \A c \in Calls : \A i \in DOMAIN leads[c] :
          leads[c][i] \in flights /\ pc[c] # "wait" /\ ~Over(c)
    /\ \A f \in flights : \E i \in DOMAIN leads[f[2]] : leads[f[2]][i] = f
    /\ \A c \in Calls : \A i \in DOMAIN follows[c] :
          \/ follows[c][i] \in flights
          \/ \E l \in landed : l.flight = follows[c][i]

\* The breaker is closed exactly below the threshold and half open exactly
\* while the slot of the probe is taken: whatever late answers of older calls
\* arrive, the slot is neither leaked nor left without a state that honours it.
BreakerConsistent ==
    /\ breaker.state = "closed" <=> breaker.failures < Threshold
    /\ breaker.state = "half_open" <=> breaker.probe

\* Reversed batches, refusals and failures notwithstanding, every call returns.
EveryCallReturns == \A c \in Calls : pc[c] # "idle" ~> Over(c)

\* The probe decides: half open never lasts.
ProbeDecides == breaker.state = "half_open" ~> breaker.state # "half_open"
=============================================================================
