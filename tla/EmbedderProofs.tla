---------------------------- MODULE EmbedderProofs ----------------------------
(***************************************************************************)
(* Proofs about Embedder for every set of calls and keys, every batch,     *)
(* capacity and threshold: no flight is left without the call that ends    *)
(* it, and the states of the breaker agree with its counter and its slot.  *)
(***************************************************************************)
EXTENDS Embedder, SequenceTheorems, TLAPS

-----------------------------------------------------------------------------
(* The cache.                                                              *)

\* Putting an entry keeps the cache a sequence of keys within its capacity.
LEMMA WithEntryType ==
    ASSUME cache \in Seq(Keys), Len(cache) <= Capacity, NEW k \in Keys
    PROVE  WithEntry(k) \in Seq(Keys) /\ Len(WithEntry(k)) <= Capacity
<1>. DEFINE at == CHOOSE i \in DOMAIN cache : cache[i] = k
            rest == IF Cached(k)
                    THEN SubSeq(cache, 1, at - 1) \o SubSeq(cache, at + 1, Len(cache))
                    ELSE cache
            kept == Append(rest, k)
<1>1. rest \in Seq(Keys) /\ Len(rest) <= Len(cache)
  <2>1. CASE Cached(k)
    <3>1. at \in 1..Len(cache)
      BY <2>1 DEF Cached
    <3>. DEFINE before == SubSeq(cache, 1, at - 1)
                after == SubSeq(cache, at + 1, Len(cache))
    <3>2. rest = before \o after
      BY <2>1
    <3>. HIDE DEF at, rest
    <3>3. /\ before \in Seq(Keys) /\ Len(before) = at - 1
          /\ after \in Seq(Keys) /\ Len(after) = Len(cache) - at
      BY <3>1
    <3>. HIDE DEF before, after
    <3>4. before \o after \in Seq(Keys) /\ Len(before \o after) = Len(before) + Len(after)
      BY <3>3, ConcatProperties
    <3>. QED  BY <3>1, <3>2, <3>3, <3>4
  <2>2. CASE ~Cached(k)
    BY <2>2
  <2>. QED  BY <2>1, <2>2
<1>2. WithEntry(k) = IF Capacity = 0 THEN cache
                     ELSE IF Len(kept) > Capacity THEN Tail(kept) ELSE kept
  BY DEF WithEntry
<1>. HIDE DEF rest
<1>3. kept \in Seq(Keys) /\ Len(kept) = Len(rest) + 1 /\ kept # <<>>
  BY <1>1
<1>. HIDE DEF kept
<1>4. Tail(kept) \in Seq(Keys) /\ Len(Tail(kept)) = Len(kept) - 1
  BY <1>3, HeadTailProperties
<1>. QED  BY <1>1, <1>2, <1>3, <1>4, LimitsAssumption

-----------------------------------------------------------------------------
(* The breaker.                                                            *)

BreakerTyped ==
    breaker \in [state : BreakerStates, probe : BOOLEAN,
                failures : 0..Threshold, cooling : BOOLEAN]

\* Whatever a call does, the breaker keeps its type and its agreement.
LEMMA BreakerStep ==
    ASSUME BreakerTyped, BreakerConsistent, [Next]_vars
    PROVE  BreakerTyped' /\ BreakerConsistent'
<1>. USE LimitsAssumption DEF BreakerTyped, BreakerConsistent, BreakerStates
<1>1. CASE UNCHANGED breaker
  BY <1>1
<1>2. CASE breaker' = Failed
  BY <1>2 DEF Failed
<1>3. CASE breaker' = Succeeded
  BY <1>3 DEF Succeeded
<1>4. ASSUME NEW c \in Calls, Allow(c)
      PROVE  BreakerTyped' /\ BreakerConsistent'
  BY <1>4 DEF Allow
<1>5. CASE CoolDown
  BY <1>5 DEF CoolDown
<1>6. \/ UNCHANGED breaker \/ breaker' = Failed \/ breaker' = Succeeded
      \/ CoolDown \/ \E c \in Calls : Allow(c)
  BY DEF Next, Begin, Step, BeginDocuments, BeginQuery, SelfCheckCancelled,
         Look, Reject, Claim, Claimed, Refuse, CallFails, CallSucceeds, Finish,
         Record, Wait, WaitCancelled, Return, vars
<1>. QED  BY <1>1, <1>2, <1>3, <1>4, <1>5, <1>6

-----------------------------------------------------------------------------
(* The flights.                                                            *)

SingleFlight == \A f, g \in flights : f[1] = g[1] => f = g

\* What a call leads is under way, is its own, is led once, and is led only
\* between the claim and the end of the batch.
Led ==
    \A c \in Calls :
        /\ \A i \in DOMAIN leads[c] : leads[c][i] \in flights /\ leads[c][i][2] = c
        /\ \A i, j \in DOMAIN leads[c] : leads[c][i] = leads[c][j] => i = j
        /\ leads[c] # <<>> => pc[c] \in {"claim", "allow", "call", "finish"}

Owned == \A f \in flights : \E i \in DOMAIN leads[f[2]] : leads[f[2]][i] = f

Landed(f) == \E l \in landed : l.flight = f

Followed ==
    \A c \in Calls : \A i \in DOMAIN follows[c] :
        follows[c][i] \in flights \/ Landed(follows[c][i])

\* What Append does, index by index.
LEMMA Appended ==
    ASSUME NEW S, NEW q \in Seq(S), NEW e \in S
    PROVE  /\ Len(q) \in Nat /\ DOMAIN q = 1..Len(q)
           /\ DOMAIN Append(q, e) = 1..(Len(q) + 1)
           /\ Append(q, e)[Len(q) + 1] = e
           /\ \A i \in DOMAIN q : Append(q, e)[i] = q[i]
BY AppendProperties

LEMMA Updated ==
    ASSUME NEW D, NEW S, NEW f \in [D -> S], NEW x, NEW v \in S
    PROVE  [f EXCEPT ![x] = v] \in [D -> S]
OBVIOUS

\* Every variable keeps its type.
LEMMA TypeStep ==
    ASSUME TypeOK, BreakerConsistent, [Next]_vars
    PROVE  TypeOK'
<1>. DEFINE Pcs == {"idle", "look", "claim", "allow", "call", "finish",
                    "record", "wait", "returned", "failed"}
            Types ==
                /\ cache \in Seq(Keys) /\ Len(cache) <= Capacity
                /\ flights \subseteq Flights
                /\ landed \subseteq [flight : Flights, ended : {"ok", "error"}]
                /\ pc \in [Calls -> Pcs]
                /\ todo \in [Calls -> Seq(Keys)]
                /\ misses \in [Calls -> Seq(Keys)]
                /\ leads \in [Calls -> Seq(Flights)]
                /\ follows \in [Calls -> Seq(Flights)]
                /\ ended \in [Calls -> {"ok", "error"}]
<1>1. BreakerTyped'
  BY BreakerStep DEF TypeOK, BreakerTyped
<1>2. ASSUME NEW c \in Calls, Begin(c) \/ Step(c) \/ Reject(c) \/ WaitCancelled(c)
      PROVE  Types'
  <2>. USE DEF Goto, cacheVars, batchVars
  <2>0. Types
    BY DEF TypeOK
  <2>1. CASE BeginDocuments(c)
    BY <2>0, <2>1, BatchesAssumption DEF BeginDocuments
  <2>2. CASE BeginQuery(c) \/ SelfCheckCancelled(c) \/ Reject(c) \/ WaitCancelled(c)
    BY <2>0, <2>2 DEF BeginQuery, SelfCheckCancelled, Reject, WaitCancelled
  <2>3. CASE Look(c)
    <3>1. CASE todo[c] = <<>>
      BY <2>0, <2>3, <3>1 DEF Look
    <3>2. CASE todo[c] # <<>>
      <4>1. Tail(todo[c]) \in Seq(Keys) /\ Append(misses[c], Head(todo[c])) \in Seq(Keys)
        BY <2>0, <3>2
      <4>2. /\ todo' = [todo EXCEPT ![c] = Tail(todo[c])]
            /\ \/ misses' = misses
               \/ misses' = [misses EXCEPT ![c] = Append(misses[c], Head(todo[c]))]
            /\ UNCHANGED <<pc, cache, flights, landed, leads, follows, ended>>
        BY <2>3, <3>2, Zenon DEF Look
      <4>3. todo' \in [Calls -> Seq(Keys)]
        BY <2>0, <4>1, <4>2, Updated, Zenon
      <4>4. [misses EXCEPT ![c] = Append(misses[c], Head(todo[c]))] \in [Calls -> Seq(Keys)]
        BY <2>0, <4>1, Updated, Zenon
      <4>. QED  BY <2>0, <4>2, <4>3, <4>4
    <3>. QED  BY <3>1, <3>2
  <2>4. CASE Claim(c)
    <3>1. Tail(todo[c]) \in Seq(Keys) /\ Head(todo[c]) \in Keys
      BY <2>0, <2>4 DEF Claim
    <3>2. <<Head(todo[c]), c>> \in Flights
      BY <3>1 DEF Flights
    <3>3. \A f \in Flights : Append(leads[c], f) \in Seq(Flights)
                           /\ Append(follows[c], f) \in Seq(Flights)
      BY <2>0
    <3>4. /\ \/ UNCHANGED <<flights, leads>>
             \/ /\ flights' = flights \cup {<<Head(todo[c]), c>>}
                /\ leads' = [leads EXCEPT ![c] = Append(leads[c], <<Head(todo[c]), c>>)]
          /\ \/ UNCHANGED follows
             \/ \E f \in flights : follows' = [follows EXCEPT ![c] = Append(follows[c], f)]
          /\ todo' = [todo EXCEPT ![c] = Tail(todo[c])]
          /\ UNCHANGED <<cache, landed, pc, misses, ended>>
      BY <2>4, Zenon DEF Claim
    <3>5. flights' \subseteq Flights
      BY <2>0, <3>2, <3>4
    <3>6. leads' \in [Calls -> Seq(Flights)]
      <4>. DEFINE longer == Append(leads[c], <<Head(todo[c]), c>>)
      <4>1. leads \in [Calls -> Seq(Flights)] /\ longer \in Seq(Flights)
        BY <2>0, <3>2, <3>3
      <4>2. leads' = leads \/ leads' = [leads EXCEPT ![c] = longer]
        BY <3>4, Zenon
      <4>. HIDE DEF longer
      <4>. QED  BY <4>1, <4>2, Updated, Zenon
    <3>7. follows' \in [Calls -> Seq(Flights)]
      <4>1. CASE UNCHANGED follows
        BY <2>0, <4>1
      <4>2. ASSUME NEW f \in flights, follows' = [follows EXCEPT ![c] = Append(follows[c], f)]
            PROVE  follows' \in [Calls -> Seq(Flights)]
        <5>. DEFINE longer == Append(follows[c], f)
        <5>1. follows \in [Calls -> Seq(Flights)] /\ longer \in Seq(Flights)
          BY <2>0, <3>3
        <5>2. follows' = [follows EXCEPT ![c] = longer]
          BY <4>2, Zenon
        <5>. HIDE DEF longer
        <5>. QED  BY <5>1, <5>2, Updated, Zenon
      <4>3. UNCHANGED follows
            \/ \E f \in flights : follows' = [follows EXCEPT ![c] = Append(follows[c], f)]
        BY <3>4, Zenon
      <4>. QED  BY <4>1, <4>2, <4>3, Zenon
    <3>8. todo' \in [Calls -> Seq(Keys)]
      BY <2>0, <3>1, <3>4, Updated, Zenon
    <3>. QED  BY <2>0, <3>4, <3>5, <3>6, <3>7, <3>8
  <2>5. CASE Claimed(c) \/ Allow(c) \/ Refuse(c)
    BY <2>0, <2>5 DEF Claimed, Allow, Refuse
  <2>6. CASE CallFails(c) \/ CallSucceeds(c) \/ Record(c) \/ Return(c)
    BY <2>0, <2>6 DEF CallFails, CallSucceeds, Record, Return
  <2>7. CASE Finish(c)
    <3>1. Head(leads[c]) \in Flights /\ Tail(leads[c]) \in Seq(Flights)
      BY <2>0, <2>7 DEF Finish
    <3>2. Head(leads[c])[1] \in Keys
      BY <3>1 DEF Flights
    <3>3. cache' \in Seq(Keys) /\ Len(cache') <= Capacity
      BY <2>0, <2>7, <3>2, WithEntryType DEF Finish
    <3>. QED  BY <2>0, <2>7, <3>1, <3>3 DEF Finish
  <2>8. CASE Wait(c)
    <3>1. Tail(follows[c]) \in Seq(Flights)
      BY <2>0, <2>8 DEF Wait
    <3>2. /\ \/ follows' = [follows EXCEPT ![c] = Tail(follows[c])] /\ UNCHANGED pc
             \/ pc' = [pc EXCEPT ![c] = "failed"] /\ UNCHANGED follows
          /\ UNCHANGED <<cacheVars, todo, misses, leads, ended>>
      BY <2>8, Zenon DEF Wait
    <3>3. follows' \in [Calls -> Seq(Flights)]
      BY <2>0, <3>1, <3>2, Updated, Zenon
    <3>. QED  BY <2>0, <3>2, <3>3
  <2>. QED  BY <1>2, <2>1, <2>2, <2>3, <2>4, <2>5, <2>6, <2>7, <2>8, Zenon DEF Begin, Step
<1>3. ASSUME CoolDown \/ UNCHANGED vars
      PROVE  Types'
  BY <1>3 DEF CoolDown, TypeOK, vars, cacheVars, batchVars
<1>4. Types'
  BY <1>2, <1>3, Zenon DEF Next
<1>. QED  BY <1>1, <1>4 DEF TypeOK, BreakerTyped

\* The rest of the invariant depends on the flights, on who leads and follows
\* them, and on where the leaders are.
Flying == SingleFlight /\ Led /\ Owned /\ Followed

LEMMA QuietStep ==
    ASSUME TypeOK, Flying, UNCHANGED <<flights, landed, leads, follows>>,
           NEW c \in Calls, NEW to, pc' = [pc EXCEPT ![c] = to],
           leads[c] # <<>> => to \in {"claim", "allow", "call", "finish"}
    PROVE  Flying'
<1>1. SingleFlight' /\ Owned' /\ Followed'
  BY DEF Flying, SingleFlight, Owned, Followed, Landed
<1>2. Led'
  BY DEF Flying, Led, TypeOK
<1>. QED  BY <1>1, <1>2 DEF Flying

\* A key that has no flight gets one, which its call leads last.
LEMMA ClaimStep ==
    ASSUME TypeOK, Flying, NEW c \in Calls, Claim(c)
    PROVE  Flying'
<1>. DEFINE k == Head(todo[c])
            mine == <<k, c>>
<1>1. /\ pc[c] = "claim" /\ k \in Keys
      /\ UNCHANGED <<pc, landed>>
      /\ leads \in [Calls -> Seq(Flights)] /\ follows \in [Calls -> Seq(Flights)]
      /\ flights \subseteq Flights
  BY DEF Claim, TypeOK
<1>2. CASE UNCHANGED <<flights, leads, follows>>
  BY <1>1, <1>2 DEF Flying, SingleFlight, Led, Owned, Followed, Landed
<1>3. ASSUME NEW f \in flights, follows' = [follows EXCEPT ![c] = Append(follows[c], f)],
             UNCHANGED <<flights, leads>>
      PROVE  Flying'
  <2>1. SingleFlight' /\ Led' /\ Owned'
    <3>1. UNCHANGED <<pc, flights, leads>>
      BY <1>1, <1>3
    <3>2. SingleFlight'
      BY <3>1 DEF Flying, SingleFlight
    <3>3. Led'
      BY <3>1 DEF Flying, Led
    <3>4. Owned'
      BY <3>1 DEF Flying, Owned
    <3>. QED  BY <3>2, <3>3, <3>4
  <2>2. Followed'
    <3>1. f \in Flights /\ follows[c] \in Seq(Flights)
      BY <1>1
    <3>2. \A i \in DOMAIN follows'[c] : 
            follows'[c][i] = f \/ (i \in DOMAIN follows[c] /\ follows'[c][i] = follows[c][i])
      <4>1. follows'[c] = Append(follows[c], f)
        BY <1>1, <1>3
      <4>. QED  BY <3>1, <4>1, Appended
    <3>3. \A d \in Calls : d # c => follows'[d] = follows[d]
      BY <1>1, <1>3
    <3>4. ASSUME NEW d \in Calls, NEW i \in DOMAIN follows'[d]
          PROVE  (follows[d][i] \in flights \/ Landed(follows[d][i]))'
      <4>1. \A g : g \in flights \/ Landed(g)
                   => g \in flights' \/ \E l \in landed' : l.flight = g
        BY <1>1, <1>3 DEF Landed
      <4>. USE DEF Landed
      <4>2. CASE d = c
        <5>1. CASE follows'[d][i] = f
          BY <1>3, <5>1
        <5>2. CASE i \in DOMAIN follows[c] /\ follows'[c][i] = follows[c][i]
          BY <4>1, <4>2, <5>2 DEF Flying, Followed
        <5>. QED  BY <3>2, <4>2, <5>1, <5>2
      <4>3. CASE d # c
        BY <3>3, <4>1, <4>3 DEF Flying, Followed
      <4>. QED  BY <4>2, <4>3
    <3>. QED  BY <3>4 DEF Followed
  <2>. QED  BY <2>1, <2>2 DEF Flying
<1>4. ASSUME \A f \in flights : f[1] # k, flights' = flights \cup {mine},
             leads' = [leads EXCEPT ![c] = Append(leads[c], mine)], UNCHANGED follows
      PROVE  Flying'
  <2>1. mine \notin flights /\ mine \in Flights /\ mine[1] = k /\ mine[2] = c
    BY <1>1, <1>4 DEF Flights
  <2>2. SingleFlight' /\ Followed'
    BY <1>1, <1>4, <2>1 DEF Flying, SingleFlight, Followed, Landed
  <2>3. leads[c] \in Seq(Flights) /\ leads'[c] = Append(leads[c], mine)
        /\ \A d \in Calls : d # c => leads'[d] = leads[d]
    BY <1>1, <1>4
  <2>4. /\ DOMAIN leads[c] = 1..Len(leads[c]) /\ DOMAIN leads'[c] = 1..(Len(leads[c]) + 1)
        /\ Len(leads[c]) \in Nat
        /\ leads'[c][Len(leads[c]) + 1] = mine
        /\ \A i \in DOMAIN leads[c] : leads'[c][i] = leads[c][i]
    BY <2>1, <2>3, AppendProperties
  <2>. HIDE DEF mine
  <2>5. Owned'
    <3>1. ASSUME NEW f \in flights
          PROVE  \E i \in DOMAIN leads'[f[2]] : leads'[f[2]][i] = f
      <4>1. f[2] \in Calls
        BY <1>1 DEF Flights
      <4>2. PICK i \in DOMAIN leads[f[2]] : leads[f[2]][i] = f
        BY DEF Flying, Owned
      <4>. QED  BY <2>3, <2>4, <4>1, <4>2
    <3>. QED  BY <1>4, <2>1, <2>4, <3>1 DEF Owned
  <2>6. Led'
    <3>1. ASSUME NEW d \in Calls, d # c
          PROVE  /\ \A i \in DOMAIN leads'[d] : leads'[d][i] \in flights' /\ leads'[d][i][2] = d
                 /\ \A i, j \in DOMAIN leads'[d] : leads'[d][i] = leads'[d][j] => i = j
                 /\ leads'[d] # <<>> => pc'[d] \in {"claim", "allow", "call", "finish"}
      BY <1>1, <1>4, <2>3, <3>1 DEF Flying, Led
    <3>2. \A i \in DOMAIN leads'[c] : leads'[c][i] \in flights' /\ leads'[c][i][2] = c
      BY <1>4, <2>1, <2>4 DEF Flying, Led
    <3>3. \A i, j \in DOMAIN leads'[c] : leads'[c][i] = leads'[c][j] => i = j
      <4>1. \A i \in DOMAIN leads[c] : leads'[c][i] # mine
        BY <2>1, <2>4 DEF Flying, Led
      <4>. QED  BY <2>4, <4>1 DEF Flying, Led
    <3>. QED  BY <1>1, <3>1, <3>2, <3>3 DEF Led
  <2>. QED  BY <2>2, <2>5, <2>6 DEF Flying
<1>. QED  BY <1>2, <1>3, <1>4 DEF Claim

\* A flight that ends leaves its leader and the flights together.
LEMMA FinishStep ==
    ASSUME TypeOK, Flying, NEW c \in Calls, Finish(c)
    PROVE  Flying'
<1>. DEFINE f == Head(leads[c])
<1>0. /\ leads \in [Calls -> Seq(Flights)] /\ leads[c] \in Seq(Flights)
      /\ c \in DOMAIN pc
  BY DEF TypeOK
<1>1. /\ leads[c] # <<>>
      /\ flights' = flights \ {f} /\ UNCHANGED follows
      /\ landed' = landed \cup {[flight |-> f, ended |-> ended[c]]}
      /\ leads' = [leads EXCEPT ![c] = Tail(leads[c])]
      /\ pc' = [pc EXCEPT ![c] = IF Tail(leads[c]) # <<>> THEN "finish"
                               ELSE IF ended[c] = "error" THEN "failed" ELSE "record"]
  BY Zenon DEF Finish, Goto
<1>2. /\ f = leads[c][1] /\ 1 \in DOMAIN leads[c] /\ f \in flights /\ f[2] = c
      /\ leads'[c] = Tail(leads[c]) /\ \A d \in Calls : d # c => leads'[d] = leads[d]
      /\ DOMAIN leads'[c] = 1..(Len(leads[c]) - 1) /\ Len(leads[c]) \in Nat
      /\ DOMAIN leads[c] = 1..Len(leads[c])
      /\ \A i \in DOMAIN leads'[c] : leads'[c][i] = leads[c][i + 1]
  BY <1>0, <1>1, HeadTailProperties DEF Flying, Led
<1>. HIDE DEF f
<1>3. SingleFlight'
  BY <1>1 DEF Flying, SingleFlight
<1>4. Followed'
  <2>1. \E l \in landed' : l.flight = f
    <3>1. [flight |-> f, ended |-> ended[c]] \in landed'
      BY <1>1
    <3>2. [flight |-> f, ended |-> ended[c]].flight = f
      OBVIOUS
    <3>. QED  BY <3>1, <3>2
  <2>2. \A g : g \in flights \/ Landed(g)
               => g \in flights' \/ \E l \in landed' : l.flight = g
    BY <1>1, <2>1 DEF Landed
  <2>. QED  BY <1>1, <2>2 DEF Flying, Followed, Landed
<1>5. Owned'
  <2>. SUFFICES ASSUME NEW g \in flights, g # f
                PROVE  \E i \in DOMAIN leads'[g[2]] : leads'[g[2]][i] = g
    BY <1>1 DEF Owned
  <2>1. PICK i \in DOMAIN leads[g[2]] : leads[g[2]][i] = g
    BY DEF Flying, Owned
  <2>2. CASE g[2] = c
    <3>1. i - 1 \in DOMAIN leads'[c] /\ leads'[c][i - 1] = leads[c][i]
      BY <1>2, <2>1, <2>2
    <3>. QED  BY <2>1, <2>2, <3>1
  <2>3. CASE g[2] # c
    <3>1. g[2] \in Calls
      BY DEF TypeOK, Flights
    <3>. QED  BY <1>2, <2>1, <2>3, <3>1
  <2>. QED  BY <2>2, <2>3
<1>6. Led'
  <2>1. ASSUME NEW d \in Calls, d # c
        PROVE  /\ \A i \in DOMAIN leads'[d] : leads'[d][i] \in flights' /\ leads'[d][i][2] = d
               /\ \A i, j \in DOMAIN leads'[d] : leads'[d][i] = leads'[d][j] => i = j
               /\ leads'[d] # <<>> => pc'[d] \in {"claim", "allow", "call", "finish"}
    BY <1>1, <1>2, <2>1 DEF Flying, Led
  <2>2. ASSUME NEW i \in DOMAIN leads'[c]
        PROVE  leads'[c][i] \in flights' /\ leads'[c][i][2] = c
    <3>1. i + 1 \in DOMAIN leads[c] /\ leads'[c][i] = leads[c][i + 1] /\ i + 1 # 1
      BY <1>2
    <3>2. leads[c][i + 1] # f
      BY <1>2, <3>1 DEF Flying, Led
    <3>. QED  BY <1>1, <3>1, <3>2 DEF Flying, Led
  <2>3. ASSUME NEW i \in DOMAIN leads'[c], NEW j \in DOMAIN leads'[c], leads'[c][i] = leads'[c][j]
        PROVE  i = j
    <3>1. /\ i + 1 \in DOMAIN leads[c] /\ j + 1 \in DOMAIN leads[c]
          /\ leads[c][i + 1] = leads[c][j + 1]
      BY <1>2, <2>3
    <3>2. i + 1 = j + 1
      BY <3>1 DEF Flying, Led
    <3>. QED  BY <1>2, <3>2
  <2>4. leads'[c] # <<>> => pc'[c] = "finish"
    BY <1>0, <1>1, <1>2
  <2>. QED  BY <2>1, <2>2, <2>3, <2>4 DEF Led
<1>. QED  BY <1>3, <1>4, <1>5, <1>6 DEF Flying

\* What is waited for less is still waited for.
LEMMA WaitStep ==
    ASSUME TypeOK, Flying, NEW c \in Calls, Wait(c)
    PROVE  Flying'
<1>1. /\ UNCHANGED <<flights, landed, leads>> /\ pc[c] = "wait"
      /\ follows \in [Calls -> Seq(Flights)] /\ follows[c] \in Seq(Flights)
      /\ follows[c] # <<>>
      /\ \/ follows' = [follows EXCEPT ![c] = Tail(follows[c])] /\ UNCHANGED pc
         \/ pc' = [pc EXCEPT ![c] = "failed"] /\ UNCHANGED follows
  <2>1. follows \in [Calls -> Seq(Flights)]
    BY DEF TypeOK
  <2>. QED  BY <2>1, Zenon DEF Wait, Goto, cacheVars
<1>2. leads[c] = <<>>
  BY <1>1 DEF Flying, Led
<1>3. CASE pc' = [pc EXCEPT ![c] = "failed"] /\ UNCHANGED follows
  BY <1>1, <1>2, <1>3, QuietStep
<1>4. CASE follows' = [follows EXCEPT ![c] = Tail(follows[c])] /\ UNCHANGED pc
  <2>1. SingleFlight' /\ Led' /\ Owned'
    BY <1>1, <1>4 DEF Flying, SingleFlight, Led, Owned
  <2>2. /\ follows'[c] = Tail(follows[c]) /\ \A d \in Calls : d # c => follows'[d] = follows[d]
    BY <1>1, <1>4
  <2>3. \A i \in DOMAIN follows'[c] : i + 1 \in DOMAIN follows[c] /\ follows'[c][i] = follows[c][i + 1]
    BY <1>1, <2>2, HeadTailProperties
  <2>4. Followed'
    <3>1. \A g : g \in flights \/ Landed(g) => g \in flights' \/ Landed(g)'
      BY <1>1 DEF Landed
    <3>2. \A d \in Calls : \A i \in DOMAIN follows'[d] :
            \E j \in DOMAIN follows[d] : follows'[d][i] = follows[d][j]
      BY <2>2, <2>3
    <3>. QED  BY <3>1, <3>2 DEF Flying, Followed
  <2>. QED  BY <2>1, <2>4 DEF Flying
<1>. QED  BY <1>1, <1>3, <1>4

LEMMA FlyingStep ==
    ASSUME TypeOK, Flying, [Next]_vars
    PROVE  Flying'
<1>1. ASSUME NEW c \in Calls, Begin(c) \/ Step(c) \/ Reject(c) \/ WaitCancelled(c)
      PROVE  Flying'
  <2>. USE DEF Goto, cacheVars, batchVars
  <2>0. leads[c] # <<>> => pc[c] \in {"claim", "allow", "call", "finish"}
    BY DEF Flying, Led
  <2>1. CASE Begin(c)
    BY <2>0, <2>1, QuietStep DEF Begin, BeginDocuments, BeginQuery, SelfCheckCancelled
  <2>2. CASE Look(c)
    <3>1. pc' = [pc EXCEPT ![c] = IF todo[c] = <<>> THEN "claim" ELSE pc[c]]
      BY <2>2 DEF Look, TypeOK
    <3>. QED  BY <2>0, <2>2, <3>1, QuietStep DEF Look
  <2>3. CASE Reject(c) \/ WaitCancelled(c) \/ Return(c)
    BY <2>0, <2>3, QuietStep DEF Reject, WaitCancelled, Return
  <2>4. CASE Claim(c)
    BY <2>4, ClaimStep
  <2>5. CASE Claimed(c)
    BY <2>0, <2>5, QuietStep DEF Claimed
  <2>6. CASE Allow(c) \/ Refuse(c)
    BY <2>0, <2>6, QuietStep DEF Allow, Refuse
  <2>7. CASE CallFails(c) \/ CallSucceeds(c)
    BY <2>0, <2>7, QuietStep DEF CallFails, CallSucceeds
  <2>8. CASE Finish(c)
    BY <2>8, FinishStep
  <2>9. CASE Record(c)
    BY <2>0, <2>9, QuietStep DEF Record
  <2>10. CASE Wait(c)
    BY <2>10, WaitStep
  <2>. QED  BY <1>1, <2>1, <2>2, <2>3, <2>4, <2>5, <2>6, <2>7, <2>8, <2>9, <2>10 DEF Step
<1>2. ASSUME CoolDown \/ UNCHANGED vars
      PROVE  Flying'
  BY <1>2 DEF CoolDown, vars, cacheVars, batchVars, Flying, SingleFlight, Led, Owned,
              Followed, Landed
<1>. QED  BY <1>1, <1>2 DEF Next

LEMMA Invariance == Spec => [](TypeOK /\ Flying /\ BreakerConsistent)
<1>1. Init => TypeOK /\ Flying /\ BreakerConsistent
  BY LimitsAssumption DEF Init, TypeOK, Flying, BreakerConsistent, BreakerStates,
     SingleFlight, Led, Owned, Followed
<1>2. TypeOK /\ Flying /\ BreakerConsistent /\ [Next]_vars
          => (TypeOK /\ Flying /\ BreakerConsistent)'
  BY TypeStep, FlyingStep, BreakerStep DEF TypeOK, BreakerTyped
<1>. QED  BY <1>1, <1>2, PTL DEF Spec

-----------------------------------------------------------------------------
(* The results.                                                            *)

\* Single flight in DocumentCache: a key under way has one flight, which the call
\* that began it still leads and has yet to end, and who waits for a flight waits
\* for a landed one or such a one, while it leads none itself.
THEOREM FlightsHaveLeaders == Spec => []NoOrphanFlight
<1>1. TypeOK /\ Flying => NoOrphanFlight
  <2>. SUFFICES ASSUME TypeOK, Flying PROVE NoOrphanFlight
    OBVIOUS
  <2>1. ASSUME NEW c \in Calls, NEW i \in DOMAIN leads[c]
        PROVE  leads[c][i] \in flights /\ pc[c] # "wait" /\ ~Over(c)
    <3>1. leads[c] # <<>>
      OBVIOUS
    <3>. QED  BY <3>1 DEF Flying, Led, Over
  <2>. QED  BY <2>1 DEF NoOrphanFlight, Flying, SingleFlight, Owned, Followed, Landed
<1>. QED  BY <1>1, Invariance, PTL

\* circuitBreaker: it is closed exactly below its threshold and half open exactly
\* while the probe's slot is taken, whichever late answer of an older call
\* recordSuccess or recordFailure hears of.
THEOREM BreakerAgrees == Spec => []BreakerConsistent
BY Invariance, PTL
=============================================================================
