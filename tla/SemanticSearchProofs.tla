------------------------ MODULE SemanticSearchProofs ------------------------
(* For any number of calls, pages, events and failures: Close never closes *)
(* the stores under a search; the eligibility snapshot of an attempt that  *)
(* nothing was appended to is exact; and a search answers as AtomicSearch  *)
(* does, which is the refinement SearchesAreAtomic.                        *)
(*                                                                         *)
(* Every step of a search either answers (Ends, Returns) or goes on with   *)
(* what it has learned (Tells, Moves), so each fact about what a call      *)
(* knows is shown of the record it is left with.  SearchInv is about its   *)
(* snapshot; AnswerInv, which rests on it, about what it found and chose.  *)
EXTENDS SemanticSearch, SequenceTheorems, FiniteSetTheorems, NaturalsInduction, TLAPS

Resting == {"idle", "done"}

\* The calls semanticWG counts are those under way, and it was zero when Close
\* went on to the stores.
Counted ==
    /\ search = [c \in Calls |-> search[c]]
    /\ active = {c \in Calls : search[c].pc \notin Resting}
    /\ ended \subseteq active
    /\ phase \in {"open", "cancelled", "flagged", "joined", "closed"}
    /\ phase \in {"joined", "closed"} => active = {}

\* Where a call has asked about no page yet, where it knows the sequence it
\* captured, and where its snapshot was confirmed.
Unasked   == {"idle", "done", "entry", "embed", "capture", "before", "rows"}
Confirmed == {"resolve", "found", "select", "resolved", "fresh", "confirm", "commit"}
Captured  == {"before", "rows", "filter", "after", "relock"} \cup Confirmed

\* What coherence says now of the rows after n events, of the pages in S.
Asked(S, n) ==
    {<<p, Row(p, n)>> : p \in {q \in S : Row(q, n) # 0 /\ Eligible(q, Row(q, n))}}

\* Of a call in whose attempt nothing was appended.
Exact(s) ==
    /\ s.pc = "filter" => /\ s.unread \subseteq {p \in Pages : Row(p, s.rows) # 0}
                          /\ s.eligible = Asked(Pages \ s.unread, s.rows)
    /\ s.pc \in {"after", "relock"} => s.eligible = Asked(Pages, s.rows)
    /\ s.pc \in Confirmed => s.eligible = Asked(Pages, LastSeq)

Sound(s) ==
    /\ {"pc", "seq", "before", "rows", "after", "unread", "eligible"} \subseteq DOMAIN s
    /\ s.pc \in Unasked => s.eligible = {}
    /\ s.pc \in Captured => s.seq \in 0..LastSeq
    /\ s.pc \in Captured /\ s.seq = LastSeq => Exact(s)

SearchInv ==
    /\ ledger \in Seq(Events)
    /\ Counted
    /\ \A c \in Calls : Sound(search[c])

-----------------------------------------------------------------------------
(* How a step changes what the invariant is about.                         *)

\* The call goes on, knowing s.
Tells(c, s) ==
    /\ search' = [search EXCEPT ![c] = s]
    /\ UNCHANGED <<ledger, phase, active, ended>>
    /\ s.pc \notin Resting

\* It returns.
Ends(c) ==
    /\ search' = [search EXCEPT ![c] = [Idle EXCEPT !.pc = "done"]]
    /\ active' = active \ {c}
    /\ ended' = ended \ {c}
    /\ UNCHANGED <<ledger, phase>>

\* Nothing the invariant is about changes.
Still == UNCHANGED <<ledger, phase, active, ended, search>>

LEMMA LastSeqInNat ==
    ASSUME ledger \in Seq(Events)
    PROVE  LastSeq \in Nat
BY LenProperties DEF LastSeq

\* With the ledger as it was, so is all that is read from it.
LEMMA SoundKept ==
    ASSUME ledger' = ledger, NEW s, Sound(s)
    PROVE  Sound(s)'
<1>1. LastSeq' = LastSeq
  BY DEF LastSeq
<1>2. \A S, n : Asked(S, n)' = Asked(S, n)
  BY DEF Asked, Row, Eligible, LastSeq
<1>3. \A p, n : Row(p, n)' = Row(p, n)
  BY DEF Row
<1> QED
  BY <1>1, <1>2, <1>3 DEF Sound, Exact

LEMMA TellsKeeps ==
    ASSUME SearchInv, NEW c \in Calls, search[c].pc \notin Resting,
           NEW s, Tells(c, s), Sound(s)
    PROVE  SearchInv'
<1>1. ledger' \in Seq(Events)
  BY DEF SearchInv, Tells
<1>2. Counted'
  BY DEF SearchInv, Counted, Tells
<1>3. ASSUME NEW d \in Calls
      PROVE  Sound(search[d])'
  <2>1. Sound(search'[d])
    BY <1>3 DEF SearchInv, Counted, Tells
  <2>2. ledger' = ledger
    BY DEF Tells
  <2> QED
    BY <2>1, <2>2, SoundKept
<1> QED
  BY <1>1, <1>2, <1>3 DEF SearchInv

LEMMA EndsKeeps ==
    ASSUME SearchInv, NEW c \in Calls, Ends(c)
    PROVE  SearchInv'
<1>1. ledger' \in Seq(Events)
  BY DEF SearchInv, Ends
<1>2. Counted'
  BY DEF SearchInv, Counted, Ends, Idle, Resting
<1>3. ASSUME NEW d \in Calls
      PROVE  Sound(search[d])'
  <2>1. Sound([Idle EXCEPT !.pc = "done"])
    BY DEF Sound, Idle, Captured, Confirmed
  <2>2. Sound(search'[d])
    BY <1>3, <2>1 DEF SearchInv, Counted, Ends
  <2>3. ledger' = ledger
    BY DEF Ends
  <2> QED
    BY <2>2, <2>3, SoundKept
<1> QED
  BY <1>1, <1>2, <1>3 DEF SearchInv

LEMMA StillKeeps ==
    ASSUME SearchInv, Still
    PROVE  SearchInv'
<1>1. ledger' = ledger /\ search' = search /\ Counted'
  BY DEF SearchInv, Counted, Still
<1>2. \A c \in Calls : Sound(search[c])'
  BY <1>1, SoundKept DEF SearchInv
<1> QED
  BY <1>1, <1>2 DEF SearchInv

\* Every answer ends the call.
LEMMA AnswerEnds ==
    ASSUME NEW c, NEW answer, Answer(c, answer), UNCHANGED <<ledger, phase>>
    PROVE  Ends(c)
BY DEF Answer, Ends

LEMMA FailEnds ==
    ASSUME NEW c, Fail(c), UNCHANGED <<ledger, phase>>
    PROVE  Ends(c)
BY AnswerEnds DEF Fail

LEMMA MayFaultEnds ==
    ASSUME NEW c, MayFault(c)
    PROVE  Ends(c)
BY FailEnds DEF MayFault

-----------------------------------------------------------------------------
(* The steps around the searches.                                          *)

\* An event makes every snapshot one of an attempt that something was
\* appended to.
LEMMA RecordKeeps ==
    ASSUME SearchInv, NEW e \in Events, Record(e)
    PROVE  SearchInv'
<1>1. /\ ledger' = Append(ledger, e)
      /\ UNCHANGED <<phase, active, ended, search>>
  BY DEF Record, calls
<1>2. /\ ledger' \in Seq(Events)
      /\ LastSeq' = LastSeq + 1
      /\ LastSeq \in Nat
  BY <1>1, AppendProperties, LastSeqInNat DEF SearchInv, LastSeq
<1>3. Counted'
  BY <1>1 DEF SearchInv, Counted
<1>4. ASSUME NEW c \in Calls
      PROVE  Sound(search[c])'
  <2>1. Sound(search[c]) /\ search' = search
    BY <1>1 DEF SearchInv
  <2>2. search[c].pc \in Captured => search[c].seq \in 0..LastSeq' /\ search[c].seq # LastSeq'
    BY <1>2, <2>1 DEF Sound
  <2> QED
    BY <2>1, <2>2 DEF Sound
<1> QED
  BY <1>2, <1>3, <1>4 DEF SearchInv

LEMMA PhaseKeeps ==
    ASSUME SearchInv, CloseCancels \/ Close
    PROVE  SearchInv'
<1>1. UNCHANGED <<ledger, active, ended, search>>
  BY DEF CloseCancels, Close, CloseFlags, CloseJoins, CloseStores, Phase, calls
<1>2. Counted'
  BY <1>1 DEF SearchInv, Counted, CloseCancels, Close, CloseFlags, CloseJoins, CloseStores, Phase
<1>3. \A c \in Calls : Sound(search[c])'
  BY <1>1, SoundKept DEF SearchInv
<1> QED
  BY <1>1, <1>2, <1>3 DEF SearchInv

LEMMA EndKeeps ==
    ASSUME SearchInv, NEW c \in Calls, CallerCancels(c) \/ LifecycleEnds(c)
    PROVE  SearchInv'
<1>1. /\ UNCHANGED <<ledger, phase, active, search>>
      /\ ended' = ended \cup {c} /\ c \in active
  BY DEF CallerCancels, LifecycleEnds, End, session
<1>2. Counted'
  BY <1>1 DEF SearchInv, Counted
<1>3. \A d \in Calls : Sound(search[d])'
  BY <1>1, SoundKept DEF SearchInv
<1> QED
  BY <1>1, <1>2, <1>3 DEF SearchInv

LEMMA BeginKeeps ==
    ASSUME SearchInv, NEW c \in Calls, Begin(c)
    PROVE  SearchInv'
<1>1. UNCHANGED <<ledger, phase>>
  BY DEF Begin, session
<1>2. CASE Usable /\ phase = "open"
  <2> DEFINE s == [Idle EXCEPT !.pc = "entry"]
  <2>1. /\ search' = [search EXCEPT ![c] = s]
        /\ active' = active \cup {c} /\ UNCHANGED ended
    BY <1>2 DEF Begin
  <2>2. Sound(s) /\ s.pc = "entry"
    BY DEF Sound, Idle, Captured, Confirmed
  <2>3. Counted'
    BY <1>1, <1>2, <2>1, <2>2 DEF SearchInv, Counted, Resting
  <2>4. ASSUME NEW d \in Calls
        PROVE  Sound(search[d])'
    <3>1. Sound(search'[d])
      BY <2>1, <2>2, <2>4 DEF SearchInv, Counted
    <3> QED
      BY <1>1, <3>1, SoundKept
  <2> QED
    BY <1>1, <2>3, <2>4 DEF SearchInv
<1>3. CASE ~(Usable /\ phase = "open")
  BY <1>1, <1>3, FailEnds, EndsKeeps DEF Begin
<1> QED
  BY <1>2, <1>3

-----------------------------------------------------------------------------
(* The steps of a search.                                                  *)

\* A step that learns and leaves the session alone tells.
LEMMA LearnTells ==
    ASSUME NEW c, NEW s, Learn(c, s), UNCHANGED <<ledger, phase>>, s.pc \notin Resting
    PROVE  Tells(c, s)
BY DEF Learn, Tells

\* Past its confirmation, a call's snapshot is what it was.
LEMMA ConfirmedStays ==
    ASSUME NEW s, Sound(s), s.pc \in Confirmed,
           NEW t, DOMAIN t = DOMAIN s, t.pc \in Confirmed,
           t.seq = s.seq, t.eligible = s.eligible
    PROVE  Sound(t)
BY DEF Sound, Exact, Confirmed, Captured, Unasked

LEMMA RetryKeeps ==
    ASSUME SearchInv, NEW c \in Calls, search[c].pc \notin Resting, Retry(c),
           UNCHANGED <<ledger, phase>>
    PROVE  SearchInv'
<1>1. CASE search[c].attempt + 1 < Attempts
  <2> DEFINE s == [Idle EXCEPT !.pc = "capture", !.attempt = search[c].attempt + 1,
                               !.dense = search[c].dense]
  <2>1. Learn(c, s)
    BY <1>1 DEF Retry
  <2>2. Sound(s) /\ s.pc = "capture"
    BY DEF Sound, Idle, Captured, Confirmed
  <2>3. Tells(c, s)
    BY <2>1, <2>2, LearnTells DEF Resting
  <2> QED
    BY <2>2, <2>3, TellsKeeps
<1>2. CASE ~(search[c].attempt + 1 < Attempts)
  BY <1>2, FailEnds, AnswerEnds, EndsKeeps DEF Retry, ScopeMiss
<1> QED
  BY <1>1, <1>2

LEMMA EntryKeeps ==
    ASSUME SearchInv, NEW c \in Calls, Entry(c)
    PROVE  SearchInv'
<1> DEFINE s == [search[c] EXCEPT !.pc = "embed"]
<1>1. /\ search[c].pc = "entry" /\ UNCHANGED <<ledger, phase>>
      /\ Fail(c) \/ Miss(c) \/ Goto(c, "embed")
  BY DEF Entry, At, session
<1>2. CASE Fail(c) \/ Miss(c)
  BY <1>1, <1>2, AnswerEnds, EndsKeeps DEF Fail, Miss
<1>3. CASE Goto(c, "embed")
  <2>1. Sound(search[c])
    BY DEF SearchInv
  <2>2. Sound(s) /\ s.pc = "embed"
    BY <1>1, <2>1 DEF Sound, Captured, Confirmed, Unasked
  <2>3. Tells(c, s)
    BY <1>1, <1>3, <2>2, LearnTells DEF Goto, Resting
  <2> QED
    BY <1>1, <2>2, <2>3, TellsKeeps DEF Resting
<1> QED
  BY <1>1, <1>2, <1>3

LEMMA EmbeddedKeeps ==
    ASSUME SearchInv, NEW c \in Calls, NEW dense, Embedded(c, dense)
    PROVE  SearchInv'
<1> DEFINE s == [search[c] EXCEPT !.pc = "capture", !.dense = dense]
<1>1. /\ search[c].pc = "embed" /\ Learn(c, s)
      /\ UNCHANGED <<ledger, phase>>
  BY DEF Embedded, At, session
<1>2. Sound(search[c])
  BY DEF SearchInv
<1>3. Sound(s) /\ s.pc = "capture"
  BY <1>1, <1>2 DEF Sound, Captured, Confirmed, Unasked
<1>4. Tells(c, s)
  BY <1>1, <1>3, LearnTells DEF Resting
<1> QED
  BY <1>1, <1>3, <1>4, TellsKeeps DEF Resting

LEMMA AbandonKeeps ==
    ASSUME SearchInv, NEW c \in Calls, Abandon(c)
    PROVE  SearchInv'
BY FailEnds, EndsKeeps DEF Abandon, session

LEMMA CaptureBeginsKeeps ==
    ASSUME SearchInv, NEW c \in Calls, CaptureBegins(c)
    PROVE  SearchInv'
<1> DEFINE s == [search[c] EXCEPT !.pc = "before", !.seq = LastSeq, !.tokens = Budget]
<1>1. /\ search[c].pc = "capture" /\ UNCHANGED <<ledger, phase>>
      /\ Learn(c, s) \/ Fail(c)
  BY DEF CaptureBegins, At, session
<1>2. CASE Fail(c)
  BY <1>1, <1>2, FailEnds, EndsKeeps
<1>3. CASE Learn(c, s)
  <2>1. Sound(search[c]) /\ LastSeq \in Nat
    BY LastSeqInNat DEF SearchInv
  <2>2. Sound(s) /\ s.pc = "before"
    BY <1>1, <2>1 DEF Sound, Exact, Captured, Confirmed, Unasked
  <2>3. Tells(c, s)
    BY <1>1, <1>3, <2>2, LearnTells DEF Resting
  <2> QED
    BY <1>1, <2>2, <2>3, TellsKeeps DEF Resting
<1> QED
  BY <1>1, <1>2, <1>3

LEMMA ReadBeforeKeeps ==
    ASSUME SearchInv, NEW c \in Calls, ReadBefore(c)
    PROVE  SearchInv'
<1> DEFINE s == [search[c] EXCEPT !.pc = "rows", !.before = taken]
<1>1. /\ search[c].pc = "before"
      /\ \/ Learn(c, s) /\ UNCHANGED <<ledger, phase>>
         \/ MayFault(c)
  BY DEF ReadBefore, Live, At, session
<1>2. CASE MayFault(c)
  BY <1>2, MayFaultEnds, EndsKeeps
<1>3. CASE Learn(c, s) /\ UNCHANGED <<ledger, phase>>
  <2>1. Sound(search[c])
    BY DEF SearchInv
  <2>2. Sound(s) /\ s.pc = "rows"
    BY <1>1, <2>1 DEF Sound, Exact, Captured, Confirmed, Unasked
  <2>3. Tells(c, s)
    BY <1>3, <2>2, LearnTells DEF Resting
  <2> QED
    BY <1>1, <2>2, <2>3, TellsKeeps DEF Resting
<1> QED
  BY <1>1, <1>2, <1>3

\* Of the pages that have no row there is nothing to ask.
LEMMA ReadRowsKeeps ==
    ASSUME SearchInv, NEW c \in Calls, ReadRows(c)
    PROVE  SearchInv'
<1> DEFINE left == {p \in Pages : Row(p, taken) # 0}
           s == [search[c] EXCEPT !.pc = "filter", !.rows = taken, !.unread = left]
<1>1. /\ search[c].pc = "rows"
      /\ \/ Learn(c, s) /\ UNCHANGED <<ledger, phase>>
         \/ MayFault(c)
  BY DEF ReadRows, Live, At, session
<1>2. CASE MayFault(c)
  BY <1>2, MayFaultEnds, EndsKeeps
<1>3. CASE Learn(c, s) /\ UNCHANGED <<ledger, phase>>
  <2>1. Sound(search[c])
    BY DEF SearchInv
  <2>2. /\ s.pc = "filter" /\ s.rows = taken /\ s.unread = left
        /\ s.seq = search[c].seq /\ s.eligible = {} /\ DOMAIN s = DOMAIN search[c]
    BY <1>1, <2>1 DEF Sound, Unasked
  <2>3. Asked(Pages \ left, taken) = {}
    BY DEF Asked
  <2>4. Exact(s)
    BY <2>2, <2>3 DEF Exact, Confirmed
  <2>5. Sound(s)
    BY <1>1, <2>1, <2>2, <2>4 DEF Sound, Captured, Unasked
  <2>6. Tells(c, s)
    BY <1>3, <2>2, LearnTells DEF Resting
  <2> QED
    BY <1>1, <2>5, <2>6, TellsKeeps DEF Resting
<1> QED
  BY <1>1, <1>2, <1>3

\* One page more has been asked about.
LEMMA AskedOne ==
    ASSUME NEW S, NEW n, NEW p, Row(p, n) # 0
    PROVE  Asked(S \cup {p}, n) =
              IF Eligible(p, Row(p, n)) THEN Asked(S, n) \cup {<<p, Row(p, n)>>}
                                        ELSE Asked(S, n)
BY DEF Asked

LEMMA FilterKeeps ==
    ASSUME SearchInv, NEW c \in Calls, Filter(c)
    PROVE  SearchInv'
<1>1. search[c].pc = "filter" /\ Sound(search[c]) /\ UNCHANGED <<ledger, phase>>
  BY DEF SearchInv, Filter, At, session
<1>2. CASE search[c].unread = {}
  <2> DEFINE s == [search[c] EXCEPT !.pc = "after"]
  <2>1. Learn(c, s)
    BY <1>2 DEF Filter, Goto
  <2>2. /\ s.pc = "after" /\ s.seq = search[c].seq
        /\ s.eligible = search[c].eligible /\ s.rows = search[c].rows
        /\ DOMAIN s = DOMAIN search[c]
    BY <1>1 DEF Sound
  <2>3. Pages \ {} = Pages
    OBVIOUS
  <2>4. Sound(s)
    BY <1>1, <1>2, <2>2, <2>3 DEF Sound, Exact, Captured, Confirmed, Unasked
  <2>5. Tells(c, s)
    BY <1>1, <2>1, <2>2, LearnTells DEF Resting
  <2> QED
    BY <1>1, <2>4, <2>5, TellsKeeps DEF Resting
<1>3. ASSUME NEW p \in search[c].unread,
             Learn(c, [search[c] EXCEPT !.unread = @ \ {p},
                    !.eligible = IF Eligible(p, Row(p, search[c].rows))
                                 THEN @ \union {<<p, Row(p, search[c].rows)>>} ELSE @])
      PROVE  SearchInv'
  <2> DEFINE n == search[c].rows
             row == <<p, Row(p, n)>>
             left == search[c].unread \ {p}
             asked == IF Eligible(p, Row(p, n)) THEN search[c].eligible \union {row}
                                                ELSE search[c].eligible
             s == [search[c] EXCEPT !.unread = left, !.eligible = asked]
  <2>1. Learn(c, s)
    BY <1>3
  <2>2. /\ s.pc = "filter" /\ s.seq = search[c].seq /\ s.rows = n
        /\ s.unread = left /\ s.eligible = asked
        /\ DOMAIN s = DOMAIN search[c]
    BY <1>1 DEF Sound
  <2>3. ASSUME Exact(search[c])
        PROVE  Exact(s)
    <3>1. /\ search[c].unread \subseteq {q \in Pages : Row(q, n) # 0}
          /\ search[c].eligible = Asked(Pages \ search[c].unread, n)
      BY <1>1, <2>3 DEF Exact
    <3>2. p \in Pages /\ Row(p, n) # 0
      BY <1>3, <3>1
    <3>3. Pages \ left = (Pages \ search[c].unread) \cup {p}
      BY <1>3, <3>2
    <3>4. asked = Asked(Pages \ left, n)
      <4> DEFINE S == Pages \ search[c].unread
      <4>1. \A T : Asked(T \cup {p}, n) =
                     IF Eligible(p, Row(p, n)) THEN Asked(T, n) \cup {row} ELSE Asked(T, n)
        BY <3>2, AskedOne
      <4>2. Asked(S \cup {p}, n) =
              IF Eligible(p, Row(p, n)) THEN Asked(S, n) \cup {row} ELSE Asked(S, n)
        BY <4>1
      <4>3. search[c].eligible = Asked(S, n) /\ Pages \ left = S \cup {p}
        BY <3>1, <3>3
      <4> QED
        BY <4>2, <4>3
    <3> HIDE DEF left, asked, s
    <3>5. left \subseteq {q \in Pages : Row(q, n) # 0}
      BY <3>1 DEF left
    <3> QED
      BY <2>2, <3>4, <3>5 DEF Exact, Confirmed
  <2>4. Sound(s)
    <3> HIDE DEF s
    <3> QED
      BY <1>1, <2>2, <2>3 DEF Sound, Captured, Unasked
  <2>5. Tells(c, s)
    BY <1>1, <2>1, <2>2, LearnTells DEF Resting
  <2> QED
    BY <1>1, <2>4, <2>5, TellsKeeps DEF Resting
<1> QED
  BY <1>2, <1>3 DEF Filter

LEMMA ReadAfterKeeps ==
    ASSUME SearchInv, NEW c \in Calls, ReadAfter(c)
    PROVE  SearchInv'
<1> DEFINE s == [search[c] EXCEPT !.pc = "relock", !.after = taken]
<1>1. /\ search[c].pc = "after"
      /\ \/ Learn(c, s) /\ UNCHANGED <<ledger, phase>>
         \/ MayFault(c)
  BY DEF ReadAfter, Live, At, session
<1>2. CASE MayFault(c)
  BY <1>2, MayFaultEnds, EndsKeeps
<1>3. CASE Learn(c, s) /\ UNCHANGED <<ledger, phase>>
  <2>1. Sound(search[c])
    BY DEF SearchInv
  <2>2. Sound(s) /\ s.pc = "relock"
    BY <1>1, <2>1 DEF Sound, Exact, Captured, Confirmed, Unasked
  <2>3. Tells(c, s)
    BY <1>3, <2>2, LearnTells DEF Resting
  <2> QED
    BY <1>1, <2>2, <2>3, TellsKeeps DEF Resting
<1> QED
  BY <1>1, <1>2, <1>3

\* Three equal reads that are also the last event: what was asked of the rows
\* was asked of the rows after every event.
LEMMA RelockKeeps ==
    ASSUME SearchInv, NEW c \in Calls, Relock(c)
    PROVE  SearchInv'
<1> DEFINE s == [search[c] EXCEPT !.pc = "resolve"]
<1>1. /\ search[c].pc = "relock" /\ UNCHANGED <<ledger, phase>>
      /\ \/ Fail(c)
         \/ Retry(c)
         \/ Goto(c, "resolve") /\ LastSeq = search[c].seq /\ Undisturbed(search[c])
  BY DEF Relock, At, session
<1>2. CASE Fail(c)
  BY <1>1, <1>2, FailEnds, EndsKeeps
<1>3. CASE Retry(c)
  BY <1>1, <1>3, RetryKeeps DEF Resting
<1>4. CASE Goto(c, "resolve") /\ LastSeq = search[c].seq /\ Undisturbed(search[c])
  <2>1. Sound(search[c])
    BY DEF SearchInv
  <2>2. search[c].eligible = Asked(Pages, LastSeq)
    BY <1>1, <1>4, <2>1 DEF Sound, Exact, Captured, Undisturbed
  <2>3. /\ s.pc = "resolve" /\ s.seq = search[c].seq
        /\ s.eligible = search[c].eligible /\ DOMAIN s = DOMAIN search[c]
    BY <2>1 DEF Sound
  <2>4. Sound(s)
    BY <1>1, <2>1, <2>2, <2>3 DEF Sound, Exact, Captured, Confirmed, Unasked
  <2>5. Tells(c, s)
    BY <1>1, <1>4, <2>3, LearnTells DEF Goto, Resting
  <2> QED
    BY <1>1, <2>4, <2>5, TellsKeeps DEF Resting
<1> QED
  BY <1>1, <1>2, <1>3, <1>4

\* A call whose snapshot is confirmed goes on with it.
LEMMA ConfirmedKeeps ==
    ASSUME SearchInv, NEW c \in Calls, search[c].pc \in Confirmed,
           NEW s, Learn(c, s), UNCHANGED <<ledger, phase>>,
           DOMAIN s = DOMAIN search[c], s.pc \in Confirmed,
           s.seq = search[c].seq, s.eligible = search[c].eligible
    PROVE  SearchInv'
<1>1. Sound(s)
  BY ConfirmedStays DEF SearchInv
<1>2. Tells(c, s)
  BY LearnTells DEF Confirmed, Resting
<1> QED
  BY <1>1, <1>2, TellsKeeps DEF Confirmed, Resting

LEMMA GotoKeeps ==
    ASSUME SearchInv, NEW c \in Calls, search[c].pc \in Confirmed,
           NEW pc \in Confirmed, Goto(c, pc), UNCHANGED <<ledger, phase>>
    PROVE  SearchInv'
<1> DEFINE s == [search[c] EXCEPT !.pc = pc]
<1>1. Learn(c, s) /\ Sound(search[c])
  BY DEF Goto, SearchInv
<1>2. /\ DOMAIN s = DOMAIN search[c] /\ s.pc = pc
      /\ s.seq = search[c].seq /\ s.eligible = search[c].eligible
  BY <1>1 DEF Sound
<1> HIDE DEF s
<1> QED
  BY <1>1, <1>2, ConfirmedKeeps

LEMMA ResolveKeeps ==
    ASSUME SearchInv, NEW c \in Calls, Resolve(c)
    PROVE  SearchInv'
<1> DEFINE s == [search[c] EXCEPT !.pc = "found"]
<1>1. /\ search[c].pc = "resolve" /\ Learn(c, s) /\ UNCHANGED <<ledger, phase>>
      /\ Sound(search[c])
  BY DEF Resolve, Live, At, session, SearchInv
<1>2. /\ DOMAIN s = DOMAIN search[c] /\ s.pc = "found"
      /\ s.seq = search[c].seq /\ s.eligible = search[c].eligible
  BY <1>1 DEF Sound
<1> HIDE DEF s
<1> QED
  BY <1>1, <1>2, ConfirmedKeeps DEF Confirmed

LEMMA FuseKeeps ==
    ASSUME SearchInv, NEW c \in Calls, Fuse(c)
    PROVE  SearchInv'
<1>1. /\ search[c].pc = "found" /\ UNCHANGED <<ledger, phase>>
      /\ Sound(search[c])
      /\ \E order, flawed : Learn(c, [search[c] EXCEPT !.pc = "select", !.queue = order,
                                                       !.flawed = flawed])
  BY DEF Fuse, Live, At, session, SearchInv
<1>2. PICK order, flawed : Learn(c, [search[c] EXCEPT !.pc = "select", !.queue = order,
                                                      !.flawed = flawed])
  BY <1>1
<1> DEFINE s == [search[c] EXCEPT !.pc = "select", !.queue = order, !.flawed = flawed]
<1>3. /\ DOMAIN s = DOMAIN search[c] /\ s.pc = "select"
      /\ s.seq = search[c].seq /\ s.eligible = search[c].eligible
  BY <1>1 DEF Sound
<1>4. Learn(c, s)
  BY <1>2
<1> HIDE DEF s
<1> QED
  BY <1>1, <1>3, <1>4, ConfirmedKeeps DEF Confirmed

\* Whatever a candidate comes to, only what is selected and spent changes.
LEMMA ConsiderKeeps ==
    ASSUME SearchInv, NEW c \in Calls, Consider(c)
    PROVE  SearchInv'
<1>1. search[c].pc = "select" /\ UNCHANGED <<ledger, phase>> /\ Sound(search[c])
  BY DEF Consider, Live, At, session, SearchInv
<1>2. CASE Learn(c, [search[c] EXCEPT !.pc = "resolved", !.verdict = "failed"])
  <2> DEFINE s == [search[c] EXCEPT !.pc = "resolved", !.verdict = "failed"]
  <2>1. /\ DOMAIN s = DOMAIN search[c] /\ s.pc = "resolved"
        /\ s.seq = search[c].seq /\ s.eligible = search[c].eligible
    BY <1>1 DEF Sound
  <2>2. Learn(c, s)
    BY <1>2
  <2> HIDE DEF s
  <2> QED
    BY <1>1, <2>1, <2>2, ConfirmedKeeps DEF Confirmed
<1>3. CASE Learn(c, [search[c] EXCEPT !.queue = Tail(@)])
  <2> DEFINE s == [search[c] EXCEPT !.queue = Tail(@)]
  <2>1. /\ DOMAIN s = DOMAIN search[c] /\ s.pc = "select"
        /\ s.seq = search[c].seq /\ s.eligible = search[c].eligible
    BY <1>1 DEF Sound
  <2>2. Learn(c, s)
    BY <1>3
  <2> HIDE DEF s
  <2> QED
    BY <1>1, <2>1, <2>2, ConfirmedKeeps DEF Confirmed
<1>4. ASSUME NEW t, NEW r, Learn(c, Rendered(search[c], t, r))
      PROVE  SearchInv'
  <2> DEFINE s == Rendered(search[c], t, r)
  <2>1. /\ DOMAIN s = DOMAIN search[c] /\ s.pc = "select"
        /\ s.seq = search[c].seq /\ s.eligible = search[c].eligible
    BY <1>1 DEF Sound, Rendered
  <2>2. Learn(c, s)
    BY <1>4
  <2> HIDE DEF s
  <2> QED
    BY <1>1, <2>1, <2>2, ConfirmedKeeps DEF Confirmed
<1>5. \/ Recheck(c, search[c].queue[1])
      \/ Learn(c, [search[c] EXCEPT !.pc = "resolved", !.verdict = "failed"])
      \/ Learn(c, [search[c] EXCEPT !.queue = Tail(@)])
  BY DEF Consider
<1>6. CASE Recheck(c, search[c].queue[1])
  <2> DEFINE t == search[c].queue[1]
  <2>1. \/ Learn(c, [search[c] EXCEPT !.pc = "resolved", !.verdict = "failed"])
        \/ Learn(c, [search[c] EXCEPT !.queue = Tail(@)])
        \/ \E r : Learn(c, Rendered(search[c], t, r))
    BY <1>6 DEF Recheck
  <2> QED
    BY <1>2, <1>3, <1>4, <2>1
<1> QED
  BY <1>2, <1>3, <1>5, <1>6

LEMMA ConcludeKeeps ==
    ASSUME SearchInv, NEW c \in Calls, Conclude(c)
    PROVE  SearchInv'
<1>1. /\ search[c].pc = "select" /\ UNCHANGED <<ledger, phase>>
      /\ Sound(search[c])
      /\ \E verdict : Learn(c, [search[c] EXCEPT !.pc = "resolved", !.verdict = verdict])
  BY DEF Conclude, Live, At, session, SearchInv
<1>2. PICK verdict : Learn(c, [search[c] EXCEPT !.pc = "resolved", !.verdict = verdict])
  BY <1>1
<1> DEFINE s == [search[c] EXCEPT !.pc = "resolved", !.verdict = verdict]
<1>3. /\ DOMAIN s = DOMAIN search[c] /\ s.pc = "resolved"
      /\ s.seq = search[c].seq /\ s.eligible = search[c].eligible
  BY <1>1 DEF Sound
<1>4. Learn(c, s)
  BY <1>2
<1> HIDE DEF s
<1> QED
  BY <1>1, <1>3, <1>4, ConfirmedKeeps DEF Confirmed

LEMMA DoubtKeeps ==
    ASSUME SearchInv, NEW c \in Calls, Doubt(c)
    PROVE  SearchInv'
<1>1. /\ search[c].pc = "resolved" /\ UNCHANGED <<ledger, phase>>
      /\ Fail(c) \/ Retry(c) \/ Goto(c, "fresh")
  BY DEF Doubt, Live, At, session, Authority
<1> QED
  BY <1>1, FailEnds, EndsKeeps, RetryKeeps, GotoKeeps DEF Confirmed, Resting

LEMMA RereadKeeps ==
    ASSUME SearchInv, NEW c \in Calls, Reread(c)
    PROVE  SearchInv'
<1> DEFINE s == [search[c] EXCEPT !.pc = "confirm", !.now = taken]
<1>1. /\ search[c].pc = "fresh" /\ Sound(search[c])
      /\ \/ Learn(c, s) /\ UNCHANGED <<ledger, phase>>
         \/ MayFault(c)
  BY DEF Reread, Live, At, session, SearchInv
<1>2. /\ DOMAIN s = DOMAIN search[c] /\ s.pc = "confirm"
      /\ s.seq = search[c].seq /\ s.eligible = search[c].eligible
  BY <1>1 DEF Sound
<1> HIDE DEF s
<1> QED
  BY <1>1, <1>2, MayFaultEnds, EndsKeeps, ConfirmedKeeps DEF Confirmed

LEMMA ConfirmKeeps ==
    ASSUME SearchInv, NEW c \in Calls, Confirm(c)
    PROVE  SearchInv'
<1>1. /\ search[c].pc = "confirm" /\ UNCHANGED <<ledger, phase>>
      /\ Fail(c) \/ Retry(c) \/ Miss(c) \/ Goto(c, "commit")
  BY DEF Confirm, At, session, Authority, Verdict
<1> QED
  BY <1>1, FailEnds, AnswerEnds, EndsKeeps, RetryKeeps, GotoKeeps DEF Miss, Confirmed, Resting

LEMMA CommitKeeps ==
    ASSUME SearchInv, NEW c \in Calls, Commit(c)
    PROVE  SearchInv'
<1>1. /\ search[c].pc = "commit" /\ UNCHANGED <<ledger, phase>>
      /\ Fail(c) \/ Retry(c) \/ Serve(c)
  BY DEF Commit, At, session, Authority
<1> QED
  BY <1>1, FailEnds, AnswerEnds, EndsKeeps, RetryKeeps DEF Serve, Resting

-----------------------------------------------------------------------------
(* Every step.                                                             *)

LEMMA SearchKeeps ==
    ASSUME SearchInv, NEW c \in Calls, Search(c)
    PROVE  SearchInv'
BY EntryKeeps, AbandonKeeps, CaptureBeginsKeeps, ReadBeforeKeeps, ReadRowsKeeps,
   FilterKeeps, ReadAfterKeeps, RelockKeeps, ResolveKeeps, FuseKeeps, ConsiderKeeps,
   ConcludeKeeps, DoubtKeeps, RereadKeeps, ConfirmKeeps, CommitKeeps DEF Search

LEMMA ChannelKeeps ==
    ASSUME SearchInv, NEW c \in Calls, NEW channel \in Channels, Channel(c, channel)
    PROVE  SearchInv'
<1>1. Still
  BY DEF Channel, ReadChannel, ChannelFails, Report, session, Still
<1> QED
  BY <1>1, StillKeeps

LEMMA SearchInvInit ==
    Init => SearchInv
<1> SUFFICES ASSUME Init PROVE SearchInv
  OBVIOUS
<1>1. ledger \in Seq(Events)
  BY EmptySeq DEF Init
<1>2. Counted
  BY DEF Init, Counted, Idle, Resting
<1>3. \A c \in Calls : Sound(search[c])
  BY DEF Init, Sound, Idle, Captured, Confirmed
<1> QED
  BY <1>1, <1>2, <1>3 DEF SearchInv

LEMMA SearchInvNext ==
    SearchInv /\ [Next]_vars => SearchInv'
<1> SUFFICES ASSUME SearchInv, [Next]_vars PROVE SearchInv'
  OBVIOUS
<1>1. CASE UNCHANGED vars
  BY <1>1, StillKeeps DEF vars, Still
<1>2. ASSUME NEW e \in Events, Record(e)
      PROVE  SearchInv'
  BY <1>2, RecordKeeps
<1>3. CASE FailStop \/ TakeEvent \/ TakeFails
  BY <1>3, StillKeeps DEF FailStop, TakeEvent, TakeFails, calls, Still
<1>4. CASE CloseCancels \/ Close
  BY <1>4, PhaseKeeps
<1>5. ASSUME NEW c \in Calls,
             Begin(c) \/ Search(c) \/ CallerCancels(c) \/ LifecycleEnds(c)
      PROVE  SearchInv'
  BY <1>5, BeginKeeps, SearchKeeps, EndKeeps
<1>6. ASSUME NEW c \in Calls, NEW dense, Embedded(c, dense)
      PROVE  SearchInv'
  BY <1>6, EmbeddedKeeps
<1>7. ASSUME NEW c \in Calls, NEW channel \in Channels, Channel(c, channel)
      PROVE  SearchInv'
  BY <1>7, ChannelKeeps
<1> QED
  BY <1>1, <1>2, <1>3, <1>4, <1>5, <1>6, <1>7 DEF Next

LEMMA SearchInvAlways ==
    Spec => []SearchInv
BY SearchInvInit, SearchInvNext, PTL DEF Spec

(* Close does not close the ledger, the artifacts or the index under a     *)
(* search: semanticWG counts exactly the calls under way, and Close waits  *)
(* for it after the flag that lets no more of them in.                     *)
THEOREM SearchesKeepTheirStores ==
    Spec => []StoresOutliveSearches
<1>1. SearchInv => StoresOutliveSearches
  BY DEF SearchInv, Counted, Resting, StoresOutliveSearches
<1> QED
  BY <1>1, SearchInvAlways, PTL

(* What captureSemanticAttempt puts together from three reads of the index *)
(* and unlocked questions to coherence is exactly the eligible pages, for  *)
(* as long as nothing has been appended since it began.                    *)
THEOREM UniversesAreExact ==
    Spec => []UniverseExact
<1>1. SearchInv => UniverseExact
  BY DEF SearchInv, Sound, Exact, Asked, Captured, Confirmed, UniverseExact
<1> QED
  BY <1>1, SearchInvAlways, PTL

-----------------------------------------------------------------------------
(* The evidence of a page: what its records use of the budget.             *)

\* A set of numbers that is not empty has a least member.
LEMMA LeastOf ==
    ASSUME NEW S \in SUBSET Nat, S # {}
    PROVE  \E n \in S : \A m \in 0..n - 1 : m \notin S
<1> DEFINE less == {w \in Nat \X Nat : w[1] < w[2]}
<1>1. IsWellFoundedOn(less, Nat)
  BY NatLessThanWellFounded DEF OpToRel
<1>2. PICK n \in S : \A m \in S : ~(<<m, n>> \in less)
  <2> HIDE DEF less
  <2> QED
    BY <1>1, WFMin
<1>3. ASSUME NEW m \in 0..n - 1, m \in S
      PROVE  FALSE
  <2>1. m \in Nat /\ n \in Nat /\ m < n
    BY <1>3
  <2>2. <<m, n>> \in less
    BY <2>1
  <2> QED
    BY <1>2, <1>3, <2>2
<1> QED
  BY <1>3

\* What is left, shared among the records that are left: one share can be taken
\* and two words each remain, where there were two words each.
LEMMA ShareIs ==
    ASSUME NEW a \in Nat, NEW n \in Nat \ {0}
    PROVE  /\ a \div n \in Nat /\ a \div n <= a
           /\ 2 * n <= a => 2 <= a \div n /\ 2 * (n - 1) <= a - a \div n
<1> DEFINE q == a \div n
<1>1. q \in Int /\ q * n <= a /\ a < (q + 1) * n
  BY Z3
<1> HIDE DEF q
<1>2. q \in Nat
  <2>1. CASE q <= -1
    <3>1. (q + 1) * n <= 0
      BY <1>1, <2>1, Z3
    <3> QED
      BY <1>1, <3>1
  <2> QED
    BY <1>1, <2>1
<1>3. q * n = q * (n - 1) + q /\ 0 <= q * (n - 1)
  BY <1>2, Z3
<1>4. q <= a
  BY <1>1, <1>2, <1>3, Z3
<1>5. ASSUME 2 * n <= a
      PROVE  2 <= q /\ 2 * (n - 1) <= a - q
  <2>1. CASE q <= 1
    <3>1. (q + 1) * n <= 2 * n
      BY <1>2, <2>1, Z3
    <3> QED
      BY <1>1, <1>2, <1>5, <3>1, Z3
  <2>2. CASE 2 <= q
    <3>1. 2 * (n - 1) <= q * (n - 1)
      BY <1>2, <2>2, Z3
    <3> QED
      BY <1>1, <1>2, <1>3, <2>2, <3>1, Z3
  <2> QED
    BY <1>2, <2>1, <2>2
<1> QED
  BY <1>2, <1>4, <1>5 DEF q

Reading == [fits : BOOLEAN, left : Nat, used : Nat, tokens : Nat, available : Nat]

LEMMA MaxIs ==
    ASSUME NEW a \in Int, NEW b \in Int
    PROVE  Max({a, b}) \in {a, b} /\ a <= Max({a, b}) /\ b <= Max({a, b})
<1>1. \E x \in {a, b} : \A y \in {a, b} : x >= y
  BY DEF Max
<1> QED
  BY <1>1 DEF Max

LEMMA MinIs ==
    ASSUME NEW a \in Int, NEW b \in Int
    PROVE  Min({a, b}) \in {a, b} /\ Min({a, b}) <= a /\ Min({a, b}) <= b
<1>1. \E x \in {a, b} : \A y \in {a, b} : x =< y
  OBVIOUS
<1> QED
  BY <1>1 DEF Min

\* Between two records: what is used and what is available make up the room, every
\* record took a word at least, and two words each remain where there were.
Afoot(acc, n, i, room) ==
    /\ acc \in Reading
    /\ acc.fits => /\ acc.left = n - i /\ acc.used + acc.available = room
                   /\ acc.available <= acc.tokens /\ i <= acc.used
Ample(acc) == acc.fits /\ 2 * acc.left <= acc.available

LEMMA ReadRecordIs ==
    ASSUME NEW n \in Nat, NEW i \in Nat, i < n, NEW room \in Nat, NEW words \in Nat \ {0},
           NEW acc, Afoot(acc, n, i, room)
    PROVE  /\ Afoot(ReadRecord(acc, words), n, i + 1, room)
           /\ Ample(acc) => Ample(ReadRecord(acc, words))
<1> DEFINE share == acc.available \div acc.left
           request == IF share > 1 THEN share - 1 ELSE share
           body == Cut(words, request)
           r == ReadRecord(acc, words)
<1>1. /\ acc.left \in Nat /\ acc.used \in Nat /\ acc.tokens \in Nat /\ acc.available \in Nat
      /\ acc \in Reading
  BY DEF Afoot, Reading
<1>2. CASE ~acc.fits
  <2>1. r = [acc EXCEPT !.fits = FALSE]
    BY <1>2 DEF ReadRecord
  <2> QED
    BY <1>1, <1>2, <2>1 DEF Afoot, Ample, Reading
<1>3. CASE acc.fits
  <2>1. acc.left = n - i /\ acc.left \in Nat \ {0}
    BY <1>1, <1>3 DEF Afoot
  <2>2. share \in Nat /\ share <= acc.available
    BY <1>1, <2>1, ShareIs
  <2>3. Ample(acc) => 2 <= share /\ 2 * (acc.left - 1) <= acc.available - share
    BY <1>1, <2>1, ShareIs DEF Ample
  <2>4. r = IF share <= 0 THEN [acc EXCEPT !.fits = FALSE]
            ELSE IF body > acc.available
            THEN [acc EXCEPT !.fits = FALSE, !.tokens = Max({0, acc.tokens - body})]
            ELSE [fits |-> TRUE, left |-> acc.left - 1, used |-> acc.used + body,
                  tokens |-> acc.tokens - body, available |-> acc.available - body]
    BY <1>3 DEF ReadRecord
  <2> HIDE DEF share, r
  <2>5. CASE share <= 0
    <3>1. r = [acc EXCEPT !.fits = FALSE]
      BY <2>4, <2>5, Zenon
    <3>2. ~Ample(acc)
      BY <2>2, <2>3, <2>5
    <3>3. Afoot(r, n, i + 1, room)
      BY <1>1, <3>1 DEF Afoot, Reading
    <3> QED
      BY <3>2, <3>3 DEF r
  <2>6. CASE share > 0
    <3>1. body \in Nat \ {0} /\ (2 <= share => body <= share)
      BY <2>2, <2>6 DEF Cut
    <3> HIDE DEF body
    <3>2. CASE body > acc.available
      <4>1. Max({0, acc.tokens - body}) \in Nat
        <5> DEFINE rest == acc.tokens - body
        <5>1. rest \in Int /\ 0 \in Int
          BY <1>1, <3>1
        <5> HIDE DEF rest
        <5>2. Max({0, rest}) \in {0, rest} /\ 0 <= Max({0, rest})
          BY <5>1, MaxIs
        <5> QED
          BY <5>1, <5>2 DEF rest
      <4>2. r = [acc EXCEPT !.fits = FALSE, !.tokens = Max({0, acc.tokens - body})]
        <5>1. ~(share <= 0)
          BY <2>2, <2>6
        <5> QED
          BY <2>4, <3>2, <5>1, Zenon
      <4>3. Afoot(r, n, i + 1, room)
        BY <1>1, <4>1, <4>2 DEF Afoot, Reading
      <4> QED
        BY <2>2, <2>3, <3>1, <3>2, <4>3, <1>1 DEF r
    <3>3. CASE body <= acc.available
      <4>1. r = [fits |-> TRUE, left |-> acc.left - 1, used |-> acc.used + body,
                 tokens |-> acc.tokens - body, available |-> acc.available - body]
        <5>1. ~(share <= 0) /\ ~(body > acc.available)
          BY <1>1, <2>2, <2>6, <3>1, <3>3
        <5> QED
          BY <2>4, <5>1, Zenon
      <4>2. acc.available <= acc.tokens /\ i <= acc.used /\ acc.used + acc.available = room
        BY <1>3 DEF Afoot
      <4>3. Afoot(r, n, i + 1, room)
        BY <1>1, <2>1, <3>1, <3>3, <4>1, <4>2 DEF Afoot, Reading
      <4>4. Ample(acc) => Ample(r)
        BY <1>1, <2>1, <2>2, <2>3, <3>1, <4>1 DEF Ample
      <4> QED
        BY <4>3, <4>4 DEF r
    <3> QED
      BY <1>1, <3>1, <3>2, <3>3
  <2> QED
    BY <2>2, <2>5, <2>6 DEF r
<1> QED
  BY <1>1, <1>2, <1>3 DEF Reading

\* Of a function given record by record.
LEMMA RecordByRecord ==
    ASSUME NEW words \in Seq(Nat \ {0}), NEW first, NEW room \in Nat,
           Afoot(first, Len(words), 0, room)
    PROVE  LET n == Len(words)
               f[i \in 0..n] == IF i = 0 THEN first ELSE ReadRecord(f[i - 1], words[i])
           IN /\ Afoot(f[n], n, n, room)
              /\ Ample(first) => Ample(f[n])
              /\ words = <<>> => f[n] = first
<1> DEFINE n == Len(words)
           Steps(g, m) == \A i \in 0..m : g[i] = IF i = 0 THEN first
                                                 ELSE ReadRecord(g[i - 1], words[i])
           Has(m) == \E g : g = [i \in 0..m |-> g[i]] /\ Steps(g, m)
           f == CHOOSE g : g = [i \in 0..n |-> IF i = 0 THEN first
                                               ELSE ReadRecord(g[i - 1], words[i])]
<1>1. n \in Nat
  BY LenProperties
<1>2. \A m \in Nat : Has(m)
  <2> DEFINE Bad == {m \in Nat : ~Has(m)}
  <2> SUFFICES ASSUME Bad # {} PROVE FALSE
    OBVIOUS
  <2>1. PICK m \in Bad : \A k \in 0..m - 1 : k \notin Bad
    <3>1. Bad \in SUBSET Nat
      OBVIOUS
    <3> HIDE DEF Bad
    <3> QED
      BY <3>1, LeastOf
  <2>2. CASE m = 0
    <3> DEFINE g == [i \in 0..0 |-> first]
    <3>1. g = [i \in 0..m |-> g[i]] /\ Steps(g, m)
      BY <2>2
    <3> QED
      BY <2>1, <3>1
  <2>3. CASE m # 0
    <3>1. m \in Nat /\ m - 1 \in Nat /\ m - 1 \in 0..m - 1
      BY <2>3
    <3>2. Has(m - 1)
      <4> HIDE DEF Has
      <4> QED
        BY <2>1, <3>1
    <3>3. PICK g : g = [i \in 0..m - 1 |-> g[i]] /\ Steps(g, m - 1)
      BY <3>2
    <3> DEFINE h == [i \in 0..m |-> IF i = m THEN ReadRecord(g[m - 1], words[m]) ELSE g[i]]
    <3>4. h = [i \in 0..m |-> h[i]]
      OBVIOUS
    <3>5. Steps(h, m)
      <4> SUFFICES ASSUME NEW i \in 0..m
                   PROVE  h[i] = IF i = 0 THEN first ELSE ReadRecord(h[i - 1], words[i])
        OBVIOUS
      <4>1. CASE i = m
        <5>1. m - 1 \in 0..m /\ m - 1 # m
          BY <3>1
        <5>2. h[m - 1] = g[m - 1] /\ h[m] = ReadRecord(g[m - 1], words[m])
          BY <3>1, <5>1
        <5> QED
          BY <2>3, <4>1, <5>2
      <4>2. CASE i # m
        <5>1. i \in 0..m - 1 /\ (i # 0 => i - 1 \in 0..m /\ i - 1 # m)
          BY <3>1, <4>2
        <5>2. h[i] = g[i] /\ (i # 0 => h[i - 1] = g[i - 1])
          BY <4>2, <5>1
        <5> QED
          BY <3>3, <5>1, <5>2
      <4> QED
        BY <4>1, <4>2
    <3> HIDE DEF h, Steps
    <3>6. Has(m)
      BY <3>4, <3>5
    <3> QED
      BY <2>1, <3>6
  <2> QED
    BY <2>2, <2>3
<1>3. PICK g : g = [i \in 0..n |-> g[i]] /\ Steps(g, n)
  BY <1>1, <1>2
<1>4. g = [i \in 0..n |-> IF i = 0 THEN first ELSE ReadRecord(g[i - 1], words[i])]
  BY <1>3
<1>5. f = [i \in 0..n |-> IF i = 0 THEN first ELSE ReadRecord(f[i - 1], words[i])]
  BY <1>4
<1> HIDE DEF f
<1> DEFINE Fine(i) == Afoot(f[i], n, i, room) /\ (Ample(first) => Ample(f[i]))
<1>6. \A i \in 0..n : Fine(i)
  <2> DEFINE Bad == {i \in 0..n : ~Fine(i)}
  <2> SUFFICES ASSUME Bad # {} PROVE FALSE
    OBVIOUS
  <2>1. PICK i \in Bad : \A k \in 0..i - 1 : k \notin Bad
    <3>1. Bad \in SUBSET Nat
      BY <1>1
    <3> HIDE DEF Bad
    <3> QED
      BY <3>1, LeastOf
  <2>2. i \in 0..n /\ ~Fine(i)
    BY <2>1
  <2>3. CASE i = 0
    <3>1. f[0] = first
      BY <1>1, <1>5
    <3> QED
      BY <2>2, <2>3, <3>1
  <2>4. CASE i # 0
    <3>1. i - 1 \in Nat /\ i - 1 < n /\ i - 1 \in 0..i - 1 /\ i - 1 \in 0..n /\ i - 1 + 1 = i
      BY <1>1, <2>2, <2>4
    <3>2. Fine(i - 1)
      BY <2>1, <3>1
    <3>3. f[i] = ReadRecord(f[i - 1], words[i]) /\ words[i] \in Nat \ {0}
      BY <1>1, <1>5, <2>2, <2>4, ElementOfSeq
    <3> HIDE DEF n
    <3>4. Fine(i)
      BY <1>1, <3>1, <3>2, <3>3, ReadRecordIs
    <3> QED
      BY <2>2, <3>4
  <2> QED
    BY <2>3, <2>4
<1>7. Fine(n)
  BY <1>1, <1>6
<1>8. words = <<>> => f[n] = first
  BY <1>1, <1>5
<1> QED
  BY <1>7, <1>8 DEF f

\* What is rendered of a page: within the budget, a word at least, and surely all
\* of a page that is roomy, with a full budget.
LEMMA RenderIs ==
    ASSUME NEW p \in Pages, NEW tokens \in Nat, NEW spent \in 0..Budget
    PROVE  LET r == Render(p, tokens, spent)
           IN /\ r.tokens \in Nat /\ r.fits \in BOOLEAN
              /\ r.fits => r.used \in 1..Budget - spent
              /\ p \in Roomy /\ tokens = Budget /\ spent = 0 => r.fits
<1> DEFINE words == Records[p]
           n == Len(words)
           room == Min({tokens, Budget - spent})
           first == [fits |-> tokens > 0 /\ words # <<>>, left |-> n, used |-> 0,
                     tokens |-> tokens, available |-> room]
           r == Render(p, tokens, spent)
<1>1. words \in Seq(Nat \ {0}) /\ n \in Nat /\ (words = <<>> <=> n = 0)
  BY PagesAssumption
<1>2. /\ room \in Nat /\ room <= tokens /\ room <= Budget - spent
      /\ tokens = Budget /\ spent = 0 => room = Budget
  <2> DEFINE rest == Budget - spent
  <2>1. rest \in Int /\ tokens \in Int /\ rest >= 0 /\ tokens >= 0
    BY BoundsAssumption
  <2>2. tokens = Budget /\ spent = 0 => rest = tokens /\ tokens = Budget
    BY BoundsAssumption
  <2> HIDE DEF rest
  <2>3. room \in {tokens, rest} /\ room <= tokens /\ room <= rest
    BY <2>1, MinIs DEF rest
  <2>4. room \in Nat
    BY <2>1, <2>3
  <2> QED
    BY <2>2, <2>3, <2>4 DEF rest
<1> HIDE DEF room
<1>3. first \in Reading /\ Afoot(first, n, 0, room)
  BY <1>1, <1>2 DEF Afoot, Reading
<1>4. p \in Roomy /\ tokens = Budget /\ spent = 0 => Ample(first)
  <2> HAVE p \in Roomy /\ tokens = Budget /\ spent = 0
  <2>1. words # <<>> /\ 2 * n <= Budget /\ tokens > 0 /\ room = Budget
    BY <1>1, <1>2, BoundsAssumption DEF Roomy
  <2>2. first.fits /\ first.left = n /\ first.available = Budget
    BY <2>1
  <2> HIDE DEF first
  <2> QED
    BY <2>1, <2>2 DEF Ample
<1>5. /\ Afoot(r, n, n, room) /\ (Ample(first) => Ample(r))
      /\ words = <<>> => r = first
  <2> DEFINE f[i \in 0..n] == IF i = 0 THEN first ELSE ReadRecord(f[i - 1], words[i])
  <2>1. r = f[n]
    BY DEF Render, room
  <2> HIDE DEF r
  <2> HIDE DEF first, words
  <2>2. /\ Afoot(f[n], n, n, room) /\ (Ample(first) => Ample(f[n]))
        /\ words = <<>> => f[n] = first
    BY <1>1, <1>2, <1>3, RecordByRecord
  <2> QED
    BY <2>1, <2>2
<1>6. words = <<>> => ~first.fits
  OBVIOUS
<1> HIDE DEF r, first, words
<1>7. r.fits => n # 0
  BY <1>1, <1>5, <1>6
<1>8. r.tokens \in Nat /\ r.fits \in BOOLEAN /\ r.used \in Nat /\ r.available \in Nat
  BY <1>5 DEF Afoot, Reading
<1>9. r.fits => r.used \in 1..Budget - spent
  <2> HAVE r.fits
  <2>1. n <= r.used /\ n # 0 /\ r.used + r.available = room
    BY <1>5, <1>7 DEF Afoot
  <2> QED
    BY <1>1, <1>2, <1>8, <2>1, BoundsAssumption
<1>10. p \in Roomy /\ tokens = Budget /\ spent = 0 => r.fits
  BY <1>4, <1>5 DEF Ample
<1> QED
  BY <1>8, <1>9, <1>10 DEF r

-----------------------------------------------------------------------------
(* Versions and rankings.                                                  *)

\* A set of numbers with an upper bound has a greatest member.
LEMMA GreatestOf ==
    ASSUME NEW n \in Nat, NEW S \in SUBSET (0..n), S # {}
    PROVE  Max(S) \in S /\ \A m \in S : m <= Max(S)
<1> DEFINE U == {u \in Nat : \A m \in S : m <= u}
<1>1. n \in U /\ U \in SUBSET Nat
  OBVIOUS
<1>2. PICK u \in U : \A m \in 0..u - 1 : m \notin U
  <2> HIDE DEF U
  <2> QED
    BY <1>1, LeastOf
<1>3. u \in S
  <2> SUFFICES ASSUME u \notin S PROVE FALSE
    OBVIOUS
  <2>1. PICK m : m \in S
    OBVIOUS
  <2>2. u \in Nat /\ u # 0
    <3>1. m \in Nat /\ m <= u /\ m # u
      BY <1>2, <2>1
    <3> QED
      BY <1>2, <3>1
  <2>3. u - 1 \in U /\ u - 1 \in 0..u - 1
    BY <1>2, <2>2
  <2> QED
    BY <1>2, <2>3
<1>4. \E x \in S : \A y \in S : x >= y
  BY <1>2, <1>3
<1>5. Max(S) \in S /\ \A y \in S : Max(S) >= y
  BY <1>4 DEF Max
<1> QED
  BY <1>5

\* A version is one of the events, or none.
LEMMA RowIs ==
    ASSUME NEW n \in Nat, NEW p
    PROVE  Row(p, n) \in 0..n
<1> DEFINE S == {i \in 1..n : p \in ledger[i].compiles} \union {0}
<1>1. S \in SUBSET (0..n) /\ S # {}
  OBVIOUS
<1>2. Row(p, n) = Max(S)
  BY DEF Row
<1> HIDE DEF S
<1> QED
  BY <1>1, <1>2, GreatestOf

\* A ranking of a finite set is all of it.
LEMMA RankingsCover ==
    ASSUME NEW S, IsFiniteSet(S), NEW order \in Rankings(S)
    PROVE  order \in Seq(S) /\ Range(order) = S
<1> DEFINE D == 1..Cardinality(S)
<1>1. Cardinality(S) \in Nat
  BY FS_CardinalityType
<1>2. /\ order \in [D -> S]
      /\ \A i, j \in D : i # j => order[i] # order[j]
  BY DEF Rankings, SetToSeqs
<1>3. IsFiniteSet(D) /\ Cardinality(D) = Cardinality(S)
  BY <1>1, FS_Interval
<1>4. order \in Injection(D, S)
  BY <1>2 DEF Injection, IsInjective
<1>5. order \in Surjection(D, S)
  BY <1>3, <1>4, FS_Injection
<1>6. order \in Seq(S)
  BY <1>1, <1>2
<1>7. Range(order) = S
  BY <1>2, <1>5 DEF Range, Surjection
<1> QED
  BY <1>6, <1>7

-----------------------------------------------------------------------------
(* What a call knows.                                                      *)

\* Where it has begun no attempt, where its attempt has selected nothing, and
\* where it selects.
Blank     == {"idle", "entry", "embed", "capture"}
Entered   == {"before", "rows", "filter", "after", "relock", "resolve", "found"}
Selecting == {"select", "resolved", "fresh", "confirm", "commit"}

\* The tuples a channel may find, and those the words of the query surely find.
Relevant(s) == {t \in s.eligible : t[1] \in Matches \union Near}
Findable == {<<p, Corpus[p]>> : p \in {q \in Matches : Corpus[q] # 0}}

\* Each channel that is done has read what the attempt was confirmed against.
Reported(s, r) ==
    /\ \A channel \in Channels :
          /\ r[channel].state = "running" => r[channel].eligible = s.eligible
          /\ r[channel].state = "done" => r[channel].seq = LastSeq
    /\ r["fts"].state = "done" => r["fts"].tuples = {t \in s.eligible : t[1] \in Matches}
    /\ r["dense"].state = "done" =>
          r["dense"].tuples \subseteq {t \in s.eligible : t[1] \in Near}

\* Evidence that may be served together; with none chosen and nothing gone wrong,
\* all that has to be found is still to come, and so is the whole budget.
Evidence(s) ==
    /\ s.queue \in Seq(Relevant(s))
    /\ s.chosen \subseteq {t \in Relevant(s) : Intact(t[1], t[2])}
    /\ {t[1] : t \in s.chosen} \in Harmonious
    /\ s.tokens \in Nat
    /\ IF s.chosen = {} THEN s.spent = 0 ELSE s.spent \in 1..Budget
    /\ Roomy = Pages /\ s.chosen = {} /\ ~s.flawed =>
          s.tokens = Budget /\ Findable \subseteq Range(s.queue)

Decided(s) ==
    /\ s.pc # "select" =>
         /\ s.verdict = "selected" => s.chosen # {}
         /\ s.verdict = "miss" => s.chosen = {} /\ s.queue = <<>> /\ ~s.flawed
         /\ s.verdict \in {"failed", "selected", "miss"}
    /\ s.pc = "commit" => s.verdict = "selected"

Knows(s, r) ==
    /\ DOMAIN s = DOMAIN Idle
    /\ s.pc \in Blank \union Entered => s.spent = 0 /\ s.chosen = {}
    /\ s.pc \in Entered => s.tokens = Budget
    /\ s.pc = "relock" => s.after \in 0..taken
    /\ s.pc \in Confirmed /\ s.seq = LastSeq =>
         /\ taken = LastSeq
         /\ s.pc = "found" => Reported(s, r)
         /\ s.pc \in Selecting => Evidence(s) /\ Decided(s)

\* The attempts so far, none of a call that has not begun.
Tries(s) ==
    /\ s.attempt \in 0..(Attempts - 1)
    /\ s.pc = "idle" => s.attempt = 0

\* What every call knows, with what its channels have, and that none has answered
\* before it is done.
AnswerInv ==
    /\ taken \in 0..LastSeq
    /\ DOMAIN reads = Calls /\ DOMAIN answers = Calls
    /\ \A c \in Calls :
          /\ DOMAIN reads[c] = Channels
          /\ Knows(search[c], reads[c])
          /\ Tries(search[c])
          /\ search[c].pc # "done" => answers[c] = Atomic!Unanswered

-----------------------------------------------------------------------------
(* How a step moves it.                                                    *)

\* Nothing that can be served changes, and no answer.
Quiet == UNCHANGED <<ledger, taken, answers>>

\* A call and its channels go on with s and r.
Moves(c, s, r) ==
    /\ Quiet
    /\ DOMAIN reads' = Calls
    /\ search'[c] = s /\ reads'[c] = r
    /\ \A d \in Calls \ {c} : search'[d] = search[d] /\ reads'[d] = reads[d]
    /\ s.pc # "done" => search[c].pc # "done"
    /\ DOMAIN r = Channels

\* Still in the same attempt, or still in none.
SameLook(c, s) ==
    /\ s.attempt = search[c].attempt
    /\ s.pc = "idle" => search[c].pc = "idle"
    /\ Looked(s) = Looked(search[c])

\* An event has overtaken every attempt.
Exhausted(c) == Atomic!Disturbed(c) /\ search[c].attempt + 1 = Attempts

\* What a call may return now.
Returnable(c, answer) ==
    \/ answer = Atomic!Failed
    \/ answer = Atomic!Abstained /\ Exhausted(c)
    \/ /\ answer = Atomic!Missed
       /\ LastSeq = 0 \/ Looked(search[c]) = {LastSeq}
       /\ (Roomy = Pages => \A p \in Matches : Corpus[p] = 0)
    \/ \E found \in Harmonious \ {{}}, tokens \in 1..Budget :
          /\ found \subseteq Matches \union Near
          /\ \A p \in found : Corpus[p] # 0
          /\ answer = Atomic!Served({<<p, Corpus[p]>> : p \in found}, tokens)
          /\ Looked(search[c]) = {LastSeq}

Returns(c, answer) ==
    /\ UNCHANGED <<ledger, taken>>
    /\ Answer(c, answer)
    /\ search[c].pc # "done"

\* The abstract search sees each step as one of its own, or does not see it.
Seen == Atomic!Next \/ UNCHANGED <<Corpus, LastSeq, View, Overtaken, answers>>

LEMMA QuietKeeps ==
    ASSUME ledger' = ledger, taken' = taken
    PROVE  /\ Corpus' = Corpus /\ LastSeq' = LastSeq
           /\ \A s, r : Knows(s, r)' <=> Knows(s, r)
<1>1. LastSeq' = LastSeq
  BY DEF LastSeq
<1>2. Corpus' = Corpus
  BY <1>1 DEF Corpus, Row, Materializable, Eligible, Intact
<1>3. Findable' = Findable
  BY <1>2 DEF Findable
<1>4. \A p, v : Intact(p, v)' <=> Intact(p, v)
  BY <1>1 DEF Intact
<1>5. \A s, r : Reported(s, r)' <=> Reported(s, r)
  BY <1>1 DEF Reported
<1>6. \A s : Evidence(s)' <=> Evidence(s)
  BY <1>3, <1>4 DEF Evidence
<1>7. \A s, r : Knows(s, r)' <=> Knows(s, r)
  BY <1>1, <1>5, <1>6 DEF Knows
<1> QED
  BY <1>1, <1>2, <1>7

LEMMA MovesInv ==
    ASSUME AnswerInv, NEW c \in Calls, NEW s, NEW r, Moves(c, s, r), Knows(s, r),
           Tries(s)
    PROVE  AnswerInv'
<1>1. /\ LastSeq' = LastSeq /\ UNCHANGED <<taken, answers>>
      /\ \A u, v : Knows(u, v)' <=> Knows(u, v)
  BY QuietKeeps DEF Moves, Quiet
<1>2. ASSUME NEW d \in Calls
      PROVE  /\ DOMAIN reads'[d] = Channels
             /\ Knows(search'[d], reads'[d])
             /\ Tries(search'[d])
             /\ search'[d].pc # "done" => answers'[d] = Atomic!Unanswered
  BY <1>1, <1>2 DEF AnswerInv, Moves
<1>3. \A d \in Calls : Knows(search[d], reads[d])'
  BY <1>1, <1>2
<1> QED
  BY <1>1, <1>2, <1>3 DEF AnswerInv, Moves, Quiet

\* A step within an attempt, or outside of one, is none of the abstract search.
LEMMA MovesKeeps ==
    ASSUME AnswerInv, NEW c \in Calls, NEW s, NEW r, Moves(c, s, r), Knows(s, r),
           SameLook(c, s)
    PROVE  AnswerInv' /\ Seen
<1>1. Tries(s)
  BY DEF AnswerInv, SameLook, Tries
<1>2. AnswerInv'
  BY <1>1, MovesInv
<1>3. Corpus' = Corpus /\ LastSeq' = LastSeq /\ UNCHANGED answers
  BY QuietKeeps DEF Moves, Quiet
<1>4. ASSUME NEW d \in Calls
      PROVE  Looked(search'[d]) = Looked(search[d]) /\ search'[d].attempt = search[d].attempt
  BY DEF Moves, SameLook
<1>5. View' = View /\ Overtaken' = Overtaken
  BY <1>4 DEF View, Overtaken, Looked
<1> QED
  BY <1>2, <1>3, <1>5 DEF Seen

LEMMA ReturnsKeeps ==
    ASSUME AnswerInv, SearchInv, NEW c \in Calls, NEW answer,
           Returns(c, answer), Returnable(c, answer)
    PROVE  AnswerInv' /\ Seen
<1>1. /\ Corpus' = Corpus /\ LastSeq' = LastSeq
      /\ \A u, v : Knows(u, v)' <=> Knows(u, v)
      /\ UNCHANGED <<taken, reads>>
      /\ answers' = [answers EXCEPT ![c] = answer]
  BY QuietKeeps DEF Returns, Answer
<1>2. ASSUME NEW d \in Calls
      PROVE  /\ Knows(search'[d], reads'[d])
             /\ Tries(search'[d])
             /\ search'[d].pc # "done" => answers'[d] = Atomic!Unanswered
  <2> DEFINE done == [Idle EXCEPT !.pc = "done"]
  <2>1. \A r : Knows(done, r)
    BY DEF Knows, Idle, Blank, Entered, Confirmed
  <2>2. search' = [search EXCEPT ![c] = done] /\ done.pc = "done" /\ done.attempt = 0
    BY DEF Returns, Answer, Idle
  <2> HIDE DEF done
  <2>3. search'[d] = IF d = c THEN done ELSE search[d]
    BY <2>2 DEF SearchInv, Counted
  <2>4. d # c => answers'[d] = answers[d]
    BY <1>1 DEF AnswerInv
  <2> QED
    BY <1>1, <2>1, <2>2, <2>3, <2>4, BoundsAssumption DEF AnswerInv, Tries
<1>3. \A d \in Calls : Knows(search[d], reads[d])'
  BY <1>1, <1>2
<1>4. AnswerInv'
  BY <1>1, <1>2, <1>3 DEF AnswerInv
<1>5. /\ View' = [View EXCEPT ![c] = {}]
      /\ Overtaken' = [Overtaken EXCEPT ![c] = 0]
  <2>1. search' = [search EXCEPT ![c] = [Idle EXCEPT !.pc = "done"]]
    BY DEF Returns, Answer
  <2>2. search'[c].pc = "done" /\ search'[c].attempt = 0
    BY <2>1 DEF SearchInv, Counted, Idle
  <2>3. \A d \in Calls : d # c => search'[d] = search[d]
    BY <2>1 DEF SearchInv, Counted
  <2>4. Looked(search'[c]) = {}
    BY <2>2 DEF Looked
  <2>5. View' = [d \in Calls |-> Looked(search'[d])]
    BY DEF View, Looked
  <2>6. Overtaken' = [d \in Calls |-> search'[d].attempt]
    BY DEF Overtaken
  <2> QED
    BY <2>2, <2>3, <2>4, <2>5, <2>6 DEF View, Overtaken
<1>6. Atomic!End(c) /\ Atomic!Return(c, answer)
  BY <1>1, <1>5 DEF AnswerInv, Returns, Atomic!End, Atomic!Return
<1>7. /\ Exhausted(c) => Atomic!Disturbed(c) /\ Overtaken[c] + 1 = Attempts
      /\ View[c] = Looked(search[c])
  BY DEF Exhausted, Overtaken, View
<1>8. Atomic!Next
  BY <1>6, <1>7
     DEF Returnable, Atomic!Next, Atomic!Hit, Atomic!Miss, Atomic!Abstain, Atomic!Fail
<1> QED
  BY <1>4, <1>8 DEF Seen

-----------------------------------------------------------------------------
(* The session around the searches, and an attempt up to its resolution.   *)

\* What may be returned returns.
LEMMA FailReturns ==
    ASSUME NEW c, Fail(c), UNCHANGED <<ledger, taken>>, search[c].pc # "done"
    PROVE  Returns(c, Atomic!Failed) /\ Returnable(c, Atomic!Failed)
BY DEF Fail, Returns, Returnable

LEMMA FailSeen ==
    ASSUME AnswerInv, SearchInv, NEW c \in Calls,
           Fail(c), UNCHANGED <<ledger, taken>>, search[c].pc # "done"
    PROVE  AnswerInv' /\ Seen
BY FailReturns, ReturnsKeeps

LEMMA MayFaultSeen ==
    ASSUME AnswerInv, SearchInv, NEW c \in Calls, MayFault(c), search[c].pc # "done"
    PROVE  AnswerInv' /\ Seen
BY FailSeen DEF MayFault

\* A step that learns moves the call.
LEMMA LearnMoves ==
    ASSUME AnswerInv, SearchInv, NEW c \in Calls, NEW s,
           Learn(c, s), UNCHANGED <<ledger, taken, reads>>,
           s.pc # "done" => search[c].pc # "done"
    PROVE  Moves(c, s, reads[c])
BY DEF Learn, Moves, Quiet, AnswerInv, SearchInv, Counted

LEMMA LearnSeen ==
    ASSUME AnswerInv, SearchInv, NEW c \in Calls, NEW s,
           Learn(c, s), UNCHANGED <<ledger, taken, reads>>,
           s.pc # "done" => search[c].pc # "done", Knows(s, reads[c]), SameLook(c, s)
    PROVE  AnswerInv' /\ Seen
BY LearnMoves, MovesKeeps

LEMMA RetrySeen ==
    ASSUME AnswerInv, SearchInv, NEW c \in Calls,
           Retry(c), UNCHANGED <<ledger, taken>>, search[c].pc # "done",
           Looked(search[c]) \notin {{}, {LastSeq}}
    PROVE  AnswerInv' /\ Seen
<1>1. Atomic!Disturbed(c)
  BY DEF Atomic!Disturbed, View
<1>2. search[c].attempt \in 0..(Attempts - 1)
  BY DEF AnswerInv, Tries
<1>3. CASE search[c].attempt + 1 < Attempts
  <2> DEFINE s == [Idle EXCEPT !.pc = "capture", !.attempt = search[c].attempt + 1,
                               !.dense = search[c].dense]
  <2>1. Learn(c, s) /\ UNCHANGED reads
    BY <1>3 DEF Retry
  <2>2. Knows(s, reads[c])
    BY DEF Knows, Idle, Blank, Entered, Confirmed
  <2>3. s.pc = "capture" /\ s.attempt = search[c].attempt + 1
    BY DEF Idle
  <2> HIDE DEF s
  <2>4. Moves(c, s, reads[c])
    BY <2>1, LearnMoves
  <2>5. Tries(s)
    BY <1>2, <1>3, <2>3, BoundsAssumption DEF Tries
  <2>6. AnswerInv'
    BY <2>2, <2>4, <2>5, MovesInv
  <2>7. Looked(s) = {}
    BY <2>3 DEF Looked
  <2>8. search'[c] = s /\ \A d \in Calls : d # c => search'[d] = search[d]
    BY <2>4 DEF Moves
  <2>9. View' = [View EXCEPT ![c] = {}]
    <3>1. View' = [d \in Calls |-> Looked(search'[d])]
      BY DEF View, Looked
    <3> QED
      BY <2>7, <2>8, <3>1 DEF View
  <2>10. Overtaken' = [Overtaken EXCEPT ![c] = @ + 1]
    <3>1. Overtaken' = [d \in Calls |-> search'[d].attempt]
      BY DEF Overtaken
    <3> QED
      BY <2>3, <2>8, <3>1 DEF Overtaken
  <2>11. Corpus' = Corpus /\ LastSeq' = LastSeq /\ UNCHANGED answers
    BY <2>4, QuietKeeps DEF Moves, Quiet
  <2>12. Overtaken[c] + 1 < Attempts
    BY <1>3 DEF Overtaken
  <2>13. Atomic!StartOver(c)
    BY <1>1, <2>9, <2>10, <2>11, <2>12 DEF Atomic!StartOver
  <2> QED
    BY <2>6, <2>13 DEF Seen, Atomic!Next
<1>4. CASE ~(search[c].attempt + 1 < Attempts)
  <2>1. Fail(c) \/ ScopeMiss(c)
    BY <1>4 DEF Retry
  <2>2. CASE Fail(c)
    BY <2>2, FailSeen
  <2>3. CASE ScopeMiss(c)
    <3>1. Exhausted(c)
      BY <1>1, <1>2, <1>4, BoundsAssumption DEF Exhausted
    <3>2. Returns(c, Atomic!Abstained) /\ Returnable(c, Atomic!Abstained)
      BY <2>3, <3>1 DEF ScopeMiss, Returns, Returnable
    <3> QED
      BY <3>2, ReturnsKeeps
  <2> QED
    BY <2>1, <2>2, <2>3
<1> QED
  BY <1>3, <1>4

\* An attempt that finds another sequence than it captured has been overtaken.
LEMMA OvertakenIs ==
    ASSUME NEW c, search[c].pc \in Captured, search[c].seq # LastSeq
    PROVE  Looked(search[c]) \notin {{}, {LastSeq}}
BY DEF Looked, Captured, Confirmed

-----------------------------------------------------------------------------
\* Steps of the session that searches do not see at once.
LEMMA AloofSeen ==
    ASSUME AnswerInv, UNCHANGED <<ledger, taken, search, reads, answers>>
    PROVE  AnswerInv' /\ Seen
<1>1. /\ Corpus' = Corpus /\ LastSeq' = LastSeq
      /\ \A u, v : Knows(u, v)' <=> Knows(u, v)
  BY QuietKeeps
<1>2. \A d \in Calls : Knows(search[d], reads[d])'
  BY <1>1 DEF AnswerInv
<1>3. View' = View /\ Overtaken' = Overtaken
  BY DEF View, Overtaken, Looked
<1> QED
  BY <1>1, <1>2, <1>3 DEF AnswerInv, Seen

\* An event makes every attempt under way one of an earlier sequence.
LEMMA RecordSeen ==
    ASSUME AnswerInv, SearchInv, NEW e \in Events, Record(e)
    PROVE  AnswerInv' /\ Seen
<1>1. /\ ledger' = Append(ledger, e)
      /\ UNCHANGED <<taken, search, reads, answers>>
  BY DEF Record, calls
<1>2. LastSeq' = LastSeq + 1 /\ LastSeq \in Nat
  BY <1>1, AppendProperties, LastSeqInNat DEF SearchInv, LastSeq
<1>3. ASSUME NEW d \in Calls
      PROVE  Knows(search[d], reads[d])'
  <2>1. Knows(search[d], reads[d]) /\ Sound(search[d]) /\ UNCHANGED <<search, reads>>
    BY <1>1 DEF AnswerInv, SearchInv
  <2>2. search[d].pc \in Confirmed => search[d].seq # LastSeq'
    BY <1>2, <2>1 DEF Sound, Captured
  <2> QED
    BY <1>1, <2>1, <2>2 DEF Knows
<1>4. AnswerInv'
  BY <1>1, <1>2, <1>3 DEF AnswerInv
<1>5. Corpus' \in [Pages -> Nat]
  <2>1. ASSUME NEW p \in Pages
        PROVE  Row(p, LastSeq)' \in Nat
    <3> DEFINE S == {i \in 1..LastSeq' : p \in ledger'[i].compiles} \union {0}
    <3>1. /\ LastSeq' \in Nat /\ S \in SUBSET (0..LastSeq') /\ S # {}
          /\ \A i \in S : i \in Nat
      BY <1>2
    <3>2. Row(p, LastSeq)' = Max(S)
      BY DEF Row
    <3> HIDE DEF S
    <3>3. Max(S) \in S
      BY <3>1, GreatestOf
    <3>4. Max(S) \in Nat
      BY <3>1, <3>3
    <3> QED
      BY <3>2, <3>4
  <2> QED
    BY <2>1 DEF Corpus
<1>6. View' = View /\ Overtaken' = Overtaken
  BY <1>1 DEF View, Overtaken, Looked
<1>7. Atomic!Change
  BY <1>1, <1>2, <1>5, <1>6 DEF Atomic!Change
<1> QED
  BY <1>4, <1>7 DEF Seen, Atomic!Next

\* The index catches up: nothing is found in it that was not to be served before.
LEMMA TakeEventSeen ==
    ASSUME AnswerInv, SearchInv, TakeEvent
    PROVE  AnswerInv' /\ Seen
<1>1. /\ taken' = taken + 1 /\ taken < LastSeq
      /\ UNCHANGED <<ledger, search, reads, answers>>
  BY DEF TakeEvent, calls
<1>2. LastSeq \in Nat /\ taken \in Nat /\ LastSeq' = LastSeq
  BY <1>1, LastSeqInNat DEF AnswerInv, SearchInv, LastSeq
<1>3. ASSUME NEW d \in Calls
      PROVE  Knows(search[d], reads[d])'
  <2>1. Knows(search[d], reads[d]) /\ UNCHANGED <<search, reads>>
    BY <1>1 DEF AnswerInv
  <2>2. search[d].pc \in Confirmed => search[d].seq # LastSeq'
    BY <1>1, <1>2, <2>1 DEF Knows
  <2>3. search[d].pc = "relock" => search[d].after \in 0..taken'
    BY <1>1, <1>2, <2>1 DEF Knows
  <2> QED
    BY <2>1, <2>2, <2>3 DEF Knows
<1>4. AnswerInv'
  BY <1>1, <1>2, <1>3 DEF AnswerInv
<1>5. Corpus' = Corpus
  BY <1>1, <1>2 DEF Corpus, Row, Materializable, Eligible, Intact
<1>6. View' = View /\ Overtaken' = Overtaken
  BY <1>1 DEF View, Overtaken, Looked
<1> QED
  BY <1>1, <1>2, <1>4, <1>5, <1>6 DEF Seen

LEMMA BeginSeen ==
    ASSUME AnswerInv, SearchInv, NEW c \in Calls, Begin(c)
    PROVE  AnswerInv' /\ Seen
<1>1. search[c].pc = "idle" /\ UNCHANGED <<ledger, taken>>
  BY DEF Begin, At, session
<1>2. CASE Usable /\ phase = "open"
  <2> DEFINE s == [Idle EXCEPT !.pc = "entry"]
  <2>1. /\ search' = [search EXCEPT ![c] = s]
        /\ UNCHANGED <<reads, answers>>
    BY <1>2 DEF Begin
  <2>2. Knows(s, reads[c]) /\ s.pc = "entry" /\ s.attempt = 0
    BY DEF Knows, Idle, Blank, Entered, Confirmed
  <2> HIDE DEF s
  <2>3. Moves(c, s, reads[c])
    BY <1>1, <2>1, <2>2 DEF Moves, Quiet, AnswerInv, SearchInv, Counted
  <2>4. SameLook(c, s)
    BY <1>1, <2>2 DEF SameLook, Looked, AnswerInv, Tries
  <2> QED
    BY <2>2, <2>3, <2>4, MovesKeeps
<1>3. CASE ~(Usable /\ phase = "open")
  BY <1>1, <1>3, FailSeen DEF Begin
<1> QED
  BY <1>2, <1>3

-----------------------------------------------------------------------------
\* With no event there is nothing to be found.
LEMMA EntrySeen ==
    ASSUME AnswerInv, SearchInv, NEW c \in Calls, Entry(c)
    PROVE  AnswerInv' /\ Seen
<1>1. /\ search[c].pc = "entry" /\ UNCHANGED <<ledger, taken>>
      /\ \/ Fail(c)
         \/ Miss(c) /\ LastSeq = 0
         \/ Goto(c, "embed")
  BY DEF Entry, At, session
<1>2. CASE Fail(c)
  BY <1>1, <1>2, FailSeen
<1>3. CASE Miss(c) /\ LastSeq = 0
  <2>1. ASSUME NEW p \in Pages
        PROVE  Corpus[p] = 0
    <3>1. LastSeq \in Nat /\ LastSeq = 0
      BY <1>3
    <3>2. Row(p, LastSeq) \in 0..LastSeq
      BY <3>1, RowIs
    <3> QED
      BY <3>1, <3>2 DEF Corpus
  <2>2. Returnable(c, Atomic!Missed)
    BY <1>3, <2>1, PagesAssumption DEF Returnable
  <2>3. Returns(c, Atomic!Missed)
    BY <1>1, <1>3 DEF Returns, Miss
  <2> QED
    BY <2>2, <2>3, ReturnsKeeps
<1>4. CASE Goto(c, "embed")
  <2> DEFINE s == [search[c] EXCEPT !.pc = "embed"]
  <2>1. Learn(c, s) /\ UNCHANGED reads
    BY <1>4 DEF Goto
  <2>2. Knows(search[c], reads[c])
    BY DEF AnswerInv
  <2>3. Knows(s, reads[c])
    BY <1>1, <2>2 DEF Knows, Idle, Blank, Entered, Confirmed
  <2>4. SameLook(c, s)
    BY <1>1, <2>2 DEF Knows, Idle, SameLook, Looked
  <2> HIDE DEF s
  <2> QED
    BY <1>1, <2>1, <2>3, <2>4, LearnSeen
<1> QED
  BY <1>1, <1>2, <1>3, <1>4

LEMMA EmbeddedSeen ==
    ASSUME AnswerInv, SearchInv, NEW c \in Calls, NEW dense, Embedded(c, dense)
    PROVE  AnswerInv' /\ Seen
<1> DEFINE s == [search[c] EXCEPT !.pc = "capture", !.dense = dense]
<1>1. /\ search[c].pc = "embed" /\ Learn(c, s)
      /\ UNCHANGED <<ledger, taken, reads>>
  BY DEF Embedded, At, session
<1>2. Knows(search[c], reads[c])
  BY DEF AnswerInv
<1>3. Knows(s, reads[c])
  BY <1>1, <1>2 DEF Knows, Idle, Blank, Entered, Confirmed
<1>4. SameLook(c, s)
  BY <1>1, <1>2 DEF Knows, Idle, SameLook, Looked
<1> HIDE DEF s
<1> QED
  BY <1>1, <1>3, <1>4, LearnSeen

LEMMA AbandonSeen ==
    ASSUME AnswerInv, SearchInv, NEW c \in Calls, Abandon(c)
    PROVE  AnswerInv' /\ Seen
<1>1. Fail(c) /\ UNCHANGED <<ledger, taken>> /\ search[c].pc # "done"
  BY DEF Abandon, session, Checkpoints
<1> QED
  BY <1>1, FailSeen

LEMMA CaptureBeginsSeen ==
    ASSUME AnswerInv, SearchInv, NEW c \in Calls, CaptureBegins(c)
    PROVE  AnswerInv' /\ Seen
<1> DEFINE s == [search[c] EXCEPT !.pc = "before", !.seq = LastSeq, !.tokens = Budget]
<1>1. /\ search[c].pc = "capture" /\ UNCHANGED <<ledger, taken>>
      /\ (Learn(c, s) /\ UNCHANGED reads) \/ Fail(c)
  BY DEF CaptureBegins, At, session
<1>2. Knows(search[c], reads[c])
  BY DEF AnswerInv
<1>3. Knows(s, reads[c])
  BY <1>1, <1>2 DEF Knows, Idle, Blank, Entered, Confirmed
<1>4. /\ s.pc = "before" /\ s.seq = LastSeq /\ s.attempt = search[c].attempt
      /\ Looked(search[c]) = {} /\ answers[c] = Atomic!Unanswered
  BY <1>1, <1>2 DEF Knows, Idle, Looked, AnswerInv
<1> HIDE DEF s
<1>5. CASE Learn(c, s) /\ UNCHANGED reads
  <2>1. Moves(c, s, reads[c])
    BY <1>1, <1>5, LearnMoves
  <2>2. Tries(s)
    BY <1>4 DEF AnswerInv, Tries
  <2>3. AnswerInv'
    BY <1>3, <2>1, <2>2, MovesInv
  <2>4. search'[c] = s /\ \A d \in Calls : d # c => search'[d] = search[d]
    BY <2>1 DEF Moves
  <2>5. View' = [View EXCEPT ![c] = {LastSeq}]
    <3>1. View' = [d \in Calls |-> Looked(search'[d])]
      BY DEF View, Looked
    <3>2. Looked(s) = {LastSeq}
      BY <1>4 DEF Looked
    <3> QED
      BY <2>4, <3>1, <3>2 DEF View
  <2>6. Overtaken' = Overtaken
    BY <1>4, <2>4 DEF Overtaken
  <2>7. Corpus' = Corpus /\ LastSeq' = LastSeq /\ UNCHANGED answers
    BY <2>1, QuietKeeps DEF Moves, Quiet
  <2>8. View[c] = {}
    BY <1>4 DEF View
  <2>9. Atomic!Look(c)
    BY <1>4, <2>5, <2>6, <2>7, <2>8 DEF Atomic!Look
  <2> QED
    BY <2>3, <2>9 DEF Seen, Atomic!Next
<1> QED
  BY <1>1, <1>5, FailSeen

LEMMA ReadBeforeSeen ==
    ASSUME AnswerInv, SearchInv, NEW c \in Calls, ReadBefore(c)
    PROVE  AnswerInv' /\ Seen
<1> DEFINE s == [search[c] EXCEPT !.pc = "rows", !.before = taken]
<1>1. /\ search[c].pc = "before"
      /\ (Learn(c, s) /\ UNCHANGED <<ledger, taken, reads>>) \/ MayFault(c)
  BY DEF ReadBefore, Live, At, session
<1>2. Knows(search[c], reads[c])
  BY DEF AnswerInv
<1>3. Knows(s, reads[c])
  BY <1>1, <1>2 DEF Knows, Idle, Blank, Entered, Confirmed
<1>4. SameLook(c, s)
  BY <1>1, <1>2 DEF Knows, Idle, SameLook, Looked
<1> HIDE DEF s
<1> QED
  BY <1>1, <1>3, <1>4, LearnSeen, MayFaultSeen

LEMMA ReadRowsSeen ==
    ASSUME AnswerInv, SearchInv, NEW c \in Calls, ReadRows(c)
    PROVE  AnswerInv' /\ Seen
<1> DEFINE left == {p \in Pages : Row(p, taken) # 0}
           s == [search[c] EXCEPT !.pc = "filter", !.rows = taken, !.unread = left]
<1>1. /\ search[c].pc = "rows"
      /\ (Learn(c, s) /\ UNCHANGED <<ledger, taken, reads>>) \/ MayFault(c)
  BY DEF ReadRows, Live, At, session
<1>2. Knows(search[c], reads[c])
  BY DEF AnswerInv
<1> HIDE DEF left
<1>3. Knows(s, reads[c])
  BY <1>1, <1>2 DEF Knows, Idle, Blank, Entered, Confirmed
<1>4. SameLook(c, s)
  BY <1>1, <1>2 DEF Knows, Idle, SameLook, Looked
<1> HIDE DEF s
<1> QED
  BY <1>1, <1>3, <1>4, LearnSeen, MayFaultSeen

LEMMA FilterSeen ==
    ASSUME AnswerInv, SearchInv, NEW c \in Calls, Filter(c)
    PROVE  AnswerInv' /\ Seen
<1>1. /\ search[c].pc = "filter" /\ UNCHANGED <<ledger, taken, reads>>
      /\ \/ Learn(c, [search[c] EXCEPT !.pc = "after"])
         \/ \E unread, eligible :
               Learn(c, [search[c] EXCEPT !.unread = unread, !.eligible = eligible])
  BY DEF Filter, At, Goto, session
<1>2. Knows(search[c], reads[c])
  BY DEF AnswerInv
<1>3. ASSUME NEW s, Learn(c, s), DOMAIN s = DOMAIN search[c], s.pc \in {"filter", "after"},
             s.spent = search[c].spent, s.chosen = search[c].chosen,
             s.tokens = search[c].tokens, s.seq = search[c].seq,
             s.attempt = search[c].attempt
      PROVE  AnswerInv' /\ Seen
  <2>1. Knows(s, reads[c])
    BY <1>1, <1>2, <1>3 DEF Knows, Blank, Entered, Confirmed
  <2>2. SameLook(c, s)
    BY <1>1, <1>3 DEF SameLook, Looked
  <2> QED
    BY <1>1, <1>3, <2>1, <2>2, LearnSeen
<1>4. CASE Learn(c, [search[c] EXCEPT !.pc = "after"])
  <2> DEFINE s == [search[c] EXCEPT !.pc = "after"]
  <2>1. /\ DOMAIN s = DOMAIN search[c] /\ s.pc = "after"
        /\ s.spent = search[c].spent /\ s.chosen = search[c].chosen
        /\ s.tokens = search[c].tokens /\ s.seq = search[c].seq
        /\ s.attempt = search[c].attempt
    BY <1>2 DEF Knows, Idle
  <2>2. Learn(c, s)
    BY <1>4
  <2> HIDE DEF s
  <2> QED
    BY <1>3, <2>1, <2>2
<1>5. ASSUME NEW unread, NEW eligible,
             Learn(c, [search[c] EXCEPT !.unread = unread, !.eligible = eligible])
      PROVE  AnswerInv' /\ Seen
  <2> DEFINE s == [search[c] EXCEPT !.unread = unread, !.eligible = eligible]
  <2>1. /\ DOMAIN s = DOMAIN search[c] /\ s.pc = "filter"
        /\ s.spent = search[c].spent /\ s.chosen = search[c].chosen
        /\ s.tokens = search[c].tokens /\ s.seq = search[c].seq
        /\ s.attempt = search[c].attempt
    BY <1>1, <1>2 DEF Knows, Idle
  <2>2. Learn(c, s)
    BY <1>5
  <2> HIDE DEF s
  <2> QED
    BY <1>3, <2>1, <2>2
<1> QED
  BY <1>1, <1>4, <1>5

LEMMA ReadAfterSeen ==
    ASSUME AnswerInv, SearchInv, NEW c \in Calls, ReadAfter(c)
    PROVE  AnswerInv' /\ Seen
<1> DEFINE s == [search[c] EXCEPT !.pc = "relock", !.after = taken]
<1>1. /\ search[c].pc = "after"
      /\ (Learn(c, s) /\ UNCHANGED <<ledger, taken, reads>>) \/ MayFault(c)
  BY DEF ReadAfter, Live, At, session
<1>2. Knows(search[c], reads[c]) /\ taken \in Nat
  BY DEF AnswerInv
<1>3. Knows(s, reads[c])
  BY <1>1, <1>2 DEF Knows, Idle, Blank, Entered, Confirmed
<1>4. SameLook(c, s)
  BY <1>1, <1>2 DEF Knows, Idle, SameLook, Looked
<1> HIDE DEF s
<1> QED
  BY <1>1, <1>3, <1>4, LearnSeen, MayFaultSeen

\* An index read at the last event has taken in every one.
LEMMA RelockSeen ==
    ASSUME AnswerInv, SearchInv, NEW c \in Calls, Relock(c)
    PROVE  AnswerInv' /\ Seen
<1> DEFINE s == [search[c] EXCEPT !.pc = "resolve"]
<1>1. /\ search[c].pc = "relock" /\ UNCHANGED <<ledger, taken>>
      /\ \/ Fail(c)
         \/ Retry(c) /\ LastSeq # search[c].seq
         \/ /\ Learn(c, s) /\ UNCHANGED reads
            /\ LastSeq = search[c].seq /\ Undisturbed(search[c])
  BY DEF Relock, At, Goto, session
<1>2. CASE Fail(c) \/ (Retry(c) /\ LastSeq # search[c].seq)
  BY <1>1, <1>2, FailSeen, RetrySeen, OvertakenIs DEF Captured
<1>3. CASE /\ Learn(c, s) /\ UNCHANGED reads
           /\ LastSeq = search[c].seq /\ Undisturbed(search[c])
  <2>1. Knows(search[c], reads[c]) /\ taken \in 0..LastSeq /\ LastSeq \in Nat
    BY LastSeqInNat DEF AnswerInv, SearchInv
  <2>2. taken = LastSeq
    BY <1>1, <1>3, <2>1 DEF Knows, Undisturbed
  <2>3. Knows(s, reads[c])
    BY <1>1, <2>1, <2>2 DEF Knows, Idle, Blank, Entered, Confirmed, Selecting
  <2>4. SameLook(c, s)
    BY <1>1, <2>1 DEF Knows, Idle, SameLook, Looked
  <2> HIDE DEF s
  <2> QED
    BY <1>1, <1>3, <2>3, <2>4, LearnSeen
<1> QED
  BY <1>1, <1>2, <1>3

-----------------------------------------------------------------------------
(* The resolution and what follows from it.                                *)

\* The snapshot of an attempt that nothing was appended to.
LEMMA SnapshotIs ==
    ASSUME SearchInv, NEW c \in Calls, search[c].pc \in Confirmed, search[c].seq = LastSeq
    PROVE  search[c].eligible = Asked(Pages, LastSeq)
BY DEF SearchInv, Sound, Exact, Captured

\* What a snapshot holds can be served if it is intact, and what can be served is
\* what is in it and intact.
LEMMA AskedIs ==
    ASSUME NEW t \in Asked(Pages, LastSeq)
    PROVE  /\ t = <<t[1], t[2]>> /\ t[1] \in Pages /\ t[2] = Row(t[1], LastSeq)
           /\ t[2] # 0 /\ Eligible(t[1], t[2])
           /\ Intact(t[1], t[2]) => Corpus[t[1]] = t[2]
           /\ ~Intact(t[1], t[2]) => Corpus[t[1]] = 0
BY DEF Asked, Corpus, Materializable

LEMMA FindableIs ==
    Findable \subseteq {t \in Asked(Pages, LastSeq) : t[1] \in Matches /\ Intact(t[1], t[2])}
<1> SUFFICES ASSUME NEW p \in Matches, Corpus[p] # 0
             PROVE  /\ <<p, Corpus[p]>> \in Asked(Pages, LastSeq)
                    /\ Intact(p, Corpus[p])
  BY DEF Findable
<1>1. p \in Pages
  BY PagesAssumption
<1>2. Corpus[p] = Row(p, LastSeq) /\ Materializable(p, Row(p, LastSeq)) /\ Row(p, LastSeq) # 0
  BY <1>1 DEF Corpus
<1> QED
  BY <1>1, <1>2 DEF Asked, Materializable

LEMMA AskedFinite ==
    IsFiniteSet(Asked(Pages, LastSeq))
<1> DEFINE S == {q \in Pages : Row(q, LastSeq) # 0 /\ Eligible(q, Row(q, LastSeq))}
           f == [p \in S |-> <<p, Row(p, LastSeq)>>]
           T == Asked(Pages, LastSeq)
<1>1. IsFiniteSet(S)
  BY PagesAssumption, FS_Subset
<1>2. f \in Surjection(S, T)
  BY DEF Asked, Surjection
<1> HIDE DEF S, f, T
<1>3. IsFiniteSet(T)
  BY <1>1, <1>2, FS_Surjection
<1> QED
  BY <1>3 DEF T

\* An attempt behind its confirmation knows nothing once it is overtaken, and
\* until then what it selected.
LEMMA ConfirmedKnows ==
    ASSUME NEW s, NEW r, DOMAIN s = DOMAIN Idle, s.pc \in Selecting,
           s.seq = LastSeq => taken = LastSeq /\ Evidence(s) /\ Decided(s)
    PROVE  Knows(s, r)
BY DEF Knows, Blank, Entered, Confirmed, Selecting

LEMMA ResolveSeen ==
    ASSUME AnswerInv, SearchInv, NEW c \in Calls, Resolve(c)
    PROVE  AnswerInv' /\ Seen
<1> DEFINE s == [search[c] EXCEPT !.pc = "found"]
           r == [channel \in Channels |->
                    IF channel = "fts" \/ DenseActive(search[c].dense)
                    THEN Running(search[c].eligible) ELSE Off]
<1>1. /\ search[c].pc = "resolve" /\ UNCHANGED <<ledger, taken>>
      /\ Learn(c, s) /\ reads' = [reads EXCEPT ![c] = r]
  BY DEF Resolve, Live, At, session
<1>2. Knows(search[c], reads[c])
  BY DEF AnswerInv
<1>3. /\ DOMAIN s = DOMAIN Idle /\ s.pc = "found" /\ s.seq = search[c].seq
      /\ s.tokens = search[c].tokens /\ s.spent = search[c].spent
      /\ s.chosen = search[c].chosen /\ s.eligible = search[c].eligible
      /\ s.attempt = search[c].attempt
  BY <1>2 DEF Knows, Idle
<1>4. Reported(s, r)
  <2>1. \A channel \in Channels : r[channel] \in {Running(search[c].eligible), Off}
    OBVIOUS
  <2>2. \A channel \in Channels :
           \/ r[channel].state = "running" /\ r[channel].eligible = s.eligible
           \/ r[channel].state = "off"
    BY <1>3, <2>1 DEF Running, Off
  <2> HIDE DEF r, s
  <2>3. "fts" \in Channels /\ "dense" \in Channels
    BY DEF Channels
  <2> QED
    BY <2>2, <2>3 DEF Reported
<1>5. DOMAIN r = Channels
  OBVIOUS
<1> HIDE DEF s, r
<1>6. Knows(s, r)
  BY <1>1, <1>2, <1>3, <1>4 DEF Knows, Blank, Entered, Confirmed, Selecting
<1>7. Moves(c, s, r)
  BY <1>1, <1>5 DEF Moves, Quiet, Learn, AnswerInv, SearchInv, Counted
<1>8. SameLook(c, s)
  BY <1>1, <1>3 DEF SameLook, Looked
<1> QED
  BY <1>6, <1>7, <1>8, MovesKeeps

\* What a channel reports in an attempt that nothing was appended to is what the
\* index holds of the snapshot.
LEMMA ReportSeen ==
    ASSUME AnswerInv, SearchInv, NEW c \in Calls, NEW channel \in Channels, NEW result,
           Report(c, channel, result), UNCHANGED <<ledger, taken>>,
           reads[c][channel].state = "running",
           \/ result.state = "failed"
           \/ /\ result.state = "done" /\ result.seq = taken
              /\ result.tuples \in IF channel = "fts"
                                   THEN SearchLexical(reads[c][channel].eligible)
                                   ELSE SearchDense(reads[c][channel].eligible)
    PROVE  AnswerInv' /\ Seen
<1> DEFINE outcome == IF At(c, "found") THEN result ELSE Off
           r == [reads[c] EXCEPT ![channel] = outcome]
           s == search[c]
<1>1. /\ reads' = [reads EXCEPT ![c] = r] /\ UNCHANGED <<search, answers>>
  BY DEF Report
<1>2. Knows(s, reads[c]) /\ DOMAIN reads[c] = Channels
  BY DEF AnswerInv
<1>3. ASSUME s.pc = "found", s.seq = LastSeq
      PROVE  Reported(s, r)
  <2>1. taken = LastSeq /\ Reported(s, reads[c])
    BY <1>2, <1>3 DEF Knows, Confirmed
  <2>2. s.eligible = Asked(Pages, LastSeq)
    BY <1>3, SnapshotIs DEF Confirmed
  <2>3. reads[c][channel].eligible = s.eligible
    BY <2>1 DEF Reported
  <2>4. \A S : Limited(S, s.eligible) = {t \in s.eligible : t[1] \in S}
    BY <2>1, <2>2, AskedIs DEF Limited
  <2>5. outcome = result
    BY <1>3 DEF At
  <2>6. /\ r[channel] = result
        /\ \A other \in Channels : other # channel => r[other] = reads[c][other]
    BY <1>2, <2>5
  <2> HIDE DEF r, outcome
  <2>7. result.state = "done" =>
           /\ result.seq = LastSeq
           /\ channel = "fts" => result.tuples = {t \in s.eligible : t[1] \in Matches}
           /\ channel = "dense" => result.tuples \subseteq {t \in s.eligible : t[1] \in Near}
    BY <2>1, <2>3, <2>4 DEF SearchLexical, SearchDense
  <2>8. result.state # "running"
    OBVIOUS
  <2>9. "fts" \in Channels /\ "dense" \in Channels /\ channel \in {"fts", "dense"}
    BY DEF Channels
  <2> QED
    BY <2>1, <2>6, <2>7, <2>8, <2>9 DEF Reported
<1>4. DOMAIN r = Channels
  BY <1>2
<1> HIDE DEF r
<1>5. Knows(s, r)
  BY <1>2, <1>3 DEF Knows
<1>6. Moves(c, s, r)
  BY <1>1, <1>4 DEF Moves, Quiet, AnswerInv
<1>7. SameLook(c, s)
  BY DEF SameLook
<1> QED
  BY <1>5, <1>6, <1>7, MovesKeeps

LEMMA ChannelSeen ==
    ASSUME AnswerInv, SearchInv, NEW c \in Calls, NEW channel \in Channels, Channel(c, channel)
    PROVE  AnswerInv' /\ Seen
<1>1. UNCHANGED <<ledger, taken>> /\ reads[c][channel].state = "running"
  BY DEF Channel, ReadChannel, ChannelFails, session
<1>2. CASE ReadChannel(c, channel)
  <2>1. PICK tuples \in IF channel = "fts" THEN SearchLexical(reads[c][channel].eligible)
                                         ELSE SearchDense(reads[c][channel].eligible) :
           Report(c, channel, [state |-> "done", seq |-> taken, tuples |-> tuples])
    BY <1>2 DEF ReadChannel
  <2> DEFINE result == [state |-> "done", seq |-> taken, tuples |-> tuples]
  <2>2. /\ result.state = "done" /\ result.seq = taken /\ result.tuples = tuples
        /\ Report(c, channel, result)
    BY <2>1
  <2> HIDE DEF result
  <2> QED
    BY <1>1, <2>1, <2>2, ReportSeen
<1>3. CASE ChannelFails(c, channel)
  <2> DEFINE result == [state |-> "failed"]
  <2>1. result.state = "failed" /\ Report(c, channel, result)
    BY <1>3 DEF ChannelFails
  <2> HIDE DEF result
  <2> QED
    BY <1>1, <2>1, ReportSeen
<1> QED
  BY <1>2, <1>3 DEF Channel

\* What is found in one snapshot does not disagree about a version.
LEMMA AgreedAll ==
    ASSUME NEW T \in SUBSET Asked(Pages, LastSeq)
    PROVE  Agreed(T) = T
<1> SUFFICES ASSUME NEW t \in T, NEW u \in T, u[1] = t[1]
             PROVE  u = t
  BY DEF Agreed
<1> QED
  BY AskedIs

LEMMA FuseSeen ==
    ASSUME AnswerInv, SearchInv, NEW c \in Calls, Fuse(c)
    PROVE  AnswerInv' /\ Seen
<1> DEFINE k == search[c]
           fts == reads[c]["fts"]
           dense == reads[c]["dense"]
           lexical == Tuples(fts, k.eligible)
           near == Tuples(dense, k.eligible)
           mixed == lexical # {} /\ near # {} /\ fts.seq # dense.seq
           pool == IF mixed THEN lexical ELSE Agreed(lexical \union near)
           flawed == \/ mixed \/ k.dense = "down"
                     \/ ~Valid(fts, k.eligible)
                     \/ dense # Off /\ ~Valid(dense, k.eligible)
<1>1. PICK order \in Rankings(pool) :
           Learn(c, [k EXCEPT !.pc = "select", !.queue = order, !.flawed = flawed])
  BY DEF Fuse
<1>2. /\ k.pc = "found" /\ UNCHANGED <<ledger, taken>>
      /\ "running" \notin {fts.state, dense.state}
      /\ reads' = [reads EXCEPT ![c] = NoReads]
  BY DEF Fuse, Live, At, session
<1> DEFINE s == [k EXCEPT !.pc = "select", !.queue = order, !.flawed = flawed]
<1>3. Knows(k, reads[c]) /\ DOMAIN reads[c] = Channels
  BY DEF AnswerInv
<1>4. /\ DOMAIN s = DOMAIN Idle /\ s.pc = "select" /\ s.seq = k.seq
      /\ s.attempt = k.attempt
      /\ s.eligible = k.eligible /\ s.queue = order /\ s.flawed = flawed
      /\ s.tokens = Budget /\ s.spent = 0 /\ s.chosen = {}
  BY <1>2, <1>3 DEF Knows, Idle, Entered
<1>5. Learn(c, s)
  BY <1>1
<1> HIDE DEF s
<1>6. ASSUME s.seq = LastSeq
      PROVE  taken = LastSeq /\ Evidence(s) /\ Decided(s)
  <2>1. taken = LastSeq /\ Reported(k, reads[c])
    BY <1>2, <1>3, <1>4, <1>6 DEF Knows, Confirmed
  <2>2. k.eligible = Asked(Pages, LastSeq)
    BY <1>2, <1>4, <1>6, SnapshotIs DEF Confirmed
  <2>3. /\ lexical \subseteq {t \in k.eligible : t[1] \in Matches}
        /\ near \subseteq {t \in k.eligible : t[1] \in Near}
        /\ Valid(fts, k.eligible) => lexical = {t \in k.eligible : t[1] \in Matches}
    BY <2>1 DEF Tuples, Valid, Reported
  <2> HIDE DEF lexical, near, mixed
  <2>4. pool \in SUBSET Relevant(k) /\ pool \in SUBSET Asked(Pages, LastSeq)
    BY <2>2, <2>3 DEF Agreed, Relevant
  <2>5. IsFiniteSet(pool)
    <3> HIDE DEF pool
    <3> QED
      BY <2>4, AskedFinite, FS_Subset
  <2>6. order \in Seq(pool) /\ Range(order) = pool
    <3> HIDE DEF pool
    <3> QED
      BY <1>1, <2>5, RankingsCover
  <2>7. ~flawed => Findable \subseteq pool
    <3> HAVE ~flawed
    <3>1. ~mixed /\ Valid(fts, k.eligible)
      OBVIOUS
    <3>2. lexical \union near \in SUBSET Asked(Pages, LastSeq)
      BY <2>2, <2>3
    <3>3. pool = lexical \union near
      BY <3>1, <3>2, AgreedAll
    <3> HIDE DEF pool
    <3> QED
      BY <2>2, <2>3, <3>1, <3>3, FindableIs
  <2> HIDE DEF pool, flawed
  <2>8. Relevant(s) = Relevant(k)
    BY <1>4 DEF Relevant
  <2>9. order \in Seq(Relevant(s))
    <3> DEFINE R == Relevant(s)
    <3>1. pool \subseteq R
      BY <2>4, <2>8
    <3> HIDE DEF R
    <3>2. order \in Seq(R)
      BY <2>6, <3>1
    <3> QED
      BY <3>2 DEF R
  <2>10. {t[1] : t \in s.chosen} \in Harmonious
    <3>1. {t[1] : t \in s.chosen} = {}
      BY <1>4
    <3>2. {} \in Harmonious
      <4>1. Cardinality({}) = 0
        BY FS_EmptySet
      <4>2. \A kind : {p \in {} : Kind[p] = kind} = {}
        OBVIOUS
      <4> QED
        BY <4>1, <4>2, BoundsAssumption DEF Harmonious
    <3> QED
      BY <3>1, <3>2
  <2>11. Evidence(s)
    BY <1>4, <2>6, <2>7, <2>9, <2>10, BoundsAssumption DEF Evidence
  <2> QED
    BY <1>4, <2>1, <2>11 DEF Decided
<1>7. Knows(s, NoReads)
  BY <1>4, <1>6, ConfirmedKnows DEF Selecting
<1>8. Moves(c, s, NoReads)
  BY <1>2, <1>5 DEF Moves, Quiet, Learn, NoReads, AnswerInv, SearchInv, Counted
<1>9. SameLook(c, s)
  BY <1>2, <1>4 DEF SameLook, Looked
<1> QED
  BY <1>7, <1>8, <1>9, MovesKeeps

\* One page alone is always diverse.
LEMMA AloneIsDiverse ==
    ASSUME NEW p \in Pages
    PROVE  {p} \in Harmonious
<1>1. Cardinality({p}) = 1
  BY FS_Singleton
<1>2. \A k : {q \in {p} : Kind[q] = k} \in {{}, {p}}
  OBVIOUS
<1>3. \A k : Cardinality({q \in {p} : Kind[q] = k}) \in {0, 1}
  BY <1>1, <1>2, FS_EmptySet
<1> QED
  BY <1>1, <1>3, BoundsAssumption DEF Harmonious

\* A candidate taken off the queue.
LEMMA SkippedIs ==
    ASSUME NEW R, NEW queue \in Seq(R), queue # <<>>
    PROVE  /\ queue[1] \in R /\ Tail(queue) \in Seq(R)
           /\ Range(queue) \subseteq Range(Tail(queue)) \union {queue[1]}
<1>1. queue[1] \in R /\ Tail(queue) \in Seq(R) /\ Len(queue) \in Nat \ {0}
  BY EmptySeq, HeadTailProperties, LenProperties
<1>2. /\ Len(Tail(queue)) = Len(queue) - 1
      /\ \A i \in 1..Len(queue) - 1 : Tail(queue)[i] = queue[i + 1]
  BY HeadTailProperties
<1>3. DOMAIN queue = 1..Len(queue) /\ DOMAIN Tail(queue) = 1..Len(queue) - 1
  BY <1>1, <1>2, LenProperties
<1>4. ASSUME NEW i \in 1..Len(queue), i # 1
      PROVE  queue[i] \in Range(Tail(queue))
  <2>1. i - 1 \in 1..Len(queue) - 1 /\ i - 1 + 1 = i
    BY <1>1, <1>4
  <2>2. queue[i] = Tail(queue)[i - 1]
    BY <1>2, <2>1
  <2> QED
    BY <1>3, <2>1, <2>2 DEF Range
<1> QED
  BY <1>1, <1>3, <1>4 DEF Range

\* A step that goes on selecting, or with what was selected.
LEMMA SelectingSeen ==
    ASSUME AnswerInv, SearchInv, NEW c \in Calls, NEW s,
           Learn(c, s), UNCHANGED <<ledger, taken, reads>>,
           search[c].pc \in Selecting,
           DOMAIN s = DOMAIN Idle, s.pc \in Selecting, s.seq = search[c].seq,
           s.attempt = search[c].attempt,
           s.seq = LastSeq => Evidence(s) /\ Decided(s)
    PROVE  AnswerInv' /\ Seen
<1>1. Knows(search[c], reads[c])
  BY DEF AnswerInv
<1>2. s.seq = LastSeq => taken = LastSeq
  BY <1>1 DEF Knows, Selecting, Confirmed
<1>3. Knows(s, reads[c])
  BY <1>2, ConfirmedKnows
<1>4. search[c].pc # "done" /\ SameLook(c, s)
  BY DEF Selecting, SameLook, Looked
<1> QED
  BY <1>3, <1>4, LearnSeen

\* What a selecting call has, while nothing is appended.
LEMMA SelectingHas ==
    ASSUME AnswerInv, NEW c \in Calls, search[c].pc \in Selecting, search[c].seq = LastSeq
    PROVE  Evidence(search[c]) /\ Decided(search[c])
BY DEF AnswerInv, Knows, Selecting, Confirmed

LEMMA DomainIs ==
    ASSUME AnswerInv, NEW c \in Calls
    PROVE  DOMAIN search[c] = DOMAIN Idle
BY DEF AnswerInv, Knows

\* The recheck refuses only what cannot be served, and renders all of a roomy page
\* while the budget is whole.
LEMMA RecheckSeen ==
    ASSUME AnswerInv, SearchInv, NEW c \in Calls, search[c].pc = "select",
           UNCHANGED <<ledger, taken, reads>>,
           search[c].queue # <<>>, Diverse(search[c], search[c].queue[1][1]),
           Usable, Recheck(c, search[c].queue[1])
    PROVE  AnswerInv' /\ Seen
<1> DEFINE k == search[c]
           t == k.queue[1]
           r == Render(t[1], k.tokens, k.spent)
           skipped == [k EXCEPT !.queue = Tail(@)]
           rendered == Rendered(k, t, r)
<1>1. DOMAIN k = DOMAIN Idle
  BY DomainIs
<1>2. \/ Learn(c, skipped) /\ (LastSeq # k.seq \/ ~Materializable(t[1], t[2]))
      \/ LastSeq = k.seq /\ Materializable(t[1], t[2]) /\ Learn(c, rendered)
  BY DEF Recheck
<1>3. /\ DOMAIN skipped = DOMAIN Idle /\ skipped.pc = "select" /\ skipped.seq = k.seq
      /\ skipped.attempt = k.attempt
      /\ skipped.eligible = k.eligible /\ skipped.queue = Tail(k.queue)
      /\ skipped.chosen = k.chosen /\ skipped.spent = k.spent
      /\ skipped.tokens = k.tokens /\ skipped.flawed = k.flawed
  BY <1>1 DEF Idle
<1>4. /\ DOMAIN rendered = DOMAIN Idle /\ rendered.pc = "select" /\ rendered.seq = k.seq
      /\ rendered.attempt = k.attempt
      /\ rendered.eligible = k.eligible /\ rendered.queue = Tail(k.queue)
      /\ rendered.chosen = IF r.fits THEN k.chosen \union {t} ELSE k.chosen
      /\ rendered.spent = IF r.fits THEN k.spent + r.used ELSE k.spent
      /\ rendered.tokens = r.tokens /\ rendered.flawed = k.flawed
  <2> HIDE DEF r, t
  <2> QED
    BY <1>1 DEF Idle, Rendered
<1> HIDE DEF skipped, rendered, r
<1>6. ASSUME k.seq = LastSeq
      PROVE  /\ Evidence(k) /\ t \in Relevant(k)
             /\ Tail(k.queue) \in Seq(Relevant(k))
             /\ Range(k.queue) \subseteq Range(Tail(k.queue)) \union {t}
             /\ t \in Asked(Pages, LastSeq)
  <2>1. Evidence(k)
    BY <1>6, SelectingHas DEF Selecting
  <2>2. k.queue \in Seq(Relevant(k))
    BY <2>1 DEF Evidence
  <2> DEFINE R == Relevant(k)
  <2>3. /\ t \in R /\ Tail(k.queue) \in Seq(R)
        /\ Range(k.queue) \subseteq Range(Tail(k.queue)) \union {t}
    <3> HIDE DEF R
    <3> QED
      BY <2>2, SkippedIs DEF R
  <2>4. k.eligible = Asked(Pages, LastSeq)
    BY <1>6, SnapshotIs DEF Confirmed
  <2> QED
    BY <2>1, <2>3, <2>4 DEF Relevant
<1>7. CASE Learn(c, skipped) /\ (LastSeq # k.seq \/ ~Materializable(t[1], t[2]))
  <2>1. ASSUME k.seq = LastSeq
        PROVE  Evidence(skipped)
    <3>1. t \notin Findable
      BY <1>6, <1>7, <2>1, AskedIs, FindableIs DEF Materializable
    <3>2. Relevant(skipped) = Relevant(k)
      BY <1>3 DEF Relevant
    <3> QED
      BY <1>3, <1>6, <2>1, <3>1, <3>2 DEF Evidence
  <2>2. Decided(skipped)
    BY <1>3 DEF Decided
  <2> QED
    BY <1>3, <1>7, <2>1, <2>2, SelectingSeen DEF Selecting
<1>8. CASE LastSeq = k.seq /\ Materializable(t[1], t[2]) /\ Learn(c, rendered)
  <2>1. /\ Evidence(k) /\ t \in Relevant(k) /\ t \in Asked(Pages, LastSeq)
        /\ t[1] \in Pages /\ Intact(t[1], t[2])
    BY <1>6, <1>8, AskedIs DEF Materializable
  <2>2. k.tokens \in Nat /\ k.spent \in 0..Budget /\ k.spent \in Nat
    BY <2>1, BoundsAssumption DEF Evidence
  <2>3. /\ r.tokens \in Nat
        /\ r.fits => r.used \in 1..Budget - k.spent
        /\ t[1] \in Roomy /\ k.tokens = Budget /\ k.spent = 0 => r.fits
    BY <2>1, <2>2, RenderIs DEF r
  <2>4. Relevant(rendered) = Relevant(k)
    BY <1>4 DEF Relevant
  <2>5. Decided(rendered)
    BY <1>4 DEF Decided
  <2>6. CASE r.fits
    <3>1. {u[1] : u \in rendered.chosen} \in Harmonious
      <4>1. {u[1] : u \in rendered.chosen} = {u[1] : u \in k.chosen} \union {t[1]}
        BY <1>4, <2>6
      <4> QED
        BY <4>1 DEF Diverse
    <3>2. rendered.spent \in 1..Budget /\ rendered.chosen # {}
      <4>1. t \in rendered.chosen /\ rendered.spent = k.spent + r.used
        BY <1>4, <2>6
      <4>2. r.used \in 1..Budget - k.spent /\ Budget \in Nat
        BY <2>3, <2>6, BoundsAssumption
      <4>3. k.spent + r.used \in 1..Budget
        BY <2>2, <4>2
      <4> QED
        BY <4>1, <4>3
    <3>3. rendered.chosen \subseteq {u \in Relevant(rendered) : Intact(u[1], u[2])}
      BY <1>4, <2>1, <2>4, <2>6 DEF Evidence
    <3>4. Evidence(rendered)
      BY <1>4, <1>6, <1>8, <2>3, <2>4, <3>1, <3>2, <3>3 DEF Evidence
    <3> QED
      BY <1>4, <1>8, <2>5, <3>4, SelectingSeen DEF Selecting
  <2>7. CASE ~r.fits
    <3>1. ~(Roomy = Pages /\ k.chosen = {} /\ ~k.flawed)
      BY <2>1, <2>3, <2>7 DEF Evidence
    <3>2. Evidence(rendered)
      BY <1>4, <1>6, <1>8, <2>1, <2>3, <2>4, <2>7, <3>1 DEF Evidence
    <3> QED
      BY <1>4, <1>8, <2>5, <3>2, SelectingSeen DEF Selecting
  <2> QED
    BY <2>6, <2>7
<1> QED
  BY <1>2, <1>7, <1>8

\* The resolution fails: nothing of it will be served.
LEMMA FailedSeen ==
    ASSUME AnswerInv, SearchInv, NEW c \in Calls, search[c].pc = "select",
           UNCHANGED <<ledger, taken, reads>>,
           Learn(c, [search[c] EXCEPT !.pc = "resolved", !.verdict = "failed"])
    PROVE  AnswerInv' /\ Seen
<1> DEFINE s == [search[c] EXCEPT !.pc = "resolved", !.verdict = "failed"]
<1>1. /\ DOMAIN s = DOMAIN Idle /\ s.pc = "resolved" /\ s.seq = search[c].seq
      /\ s.attempt = search[c].attempt
      /\ s.eligible = search[c].eligible /\ s.queue = search[c].queue
      /\ s.chosen = search[c].chosen /\ s.spent = search[c].spent
      /\ s.tokens = search[c].tokens /\ s.flawed = search[c].flawed /\ s.verdict = "failed"
  BY DomainIs DEF Idle
<1>2. Learn(c, s)
  OBVIOUS
<1> HIDE DEF s
<1>3. Decided(s)
  BY <1>1 DEF Decided
<1>4. s.seq = LastSeq => Evidence(s)
  <2> HAVE s.seq = LastSeq
  <2>1. Evidence(search[c])
    BY <1>1, SelectingHas DEF Selecting
  <2>2. Relevant(s) = Relevant(search[c])
    BY <1>1 DEF Relevant
  <2> QED
    BY <1>1, <2>1, <2>2 DEF Evidence
<1> QED
  BY <1>1, <1>2, <1>3, <1>4, SelectingSeen DEF Selecting

\* With nothing chosen, a candidate is always diverse enough to be rechecked.
LEMMA ConsiderSeen ==
    ASSUME AnswerInv, SearchInv, NEW c \in Calls, Consider(c)
    PROVE  AnswerInv' /\ Seen
<1> DEFINE k == search[c]
<1>1. /\ k.pc = "select" /\ UNCHANGED <<ledger, taken, reads>> /\ k.queue # <<>>
      /\ \/ Diverse(k, k.queue[1][1]) /\ Recheck(c, k.queue[1])
         \/ Learn(c, [k EXCEPT !.pc = "resolved", !.verdict = "failed"])
         \/ ~Diverse(k, k.queue[1][1]) /\ Learn(c, [k EXCEPT !.queue = Tail(@)])
  BY DEF Consider, Live, At, session
<1>2. CASE Learn(c, [k EXCEPT !.pc = "resolved", !.verdict = "failed"])
  BY <1>1, <1>2, FailedSeen
<1>3. CASE Diverse(k, k.queue[1][1]) /\ Recheck(c, k.queue[1])
  <2>1. CASE Usable
    BY <1>1, <1>3, <2>1, RecheckSeen
  <2>2. CASE ~Usable
    BY <1>1, <1>3, <2>2, FailedSeen DEF Recheck
  <2> QED
    BY <2>1, <2>2
<1>4. CASE ~Diverse(k, k.queue[1][1]) /\ Learn(c, [k EXCEPT !.queue = Tail(@)])
  <2> DEFINE s == [k EXCEPT !.queue = Tail(@)]
  <2>1. /\ DOMAIN s = DOMAIN Idle /\ s.pc = "select" /\ s.seq = k.seq
        /\ s.attempt = k.attempt
        /\ s.eligible = k.eligible /\ s.queue = Tail(k.queue)
        /\ s.chosen = k.chosen /\ s.spent = k.spent
        /\ s.tokens = k.tokens /\ s.flawed = k.flawed
    BY <1>1, DomainIs DEF Idle
  <2>2. Learn(c, s)
    BY <1>4
  <2> HIDE DEF s
  <2>3. ASSUME s.seq = LastSeq
        PROVE  Evidence(s)
    <3>1. Evidence(k)
      BY <1>1, <2>1, <2>3, SelectingHas DEF Selecting
    <3> DEFINE R == Relevant(k)
    <3>2. k.queue[1] \in R /\ Tail(k.queue) \in Seq(R)
      <4>1. k.queue \in Seq(R)
        BY <3>1 DEF Evidence
      <4> HIDE DEF R
      <4> QED
        BY <1>1, <4>1, SkippedIs
    <3>3. k.chosen # {}
      <4> SUFFICES ASSUME k.chosen = {} PROVE FALSE
        OBVIOUS
      <4>1. k.eligible = Asked(Pages, LastSeq)
        BY <1>1, <2>1, <2>3, SnapshotIs DEF Confirmed
      <4>2. k.queue[1][1] \in Pages
        BY <3>2, <4>1, AskedIs DEF Relevant
      <4>3. {u[1] : u \in k.chosen} \union {k.queue[1][1]} = {k.queue[1][1]}
        OBVIOUS
      <4>4. k.spent = 0
        BY <3>1 DEF Evidence
      <4> QED
        <5>1. {u[1] : u \in k.chosen} \union {k.queue[1][1]} \in Harmonious
          BY <4>2, <4>3, AloneIsDiverse
        <5>2. k.spent < Budget
          BY <4>4, BoundsAssumption
        <5> QED
          BY <1>4, <5>1, <5>2, Zenon DEF Diverse
    <3>4. Relevant(s) = R
      BY <2>1 DEF Relevant
    <3> QED
      BY <2>1, <3>1, <3>2, <3>3, <3>4 DEF Evidence
  <2>4. Decided(s)
    BY <2>1 DEF Decided
  <2> QED
    BY <1>1, <2>1, <2>2, <2>3, <2>4, SelectingSeen DEF Selecting
<1> QED
  BY <1>1, <1>2, <1>3, <1>4

\* A miss is concluded only of an empty queue.
LEMMA ConcludeSeen ==
    ASSUME AnswerInv, SearchInv, NEW c \in Calls, Conclude(c)
    PROVE  AnswerInv' /\ Seen
<1> DEFINE k == search[c]
           verdict == CASE k.chosen # {}             -> "selected"
                        [] k.chosen = {} /\ k.flawed -> "failed"
                        [] OTHER                     -> "miss"
           s == [k EXCEPT !.pc = "resolved", !.verdict = verdict]
<1>1. /\ k.pc = "select" /\ UNCHANGED <<ledger, taken, reads>>
      /\ k.queue = <<>> \/ Cardinality(k.chosen) = MaxSelected
      /\ Learn(c, s)
  BY DEF Conclude, Live, At, session
<1>2. /\ verdict \in {"failed", "selected", "miss"}
      /\ verdict = "selected" => k.chosen # {}
      /\ verdict = "miss" => k.chosen = {} /\ ~k.flawed
  OBVIOUS
<1>3. k.chosen = {} => k.queue = <<>>
  BY <1>1, FS_EmptySet, BoundsAssumption
<1> HIDE DEF verdict
<1>4. /\ DOMAIN s = DOMAIN Idle /\ s.pc = "resolved" /\ s.seq = k.seq
      /\ s.attempt = k.attempt
      /\ s.eligible = k.eligible /\ s.queue = k.queue
      /\ s.chosen = k.chosen /\ s.spent = k.spent
      /\ s.tokens = k.tokens /\ s.flawed = k.flawed /\ s.verdict = verdict
  BY DomainIs DEF Idle
<1> HIDE DEF s
<1>5. Decided(s)
  BY <1>2, <1>3, <1>4 DEF Decided
<1>6. s.seq = LastSeq => Evidence(s)
  <2> HAVE s.seq = LastSeq
  <2>1. Evidence(k)
    BY <1>1, <1>4, SelectingHas DEF Selecting
  <2>2. Relevant(s) = Relevant(k)
    BY <1>4 DEF Relevant
  <2> QED
    BY <1>4, <2>1, <2>2 DEF Evidence
<1> QED
  BY <1>1, <1>4, <1>5, <1>6, SelectingSeen DEF Selecting

\* A selecting call that only goes on keeps what it knows.
LEMMA GotoSeen ==
    ASSUME AnswerInv, SearchInv, NEW c \in Calls, NEW s,
           Learn(c, s), UNCHANGED <<ledger, taken, reads>>,
           search[c].pc \in Selecting \ {"select"}, s.pc \in Selecting \ {"select"},
           s.pc = "commit" => search[c].verdict = "selected",
           DOMAIN s = DOMAIN Idle, s.attempt = search[c].attempt,
           s.seq = search[c].seq, s.eligible = search[c].eligible,
           s.queue = search[c].queue, s.chosen = search[c].chosen, s.spent = search[c].spent,
           s.tokens = search[c].tokens, s.flawed = search[c].flawed,
           s.verdict = search[c].verdict
    PROVE  AnswerInv' /\ Seen
<1>1. s.seq = LastSeq => Evidence(s) /\ Decided(s)
  <2> HAVE s.seq = LastSeq
  <2>1. Evidence(search[c]) /\ Decided(search[c])
    BY SelectingHas
  <2>2. Relevant(s) = Relevant(search[c])
    BY DEF Relevant
  <2> QED
    BY <2>1, <2>2 DEF Evidence, Decided
<1> QED
  BY <1>1, SelectingSeen

LEMMA DoubtSeen ==
    ASSUME AnswerInv, SearchInv, NEW c \in Calls, Doubt(c)
    PROVE  AnswerInv' /\ Seen
<1> DEFINE s == [search[c] EXCEPT !.pc = "fresh"]
<1>1. /\ search[c].pc = "resolved" /\ UNCHANGED <<ledger, taken>>
      /\ \/ Fail(c) \/ (Retry(c) /\ LastSeq # search[c].seq)
         \/ Learn(c, s) /\ UNCHANGED reads
  BY DEF Doubt, Live, At, session, Authority, Goto
<1>2. /\ DOMAIN s = DOMAIN Idle /\ s.pc = "fresh" /\ s.seq = search[c].seq
      /\ s.attempt = search[c].attempt
      /\ s.eligible = search[c].eligible /\ s.queue = search[c].queue
      /\ s.chosen = search[c].chosen /\ s.spent = search[c].spent
      /\ s.tokens = search[c].tokens /\ s.flawed = search[c].flawed
      /\ s.verdict = search[c].verdict
  BY DomainIs DEF Idle
<1> HIDE DEF s
<1> QED
  BY <1>1, <1>2, FailSeen, RetrySeen, OvertakenIs, GotoSeen DEF Selecting, Captured, Confirmed

LEMMA RereadSeen ==
    ASSUME AnswerInv, SearchInv, NEW c \in Calls, Reread(c)
    PROVE  AnswerInv' /\ Seen
<1> DEFINE s == [search[c] EXCEPT !.pc = "confirm", !.now = taken]
<1>1. /\ search[c].pc = "fresh"
      /\ (Learn(c, s) /\ UNCHANGED <<ledger, taken, reads>>) \/ MayFault(c)
  BY DEF Reread, Live, At, session
<1>2. /\ DOMAIN s = DOMAIN Idle /\ s.pc = "confirm" /\ s.seq = search[c].seq
      /\ s.attempt = search[c].attempt
      /\ s.eligible = search[c].eligible /\ s.queue = search[c].queue
      /\ s.chosen = search[c].chosen /\ s.spent = search[c].spent
      /\ s.tokens = search[c].tokens /\ s.flawed = search[c].flawed
      /\ s.verdict = search[c].verdict
  BY DomainIs DEF Idle
<1> HIDE DEF s
<1> QED
  BY <1>1, <1>2, MayFaultSeen, GotoSeen DEF Selecting

\* A miss that nothing overtook: there was nothing left to be found.
LEMMA MissReturnable ==
    ASSUME AnswerInv, SearchInv, NEW c \in Calls, search[c].pc = "confirm",
           search[c].seq = LastSeq, search[c].verdict = "miss"
    PROVE  Returnable(c, Atomic!Missed)
<1>1. Evidence(search[c]) /\ Decided(search[c])
  BY SelectingHas DEF Selecting
<1>2. search[c].chosen = {} /\ search[c].queue = <<>> /\ ~search[c].flawed
  BY <1>1 DEF Decided
<1>3. Range(<<>>) = {}
  BY DEF Range
<1>4. Roomy = Pages => Findable = {}
  BY <1>1, <1>2, <1>3 DEF Evidence
<1>5. Roomy = Pages => \A p \in Matches : Corpus[p] = 0
  BY <1>4 DEF Findable
<1>6. Looked(search[c]) = {LastSeq}
  BY DEF Looked
<1> QED
  BY <1>5, <1>6 DEF Returnable

LEMMA ConfirmSeen ==
    ASSUME AnswerInv, SearchInv, NEW c \in Calls, Confirm(c)
    PROVE  AnswerInv' /\ Seen
<1> DEFINE s == [search[c] EXCEPT !.pc = "commit"]
<1>1. /\ search[c].pc = "confirm" /\ UNCHANGED <<ledger, taken>>
      /\ \/ Fail(c) \/ (Retry(c) /\ LastSeq # search[c].seq)
         \/ Miss(c) /\ LastSeq = search[c].seq /\ search[c].verdict = "miss"
         \/ /\ Learn(c, s) /\ UNCHANGED reads
            /\ LastSeq = search[c].seq
            /\ search[c].verdict # "failed" /\ search[c].verdict # "miss"
  BY DEF Confirm, At, session, Authority, Verdict, Goto
<1>2. CASE Fail(c) \/ (Retry(c) /\ LastSeq # search[c].seq)
  BY <1>1, <1>2, FailSeen, RetrySeen, OvertakenIs DEF Captured, Confirmed
<1>3. CASE Miss(c) /\ LastSeq = search[c].seq /\ search[c].verdict = "miss"
  <2>1. Returns(c, Atomic!Missed)
    BY <1>1, <1>3 DEF Returns, Miss
  <2> QED
    BY <1>1, <1>3, <2>1, MissReturnable, ReturnsKeeps
<1>4. CASE /\ Learn(c, s) /\ UNCHANGED reads
           /\ LastSeq = search[c].seq
           /\ search[c].verdict # "failed" /\ search[c].verdict # "miss"
  <2>1. /\ DOMAIN s = DOMAIN Idle /\ s.pc = "commit" /\ s.seq = search[c].seq
        /\ s.attempt = search[c].attempt
        /\ s.eligible = search[c].eligible /\ s.queue = search[c].queue
        /\ s.chosen = search[c].chosen /\ s.spent = search[c].spent
        /\ s.tokens = search[c].tokens /\ s.flawed = search[c].flawed
        /\ s.verdict = search[c].verdict
    BY DomainIs DEF Idle
  <2>2. search[c].verdict = "selected"
    BY <1>1, <1>4, SelectingHas DEF Selecting, Decided
  <2> HIDE DEF s
  <2> QED
    BY <1>1, <1>4, <2>1, <2>2, GotoSeen DEF Selecting
<1> QED
  BY <1>1, <1>2, <1>3, <1>4

\* What is served that nothing overtook can be served, in those versions.
LEMMA ServedReturnable ==
    ASSUME AnswerInv, SearchInv, NEW c \in Calls, search[c].pc = "commit",
           search[c].seq = LastSeq
    PROVE  Returnable(c, Atomic!Served(search[c].chosen, search[c].spent))
<1> DEFINE s == search[c]
           found == {t[1] : t \in s.chosen}
<1>1. Evidence(s) /\ Decided(s)
  BY SelectingHas DEF Selecting
<1>2. s.chosen # {}
  BY <1>1 DEF Decided
<1>3. s.spent \in 1..Budget /\ found \in Harmonious \ {{}}
  BY <1>1, <1>2 DEF Evidence
<1>4. s.eligible = Asked(Pages, LastSeq)
  BY SnapshotIs DEF Confirmed
<1>5. ASSUME NEW t \in s.chosen
      PROVE  /\ t = <<t[1], Corpus[t[1]]>> /\ Corpus[t[1]] # 0
             /\ t[1] \in Matches \union Near
  BY <1>1, <1>4, <1>5, AskedIs DEF Evidence, Relevant
<1>6. {<<p, Corpus[p]>> : p \in found} = s.chosen
  BY <1>5
<1>7. found \subseteq Matches \union Near /\ \A p \in found : Corpus[p] # 0
  BY <1>5
<1>8. Looked(s) = {LastSeq}
  BY DEF Looked
<1> HIDE DEF found
<1> QED
  BY <1>3, <1>6, <1>7, <1>8 DEF Returnable

LEMMA CommitSeen ==
    ASSUME AnswerInv, SearchInv, NEW c \in Calls, Commit(c)
    PROVE  AnswerInv' /\ Seen
<1>1. /\ search[c].pc = "commit" /\ UNCHANGED <<ledger, taken>>
      /\ \/ Fail(c) \/ (Retry(c) /\ LastSeq # search[c].seq)
         \/ Serve(c) /\ LastSeq = search[c].seq
  BY DEF Commit, At, session, Authority
<1>2. CASE Fail(c) \/ (Retry(c) /\ LastSeq # search[c].seq)
  BY <1>1, <1>2, FailSeen, RetrySeen, OvertakenIs DEF Captured, Confirmed
<1>3. CASE Serve(c) /\ LastSeq = search[c].seq
  <2> DEFINE answer == Atomic!Served(search[c].chosen, search[c].spent)
  <2>1. Returns(c, answer)
    BY <1>1, <1>3 DEF Returns, Serve
  <2>2. Returnable(c, answer)
    BY <1>1, <1>3, ServedReturnable
  <2> HIDE DEF answer
  <2> QED
    BY <2>1, <2>2, ReturnsKeeps
<1> QED
  BY <1>1, <1>2, <1>3

-----------------------------------------------------------------------------
(* Every step.                                                             *)

LEMMA SearchSeen ==
    ASSUME AnswerInv, SearchInv, NEW c \in Calls, Search(c)
    PROVE  AnswerInv' /\ Seen
BY EntrySeen, AbandonSeen, CaptureBeginsSeen, ReadBeforeSeen, ReadRowsSeen, FilterSeen,
   ReadAfterSeen, RelockSeen, ResolveSeen, FuseSeen, ConsiderSeen, ConcludeSeen, DoubtSeen,
   RereadSeen, ConfirmSeen, CommitSeen DEF Search

LEMMA AnswerInvInit ==
    Init => AnswerInv /\ Atomic!Init
<1> SUFFICES ASSUME Init PROVE AnswerInv /\ Atomic!Init
  OBVIOUS
<1>1. LastSeq = 0 /\ taken = 0
  BY DEF Init, LastSeq
<1>2. ASSUME NEW c \in Calls
      PROVE  /\ DOMAIN reads[c] = Channels
             /\ Knows(search[c], reads[c])
             /\ answers[c] = Atomic!Unanswered
             /\ search[c] = Idle /\ Tries(search[c])
  BY BoundsAssumption DEF Tries, Init, NoReads, Knows, Idle, Blank, Entered, Confirmed
<1>3. AnswerInv
  BY <1>1, <1>2 DEF Init, AnswerInv
<1>4. ASSUME NEW p \in Pages
      PROVE  Row(p, LastSeq) = 0
  <2>1. Row(p, 0) \in 0..0
    BY RowIs
  <2> QED
    BY <1>1, <2>1
<1>5. Corpus = [p \in Pages |-> 0]
  BY <1>4 DEF Corpus
<1>6. View = [c \in Calls |-> {}] /\ Overtaken = [c \in Calls |-> 0]
  BY <1>2 DEF View, Overtaken, Looked, Idle
<1>7. Atomic!Init
  BY <1>1, <1>5, <1>6 DEF Init, Atomic!Init
<1> QED
  BY <1>3, <1>7

LEMMA AnswerInvNext ==
    AnswerInv /\ SearchInv /\ [Next]_vars => AnswerInv' /\ [Atomic!Next]_(Atomic!vars)
<1> SUFFICES ASSUME AnswerInv, SearchInv, [Next]_vars PROVE AnswerInv' /\ Seen
  BY DEF Seen, Atomic!vars
<1>1. CASE UNCHANGED vars
  BY <1>1, AloofSeen DEF vars
<1>2. ASSUME NEW e \in Events, Record(e)
      PROVE  AnswerInv' /\ Seen
  BY <1>2, RecordSeen
<1>3. CASE TakeEvent
  BY <1>3, TakeEventSeen
<1>4. CASE FailStop \/ TakeFails \/ CloseCancels \/ Close
  BY <1>4, AloofSeen
     DEF FailStop, TakeFails, CloseCancels, Close, CloseFlags, CloseJoins, CloseStores,
         Phase, calls
<1>5. ASSUME NEW c \in Calls, Begin(c) \/ Search(c)
      PROVE  AnswerInv' /\ Seen
  BY <1>5, BeginSeen, SearchSeen
<1>6. ASSUME NEW c \in Calls, CallerCancels(c) \/ LifecycleEnds(c)
      PROVE  AnswerInv' /\ Seen
  BY <1>6, AloofSeen DEF CallerCancels, LifecycleEnds, End, session
<1>7. ASSUME NEW c \in Calls, NEW dense, Embedded(c, dense)
      PROVE  AnswerInv' /\ Seen
  BY <1>7, EmbeddedSeen
<1>8. ASSUME NEW c \in Calls, NEW channel \in Channels, Channel(c, channel)
      PROVE  AnswerInv' /\ Seen
  BY <1>8, ChannelSeen
<1> QED
  BY <1>1, <1>2, <1>3, <1>4, <1>5, <1>6, <1>7, <1>8 DEF Next

(* SemanticSearch, which reads an index, an embedder and a ledger that     *)
(* move while it works, implements the search that answers in one instant: *)
(* what it serves can be served when it returns, and a miss is a miss,     *)
(* unless it says that an event has overtaken each of its attempts.        *)
THEOREM SearchesImplementAtomic ==
    Spec => SearchesAreAtomic
<1>1. AnswerInv /\ SearchInv /\ [Next]_vars => AnswerInv' /\ [Atomic!Next]_(Atomic!vars)
  BY AnswerInvNext
<1> QED
  BY <1>1, AnswerInvInit, SearchInvAlways, PTL DEF Spec, SearchesAreAtomic, Atomic!Spec
=============================================================================
