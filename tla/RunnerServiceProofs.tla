------------------------- MODULE RunnerServiceProofs -------------------------
(***************************************************************************)
(* The services of the runner, and the qualification suite.  For every     *)
(* size of the outbox, number of attempts, batch and callers of stop():    *)
(* the outbox stays within its size, gives up no entry before its time and *)
(* leaves none in flight when the loop rests.  For every set of requests   *)
(* and every limit: the slots of the HTTP server are exactly those of its  *)
(* handlers, the queue holds exactly those who wait, and shutdown reaches  *)
(* all of them.  For every contract and every Host: a case leaves nothing  *)
(* behind, and a record says what its suite saw.                           *)
(***************************************************************************)
EXTENDS RunnerLoop, HttpServer, Qualification, SetInduction, FunctionTheorems, SequenceTheorems

-----------------------------------------------------------------------------
(* The outbox of the runner loop. *)

\* An entry has these fields.
IsEntry(en) ==
  /\ en = [f \in {"status", "retryCount", "nextRetryAt"} |-> en[f]]
  /\ en.status \in Statuses /\ en.retryCount \in 0..maxRetries

\* An entry that can still be delivered.
Open(s) == s \in DOMAIN entries /\ ~IsSettled(entries[s])

\* The outbox holds entries that were appended.
EntriesInv ==
  /\ nextSequence \in 1..(MaxAppends + 1)
  /\ DOMAIN entries \subseteq 1..(nextSequence - 1)
  /\ Cardinality(DOMAIN entries) <= maxSize
  /\ \A s \in DOMAIN entries : IsEntry(entries[s])

\* Attempts are counted, in the entry and for good, as long as it is open.
AttemptsInv ==
  /\ attempts \in [1..MaxAppends -> Nat]
  /\ \A s \in nextSequence..MaxAppends : attempts[s] = 0
  /\ \A s \in DOMAIN entries :
       ~IsSettled(entries[s]) => entries[s].retryCount = attempts[s] /\ attempts[s] < maxRetries

\* What a drain still has to handle is open, and only what is in its hand is in
\* flight: a compaction in between cannot remove it.
BatchInv ==
  /\ \A s \in batch : Open(s)
  /\ \A s \in DOMAIN entries :
       entries[s].status = "inflight" => pc = "sending" /\ s = InHand
  /\ pc = "sending" => batch # {}

\* Who has left the outbox, or was given up, was received or tried to the end.
DeliveredInv ==
  \A s \in 1..(nextSequence - 1) : s \in received \/ attempts[s] = maxRetries \/ Open(s)

LoopInv ==
  /\ now \in Nat /\ pc \in {"drain", "next", "sending", "sleep", "ended"}
  /\ processStatus \in {"idle", "degraded", "stopping", "stopped"}
  /\ EntriesInv /\ AttemptsInv /\ BatchInv /\ DeliveredInv

-----------------------------------------------------------------------------
LEMMA LoopFacts ==
  /\ maxSize \in Nat /\ maxRetries \in Nat /\ maxRetries > 0 /\ pollInterval \in Nat
  /\ MaxAppends \in Nat
BY LoopAssumption

\* The entry in hand is one of the batch.
LEMMA InHandIsNext ==
  ASSUME LoopInv, batch # {}
  PROVE  InHand \in batch /\ Open(InHand) /\ InHand \in 1..(nextSequence - 1)
<1>1. batch \subseteq Nat /\ nextSequence \in Nat
  BY LoopFacts DEF LoopInv, BatchInv, EntriesInv, Open
<1>2. \E s \in batch : \A x \in batch : s <= x
  BY <1>1, LeastNat
<1>3. InHand \in batch
  BY <1>2 DEF InHand
<1> QED
  BY <1>3 DEF LoopInv, BatchInv, EntriesInv, Open

\* Nothing is in the outbox at first.
LEMMA LoopInitInv == Init => LoopInv
<1> SUFFICES ASSUME Init PROVE LoopInv
  OBVIOUS
<1>1. DOMAIN entries = {}
  BY DEF Init
<1>2. EntriesInv
  BY <1>1, LoopFacts, FS_EmptySet DEF Init, EntriesInv
<1>3. AttemptsInv /\ BatchInv /\ DeliveredInv
  BY <1>1, LoopFacts DEF Init, AttemptsInv, BatchInv, DeliveredInv
<1> QED
  BY <1>2, <1>3 DEF Init, LoopInv

\* What the entries are is all there is to keep.
LEMMA EntriesSame ==
  ASSUME LoopInv, UNCHANGED <<entries, nextSequence, attempts, received>>
  PROVE  EntriesInv' /\ AttemptsInv' /\ DeliveredInv' /\ \A s : Open(s) <=> Open(s)'
BY DEF LoopInv, EntriesInv, AttemptsInv, DeliveredInv, Open, IsSettled

\* An entry that was in hand: it is in flight, or acknowledged, or tried again.
LEMMA InflightEntry ==
  ASSUME NEW en, IsEntry(en), ~IsSettled(en)
  PROVE  LET x == [en EXCEPT !.status = "inflight"] IN
         IsEntry(x) /\ ~IsSettled(x) /\ x.retryCount = en.retryCount
BY DEF IsEntry, IsSettled, Statuses

LEMMA AckedEntry ==
  ASSUME NEW en, IsEntry(en)
  PROVE  LET x == [en EXCEPT !.status = "acknowledged"] IN IsEntry(x) /\ IsSettled(x)
BY DEF IsEntry, IsSettled, Statuses

LEMMA DeadEntry ==
  ASSUME NEW en, IsEntry(en), en.retryCount < maxRetries
  PROVE  LET x == [en EXCEPT !.status = "dead", !.retryCount = @ + 1] IN IsEntry(x) /\ IsSettled(x)
<1>1. PICK n \in 0..maxRetries : n = en.retryCount + 1
  BY LoopFacts DEF IsEntry
<1> DEFINE x == [en EXCEPT !.status = "dead", !.retryCount = n]
<1>2. x = [f \in {"status", "retryCount", "nextRetryAt"} |-> x[f]]
  BY DEF IsEntry
<1>3. x.status = "dead" /\ x.retryCount = n
  BY DEF IsEntry
<1> HIDE DEF x
<1>4. IsEntry(x) /\ IsSettled(x)
  BY <1>2, <1>3 DEF IsEntry, IsSettled, Statuses
<1> QED
  BY <1>1, <1>4 DEF x

LEMMA RetryEntry ==
  ASSUME NEW en, IsEntry(en), en.retryCount < maxRetries, NEW at
  PROVE  LET x == [en EXCEPT !.status = "pending", !.retryCount = @ + 1, !.nextRetryAt = at] IN
         IsEntry(x) /\ x.status = "pending" /\ x.retryCount = en.retryCount + 1
<1>1. PICK n \in 0..maxRetries : n = en.retryCount + 1
  BY LoopFacts DEF IsEntry
<1> DEFINE x == [en EXCEPT !.status = "pending", !.retryCount = n, !.nextRetryAt = at]
<1>2. x = [f \in {"status", "retryCount", "nextRetryAt"} |-> x[f]]
  BY DEF IsEntry
<1>3. x.status = "pending" /\ x.retryCount = n
  BY DEF IsEntry
<1> HIDE DEF x
<1>4. IsEntry(x)
  BY <1>2, <1>3 DEF IsEntry, Statuses
<1> QED
  BY <1>1, <1>3, <1>4 DEF x

\* The fate of the entry in hand; the others stay as they are.
LEMMA HandChanges ==
  ASSUME LoopInv, batch # {}, NEW x, IsEntry(x),
         entries' = [s \in DOMAIN entries |-> IF s = InHand THEN x ELSE entries[s]],
         UNCHANGED nextSequence
  PROVE  /\ EntriesInv'
         /\ entries'[InHand] = x /\ InHand \in DOMAIN entries /\ DOMAIN entries' = DOMAIN entries
         /\ \A s \in DOMAIN entries \ {InHand} : entries'[s] = entries[s]
<1>1. InHand \in DOMAIN entries
  BY InHandIsNext DEF Open
<1> QED
  BY <1>1 DEF LoopInv, EntriesInv

-----------------------------------------------------------------------------
\* Entries are appended below the limit, with a sequence that is new.
LEMMA AppendKeeps ==
  ASSUME LoopInv, AppendEntry
  PROVE  LoopInv'
<1>n. PICK n : n = nextSequence
  OBVIOUS
<1>1. /\ n \in 1..MaxAppends /\ DOMAIN entries \subseteq 1..(n - 1) /\ n \notin DOMAIN entries
      /\ Cardinality(DOMAIN entries) < maxSize
  BY <1>n, LoopFacts DEF AppendEntry, LoopInv, EntriesInv, HasRoom
<1>2. /\ DOMAIN entries' = DOMAIN entries \cup {n} /\ nextSequence' = n + 1
      /\ entries'[n] = NewEntry /\ \A s \in DOMAIN entries : entries'[s] = entries[s]
  BY <1>n, <1>1 DEF AppendEntry
<1>3. UNCHANGED <<now, pc, batch, processStatus, attempts, received>>
  BY DEF AppendEntry, loopVars
<1>4. /\ IsEntry(NewEntry) /\ ~IsSettled(NewEntry) /\ NewEntry.retryCount = 0
      /\ NewEntry.status = "pending"
  BY LoopFacts DEF NewEntry, IsEntry, IsSettled, Statuses
<1> HIDE DEF NewEntry
<1>5. IsFiniteSet(DOMAIN entries)
  <2>1. IsFiniteSet(1..(n - 1))
    BY <1>1, FS_Interval, LoopFacts
  <2> QED
    BY <1>1, <2>1, FS_Subset
<1>6. Cardinality(DOMAIN entries') <= maxSize
  <2>1. PICK D : D = DOMAIN entries
    OBVIOUS
  <2>2. Cardinality(D \cup {n}) = Cardinality(D) + 1 /\ Cardinality(D) \in Nat
    BY <1>1, <1>5, <2>1, FS_AddElement, FS_CardinalityType
  <2> QED
    BY <1>1, <1>2, <2>1, <2>2, LoopFacts
<1>7. EntriesInv'
  <2>1. n + 1 \in 1..(MaxAppends + 1) /\ DOMAIN entries' \subseteq 1..((n + 1) - 1)
    BY <1>1, <1>2, LoopFacts
  <2>2. \A s \in DOMAIN entries' : IsEntry(entries'[s])
    BY <1>2, <1>4 DEF LoopInv, EntriesInv
  <2> QED
    BY <1>2, <1>6, <2>1, <2>2 DEF EntriesInv
<1>8. AttemptsInv'
  <2>1. attempts[n] = 0 /\ \A s \in (n + 1)..MaxAppends : attempts[s] = 0
    BY <1>n, <1>1, LoopFacts DEF LoopInv, AttemptsInv
  <2>2. ASSUME NEW s \in DOMAIN entries', ~IsSettled(entries'[s])
        PROVE  entries'[s].retryCount = attempts[s] /\ attempts[s] < maxRetries
    <3>1. CASE s = n
      BY <1>2, <1>4, <2>1, <3>1, LoopFacts
    <3>2. CASE s \in DOMAIN entries
      BY <1>2, <2>2, <3>2 DEF LoopInv, AttemptsInv
    <3> QED
      BY <1>2, <3>1, <3>2
  <2> QED
    BY <1>2, <1>3, <2>1, <2>2 DEF LoopInv, AttemptsInv, IsSettled
<1>9. \A s : Open(s) => Open(s)'
  BY <1>2 DEF Open, IsSettled
<1>10. BatchInv'
  <2>1. \A s \in DOMAIN entries' :
          entries'[s].status = "inflight" => pc = "sending" /\ s = InHand
    BY <1>2, <1>4 DEF LoopInv, BatchInv
  <2> QED
    BY <1>3, <1>9, <2>1 DEF LoopInv, BatchInv, InHand
<1>11. DeliveredInv'
  <2>1. Open(n)'
    BY <1>2, <1>4 DEF Open, IsSettled
  <2>2. \A s \in 1..((n + 1) - 1) : s = n \/ s \in 1..(n - 1)
    BY <1>1, LoopFacts
  <2>3. \A s \in 1..(n - 1) : s \in received \/ attempts[s] = maxRetries \/ Open(s)
    BY <1>n DEF LoopInv, DeliveredInv
  <2>4. \A s \in 1..((n + 1) - 1) : s \in received \/ attempts[s] = maxRetries \/ Open(s)'
    BY <1>9, <2>1, <2>2, <2>3
  <2> QED
    BY <1>2, <1>3, <2>4 DEF DeliveredInv
<1> QED
  BY <1>3, <1>7, <1>8, <1>10, <1>11 DEF LoopInv

\* Compaction takes away what is settled, and nothing else.
LEMMA CompactKeeps ==
  ASSUME LoopInv, Compact
  PROVE  LoopInv'
<1>1. /\ DOMAIN entries' = {s \in DOMAIN entries : ~IsSettled(entries[s])}
      /\ \A s \in DOMAIN entries' : entries'[s] = entries[s]
  BY DEF Compact, Compacted, Only
<1>2. UNCHANGED <<now, nextSequence, pc, batch, processStatus, attempts, received>>
  BY DEF Compact, loopVars
<1>3. \A s : Open(s) <=> Open(s)'
  BY <1>1 DEF Open, IsSettled
<1>4. Cardinality(DOMAIN entries') <= maxSize
  <2>1. IsFiniteSet(1..(nextSequence - 1))
    BY FS_Interval, LoopFacts DEF LoopInv, EntriesInv
  <2>2. IsFiniteSet(DOMAIN entries) /\ DOMAIN entries' \subseteq DOMAIN entries
    BY <1>1, <2>1, FS_Subset DEF LoopInv, EntriesInv
  <2>3. /\ Cardinality(DOMAIN entries') <= Cardinality(DOMAIN entries)
        /\ Cardinality(DOMAIN entries') \in Nat /\ Cardinality(DOMAIN entries) \in Nat
    BY <2>2, FS_Subset, FS_CardinalityType
  <2> QED
    BY <2>3, LoopFacts DEF LoopInv, EntriesInv
<1>5. EntriesInv' /\ AttemptsInv'
  BY <1>1, <1>2, <1>4 DEF LoopInv, EntriesInv, AttemptsInv
<1>6. BatchInv' /\ DeliveredInv'
  BY <1>1, <1>2, <1>3 DEF LoopInv, BatchInv, DeliveredInv, InHand
<1> QED
  BY <1>2, <1>5, <1>6 DEF LoopInv

\* The loop and its callers, as long as nothing is sent.
LEMMA QuietKeeps ==
  ASSUME LoopInv,
         \/ Drain \/ PollTimer \/ Wake \/ ExternalAbort \/ (\E s \in Stoppers : Stop(s))
         \/ SendNext /\ pc' = "sleep"
         \/ UNCHANGED vars
  PROVE  LoopInv'
<1>1. UNCHANGED <<entries, nextSequence, attempts, received>>
  BY DEF Drain, PollTimer, Wake, LoopEnds, ExternalAbort, Stop, SendNext, outboxVars, loopVars, vars
<1>2. EntriesInv' /\ AttemptsInv' /\ DeliveredInv' /\ \A s : Open(s) <=> Open(s)'
  BY <1>1, EntriesSame
<1>3. /\ now' \in Nat /\ pc' \in {"drain", "next", "sending", "sleep", "ended"}
      /\ processStatus' \in {"idle", "degraded", "stopping", "stopped"}
  BY LoopFacts
  DEF LoopInv, Drain, PollTimer, StatusAfterPoll, Wake, LoopEnds, ExternalAbort, Stop, SendNext,
      outboxVars, loopVars, vars
<1>4. BatchInv'
  <2>1. CASE Drain
    <3>1. pc = "drain" /\ pc' # "sending" /\ \A s \in batch' : Open(s)
      BY <2>1 DEF Drain, Pending, IsEligible, Open, IsSettled
    <3> QED
      BY <1>1, <1>2, <3>1 DEF LoopInv, BatchInv
  <2>2. CASE UNCHANGED <<pc, batch>>
    BY <1>1, <1>2, <2>2 DEF LoopInv, BatchInv, InHand
  <2>3. CASE batch' \in {{}, batch} /\ pc # "sending" /\ pc' # "sending"
    BY <1>1, <1>2, <2>3 DEF LoopInv, BatchInv
  <2> QED
    BY <2>1, <2>2, <2>3
    DEF PollTimer, Wake, LoopEnds, ExternalAbort, Stop, SendNext, outboxVars, loopVars, vars
<1> QED
  BY <1>2, <1>3, <1>4 DEF LoopInv

\* The entry in hand is sent: it is in flight until the transport answers.
LEMMA SendKeeps ==
  ASSUME LoopInv, SendNext, pc' # "sleep"
  PROVE  LoopInv'
<1>1. /\ batch # {} /\ pc' = "sending" /\ entries' = MarkInflight(InHand) /\ pc = "next"
      /\ UNCHANGED <<now, nextSequence, batch, processStatus, attempts, received>>
  BY DEF SendNext
<1>2. PICK h : h = InHand
  OBVIOUS
<1>3. h \in batch /\ h \in DOMAIN entries /\ IsEntry(entries[h]) /\ ~IsSettled(entries[h])
  BY <1>1, <1>2, InHandIsNext DEF Open, LoopInv, EntriesInv
<1>4. PICK x : x = [entries[h] EXCEPT !.status = "inflight"]
  OBVIOUS
<1>5. IsEntry(x) /\ ~IsSettled(x) /\ x.retryCount = entries[h].retryCount
  BY <1>3, <1>4, InflightEntry
<1>6. entries' = [s \in DOMAIN entries |-> IF s = h THEN x ELSE entries[s]]
  BY <1>1, <1>2, <1>3, <1>4 DEF MarkInflight, Updated
<1>7. /\ EntriesInv' /\ entries'[h] = x /\ DOMAIN entries' = DOMAIN entries
      /\ \A s \in DOMAIN entries \ {h} : entries'[s] = entries[s]
  BY <1>1, <1>2, <1>5, <1>6, HandChanges
<1>8. \A s : Open(s) <=> Open(s)'
  BY <1>3, <1>5, <1>7 DEF Open, IsSettled
<1>9. AttemptsInv' /\ DeliveredInv'
  BY <1>1, <1>3, <1>5, <1>7, <1>8 DEF LoopInv, AttemptsInv, DeliveredInv, IsSettled
<1>10. BatchInv'
  <2>1. InHand' = h
    BY <1>1, <1>2 DEF InHand
  <2>2. \A s \in DOMAIN entries : entries[s].status # "inflight"
    BY <1>1 DEF LoopInv, BatchInv
  <2> QED
    BY <1>1, <1>7, <1>8, <2>1, <2>2 DEF LoopInv, BatchInv
<1> QED
  BY <1>1, <1>7, <1>9, <1>10 DEF LoopInv

\* The transport answered: the entry in hand is settled, or pending once more
\* and its attempt counted.
LEMMA AnsweredKeeps ==
  ASSUME LoopInv, SendOk \/ \E lost \in BOOLEAN : SendFails(lost)
  PROVE  LoopInv'
<1>1. /\ pc = "sending" /\ batch # {} /\ pc' = "next" /\ batch' = batch \ {InHand}
      /\ attempts' = [attempts EXCEPT ![InHand] = @ + 1] /\ received \subseteq received'
      /\ UNCHANGED <<now, nextSequence, processStatus>>
  BY DEF SendOk, SendFails, LoopInv, BatchInv
<1>2. PICK h : h = InHand
  OBVIOUS
<1>3. /\ h \in DOMAIN entries /\ IsEntry(entries[h]) /\ ~IsSettled(entries[h])
      /\ h \in 1..(nextSequence - 1)
  BY <1>1, <1>2, InHandIsNext DEF Open, LoopInv, EntriesInv
<1>4. /\ attempts \in [1..MaxAppends -> Nat] /\ nextSequence \in 1..(MaxAppends + 1)
      /\ entries[h].retryCount = attempts[h] /\ attempts[h] < maxRetries
  BY <1>3 DEF LoopInv, AttemptsInv, EntriesInv
<1>5. h \in 1..MaxAppends
  BY <1>3, <1>4, LoopFacts
<1>6. /\ attempts' \in [1..MaxAppends -> Nat] /\ attempts'[h] = attempts[h] + 1
      /\ \A s \in 1..MaxAppends : s # h => attempts'[s] = attempts[s]
  BY <1>1, <1>2, <1>4, <1>5
<1>7. \E x : /\ IsEntry(x) /\ x.status # "inflight"
             /\ entries' = [s \in DOMAIN entries |-> IF s = h THEN x ELSE entries[s]]
             /\ \/ IsSettled(x) /\ (h \in received' \/ attempts'[h] = maxRetries)
                \/ /\ ~IsSettled(x) /\ x.retryCount = attempts'[h]
                   /\ attempts'[h] < maxRetries
  <2>1. CASE SendOk
    <3>1. PICK x : x = [entries[h] EXCEPT !.status = "acknowledged"]
      OBVIOUS
    <3>2. IsEntry(x) /\ IsSettled(x) /\ x.status = "acknowledged"
      BY <1>3, <3>1, AckedEntry DEF IsEntry
    <3>3. entries' = [s \in DOMAIN entries |-> IF s = h THEN x ELSE entries[s]]
      BY <1>2, <1>3, <2>1, <3>1 DEF SendOk, Ack, Updated
    <3>4. h \in received'
      BY <1>2, <2>1 DEF SendOk
    <3> QED
      BY <3>2, <3>3, <3>4
  <2>2. CASE \E lost \in BOOLEAN : SendFails(lost)
    <3>1. entries' = MarkRetry(h)
      BY <1>2, <2>2 DEF SendFails
    <3>2. PICK at : at = now + baseBackoff * 2^entries[h].retryCount
      OBVIOUS
    <3>3. CASE entries[h].retryCount + 1 >= maxRetries
      <4>1. PICK x : x = [entries[h] EXCEPT !.status = "dead", !.retryCount = @ + 1]
        OBVIOUS
      <4>2. IsEntry(x) /\ IsSettled(x) /\ x.status = "dead"
        BY <1>3, <1>4, <4>1, DeadEntry DEF IsEntry
      <4>3. entries' = [s \in DOMAIN entries |-> IF s = h THEN x ELSE entries[s]]
        BY <1>3, <3>1, <3>3, <4>1 DEF MarkRetry, Updated
      <4>4. attempts'[h] = maxRetries
        BY <1>4, <1>5, <1>6, <3>3, LoopFacts
      <4> QED
        BY <4>2, <4>3, <4>4
    <3>4. CASE ~(entries[h].retryCount + 1 >= maxRetries)
      <4>1. PICK x : x = [entries[h] EXCEPT !.status = "pending", !.retryCount = @ + 1,
                                            !.nextRetryAt = at]
        OBVIOUS
      <4>2. IsEntry(x) /\ x.status = "pending" /\ x.retryCount = entries[h].retryCount + 1
        BY <1>3, <1>4, <4>1, RetryEntry
      <4>3. entries' = [s \in DOMAIN entries |-> IF s = h THEN x ELSE entries[s]]
        BY <1>3, <3>1, <3>2, <3>4, <4>1 DEF MarkRetry, Updated
      <4>4. attempts'[h] < maxRetries /\ ~IsSettled(x)
        BY <1>4, <1>5, <1>6, <3>4, <4>2, LoopFacts DEF IsSettled
      <4> QED
        BY <1>4, <1>6, <4>2, <4>3, <4>4
    <3> QED
      BY <3>3, <3>4
  <2> QED
    BY <2>1, <2>2
<1>8. PICK x : /\ IsEntry(x) /\ x.status # "inflight"
               /\ entries' = [s \in DOMAIN entries |-> IF s = h THEN x ELSE entries[s]]
               /\ \/ IsSettled(x) /\ (h \in received' \/ attempts'[h] = maxRetries)
                  \/ /\ ~IsSettled(x) /\ x.retryCount = attempts'[h]
                     /\ attempts'[h] < maxRetries
  BY <1>7
<1>9. /\ EntriesInv' /\ entries'[h] = x /\ DOMAIN entries' = DOMAIN entries
      /\ \A s \in DOMAIN entries \ {h} : entries'[s] = entries[s]
  BY <1>1, <1>2, <1>8, HandChanges
<1>10. /\ \A s : s # h => (Open(s) <=> Open(s)')
       /\ Open(h)' <=> ~IsSettled(x)
  BY <1>3, <1>8, <1>9 DEF Open, IsSettled
<1>11. AttemptsInv'
  <2>1. \A s \in nextSequence..MaxAppends : s # h /\ s \in 1..MaxAppends
    BY <1>3, <1>4, LoopFacts
  <2>2. \A s \in DOMAIN entries : s \in 1..MaxAppends
    BY <1>4, LoopFacts DEF LoopInv, EntriesInv
  <2>3. ASSUME NEW s \in DOMAIN entries', ~IsSettled(entries'[s])
        PROVE  entries'[s].retryCount = attempts'[s] /\ attempts'[s] < maxRetries
    BY <1>6, <1>8, <1>9, <2>2, <2>3 DEF LoopInv, AttemptsInv
  <2>4. \A s \in nextSequence..MaxAppends : attempts'[s] = 0
    BY <1>6, <2>1 DEF LoopInv, AttemptsInv
  <2> QED
    BY <1>1, <1>6, <2>3, <2>4 DEF AttemptsInv, IsSettled
<1>12. DeliveredInv'
  <2>1. \A s \in 1..(nextSequence - 1) : s \in 1..MaxAppends
    BY <1>4, LoopFacts
  <2>2. ASSUME NEW s \in 1..(nextSequence - 1)
        PROVE  s \in received' \/ attempts'[s] = maxRetries \/ Open(s)'
    <3>1. CASE s = h
      BY <1>8, <1>10, <3>1
    <3>2. CASE s # h
      BY <1>1, <1>6, <1>10, <2>1, <3>2 DEF LoopInv, DeliveredInv
    <3> QED
      BY <3>1, <3>2
  <2> QED
    BY <1>1, <2>2 DEF DeliveredInv
<1>13. BatchInv'
  BY <1>1, <1>2, <1>8, <1>9, <1>10 DEF LoopInv, BatchInv
<1> QED
  BY <1>1, <1>9, <1>11, <1>12, <1>13 DEF LoopInv

-----------------------------------------------------------------------------
\* Every step keeps the invariant.
LEMMA LoopStepInv == LoopInv /\ [Next]_vars => LoopInv'
<1> SUFFICES ASSUME LoopInv, [Next]_vars PROVE LoopInv'
  OBVIOUS
<1>1. CASE AppendEntry \/ Compact
  BY <1>1, AppendKeeps, CompactKeeps
<1>2. CASE SendNext
  BY <1>2, SendKeeps, QuietKeeps
<1>3. CASE SendOk \/ \E lost \in BOOLEAN : SendFails(lost)
  BY <1>3, AnsweredKeeps
<1>4. CASE Drain \/ PollTimer \/ Wake \/ ExternalAbort \/ (\E s \in Stoppers : Stop(s)) \/ UNCHANGED vars
  BY <1>4, QuietKeeps
<1> QED
  BY <1>1, <1>2, <1>3, <1>4 DEF Next, LoopStep

\* Whatever compaction, lost answers and stops interleave with the drain of
\* runnerStart, its outbox stays within its size, drops and gives up only what
\* was received or tried to the end, and no entry stays behind in flight, where
\* pending() would never find it again.
THEOREM OutboxLosesNothing == Spec => []OutboxSound
<1>1. LoopInv => OutboxSound
  <2> SUFFICES ASSUME LoopInv PROVE OutboxSound
    OBVIOUS
  <2>1. TypeOK
    BY LoopFacts DEF LoopInv, EntriesInv, TypeOK, IsEntry
  <2>2. NoEntryLost
    <3> SUFFICES ASSUME NEW s \in 1..(nextSequence - 1), Open(s)
                 PROVE  StatusOf(s) \notin {"absent", "acknowledged", "dead"}
      BY DEF LoopInv, DeliveredInv, NoEntryLost
    <3> QED
      BY DEF LoopInv, EntriesInv, IsEntry, Statuses, Open, StatusOf, IsSettled
  <2>3. NothingInflightAtRest
    BY DEF LoopInv, BatchInv, NothingInflightAtRest
  <2> QED
    BY <2>1, <2>2, <2>3 DEF OutboxSound
<1> QED
  BY <1>1, LoopInitInv, LoopStepInv, PTL DEF Spec

-----------------------------------------------------------------------------
(* The HTTP server. *)

HandlerStates == {"new", "queued", "admitted", "reading", "answering", "ended"}

HttpTypeOK ==
  /\ active \in Nat /\ waiters \in Seq(Requests) /\ stopping \in BOOLEAN
  /\ shutdown \in {"no", "pending", "drained", "timeout"}
  /\ handler \in [Requests -> HandlerStates]
  /\ gone \in [Requests -> BOOLEAN] /\ closeSeen \in [Requests -> BOOLEAN]
  /\ ctl \in [Requests -> BOOLEAN]
  /\ reply \in [Requests -> {"none", "4xx", "200", "400", "429", "500", "503"}]

NoRepeats(q) == \A i, j \in 1..Len(q) : q[i] = q[j] => i = j
InQueue(q) == {q[i] : i \in 1..Len(q)}
Holders == {r \in Requests : handler[r] \in Admitted}

\* Every queued handler waits exactly once, and nobody else does.
QueueExact == NoRepeats(waiters) /\ InQueue(waiters) = {r \in Requests : handler[r] = "queued"}

\* A drained server is not only idle: nobody waits for a slot either.
DrainedForGood == shutdown = "drained" => \A r \in Requests : handler[r] \in {"new", "ended"}

\* The inductive invariant.
HttpInv ==
  /\ HttpTypeOK /\ QueueExact /\ IsFiniteSet(Holders)
  /\ SlotsExact /\ StopReachesWork /\ NobodyForgotten /\ DrainedForGood

\* What pump computes: it stops at the first place where the slots are full or
\* nobody is left, so that it never lets in more than there are free slots, and
\* leaves somebody waiting only when it filled them.
LEMMA PumpFills ==
  ASSUME NEW q \in Seq(Requests), NoRepeats(q), NEW busy \in Nat,
         busy <= maxConcurrentRequests, gone \in [Requests -> BOOLEAN]
  PROVE  LET p == Pumped(busy, q)
         IN  /\ p.rest \in Seq(Requests) /\ NoRepeats(p.rest)
             /\ p.taken \subseteq InQueue(q) /\ InQueue(p.rest) = InQueue(q) \ p.taken
             /\ p.in = {w \in p.taken : ~gone[w]}
             /\ IsFiniteSet(p.in) /\ Cardinality(p.in) \in Nat
             /\ busy + Cardinality(p.in) <= maxConcurrentRequests
             /\ p.rest # <<>> /\ ~stopping => busy + Cardinality(p.in) = maxConcurrentRequests
<1> DEFINE live(i) == {k \in 1..i : ~gone[q[k]]}
           liveUpTo(i) == Cardinality(live(i))
           stops == {i \in 0..Len(q) :
                       stopping \/ i = Len(q) \/ busy + liveUpTo(i) >= maxConcurrentRequests}
           n == CHOOSE i \in stops : \A k \in stops : i <= k
           taken == {q[i] : i \in 1..n}
           p == Pumped(busy, q)
<1>1. maxConcurrentRequests \in Nat /\ Len(q) \in Nat /\ \A i \in 1..Len(q) : q[i] \in Requests
  BY ServerAssumption
<1>2. \A i \in Nat : IsFiniteSet(live(i)) /\ liveUpTo(i) \in Nat
  <2> TAKE i \in Nat
  <2>1. IsFiniteSet(1..i) /\ live(i) \subseteq 1..i
    BY FS_Interval
  <2> QED
    BY <2>1, FS_Subset, FS_CardinalityType
<1>3. liveUpTo(0) = 0
  <2>1. live(0) = {}
    OBVIOUS
  <2> QED
    BY <2>1, FS_EmptySet
<1>4. ASSUME NEW i \in Nat, i # 0 PROVE i - 1 \in Nat /\ liveUpTo(i) <= liveUpTo(i - 1) + 1
  <2>1. live(i) = live(i - 1) \cup (IF gone[q[i]] THEN {} ELSE {i})
    <3>1. 1..i = (1..(i - 1)) \cup {i}
      BY <1>4
    <3> QED
      BY <3>1
  <2>2. i - 1 \in Nat /\ i \notin live(i - 1)
    BY <1>4
  <2> HIDE DEF live
  <2>4. IsFiniteSet(live(i - 1)) /\ liveUpTo(i - 1) \in Nat
    BY <1>2, <2>2
  <2>3. liveUpTo(i) = liveUpTo(i - 1) \/ liveUpTo(i) = liveUpTo(i - 1) + 1
    BY <2>1, <2>2, <2>4, FS_AddElement
  <2> HIDE DEF liveUpTo
  <2> QED
    BY <2>2, <2>3, <2>4
<1>5. n \in stops /\ \A k \in stops : n <= k
  <2>1. stops \subseteq Nat /\ Len(q) \in stops
    BY <1>1
  <2> HIDE DEF stops
  <2> QED
    BY <2>1, LeastNat
<1>6. /\ p.rest = SubSeq(q, n + 1, Len(q)) /\ p.taken = taken /\ p.in = {w \in taken : ~gone[w]}
  <2>1. p = [rest |-> SubSeq(q, n + 1, Len(q)), taken |-> taken, in |-> {w \in taken : ~gone[w]}]
    BY DEF Pumped
  <2> HIDE DEF p, n, taken
  <2> QED
    BY <2>1
<1> HIDE DEF n, p, liveUpTo
<1>7. n \in 0..Len(q) /\ n \in Nat /\ liveUpTo(n) \in Nat
  <2>1. n \in 0..Len(q)
    BY <1>5
  <2>2. n \in Nat
    BY <2>1, <1>1
  <2> HIDE DEF live
  <2> QED
    BY <2>1, <2>2, <1>2
<1>8. /\ busy + liveUpTo(n) <= maxConcurrentRequests
      /\ n # Len(q) /\ ~stopping => busy + liveUpTo(n) = maxConcurrentRequests
  <2>1. busy + liveUpTo(n) <= maxConcurrentRequests
    <3>1. CASE n = 0
      BY <3>1, <1>1, <1>3
    <3>2. CASE n # 0
      <4>1. n - 1 \in 0..Len(q) /\ n - 1 \in Nat /\ ~(n <= n - 1)
        BY <3>2, <1>1, <1>7
      <4>2. n - 1 \notin stops
        BY <4>1, <1>5
      <4>3. ~(busy + liveUpTo(n - 1) >= maxConcurrentRequests)
        BY <4>1, <4>2
      <4>4. liveUpTo(n - 1) \in Nat /\ liveUpTo(n) <= liveUpTo(n - 1) + 1
        BY <3>2, <4>1, <1>2, <1>4, <1>7
      <4> QED
        BY <4>3, <4>4, <1>1, <1>7
    <3> QED
      BY <3>1, <3>2
  <2>2. n # Len(q) /\ ~stopping => busy + liveUpTo(n) >= maxConcurrentRequests
    BY <1>5
  <2> HIDE DEF stops
  <2> QED
    BY <2>1, <2>2, <1>1, <1>7
<1>9. IsFiniteSet(p.in) /\ Cardinality(p.in) = liveUpTo(n)
  <2> DEFINE f == [k \in live(n) |-> q[k]]
  <2>1. live(n) \subseteq 1..Len(q)
    BY <1>1, <1>7
  <2>2. \A k \in live(n) : f[k] \in p.in
    BY <1>6
  <2>3. \A w \in p.in : \E k \in live(n) : f[k] = w
    BY <1>6
  <2>4. \A j, k \in live(n) : f[j] = f[k] => j = k
    BY <2>1 DEF NoRepeats
  <2>5. f \in Bijection(live(n), p.in)
    <3> HIDE DEF live
    <3>1. f \in [live(n) -> p.in]
      BY <2>2
    <3> HIDE DEF f
    <3> QED
      BY <3>1, <2>3, <2>4, Fun_IsBij
  <2>6. IsFiniteSet(live(n))
    BY <1>2, <1>7
  <2> QED
    BY <2>5, <2>6, FS_Bijection DEF ExistsBijection, liveUpTo
<1>10. /\ p.rest \in Seq(Requests)
       /\ Len(p.rest) = Len(q) - n
       /\ \A i \in 1..(Len(q) - n) : p.rest[i] = q[n + i]
  <2>1. \A i \in (n + 1)..Len(q) : q[i] \in Requests
    BY <1>1, <1>7
  <2>2. n + 1 \in Int /\ Len(q) \in Int
    BY <1>1, <1>7
  <2>3. /\ SubSeq(q, n + 1, Len(q)) \in Seq(Requests)
        /\ Len(SubSeq(q, n + 1, Len(q))) = IF n + 1 <= Len(q) THEN Len(q) - (n + 1) + 1 ELSE 0
        /\ \A i \in 1..(Len(q) - (n + 1) + 1) : SubSeq(q, n + 1, Len(q))[i] = q[n + 1 + i - 1]
    BY <2>1, <2>2, SubSeqProperties
  <2> QED
    BY <2>3, <1>1, <1>7, <1>6
<1>11. NoRepeats(p.rest)
  <2> SUFFICES ASSUME NEW i \in 1..Len(p.rest), NEW j \in 1..Len(p.rest), p.rest[i] = p.rest[j]
               PROVE  i = j
    BY DEF NoRepeats
  <2>1. n + i \in 1..Len(q) /\ n + j \in 1..Len(q) /\ q[n + i] = q[n + j]
    BY <1>1, <1>7, <1>10
  <2> QED
    BY <2>1, <1>7 DEF NoRepeats
<1>12. p.taken \subseteq InQueue(q) /\ InQueue(p.rest) = InQueue(q) \ p.taken
  <2>1. \A i \in 1..n : i \in 1..Len(q)
    BY <1>1, <1>7
  <2>2. ASSUME NEW i \in 1..Len(q), q[i] \notin taken PROVE q[i] \in InQueue(p.rest)
    <3>1. i - n \in 1..Len(p.rest) /\ p.rest[i - n] = q[i]
      BY <2>2, <1>1, <1>7, <1>10
    <3> QED
      BY <3>1 DEF InQueue
  <2>3. ASSUME NEW i \in 1..Len(p.rest) PROVE p.rest[i] \in InQueue(q) \ taken
    <3>1. n + i \in 1..Len(q) /\ p.rest[i] = q[n + i] /\ n + i \notin 1..n
      BY <1>1, <1>7, <1>10
    <3>2. \A k \in 1..n : q[k] # q[n + i]
      BY <3>1, <2>1 DEF NoRepeats
    <3> QED
      BY <3>1, <3>2 DEF InQueue
  <2>4. \A x \in InQueue(q) : x \in taken \/ x \in InQueue(p.rest)
    BY <2>2 DEF InQueue
  <2>5. \A x \in InQueue(p.rest) : x \in InQueue(q) \ taken
    BY <2>3 DEF InQueue
  <2>6. taken \subseteq InQueue(q)
    BY <2>1 DEF InQueue
  <2> HIDE DEF taken
  <2> QED
    BY <2>4, <2>5, <2>6, <1>6
<1>13. p.rest # <<>> => n # Len(q)
  BY <1>1, <1>7, <1>10
<1>14. Cardinality(p.in) \in Nat
  BY <1>7, <1>9
<1> QED
  BY <1>6, <1>7, <1>8, <1>9, <1>10, <1>11, <1>12, <1>13, <1>14 DEF p

\* removeQueuedWaiter takes exactly that waiter out.
LEMMA WithoutLeaves ==
  ASSUME NEW q \in Seq(Requests), NoRepeats(q), NEW r \in Requests
  PROVE  /\ Without(q, r) \in Seq(Requests) /\ NoRepeats(Without(q, r))
         /\ InQueue(Without(q, r)) = InQueue(q) \ {r}
<1>1. CASE ~\E i \in DOMAIN q : q[i] = r
  BY <1>1 DEF Without, InQueue
<1>2. CASE \E i \in DOMAIN q : q[i] = r
  <2> DEFINE n == CHOOSE i \in DOMAIN q : q[i] = r
             w == Without(q, r)
  <2>1. n \in 1..Len(q) /\ q[n] = r /\ Len(q) \in Nat
    BY <1>2
  <2>2. w = SubSeq(q, 1, n - 1) \o SubSeq(q, n + 1, Len(q))
    BY <1>2 DEF Without, RemoveAt
  <2> HIDE DEF n, w
  <2>3. /\ SubSeq(q, 1, n - 1) \in Seq(Requests) /\ Len(SubSeq(q, 1, n - 1)) = n - 1
        /\ \A i \in 1..(n - 1) : SubSeq(q, 1, n - 1)[i] = q[i]
    BY <2>1
  <2>4. /\ SubSeq(q, n + 1, Len(q)) \in Seq(Requests)
        /\ Len(SubSeq(q, n + 1, Len(q))) = Len(q) - n
        /\ \A i \in 1..(Len(q) - n) : SubSeq(q, n + 1, Len(q))[i] = q[n + i]
    BY <2>1
  <2>5. /\ w \in Seq(Requests) /\ Len(w) = Len(q) - 1
        /\ \A i \in 1..(Len(q) - 1) : w[i] = IF i < n THEN q[i] ELSE q[i + 1]
    <3> DEFINE a == SubSeq(q, 1, n - 1)
               b == SubSeq(q, n + 1, Len(q))
    <3> HIDE DEF a, b
    <3>1. /\ a \o b \in Seq(Requests) /\ Len(a \o b) = Len(a) + Len(b)
          /\ \A i \in 1..(Len(a) + Len(b)) : (a \o b)[i] = IF i <= Len(a) THEN a[i] ELSE b[i - Len(a)]
      BY <2>3, <2>4, ConcatProperties DEF a, b
    <3>2. Len(a) = n - 1 /\ Len(b) = Len(q) - n /\ w = a \o b
      BY <2>2, <2>3, <2>4 DEF a, b
    <3>3. ASSUME NEW i \in 1..(Len(q) - 1) PROVE w[i] = IF i < n THEN q[i] ELSE q[i + 1]
      <4>1. CASE i < n
        <5>1. i \in 1..(Len(a) + Len(b)) /\ i <= Len(a) /\ i \in 1..(n - 1)
          BY <4>1, <3>2, <2>1
        <5> QED
          BY <4>1, <5>1, <3>1, <3>2, <2>3 DEF a
      <4>2. CASE ~(i < n)
        <5>1. /\ i \in 1..(Len(a) + Len(b)) /\ ~(i <= Len(a))
              /\ i - Len(a) \in 1..(Len(q) - n) /\ n + (i - Len(a)) = i + 1
          BY <4>2, <3>2, <2>1
        <5>2. w[i] = b[i - Len(a)]
          BY <5>1, <3>1, <3>2
        <5>3. b[i - Len(a)] = q[n + (i - Len(a))]
          BY <5>1, <2>4 DEF b
        <5> QED
          BY <4>2, <5>1, <5>2, <5>3
      <4> QED
        BY <4>1, <4>2
    <3> QED
      BY <3>1, <3>2, <3>3, <2>1
  <2>6. NoRepeats(w)
    <3> SUFFICES ASSUME NEW i \in 1..Len(w), NEW j \in 1..Len(w), w[i] = w[j] PROVE i = j
      BY DEF NoRepeats
    <3> DEFINE At(k) == IF k < n THEN k ELSE k + 1
    <3>1. At(i) \in 1..Len(q) /\ At(j) \in 1..Len(q) /\ q[At(i)] = q[At(j)]
      BY <2>1, <2>5
    <3> HIDE DEF At
    <3>2. At(i) = At(j)
      BY <3>1 DEF NoRepeats
    <3> QED
      BY <3>2, <2>1, <2>5 DEF At
  <2>7. InQueue(w) = InQueue(q) \ {r}
    <3>1. ASSUME NEW i \in 1..Len(w) PROVE w[i] \in InQueue(q) \ {r}
      <4> DEFINE k == IF i < n THEN i ELSE i + 1
      <4>1. k \in 1..Len(q) /\ w[i] = q[k] /\ k # n
        BY <2>1, <2>5
      <4> HIDE DEF k
      <4> QED
        BY <4>1, <2>1 DEF NoRepeats, InQueue
    <3>2. ASSUME NEW k \in 1..Len(q), q[k] # r PROVE q[k] \in InQueue(w)
      <4> DEFINE i == IF k < n THEN k ELSE k - 1
      <4>1. k # n
        BY <3>2, <2>1
      <4>2. i \in 1..Len(w) /\ w[i] = q[k]
        BY <4>1, <2>1, <2>5
      <4> HIDE DEF i
      <4> QED
        BY <4>2 DEF InQueue
    <3>3. \A x \in InQueue(w) : x \in InQueue(q) \ {r}
      BY <3>1 DEF InQueue
    <3>4. \A x \in InQueue(q) \ {r} : x \in InQueue(w)
      BY <3>2 DEF InQueue
    <3> QED
      BY <3>3, <3>4
  <2> QED
    BY <2>5, <2>6, <2>7 DEF w
<1> QED
  BY <1>1, <1>2

\* Nobody is in an empty queue, and a queue nobody is in is empty.
LEMMA EmptyQueue == \A q \in Seq(Requests) : q = <<>> <=> InQueue(q) = {}
<1> TAKE q \in Seq(Requests)
<1>1. q = <<>> => InQueue(q) = {}
  BY DEF InQueue
<1>2. q # <<>> => 1 \in 1..Len(q)
  OBVIOUS
<1>3. q # <<>> => q[1] \in InQueue(q)
  BY <1>2 DEF InQueue
<1> QED
  BY <1>1, <1>3

\* A new server has nobody in it.
LEMMA HttpInitInv == HttpInit => HttpInv
<1> SUFFICES ASSUME HttpInit PROVE HttpInv
  OBVIOUS
<1>1. Holders = {} /\ {r \in Requests : handler[r] = "queued"} = {}
  BY DEF HttpInit, Holders, Admitted
<1>2. HttpTypeOK
  <2>1. /\ handler \in [Requests -> HandlerStates]
        /\ reply \in [Requests -> {"none", "4xx", "200", "400", "429", "500", "503"}]
    BY DEF HttpInit, HandlerStates
  <2>2. /\ gone \in [Requests -> BOOLEAN] /\ closeSeen \in [Requests -> BOOLEAN]
        /\ ctl \in [Requests -> BOOLEAN]
    BY DEF HttpInit
  <2>3. waiters \in Seq(Requests) /\ active \in Nat
    BY DEF HttpInit
  <2> QED
    BY <2>1, <2>2, <2>3 DEF HttpInit, HttpTypeOK
<1>3. QueueExact
  BY <1>1 DEF HttpInit, QueueExact, NoRepeats, InQueue
<1>4. IsFiniteSet(Holders) /\ Cardinality(Holders) = 0
  BY <1>1, FS_EmptySet
<1>5. SlotsExact
  BY <1>4, ServerAssumption DEF HttpInit, SlotsExact, Holders
<1> QED
  BY <1>2, <1>3, <1>4, <1>5 DEF HttpInit, HttpInv, StopReachesWork, NobodyForgotten, DrainedForGood

\* A handler ends and the queue is pumped: the slots that become free go to the
\* first waiters whose clients are still there.
LEMMA EndsInv ==
  ASSUME HttpInv, NEW r \in Requests, handler[r] \in Admitted,
         NEW status \in {"4xx", "200", "400", "429", "500", "503"}, Ends(r, status),
         UNCHANGED <<stopping, shutdown, clientVars, ctl>>
  PROVE  HttpInv'
<1> DEFINE p == Pumped(active - 1, waiters)
<1>1. /\ HttpTypeOK /\ NoRepeats(waiters) /\ IsFiniteSet(Holders)
      /\ InQueue(waiters) = {x \in Requests : handler[x] = "queued"}
      /\ active = Cardinality(Holders) /\ active <= maxConcurrentRequests
      /\ waiters # <<>> => ~stopping
  BY DEF HttpInv, QueueExact, SlotsExact, Holders
<1>2. r \in Holders /\ maxConcurrentRequests \in Nat
  BY ServerAssumption DEF Holders
<1>3. IsFiniteSet(Holders \ {r}) /\ Cardinality(Holders \ {r}) = active - 1 /\ active - 1 \in Nat
  <2>1. IsFiniteSet(Holders \ {r}) /\ Cardinality(Holders \ {r}) = Cardinality(Holders) - 1
    BY <1>1, <1>2, FS_RemoveElement
  <2>2. Cardinality(Holders \ {r}) \in Nat
    BY <2>1, FS_CardinalityType
  <2> QED
    BY <2>1, <2>2, <1>1
<1>4. /\ p.rest \in Seq(Requests) /\ NoRepeats(p.rest)
      /\ p.taken \subseteq InQueue(waiters) /\ InQueue(p.rest) = InQueue(waiters) \ p.taken
      /\ p.in = {w \in p.taken : ~gone[w]}
      /\ IsFiniteSet(p.in) /\ Cardinality(p.in) \in Nat
      /\ active - 1 + Cardinality(p.in) <= maxConcurrentRequests
      /\ p.rest # <<>> /\ ~stopping => active - 1 + Cardinality(p.in) = maxConcurrentRequests
  <2>1. active - 1 <= maxConcurrentRequests /\ waiters \in Seq(Requests) /\ gone \in [Requests -> BOOLEAN]
    BY <1>1, <1>2, <1>3 DEF HttpTypeOK
  <2> QED
    BY <2>1, <1>1, <1>3, PumpFills
<1>5. /\ active' = active - 1 + Cardinality(p.in) /\ waiters' = p.rest
      /\ handler' = [x \in Requests |->
                        IF x = r \/ x \in p.taken \ p.in THEN "ended"
                        ELSE IF x \in p.in THEN "admitted" ELSE handler[x]]
      /\ reply' = [reply EXCEPT ![r] = Sent(r, status)]
      /\ UNCHANGED <<stopping, shutdown, gone, closeSeen, ctl>>
  BY DEF Ends, clientVars
<1> HIDE DEF p
<1>6. \A x \in p.taken : handler[x] = "queued" /\ x # r /\ x \in Requests
  BY <1>1, <1>2, <1>4 DEF Holders, Admitted
<1>7. HttpTypeOK'
  <2>1. Sent(r, status) \in {"none", "4xx", "200", "400", "429", "500", "503"}
    BY <1>1 DEF Sent, HttpTypeOK
  <2>2. handler' \in [Requests -> HandlerStates]
    BY <1>1, <1>5 DEF HttpTypeOK, HandlerStates
  <2>3. active' \in Nat
    BY <1>3, <1>4, <1>5
  <2>4. reply' \in [Requests -> {"none", "4xx", "200", "400", "429", "500", "503"}]
    BY <1>1, <1>5, <2>1 DEF HttpTypeOK
  <2> QED
    BY <2>2, <2>3, <2>4, <1>1, <1>4, <1>5 DEF HttpTypeOK
<1>8. QueueExact'
  <2>1. \A x \in Requests : handler'[x] = "queued" <=> x \in InQueue(waiters) \ p.taken
    BY <1>1, <1>2, <1>4, <1>5, <1>6 DEF Holders, Admitted
  <2>2. {x \in Requests : handler'[x] = "queued"} = InQueue(waiters) \ p.taken
    BY <2>1, <1>1
  <2> QED
    BY <2>2, <1>4, <1>5 DEF QueueExact
<1>9. Holders' = (Holders \ {r}) \cup p.in /\ (Holders \ {r}) \cap p.in = {}
  <2>1. \A x \in Requests : handler'[x] \in Admitted <=>
                             x \in p.in \/ (handler[x] \in Admitted /\ x # r)
    BY <1>4, <1>5, <1>6 DEF Admitted
  <2>2. p.in \subseteq Requests /\ \A x \in p.in : handler[x] \notin Admitted
    BY <1>4, <1>6 DEF Admitted
  <2> QED
    BY <2>1, <2>2 DEF Holders
<1>10. IsFiniteSet(Holders') /\ Cardinality(Holders') = active'
  <2>1. /\ IsFiniteSet((Holders \ {r}) \cup p.in)
        /\ Cardinality((Holders \ {r}) \cup p.in) =
              Cardinality(Holders \ {r}) + Cardinality(p.in) - Cardinality((Holders \ {r}) \cap p.in)
    BY <1>3, <1>4, FS_Union
  <2>2. Cardinality((Holders \ {r}) \cap p.in) = 0
    BY <1>9, FS_EmptySet
  <2> QED
    BY <2>1, <2>2, <1>3, <1>4, <1>5, <1>9
<1>11. SlotsExact'
  <2>1. active' <= maxConcurrentRequests
    BY <1>4, <1>5
  <2>2. ASSUME waiters' # <<>> PROVE active' = maxConcurrentRequests /\ ~stopping'
    <3>1. InQueue(waiters) # {}
      BY <2>2, <1>4, <1>5, EmptyQueue
    <3>2. ~stopping
      BY <3>1, <1>1, EmptyQueue DEF HttpTypeOK
    <3> QED
      BY <2>2, <3>2, <1>4, <1>5
  <2>3. active' = Cardinality({x \in Requests : handler'[x] \in Admitted})
    BY <1>10 DEF Holders
  <2> QED
    BY <2>1, <2>2, <2>3 DEF SlotsExact
<1>12. StopReachesWork'
  BY <1>5 DEF HttpInv, StopReachesWork
<1>13. NobodyForgotten'
  <2> SUFFICES ASSUME NEW x \in Requests, handler'[x] = "ended" PROVE reply'[x] # "none" \/ gone[x]
    BY <1>5 DEF NobodyForgotten
  <2>1. CASE x = r
    BY <2>1, <1>1, <1>5 DEF Sent, HttpTypeOK
  <2>2. CASE x \in p.taken \ p.in
    BY <2>2, <1>4
  <2>3. CASE x # r /\ x \notin p.taken \ p.in
    BY <2>3, <1>1, <1>5 DEF HttpInv, NobodyForgotten, HttpTypeOK
  <2> QED
    BY <2>1, <2>2, <2>3
<1>14. DrainedForGood'
  BY <1>2, <1>5 DEF HttpInv, DrainedForGood, Holders, Admitted
<1> QED
  BY <1>7, <1>8, <1>10, <1>11, <1>12, <1>13, <1>14 DEF HttpInv

\* The handler of r moves from h1 to h2 and nobody's slot or place changes.
LEMMA MovesInv ==
  ASSUME HttpInv, NEW r \in Requests, NEW to \in HandlerStates,
         handler' = [handler EXCEPT ![r] = to],
         handler[r] \in Admitted <=> to \in Admitted, handler[r] # "queued", to # "queued",
         to = "answering" => MayAnswer(r),
         to = "ended" => reply'[r] # "none" \/ gone[r],
         shutdown # "drained",
         reply' \in [Requests -> {"none", "4xx", "200", "400", "429", "500", "503"}],
         \A x \in Requests \ {r} : reply'[x] = reply[x],
         UNCHANGED <<active, waiters, stopping, shutdown, clientVars, ctl>>
  PROVE  HttpInv'
<1>1. /\ handler' \in [Requests -> HandlerStates] /\ handler'[r] = to
      /\ \A x \in Requests \ {r} : handler'[x] = handler[x]
      /\ UNCHANGED <<gone, closeSeen>>
  BY DEF HttpInv, HttpTypeOK, clientVars
<1>2. Holders' = Holders /\ {x \in Requests : handler'[x] = "queued"} = {x \in Requests : handler[x] = "queued"}
  BY <1>1 DEF Holders
<1>3. HttpTypeOK' /\ QueueExact'
  BY <1>1, <1>2 DEF HttpInv, HttpTypeOK, QueueExact
<1>4. IsFiniteSet(Holders') /\ SlotsExact'
  BY <1>2 DEF HttpInv, SlotsExact, Holders
<1>5. StopReachesWork'
  BY <1>1 DEF HttpInv, StopReachesWork, MayAnswer
<1>6. NobodyForgotten'
  BY <1>1 DEF HttpInv, NobodyForgotten
<1>7. DrainedForGood'
  BY <1>1 DEF HttpInv, DrainedForGood
<1> QED
  BY <1>3, <1>4, <1>5, <1>6, <1>7 DEF HttpInv

\* Health, authorisation, route and media type.
LEMMA ShortcutInv ==
  ASSUME HttpInv, NEW r \in Requests, Shortcut(r, "4xx")
  PROVE  HttpInv'
<1>1. /\ handler[r] = "new" /\ shutdown # "drained"
      /\ handler' = [handler EXCEPT ![r] = "ended"] /\ reply' = [reply EXCEPT ![r] = "4xx"]
      /\ UNCHANGED <<active, waiters, stopping, shutdown, clientVars, ctl>>
  BY DEF Shortcut, IsNew
<1>2. /\ reply' \in [Requests -> {"none", "4xx", "200", "400", "429", "500", "503"}]
      /\ reply'[r] = "4xx" /\ \A x \in Requests \ {r} : reply'[x] = reply[x]
  BY <1>1 DEF HttpInv, HttpTypeOK
<1>3. "ended" \in HandlerStates /\ "ended" \notin Admitted /\ "new" \notin Admitted
  BY DEF HandlerStates, Admitted
<1> QED
  BY <1>1, <1>2, <1>3, MovesInv

\* acquire: a free slot is taken only by someone who need not wait, and the queue
\* is joined only when there is none.
LEMMA AcquireInv ==
  ASSUME HttpInv, NEW r \in Requests, Acquire(r)
  PROVE  HttpInv'
<1>1. /\ handler[r] = "new" /\ shutdown # "drained"
      /\ UNCHANGED <<stopping, shutdown, gone, closeSeen, ctl>>
  BY DEF Acquire, IsNew, clientVars
<1>2. /\ HttpTypeOK /\ NoRepeats(waiters) /\ IsFiniteSet(Holders)
      /\ InQueue(waiters) = {x \in Requests : handler[x] = "queued"}
      /\ active = Cardinality(Holders) /\ active <= maxConcurrentRequests
      /\ waiters # <<>> => active = maxConcurrentRequests /\ ~stopping
      /\ maxConcurrentRequests \in Nat
  BY ServerAssumption DEF HttpInv, QueueExact, SlotsExact, Holders
<1>3. ASSUME NEW status \in {"429", "503"}, handler' = [handler EXCEPT ![r] = "ended"],
             reply' = [reply EXCEPT ![r] = status], UNCHANGED <<active, waiters>>
      PROVE  HttpInv'
  <2>1. /\ reply' \in [Requests -> {"none", "4xx", "200", "400", "429", "500", "503"}]
        /\ reply'[r] # "none" /\ \A x \in Requests \ {r} : reply'[x] = reply[x]
    BY <1>3 DEF HttpInv, HttpTypeOK
  <2>2. "ended" \in HandlerStates /\ "ended" \notin Admitted /\ "new" \notin Admitted
    BY DEF HandlerStates, Admitted
  <2>3. UNCHANGED clientVars
    BY <1>1 DEF clientVars
  <2> QED
    BY <1>1, <1>3, <2>1, <2>2, <2>3, MovesInv
<1>4. CASE /\ ~stopping /\ active < maxConcurrentRequests
           /\ active' = active + 1 /\ handler' = [handler EXCEPT ![r] = "admitted"]
           /\ UNCHANGED <<waiters, reply>>
  <2>1. Holders' = Holders \cup {r} /\ r \notin Holders
    BY <1>1, <1>2, <1>4 DEF Holders, Admitted, HttpTypeOK
  <2>2. IsFiniteSet(Holders') /\ Cardinality(Holders') = active'
    BY <2>1, <1>2, <1>4, FS_AddElement
  <2>3. HttpTypeOK'
    BY <1>1, <1>2, <1>4 DEF HttpTypeOK, HandlerStates
  <2>4. {x \in Requests : handler'[x] = "queued"} = {x \in Requests : handler[x] = "queued"}
    BY <1>1, <1>2, <1>4 DEF HttpTypeOK
  <2>5. QueueExact'
    BY <2>4, <1>2, <1>4 DEF QueueExact
  <2>6. SlotsExact'
    BY <2>2, <1>2, <1>4 DEF SlotsExact, Holders, HttpTypeOK
  <2>7. StopReachesWork' /\ NobodyForgotten' /\ DrainedForGood'
    BY <1>1, <1>2, <1>4 DEF HttpInv, StopReachesWork, NobodyForgotten, DrainedForGood, HttpTypeOK
  <2> QED
    BY <2>2, <2>3, <2>5, <2>6, <2>7 DEF HttpInv
<1>5. CASE /\ ~stopping /\ active >= maxConcurrentRequests
           /\ waiters' = Append(waiters, r) /\ handler' = [handler EXCEPT ![r] = "queued"]
           /\ UNCHANGED <<active, reply>>
  <2>1. Holders' = Holders
    BY <1>1, <1>2, <1>5 DEF Holders, Admitted, HttpTypeOK
  <2>2. /\ waiters' \in Seq(Requests) /\ Len(waiters') = Len(waiters) + 1 /\ Len(waiters) \in Nat
        /\ waiters'[Len(waiters) + 1] = r
        /\ \A i \in 1..Len(waiters) : waiters'[i] = waiters[i]
    BY <1>2, <1>5 DEF HttpTypeOK
  <2>3. \A i \in 1..Len(waiters) : waiters[i] # r
    BY <1>1, <1>2 DEF InQueue
  <2>4. NoRepeats(waiters')
    BY <2>2, <2>3, <1>2 DEF NoRepeats
  <2>5. InQueue(waiters') = InQueue(waiters) \cup {r}
    BY <2>2 DEF InQueue
  <2>6. {x \in Requests : handler'[x] = "queued"} = {x \in Requests : handler[x] = "queued"} \cup {r}
    BY <1>2, <1>5 DEF HttpTypeOK
  <2>7. QueueExact'
    BY <2>4, <2>5, <2>6, <1>2 DEF QueueExact
  <2>8. HttpTypeOK'
    BY <2>2, <1>1, <1>2, <1>5 DEF HttpTypeOK, HandlerStates
  <2>9. SlotsExact' /\ IsFiniteSet(Holders')
    <3>1. active = maxConcurrentRequests
      BY <1>2, <1>5 DEF HttpTypeOK
    <3>2. active' = Cardinality(Holders')
      BY <2>1, <1>2, <1>5
    <3> QED
      BY <3>1, <3>2, <2>1, <1>1, <1>2, <1>5 DEF SlotsExact, Holders
  <2>10. StopReachesWork' /\ NobodyForgotten' /\ DrainedForGood'
    BY <1>1, <1>2, <1>5 DEF HttpInv, StopReachesWork, NobodyForgotten, DrainedForGood, HttpTypeOK
  <2> QED
    BY <2>7, <2>8, <2>9, <2>10 DEF HttpInv
<1> QED
  BY <1>3, <1>4, <1>5 DEF Acquire

\* The handler of r goes on: after acquire, after its body, after its answer.
LEMMA HandlerStepInv ==
  ASSUME HttpInv, NEW r \in Requests, HandlerStep(r)
  PROVE  HttpInv'
<1> DEFINE Replies == [Requests -> {"none", "4xx", "200", "400", "429", "500", "503"}]
<1>1. reply \in Replies /\ \A x \in Requests : handler[x] \in Admitted => shutdown # "drained"
  BY DEF HttpInv, HttpTypeOK, DrainedForGood, Admitted
<1>2. CASE Begin(r)
  <2>1. /\ handler[r] = "admitted" /\ handler' = [handler EXCEPT ![r] = "reading"]
        /\ UNCHANGED <<active, waiters, stopping, shutdown, clientVars, ctl, reply>>
    BY <1>2 DEF Begin
  <2>2. "admitted" \in Admitted /\ "reading" \in Admitted /\ "reading" \in HandlerStates
    BY DEF Admitted, HandlerStates
  <2> QED
    BY <1>1, <2>1, <2>2, MovesInv
<1>3. ASSUME NEW wellFormed \in BOOLEAN, BodyRead(r, wellFormed) PROVE HttpInv'
  <2>1. handler[r] = "reading" /\ handler[r] \in Admitted /\ UNCHANGED <<stopping, shutdown, clientVars, ctl>>
    BY <1>3 DEF BodyRead, Admitted
  <2>2. CASE /\ MayAnswer(r) /\ handler' = [handler EXCEPT ![r] = "answering"]
             /\ UNCHANGED <<active, waiters, reply>>
    <3>1. "answering" \in Admitted /\ "answering" \in HandlerStates
      BY DEF Admitted, HandlerStates
    <3> QED
      BY <1>1, <2>1, <2>2, <3>1, MovesInv
  <2>3. CASE Ends(r, "503") \/ Ends(r, "400")
    BY <2>1, <2>3, EndsInv
  <2> QED
    BY <1>3, <2>2, <2>3 DEF BodyRead
<1>4. ASSUME NEW outcome \in {"200", "400", "500", "throws"}, AnswerReturns(r, outcome) PROVE HttpInv'
  <2> DEFINE status == IF outcome = "throws" THEN "400" ELSE IF ctl[r] THEN "503" ELSE outcome
  <2>1. /\ handler[r] \in Admitted /\ Ends(r, status)
        /\ UNCHANGED <<stopping, shutdown, clientVars, ctl>>
    BY <1>4 DEF AnswerReturns, Admitted
  <2>2. status \in {"4xx", "200", "400", "429", "500", "503"}
    BY <1>4
  <2> HIDE DEF status
  <2> QED
    BY <2>1, <2>2, EndsInv
<1> QED
  BY <1>2, <1>3, <1>4 DEF HandlerStep

\* A client goes away, or the last wait of a shutdown closes the connections:
\* only `gone` grows.
LEMMA ClientGoneInv ==
  ASSUME HttpInv, gone' \in [Requests -> BOOLEAN], \A x \in Requests : gone[x] => gone'[x],
         UNCHANGED <<active, waiters, stopping, handler, closeSeen, ctl, reply>>,
         shutdown' \in {"no", "pending", "timeout"} \/ UNCHANGED shutdown
  PROVE  HttpInv'
BY DEF HttpInv, HttpTypeOK, QueueExact, Holders, SlotsExact, StopReachesWork, NobodyForgotten,
       DrainedForGood, NoRepeats, InQueue

\* The close event: a waiter leaves the queue, a running handler is aborted.
LEMMA CloseEventInv ==
  ASSUME HttpInv, NEW r \in Requests, CloseEvent(r)
  PROVE  HttpInv'
<1>1. /\ gone[r] /\ closeSeen' = [closeSeen EXCEPT ![r] = TRUE] /\ waiters' = Without(waiters, r)
      /\ handler' = IF handler[r] = "queued" THEN [handler EXCEPT ![r] = "ended"] ELSE handler
      /\ ctl' = [ctl EXCEPT ![r] = @ \/ handler[r] \in {"reading", "answering"}]
      /\ UNCHANGED <<active, stopping, shutdown, gone, reply>>
  BY DEF CloseEvent
<1>2. HttpTypeOK /\ NoRepeats(waiters) /\ waiters \in Seq(Requests)
      /\ InQueue(waiters) = {x \in Requests : handler[x] = "queued"}
  BY DEF HttpInv, QueueExact, HttpTypeOK
<1>3. /\ waiters' \in Seq(Requests) /\ NoRepeats(waiters')
      /\ InQueue(waiters') = InQueue(waiters) \ {r}
  BY <1>1, <1>2, WithoutLeaves
<1>4. /\ handler' \in [Requests -> HandlerStates]
      /\ \A x \in Requests \ {r} : handler'[x] = handler[x]
      /\ handler'[r] = IF handler[r] = "queued" THEN "ended" ELSE handler[r]
  BY <1>1, <1>2 DEF HttpTypeOK, HandlerStates
<1>5. /\ ctl' \in [Requests -> BOOLEAN] /\ closeSeen' \in [Requests -> BOOLEAN]
      /\ \A x \in Requests : ctl[x] => ctl'[x]
  BY <1>1, <1>2 DEF HttpTypeOK
<1>6. HttpTypeOK'
  BY <1>1, <1>2, <1>3, <1>4, <1>5 DEF HttpTypeOK
<1>7. QueueExact'
  <2>1. {x \in Requests : handler'[x] = "queued"} = {x \in Requests : handler[x] = "queued"} \ {r}
    BY <1>4
  <2> QED
    BY <2>1, <1>2, <1>3 DEF QueueExact
<1>8. Holders' = Holders
  BY <1>4 DEF Holders, Admitted
<1>9. waiters' # <<>> => waiters # <<>>
  <2>1. waiters' # <<>> => InQueue(waiters) # {}
    BY <1>3, EmptyQueue
  <2> QED
    BY <2>1, <1>2, EmptyQueue
<1>10. IsFiniteSet(Holders') /\ SlotsExact'
  BY <1>1, <1>8, <1>9 DEF HttpInv, SlotsExact, Holders
<1>11. StopReachesWork' /\ NobodyForgotten' /\ DrainedForGood'
  BY <1>1, <1>4, <1>5 DEF HttpInv, StopReachesWork, NobodyForgotten, DrainedForGood
<1> QED
  BY <1>6, <1>7, <1>10, <1>11 DEF HttpInv

\* shutdown(): the queue is emptied and every controller aborts.
LEMMA ShutdownInv ==
  ASSUME HttpInv, Shutdown
  PROVE  HttpInv'
<1>1. /\ stopping' = TRUE /\ shutdown' = "pending" /\ waiters' = <<>>
      /\ handler' = [r \in Requests |-> IF handler[r] = "queued" THEN "ended" ELSE handler[r]]
      /\ reply' = [r \in Requests |-> IF handler[r] = "queued" THEN Sent(r, "503") ELSE reply[r]]
      /\ ctl' = [r \in Requests |-> ctl[r] \/ handler[r] \in {"reading", "answering"}]
      /\ UNCHANGED <<active, gone, closeSeen>>
  BY DEF Shutdown, clientVars
<1>2. HttpTypeOK
  BY DEF HttpInv
<1>3. HttpTypeOK'
  <2>1. handler' \in [Requests -> HandlerStates]
    BY <1>1, <1>2 DEF HttpTypeOK, HandlerStates
  <2>2. reply' \in [Requests -> {"none", "4xx", "200", "400", "429", "500", "503"}]
    BY <1>1, <1>2 DEF HttpTypeOK, Sent
  <2>3. ctl' \in [Requests -> BOOLEAN]
    BY <1>1, <1>2 DEF HttpTypeOK
  <2> QED
    BY <2>1, <2>2, <2>3, <1>1, <1>2 DEF HttpTypeOK
<1>4. QueueExact'
  <2>1. {x \in Requests : handler'[x] = "queued"} = {}
    BY <1>1
  <2> QED
    BY <2>1, <1>1 DEF QueueExact, NoRepeats, InQueue
<1>5. Holders' = Holders
  BY <1>1 DEF Holders, Admitted
<1>6. IsFiniteSet(Holders') /\ SlotsExact'
  BY <1>1, <1>5 DEF HttpInv, SlotsExact, Holders
<1>7. StopReachesWork'
  BY <1>1 DEF StopReachesWork
<1>8. NobodyForgotten'
  BY <1>1 DEF HttpInv, NobodyForgotten, Sent
<1>9. DrainedForGood'
  BY <1>1 DEF DrainedForGood
<1> QED
  BY <1>3, <1>4, <1>6, <1>7, <1>8, <1>9 DEF HttpInv

\* Every step, and stuttering.
LEMMA HttpStepInv == HttpInv /\ [HttpNext]_httpVars => HttpInv'
<1> SUFFICES ASSUME HttpInv, [HttpNext]_httpVars PROVE HttpInv'
  OBVIOUS
<1>1. ASSUME NEW r \in Requests,
             Shortcut(r, "4xx") \/ Acquire(r) \/ HandlerStep(r) \/ CloseEvent(r)
      PROVE  HttpInv'
  BY <1>1, ShortcutInv, AcquireInv, HandlerStepInv, CloseEventInv
<1>2. ASSUME NEW r \in Requests, ClientGone(r) PROVE HttpInv'
  <2>1. /\ gone' \in [Requests -> BOOLEAN] /\ \A x \in Requests : gone[x] => gone'[x]
        /\ UNCHANGED <<active, waiters, stopping, shutdown, handler, closeSeen, ctl, reply>>
    BY <1>2 DEF ClientGone, HttpInv, HttpTypeOK
  <2> QED
    BY <2>1, ClientGoneInv
<1>3. CASE Shutdown
  BY <1>3, ShutdownInv
<1>4. CASE ShutdownDrains
  BY <1>4 DEF ShutdownDrains, Drained, HttpInv, HttpTypeOK, QueueExact, Holders, SlotsExact,
              StopReachesWork, NobodyForgotten, DrainedForGood, NoRepeats, InQueue, clientVars
<1>5. CASE ShutdownTimesOut
  <2>1. /\ gone' \in [Requests -> BOOLEAN] /\ \A x \in Requests : gone[x] => gone'[x]
        /\ UNCHANGED <<active, waiters, stopping, handler, closeSeen, ctl, reply>>
        /\ shutdown' = "timeout"
    BY <1>5 DEF ShutdownTimesOut, HttpInv, HttpTypeOK
  <2> QED
    BY <2>1, ClientGoneInv
<1>6. CASE UNCHANGED httpVars
  BY <1>6 DEF httpVars, HttpInv, HttpTypeOK, QueueExact, Holders, SlotsExact, StopReachesWork,
              NobodyForgotten, DrainedForGood, NoRepeats, InQueue
<1> QED
  BY <1>1, <1>2, <1>3, <1>4, <1>5, <1>6 DEF HttpNext

\* createHttpServer, for all limits and any number of requests: the slots are
\* those of the handlers that hold them, nobody waits while one is free, a
\* shutdown reaches whoever the employee still works for, an unanswered request
\* has lost its client, and a drained server stays idle.
THEOREM ServerCorrect == HttpSpec => []ServerSound
<1>1. HttpInv => ServerSound
  BY DEF HttpInv, ServerSound, DrainedForGood, DrainedMeansIdle, Admitted
<1> QED
  BY <1>1, HttpInitInv, HttpStepInv, PTL DEF HttpSpec

-----------------------------------------------------------------------------
(* The qualification suite. *)

CaseFields == {"body", "events", "run", "cleanups", "state", "processed", "awaits", "outcome",
               "finalizing", "done", "timedOut", "errors", "passed", "probe", "identity",
               "known", "disposed"}
Early == {"start", "probe", "identity", "create"}
RunStates == {"untracked", "tracked", "cancelling", "cancelled", "cancelfailed"}
CleanupStates == {"none", "registered", "invoked", "settled"}
CleanupKinds == {"return", "dispose"}
CleanupLists == {<<>>, <<"return">>, <<"dispose">>, <<"dispose", "return">>}

\* The case under way; after the last one there is none.
InCase == Len(suite.results) < Len(SuiteContract)
Over == CHOOSE id : id \notin UNION {{Contracts[k][i][2] : i \in DOMAIN Contracts[k]} :
                                        k \in DOMAIN Contracts}
CurrentId == IF InCase THEN CaseId ELSE Over
Width(id) == IF id = "events_well_formed" THEN 2 ELSE 1

CaseForm(c) ==
  /\ c = [f \in CaseFields |-> c[f]]
  /\ c.run \in RunStates /\ c.cleanups \in CleanupLists
  /\ c.state \in [CleanupKinds -> CleanupStates]
  /\ c.outcome \in {"none", "value", "timeout"}
  /\ c.finalizing \in BOOLEAN /\ c.done \in BOOLEAN

\* What is registered depends on how far the body is, and the body registers
\* everything once.
Registers(c) ==
  /\ c.body \in Early => c.run = "untracked" /\ c.cleanups = <<>>
  /\ c.body = "preflight" => c.cleanups = <<>>
  /\ c.body = "bind" => c.run = "untracked" /\ c.cleanups = <<"dispose">>
  /\ \A x \in CleanupKinds : c.state[x] = "none" <=> x \notin RegisteredCleanups(c)

\* What the finalizer has awaited has settled.
AtRest(c) == c.body = "settled" /\ c.awaits = "none" /\ Unprocessed(c) = {}
Finalizes(c) ==
  /\ c.processed \subseteq Resources(c)
  /\ c.awaits \in {"none"} \cup c.processed
  /\ \A r \in c.processed \ {c.awaits} : HasSettled(c, r)
  /\ c.finalizing <=> c.outcome # "none"
  /\ c.outcome = "value" => c.body = "settled"
  /\ c.done => c.finalizing /\ AtRest(c)

\* What the body of the case with this id has found out.
Judges(c, id) ==
  /\ c.body = "settled" /\ id # Over => c.passed \in Seq(BOOLEAN) /\ Len(c.passed) = Width(id)
  /\ c.body \in {"start", "probe"} => c.probe = "none"
  /\ id = "probe_contract" => c.body \in {"start", "probe", "identity", "settled"}
  /\ id = "probe_contract" /\ c.body = "settled" => c.passed[1] = (c.probe = "valid")

\* A disposal counts only if it came after the descendants were known.
Descends(c, id) ==
  /\ c.body \in {"create", "bind", "descendants"} => id \in TreeCases
  /\ c.known => /\ id \in TreeCases \cup {Over}
                /\ c.body \in {"next", "cancel", "deadline", "pending", "settled"}
  /\ c.disposed => c.known /\ c.state["dispose"] = "settled"

CaseInv(c, id) == CaseForm(c) /\ Registers(c) /\ Finalizes(c) /\ Judges(c, id) /\ Descends(c, id)

Results == [id : {SuiteContract[i][2] : i \in DOMAIN SuiteContract}, passed : BOOLEAN]

SuiteInv ==
  /\ kit \in DOMAIN Contracts
  /\ suite = [f \in {"pc", "results", "probe", "identity", "record"} |-> suite[f]]
  /\ suite.results \in Seq(Results) /\ Len(suite.results) <= Len(SuiteContract)
  /\ \A i \in DOMAIN suite.results : suite.results[i].id = SuiteContract[i][2]
  /\ suite.pc \in {"case", "isolating", "assemble", "thrown", "returned"}
  /\ suite.pc = "case" => InCase
  /\ suite.pc \in {"assemble", "returned"} => ~InCase
  /\ ~InCase => AtRest(cur)

\* The suite knows of its probe what the result of that case says.
ProbeInv ==
  /\ \A i \in DOMAIN suite.results : suite.results[i].id = "probe_contract" =>
       suite.results[i].passed = (suite.probe = "valid")
  /\ (\A i \in DOMAIN suite.results : suite.results[i].id # "probe_contract") =>
       suite.probe = "none"

SeenInv ==
  /\ world = [f \in {"tree", "seen", "mishap"} |-> world[f]]
  /\ world.seen \in Nat /\ world.mishap \in BOOLEAN
  /\ world.seen > 0 => scan # "clean"
  /\ world.tree # "none" => CurrentId \in TreeCases
  /\ cur.disposed /\ InCase => world.tree = "dead"

\* A mishap costs a result, or will.
MishapInv ==
  world.mishap => \/ \E i \in DOMAIN suite.results : ~suite.results[i].passed
                  \/ InCase /\ (cur.outcome = "timeout" \/ cur.errors)

EarnedInv == suite.pc = "returned" /\ suite.record.conformant => ~world.mishap /\ world.seen = 0

ReleaseInv ==
  /\ release = [f \in {"base", "tried"} |-> release[f]]
  /\ release.base # NoSnapshot =>
       \A d \in DOMAIN release.base.rows :
         release.base.rows[d].status = DomainStatus(release.base.rows[d])

QualInv ==
  /\ CaseInv(cur, CurrentId)
  /\ SuiteInv /\ ProbeInv /\ SeenInv /\ MishapInv /\ EarnedInv /\ ReleaseInv


LEMMA CleanupsOf ==
  ASSUME NEW c
  PROVE  /\ c.cleanups = <<>> => RegisteredCleanups(c) = {}
         /\ c.cleanups = <<"return">> => RegisteredCleanups(c) = {"return"}
         /\ c.cleanups = <<"dispose">> => RegisteredCleanups(c) = {"dispose"}
         /\ c.cleanups = <<"dispose", "return">> => RegisteredCleanups(c) = {"dispose", "return"}
<1>1. c.cleanups = <<>> => RegisteredCleanups(c) = {}
  BY DEF RegisteredCleanups
<1>2. c.cleanups = <<"return">> => RegisteredCleanups(c) = {"return"}
  BY DEF RegisteredCleanups
<1>3. c.cleanups = <<"dispose">> => RegisteredCleanups(c) = {"dispose"}
  BY DEF RegisteredCleanups
<1>4. c.cleanups = <<"dispose", "return">> => RegisteredCleanups(c) = {"dispose", "return"}
  BY DEF RegisteredCleanups
<1>5. QED
  BY <1>1, <1>2, <1>3, <1>4

\* What a case looks like from the outside stays when only its body moves.
Inside == {"body", "events", "passed", "probe", "identity", "known", "timedOut"}
Apart(c, d, changed) ==
  d = [f \in CaseFields |-> d[f]] /\ \A f \in CaseFields \ changed : d[f] = c[f]

LEMMA ApartInside ==
  ASSUME NEW c, NEW d, Apart(c, d, Inside)
  PROVE  /\ d.run = c.run /\ d.cleanups = c.cleanups /\ d.state = c.state
         /\ d.processed = c.processed /\ d.awaits = c.awaits /\ d.outcome = c.outcome
         /\ d.finalizing = c.finalizing /\ d.done = c.done /\ d.errors = c.errors
         /\ d.disposed = c.disposed
  BY DEF Apart, CaseFields, Inside

LEMMA BodyMoves ==
  ASSUME NEW c, NEW d, NEW id, CaseInv(c, id), Apart(c, d, Inside), c.body # "settled",
         d.body \in Early => c.body \in Early, d.body \notin {"preflight", "bind"},
         Judges(d, id), Descends(d, id)
  PROVE  CaseInv(d, id)
<1>1. /\ d.run = c.run /\ d.cleanups = c.cleanups /\ d.state = c.state
      /\ d.processed = c.processed /\ d.awaits = c.awaits /\ d.outcome = c.outcome
      /\ d.finalizing = c.finalizing /\ d.done = c.done
  BY ApartInside
<1>2. CaseForm(d)
  BY <1>1 DEF CaseInv, CaseForm, Apart
<1>3. Registers(d)
  BY <1>1 DEF CaseInv, Registers, RegisteredCleanups
<1>4. Finalizes(d)
  <2>1. ~c.done /\ c.outcome # "value"
    BY DEF CaseInv, Finalizes, AtRest
  <2>2. \A r : HasSettled(d, r) <=> HasSettled(c, r)
    BY <1>1 DEF HasSettled
  <2>3. Resources(d) = Resources(c)
    BY <1>1 DEF Resources, RegisteredCleanups
  <2>4. QED
    BY <1>1, <2>1, <2>2, <2>3 DEF CaseInv, Finalizes
<1>5. QED
  BY <1>2, <1>3, <1>4 DEF CaseInv

\* The world goes on, and the scanner does not overlook what is not clean.
WorldMoves ==
  /\ world' = [f \in {"tree", "seen", "mishap"} |-> world'[f]]
  /\ world'.seen \in Nat /\ world'.mishap \in BOOLEAN
  /\ world'.seen > 0 => scan' # "clean"

LEMMA ObserveSticks ==
  ASSUME NEW t \in Taints
  PROVE  /\ scan # "clean" => Observe(scan, t) # "clean"
         /\ t # "clean" => Observe(scan, t) # "clean"
  BY DEF Observe, Taints

LEMMA CountedMoves ==
  ASSUME SeenInv, NEW t \in Taints
  PROVE  /\ Counted(t) = [f \in {"tree", "seen", "mishap"} |-> Counted(t)[f]]
         /\ Counted(t).seen \in Nat
         /\ Counted(t).seen > 0 => Observe(scan, t) # "clean"
         /\ Counted(t).tree = world.tree /\ Counted(t).mishap = world.mishap
<1>1. world = [f \in {"tree", "seen", "mishap"} |-> world[f]] /\ world.seen \in Nat
      /\ (world.seen > 0 => scan # "clean")
  BY DEF SeenInv
<1> DEFINE n == IF t = "clean" THEN world.seen ELSE world.seen + 1
<1>2. Counted(t) = [world EXCEPT !.seen = n]
  BY DEF Counted
<1>3. n \in Nat /\ (n > 0 => Observe(scan, t) # "clean")
  BY <1>1, ObserveSticks
<1> HIDE DEF n
<1>4. QED
  BY <1>1, <1>2, <1>3

LEMMA SeesMoves ==
  ASSUME SeenInv, NEW t \in Taints, Sees(t)
  PROVE  WorldMoves /\ world'.tree = world.tree /\ world'.mishap = world.mishap
<1>1. scan' = Observe(scan, t) /\ world' = Counted(t)
  BY DEF Sees
<1>2. world.mishap \in BOOLEAN
  BY DEF SeenInv
<1>3. QED
  BY <1>1, <1>2, CountedMoves DEF WorldMoves

LEMMA SameWorldMoves ==
  ASSUME SeenInv, UNCHANGED <<scan, world>>
  PROVE  WorldMoves /\ world'.tree = world.tree /\ world'.mishap = world.mishap
  BY DEF SeenInv, WorldMoves

\* Where neither the suite nor its record moves, the case does.
LEMMA SameSuite ==
  ASSUME UNCHANGED <<kit, suite>>
  PROVE  CurrentId' = CurrentId /\ InCase' = InCase
  BY DEF CurrentId, InCase, CaseId, SuiteContract

LEMMA InCaseMoves ==
  ASSUME QualInv, UNCHANGED <<kit, suite, release>>, InCase,
         CaseInv(cur', CurrentId), WorldMoves,
         world'.tree # "none" => CurrentId \in TreeCases,
         cur'.disposed => world'.tree = "dead",
         world'.mishap => world.mishap \/ cur'.outcome = "timeout" \/ cur'.errors,
         cur.outcome = "timeout" => cur'.outcome = "timeout", cur.errors => cur'.errors
  PROVE  QualInv'
<1>1. CurrentId' = CurrentId /\ InCase'
  BY SameSuite
<1>2. CaseInv(cur, CurrentId)'
  <2>1. CaseInv(cur', CurrentId')
    BY <1>1
  <2>2. QED
    BY <2>1
<1>3. SuiteInv'
  BY <1>1 DEF QualInv, SuiteInv, Results, SuiteContract
<1>4. ProbeInv' /\ ReleaseInv'
  BY DEF QualInv, ProbeInv, ReleaseInv, DomainStatus
<1>5. SeenInv'
  BY <1>1 DEF SeenInv, WorldMoves
<1>6. MishapInv'
  BY <1>1 DEF QualInv, MishapInv
<1>7. EarnedInv'
  BY <1>1 DEF QualInv, SuiteInv, EarnedInv
<1>8. QED
  BY <1>2, <1>3, <1>4, <1>5, <1>6, <1>7 DEF QualInv

\* Before its body has settled a case is under way.
LEMMA UnderWay ==
  ASSUME QualInv, cur.body # "settled"
  PROVE  InCase /\ CurrentId = CaseId
  BY DEF QualInv, SuiteInv, AtRest, CurrentId

\* The contract of the suite, and the place the suite has reached in it.
LEMMA ContractIs ==
  ASSUME kit \in DOMAIN Contracts
  PROVE  /\ SuiteContract \in Seq(Range(SuiteContract))
         /\ \A i, j \in DOMAIN SuiteContract :
              SuiteContract[i][2] = SuiteContract[j][2] => i = j
         /\ \E i \in DOMAIN SuiteContract : SuiteContract[i][2] = "probe_contract"
         /\ \E i \in DOMAIN SuiteContract : SuiteContract[i][2] = "no_metadata_echo"
         /\ \A i \in DOMAIN SuiteContract : SuiteContract[i][2] = "events_well_formed" =>
              i + 1 \in DOMAIN SuiteContract /\ SuiteContract[i + 1][2] = "exactly_one_terminal"
<1> DEFINE c == Contracts[kit]
           ids == [i \in DOMAIN c |-> c[i][2]]
<1>1. /\ c \in Seq(Range(c)) /\ IsInjective(ids)
      /\ {"probe_contract", "no_metadata_echo"} \subseteq Range(ids)
      /\ \A i \in DOMAIN c : ids[i] = "events_well_formed" =>
           i + 1 \in DOMAIN c /\ ids[i + 1] = "exactly_one_terminal"
  BY ContractAssumption DEF ContractAssumption
<1>2. c = SuiteContract
  BY DEF SuiteContract
<1>3. "probe_contract" \in {ids[i] : i \in DOMAIN ids} /\ "no_metadata_echo" \in {ids[i] : i \in DOMAIN ids}
  BY <1>1 DEF Range
<1>4. QED
  BY <1>1, <1>2, <1>3 DEF IsInjective

LEMMA PlaceIs ==
  ASSUME SuiteInv
  PROVE  /\ Len(suite.results) \in Nat /\ Len(SuiteContract) \in Nat
         /\ DOMAIN suite.results = 1..Len(suite.results)
         /\ DOMAIN SuiteContract = 1..Len(SuiteContract)
         /\ \A i \in DOMAIN SuiteContract : SuiteContract[i][2] # Over
         /\ InCase => /\ Len(suite.results) + 1 \in DOMAIN SuiteContract
                      /\ CaseId = SuiteContract[Len(suite.results) + 1][2]
                      /\ CaseId # Over
<1>1. suite.results \in Seq(Results) /\ SuiteContract \in Seq(Range(SuiteContract))
  BY ContractIs DEF SuiteInv
<1>2. Len(suite.results) \in Nat /\ Len(SuiteContract) \in Nat
      /\ DOMAIN suite.results = 1..Len(suite.results) /\ DOMAIN SuiteContract = 1..Len(SuiteContract)
  BY <1>1
<1>3. InCase => Len(suite.results) + 1 \in DOMAIN SuiteContract
  BY <1>2 DEF InCase
<1>4. ASSUME NEW i \in DOMAIN SuiteContract
      PROVE  SuiteContract[i][2] # Over
  <2> DEFINE AllIds == UNION {{Contracts[k][j][2] : j \in DOMAIN Contracts[k]} : k \in DOMAIN Contracts}
  <2>1. Over \notin AllIds
    BY NoSetContainsEverything DEF Over
  <2>2. SuiteContract[i][2] \in AllIds
    BY DEF SuiteContract, SuiteInv
  <2>3. QED
    BY <2>1, <2>2
<1>5. QED
  BY <1>2, <1>3, <1>4 DEF CaseId

-----------------------------------------------------------------------------
(* The body of a case. *)

\* A body that settles says one thing of every verdict of its case.
LEMMA SettlesIs ==
  ASSUME NEW c, CaseForm(c), NEW p \in BOOLEAN
  PROVE  /\ Apart(c, Settles(c, p), {"body", "events", "passed"})
         /\ Settles(c, p).body = "settled"
         /\ Settles(c, p).passed = IF CaseId = "events_well_formed" THEN <<p, p>> ELSE <<p>>
<1> DEFINE r == IF CaseId = "events_well_formed" THEN <<p, p>> ELSE <<p>>
           d == Settles(c, p)
<1>1. d = [[[c EXCEPT !.body = "settled"] EXCEPT !.events = <<>>] EXCEPT !.passed = r]
  BY DEF Settles
<1>2. c = [f \in CaseFields |-> c[f]]
  BY DEF CaseForm
<1> HIDE DEF r
<1>3. d = [f \in CaseFields |-> IF f = "body" THEN "settled" ELSE IF f = "events" THEN <<>>
                                ELSE IF f = "passed" THEN r ELSE c[f]]
  BY <1>1, <1>2 DEF CaseFields
<1> HIDE DEF d
<1>4. "body" \in CaseFields /\ "passed" \in CaseFields
  BY DEF CaseFields
<1>5. QED
  BY <1>3, <1>4 DEF Apart, r, d

LEMMA BodySettled ==
  ASSUME QualInv, cur.body # "settled", NEW p \in BOOLEAN, NEW d,
         Apart(Settles(cur, p), d, {"identity", "known"}),
         CurrentId = "probe_contract" => p = (cur.probe = "valid"),
         cur.known => d.known, d.known => CaseId \in TreeCases
  PROVE  Apart(cur, d, Inside) /\ CaseInv(d, CurrentId)
<1> DEFINE e == Settles(cur, p)
           id == CurrentId
<1>1. CaseForm(cur) /\ CaseInv(cur, id)
  BY DEF QualInv, CaseInv
<1>2. /\ Apart(cur, e, {"body", "events", "passed"}) /\ e.body = "settled"
      /\ e.passed = IF CaseId = "events_well_formed" THEN <<p, p>> ELSE <<p>>
  BY <1>1, SettlesIs
<1> HIDE DEF e
<1>3. Apart(cur, d, Inside)
  BY <1>2 DEF Apart, Inside, CaseFields, e
<1>4. d.body = "settled" /\ d.passed = e.passed /\ d.probe = cur.probe
      /\ d.disposed = cur.disposed /\ d.state = cur.state
  BY <1>2 DEF Apart, CaseFields, e
<1>5. InCase /\ id = CaseId
  BY UnderWay
<1>6. Judges(d, id)
  <2>1. CASE id = "events_well_formed"
    <3>1. d.passed = <<p, p>> /\ Width(id) = 2
      BY <2>1, <1>2, <1>4, <1>5 DEF Width
    <3>2. QED
      BY <2>1, <3>1, <1>4 DEF Judges
  <2>2. CASE id # "events_well_formed"
    <3>1. d.passed = <<p>> /\ Width(id) = 1
      BY <2>2, <1>2, <1>4, <1>5 DEF Width
    <3>2. QED
      BY <2>2, <3>1, <1>4 DEF Judges
  <2>3. QED
    BY <2>1, <2>2
<1>7. Descends(d, id)
  BY <1>1, <1>4, <1>5 DEF Descends, CaseInv
<1>8. d.body \notin Early
  BY <1>4 DEF Early
<1>9. QED
  BY <1>1, <1>3, <1>4, <1>6, <1>7, <1>8, BodyMoves

\* A move of the body that leaves the run, the cleanups and the finalizer alone.
LEMMA BodyKeeps ==
  ASSUME QualInv, cur.body # "settled", UNCHANGED <<kit, suite, release>>,
         Apart(cur, cur', Inside), CaseInv(cur', CurrentId), WorldMoves,
         world'.mishap = world.mishap,
         world'.tree = world.tree \/ (CaseId \in TreeCases /\ ~cur.disposed)
  PROVE  QualInv'
<1>1. InCase /\ CurrentId = CaseId
  BY UnderWay
<1>2. cur'.outcome = cur.outcome /\ cur'.errors = cur.errors /\ cur'.disposed = cur.disposed
  BY ApartInside
<1>3. (world.tree # "none" => CurrentId \in TreeCases) /\ (cur.disposed => world.tree = "dead")
  BY <1>1 DEF QualInv, SeenInv
<1>4. (world'.tree # "none" => CurrentId \in TreeCases) /\ (cur'.disposed => world'.tree = "dead")
  BY <1>1, <1>2, <1>3
<1>5. QED
  BY <1>1, <1>2, <1>4, InCaseMoves

\* The same, for one that ends in a body that still waits for something.
LEMMA BodyGoesOn ==
  ASSUME QualInv, cur.body # "settled", NEW d, Apart(cur, d, Inside),
         d.body \notin {"settled", "preflight", "bind", "start"},
         d.body \in {"probe", "identity", "create"} => cur.body \in Early,
         d.known = cur.known,
         d.body = "probe" => d.probe = "none",
         CaseId = "probe_contract" => d.body \in {"probe", "identity"},
         d.body \in {"create", "descendants"} => CaseId \in TreeCases,
         d.known => d.body \in {"next", "cancel", "deadline", "pending"}
  PROVE  CaseInv(d, CurrentId)
<1>1. InCase /\ CurrentId = CaseId
  BY UnderWay
<1>2. CaseInv(cur, CurrentId)
  BY DEF QualInv
<1>3. d.disposed = cur.disposed /\ d.state = cur.state
  BY ApartInside
<1>4. Judges(d, CurrentId)
  BY <1>1 DEF Judges
<1>5. Descends(d, CurrentId)
  BY <1>1, <1>2, <1>3 DEF Descends, CaseInv
<1>6. d.body \in Early => cur.body \in Early
  BY DEF Early
<1>7. QED
  BY <1>2, <1>4, <1>5, <1>6, BodyMoves

LEMMA CurForm ==
  ASSUME QualInv
  PROVE  /\ cur = [f \in CaseFields |-> cur[f]] /\ CaseForm(cur)
         /\ Registers(cur) /\ Finalizes(cur) /\ Judges(cur, CurrentId) /\ Descends(cur, CurrentId)
         /\ SeenInv /\ SuiteInv
  BY DEF QualInv, CaseInv, CaseForm

\* The common case: the body settles, and that is all.
LEMMA BodyJustSettles ==
  ASSUME QualInv, cur.body # "settled", NEW p \in BOOLEAN, NEW d, d = Settles(cur, p),
         CurrentId = "probe_contract" => p = (cur.probe = "valid")
  PROVE  Apart(cur, d, Inside) /\ CaseInv(d, CurrentId)
<1>1. Apart(cur, d, {"body", "events", "passed"})
  BY CurForm, SettlesIs
<1>2. Apart(Settles(cur, p), d, {"identity", "known"}) /\ d.known = cur.known
  BY <1>1 DEF Apart, CaseFields
<1>3. cur.known => CaseId \in TreeCases
  BY UnderWay, CurForm, PlaceIs DEF Descends
<1>4. QED
  BY <1>2, <1>3, BodySettled

\* A body that fails in a case other than the probe's, or before it is answered.
LEMMA BodyFails ==
  ASSUME QualInv, cur.body \notin {"settled", "identity"}, NEW d, d = Settles(cur, FALSE)
  PROVE  Apart(cur, d, Inside) /\ CaseInv(d, CurrentId)
<1>1. CurrentId = "probe_contract" => cur.body \in {"start", "probe"}
  BY CurForm DEF Judges
<1>2. CurrentId = "probe_contract" => cur.probe = "none"
  BY <1>1, CurForm DEF Judges
<1>3. CurrentId = "probe_contract" => FALSE = (cur.probe = "valid")
  BY <1>2
<1>4. FALSE \in BOOLEAN /\ cur.body # "settled"
  OBVIOUS
<1>5. QED
  BY <1>3, <1>4, BodyJustSettles

LEMMA HostThrowsKeeps == QualInv /\ HostThrows => QualInv'
<1> SUFFICES ASSUME QualInv, HostThrows PROVE QualInv'
  OBVIOUS
<1>1. PICK t \in Taints : Sees(t)
  BY DEF HostThrows
<1>2. WorldMoves /\ world'.tree = world.tree /\ world'.mishap = world.mishap
  BY <1>1, SeesMoves, CurForm
<1>3. UNCHANGED <<kit, suite, release>>
      /\ cur.body \in {"probe", "first", "buffer", "next", "create", "bind", "descendants",
                       "deadline", "pending"}
  BY DEF HostThrows
<1>4. InCase /\ CurrentId = CaseId
  BY <1>3, UnderWay
<1>5. CASE cur.body \in {"deadline", "pending"}
  <2>1. cur' = [cur EXCEPT !.body = "next"]
    BY <1>5 DEF HostThrows
  <2>2. Apart(cur, cur', Inside) /\ cur'.body = "next" /\ cur'.known = cur.known
    BY <2>1, CurForm DEF Apart, Inside, CaseFields
  <2>3. CaseId # "probe_contract"
    BY <1>4, <1>5, CurForm DEF Judges
  <2>4. CaseInv(cur', CurrentId)
    BY <1>5, <2>2, <2>3, BodyGoesOn
  <2>5. QED
    BY <1>2, <1>3, <2>2, <2>4, BodyKeeps
<1>6. CASE cur.body \notin {"deadline", "pending"}
  <2>1. cur' = Settles(cur, FALSE)
    BY <1>6 DEF HostThrows
  <2>2. Apart(cur, cur', Inside) /\ CaseInv(cur', CurrentId)
    BY <1>3, <2>1, BodyFails
  <2>3. QED
    BY <1>2, <1>3, <2>2, BodyKeeps
<1>7. QED
  BY <1>5, <1>6

LEMMA HostProbesKeeps == QualInv /\ HostProbes => QualInv'
<1> SUFFICES ASSUME QualInv, HostProbes PROVE QualInv'
  OBVIOUS
<1>1. PICK t \in Taints, p \in {"valid", "violation", "noversion"} :
        /\ Sees(t)
        /\ cur' = IF Observe(scan, t) = "incomplete" THEN Settles(cur, FALSE)
                  ELSE [cur EXCEPT !.body = "identity", !.probe = p]
  BY DEF HostProbes
<1>2. WorldMoves /\ world'.tree = world.tree /\ world'.mishap = world.mishap
  BY <1>1, SeesMoves, CurForm
<1>3. UNCHANGED <<kit, suite, release>> /\ cur.body = "probe"
  BY DEF HostProbes
<1>4. CASE cur' = Settles(cur, FALSE)
  <2>1. Apart(cur, cur', Inside) /\ CaseInv(cur', CurrentId)
    BY <1>3, <1>4, BodyFails
  <2>2. QED
    BY <1>2, <1>3, <2>1, BodyKeeps
<1>5. CASE cur' = [cur EXCEPT !.body = "identity", !.probe = p]
  <2>1. Apart(cur, cur', Inside) /\ cur'.body = "identity" /\ cur'.known = cur.known
    BY <1>5, CurForm DEF Apart, Inside, CaseFields
  <2>2. ~cur.known
    BY <1>3, CurForm DEF Descends
  <2>3. CaseInv(cur', CurrentId)
    BY <1>3, <2>1, <2>2, BodyGoesOn DEF Early
  <2>4. QED
    BY <1>2, <1>3, <2>1, <2>3, BodyKeeps
<1>6. QED
  BY <1>1, <1>4, <1>5

LEMMA HostIdentifiesKeeps == QualInv /\ HostIdentifies => QualInv'
<1> SUFFICES ASSUME QualInv, HostIdentifies PROVE QualInv'
  OBVIOUS
<1>1. PICK t \in Taints, ok \in BOOLEAN :
        /\ Sees(t)
        /\ cur' = [Settles(cur, cur.probe = "valid") EXCEPT
                     !.identity = ok /\ Observe(scan, t) # "incomplete"]
  BY DEF HostIdentifies
<1>2. WorldMoves /\ world'.tree = world.tree /\ world'.mishap = world.mishap
  BY <1>1, SeesMoves, CurForm
<1>3. UNCHANGED <<kit, suite, release>> /\ cur.body = "identity"
  BY DEF HostIdentifies
<1> DEFINE p == cur.probe = "valid"
           e == Settles(cur, p)
           w == ok /\ Observe(scan, t) # "incomplete"
<1>4. p \in BOOLEAN
  OBVIOUS
<1>5. Apart(cur, e, {"body", "events", "passed"})
  BY <1>4, CurForm, SettlesIs
<1>6. cur' = [e EXCEPT !.identity = w]
  BY <1>1
<1> HIDE DEF e, w
<1>7. Apart(e, cur', {"identity", "known"}) /\ cur'.known = e.known /\ e.known = cur.known
  BY <1>5, <1>6 DEF Apart, CaseFields
<1>8. ~cur.known
  BY <1>3, CurForm DEF Descends
<1>9. Apart(cur, cur', Inside) /\ CaseInv(cur', CurrentId)
  BY <1>3, <1>4, <1>7, <1>8, BodySettled DEF e
<1>10. QED
  BY <1>2, <1>3, <1>9, BodyKeeps

LEMMA HostEmitsKeeps == QualInv /\ HostEmits => QualInv'
<1> SUFFICES ASSUME QualInv, HostEmits PROVE QualInv'
  OBVIOUS
<1>1. PICK e \in Events[CaseId], t \in Taints :
        /\ Sees(t)
        /\ cur' = IF Observe(scan, t) = "incomplete" \/ Len(Append(cur.events, e)) > MaxHostEvents
                  THEN Settles(cur, FALSE) ELSE [cur EXCEPT !.events = Append(cur.events, e)]
  BY DEF HostEmits
<1>2. WorldMoves /\ world'.tree = world.tree /\ world'.mishap = world.mishap
  BY <1>1, SeesMoves, CurForm
<1>3. UNCHANGED <<kit, suite, release>> /\ cur.body = "next"
  BY DEF HostEmits
<1>4. CASE cur' = Settles(cur, FALSE)
  <2>1. Apart(cur, cur', Inside) /\ CaseInv(cur', CurrentId)
    BY <1>3, <1>4, BodyFails
  <2>2. QED
    BY <1>2, <1>3, <2>1, BodyKeeps
<1>5. CASE cur' = [cur EXCEPT !.events = Append(cur.events, e)]
  <2> DEFINE ev == Append(cur.events, e)
  <2>1. cur' = [cur EXCEPT !.events = ev]
    BY <1>5
  <2> HIDE DEF ev
  <2>2. Apart(cur, cur', Inside) /\ cur'.body = "next" /\ cur'.known = cur.known
    BY <1>3, <2>1, CurForm DEF Apart, Inside, CaseFields
  <2>3. CaseId # "probe_contract"
    BY <1>3, UnderWay, CurForm DEF Judges
  <2>4. CaseInv(cur', CurrentId)
    BY <1>3, <2>2, <2>3, BodyGoesOn
  <2>5. QED
    BY <1>2, <1>3, <2>2, <2>4, BodyKeeps
<1>6. QED
  BY <1>1, <1>4, <1>5


\* What the body's moves have in common that look at a value of the Host, or at none.
LEMMA BodySteps ==
  ASSUME QualInv, cur.body # "settled", UNCHANGED <<kit, suite, release>>,
         Apart(cur, cur', Inside), CaseInv(cur', CurrentId),
         (\E t \in Taints : Sees(t)) \/ UNCHANGED <<scan, world>>
  PROVE  QualInv'
<1>1. SeenInv
  BY CurForm
<1>2. WorldMoves /\ world'.tree = world.tree /\ world'.mishap = world.mishap
  BY <1>1, SeesMoves, SameWorldMoves
<1>3. QED
  BY <1>2, BodyKeeps

\* The body of the case that asks for the capability never gets beyond its answer.
LEMMA OtherCase ==
  ASSUME QualInv, cur.body \notin {"start", "probe", "identity", "settled"}
  PROVE  CaseId # "probe_contract"
  BY UnderWay, CurForm DEF Judges

LEMMA VerdictIs ==
  ASSUME NEW c, NEW ev, NEW sc, NEW timedOut
  PROVE  CaseVerdict(c, ev, sc, timedOut) \in BOOLEAN
<1>1. /\ WellFormedEvents(ev) \in BOOLEAN /\ ExactlyOneTerminal(ev) \in BOOLEAN
      /\ CancelledLifecycle(ev) \in BOOLEAN /\ DeniedByPolicy(ev) \in BOOLEAN
  BY DEF WellFormedEvents, ExactlyOneTerminal, CancelledLifecycle, DeniedByPolicy, EndsWith
<1>2. /\ ValidJson(ev) \in BOOLEAN /\ RejectedPreflight(ev) \in BOOLEAN
      /\ ReadSearchOnly(ev) \in BOOLEAN /\ WriteRefused(ev) \in BOOLEAN
      /\ RejectedTerminal(ev) \in BOOLEAN /\ EndsWith(ev, "run.completed") \in BOOLEAN
  BY DEF ValidJson, RejectedPreflight, ReadSearchOnly, WriteRefused, RejectedTerminal, EndsWith
<1>3. (timedOut /\ CancelledLifecycle(ev)) \in BOOLEAN /\ (sc = "clean") \in BOOLEAN
      /\ (ToolsOf(ev) \subseteq AllowedTools) \in BOOLEAN
  OBVIOUS
<1>4. QED
  BY <1>1, <1>2, <1>3 DEF CaseVerdict

LEMMA StreamVerdictsAre ==
  ASSUME NEW c
  PROVE  StreamVerdicts(c) \in Seq(BOOLEAN) /\ Len(StreamVerdicts(c)) = Width(CaseId)
<1> DEFINE u == CaseVerdict("events_well_formed", c.events, scan, FALSE)
           v == CaseVerdict("exactly_one_terminal", c.events, scan, FALSE)
           w == CaseVerdict(CaseId, c.events, scan, c.timedOut)
<1>1. u \in BOOLEAN /\ v \in BOOLEAN /\ w \in BOOLEAN
  BY VerdictIs
<1>2. StreamVerdicts(c) = IF CaseId = "events_well_formed" THEN <<u, v>> ELSE <<w>>
  BY DEF StreamVerdicts
<1> HIDE DEF u, v, w
<1>3. <<u, v>> \in Seq(BOOLEAN) /\ Len(<<u, v>>) = 2 /\ <<w>> \in Seq(BOOLEAN) /\ Len(<<w>>) = 1
  BY <1>1
<1>4. QED
  BY <1>2, <1>3 DEF Width

LEMMA HostEndsKeeps == QualInv /\ HostEnds => QualInv'
<1> SUFFICES ASSUME QualInv, HostEnds PROVE QualInv'
  OBVIOUS
<1>1. UNCHANGED <<kit, suite, scan, world, release>>
      /\ cur.body \in {"first", "buffer", "next", "deadline", "pending"}
  BY DEF HostEnds
<1>2. CaseId # "probe_contract" /\ CurrentId = CaseId
  BY <1>1, OtherCase, UnderWay
<1>3. CASE cur.body = "next"
  <2> DEFINE v == StreamVerdicts(cur)
  <2>1. cur' = [[[cur EXCEPT !.body = "settled"] EXCEPT !.events = <<>>] EXCEPT !.passed = v]
    BY <1>3 DEF HostEnds
  <2>2. v \in Seq(BOOLEAN) /\ Len(v) = Width(CaseId)
    BY StreamVerdictsAre
  <2> HIDE DEF v
  <2>3. Apart(cur, cur', Inside) /\ cur'.body = "settled" /\ cur'.passed = v
        /\ cur'.known = cur.known
    BY <2>1, CurForm DEF Apart, Inside, CaseFields
  <2>4. cur'.disposed = cur.disposed /\ cur'.state = cur.state
    BY <2>3, ApartInside
  <2>5. Judges(cur', CurrentId)
    BY <1>2, <2>2, <2>3 DEF Judges
  <2>6. Descends(cur', CurrentId)
    BY <2>3, <2>4, CurForm DEF Descends
  <2>7. CaseInv(cur', CurrentId)
    <3>1. cur'.body \notin Early /\ cur'.body \notin {"preflight", "bind"}
      BY <2>3 DEF Early
    <3>2. CaseInv(cur, CurrentId)
      BY DEF QualInv
    <3>3. QED
      BY <1>3, <2>3, <2>5, <2>6, <3>1, <3>2, BodyMoves
  <2>8. QED
    BY <1>1, <2>3, <2>7, BodySteps
<1>4. CASE cur.body \in {"deadline", "pending"}
  <2>1. cur' = [cur EXCEPT !.body = "next"]
    BY <1>4 DEF HostEnds
  <2>2. Apart(cur, cur', Inside) /\ cur'.body = "next" /\ cur'.known = cur.known
    BY <2>1, CurForm DEF Apart, Inside, CaseFields
  <2>3. CaseInv(cur', CurrentId)
    BY <1>1, <1>2, <2>2, BodyGoesOn
  <2>4. QED
    BY <1>1, <2>2, <2>3, BodySteps
<1>5. CASE cur.body \in {"first", "buffer"}
  <2>1. cur' = Settles(cur, FALSE)
    BY <1>5 DEF HostEnds
  <2>2. Apart(cur, cur', Inside) /\ CaseInv(cur', CurrentId)
    BY <1>1, <2>1, BodyFails
  <2>3. QED
    BY <1>1, <2>2, BodySteps
<1>6. QED
  BY <1>1, <1>3, <1>4, <1>5

LEMMA HostStartsKeeps == QualInv /\ HostStarts => QualInv'
<1> SUFFICES ASSUME QualInv, HostStarts PROVE QualInv'
  OBVIOUS
<1> DEFINE reached == IF CaseId \in TreeCases THEN "descendants" ELSE "cancel"
<1>1. PICK e \in Events[CaseId], t \in Taints :
        /\ Sees(t)
        /\ cur' = IF e.type # "run.started" THEN Settles(cur, FALSE)
                  ELSE [cur EXCEPT !.events = <<e>>, !.body = reached]
  BY DEF HostStarts
<1>2. UNCHANGED <<kit, suite, release>> /\ cur.body = "first"
  BY DEF HostStarts
<1>3. CASE cur' = Settles(cur, FALSE)
  <2>1. Apart(cur, cur', Inside) /\ CaseInv(cur', CurrentId)
    BY <1>2, <1>3, BodyFails
  <2>2. QED
    BY <1>1, <1>2, <2>1, BodySteps
<1>4. CASE cur' = [cur EXCEPT !.events = <<e>>, !.body = reached]
  <2> DEFINE ev == <<e>>
  <2>0. cur' = [[cur EXCEPT !.events = ev] EXCEPT !.body = reached]
    BY <1>4
  <2>1. reached \in {"descendants", "cancel"} /\ (reached = "descendants" => CaseId \in TreeCases)
    OBVIOUS
  <2> HIDE DEF reached, ev
  <2>2. Apart(cur, cur', Inside) /\ cur'.body = reached /\ cur'.known = cur.known
    BY <2>0, CurForm DEF Apart, Inside, CaseFields
  <2>3. ~cur.known
    BY <1>2, CurForm DEF Descends
  <2>4. CaseId # "probe_contract"
    BY <1>2, OtherCase
  <2>5. CaseInv(cur', CurrentId)
    BY <1>2, <2>1, <2>2, <2>3, <2>4, BodyGoesOn
  <2>6. QED
    BY <1>1, <1>2, <2>2, <2>5, BodySteps
<1>5. QED
  BY <1>1, <1>3, <1>4

LEMMA HostBuffersKeeps == QualInv /\ HostBuffers => QualInv'
<1> SUFFICES ASSUME QualInv, HostBuffers PROVE QualInv'
  OBVIOUS
<1>1. PICK e \in Events[CaseId], t \in Taints :
        /\ Sees(t)
        /\ cur' = IF Observe(scan, t) = "incomplete" \/ Len(Append(cur.events, e)) > MaxHostEvents
                  THEN Settles(cur, FALSE)
                  ELSE [cur EXCEPT !.events = Append(cur.events, e),
                          !.body = IF e.type \in {"assistant.delta", "run.completed"}
                                   THEN "cancel" ELSE "buffer"]
  BY DEF HostBuffers
<1>2. UNCHANGED <<kit, suite, release>> /\ cur.body = "buffer"
  BY DEF HostBuffers
<1> DEFINE reached == IF e.type \in {"assistant.delta", "run.completed"} THEN "cancel" ELSE "buffer"
           ev == Append(cur.events, e)
<1>3. CASE cur' = Settles(cur, FALSE)
  <2>1. Apart(cur, cur', Inside) /\ CaseInv(cur', CurrentId)
    BY <1>2, <1>3, BodyFails
  <2>2. QED
    BY <1>1, <1>2, <2>1, BodySteps
<1>4. CASE cur' = [[cur EXCEPT !.events = ev] EXCEPT !.body = reached]
  <2>1. reached \in {"buffer", "cancel"}
    OBVIOUS
  <2> HIDE DEF reached, ev
  <2>2. Apart(cur, cur', Inside) /\ cur'.body = reached /\ cur'.known = cur.known
    BY <1>4, CurForm DEF Apart, Inside, CaseFields
  <2>3. cur.known => FALSE
    BY <1>2, CurForm DEF Descends
  <2>4. CaseId # "probe_contract"
    BY <1>2, OtherCase
  <2>5. CaseInv(cur', CurrentId)
    BY <1>2, <2>1, <2>2, <2>3, <2>4, BodyGoesOn
  <2>6. QED
    BY <1>1, <1>2, <2>2, <2>5, BodySteps
<1>5. QED
  BY <1>1, <1>3, <1>4

LEMMA BodyCancelledKeeps == QualInv /\ BodyCancelled => QualInv'
<1> SUFFICES ASSUME QualInv, BodyCancelled PROVE QualInv'
  OBVIOUS
<1> DEFINE reached == IF CaseId = "descendants_disposed_timeout" THEN "pending" ELSE "next"
<1>1. UNCHANGED <<kit, suite, scan, world, release>> /\ cur.body = "cancel"
      /\ (cur' = Settles(cur, FALSE) \/ cur' = [cur EXCEPT !.body = reached])
  BY DEF BodyCancelled
<1>2. CASE cur' = Settles(cur, FALSE)
  <2>1. Apart(cur, cur', Inside) /\ CaseInv(cur', CurrentId)
    BY <1>1, <1>2, BodyFails
  <2>2. QED
    BY <1>1, <2>1, BodySteps
<1>3. CASE cur' = [cur EXCEPT !.body = reached]
  <2>1. reached \in {"pending", "next"}
    OBVIOUS
  <2> HIDE DEF reached
  <2>2. Apart(cur, cur', Inside) /\ cur'.body = reached /\ cur'.known = cur.known
    BY <1>3, CurForm DEF Apart, Inside, CaseFields
  <2>3. CaseId # "probe_contract"
    BY <1>1, OtherCase
  <2>4. CaseInv(cur', CurrentId)
    BY <1>1, <2>1, <2>2, <2>3, BodyGoesOn
  <2>5. QED
    BY <1>1, <2>2, <2>4, BodySteps
<1>4. QED
  BY <1>1, <1>2, <1>3

LEMMA DeadlinePassesKeeps == QualInv /\ DeadlinePasses => QualInv'
<1> SUFFICES ASSUME QualInv, DeadlinePasses PROVE QualInv'
  OBVIOUS
<1>1. UNCHANGED <<kit, suite, scan, world, release>> /\ cur.body = "deadline"
      /\ cur' = [cur EXCEPT !.body = "cancel", !.timedOut = TRUE]
  BY DEF DeadlinePasses
<1>2. Apart(cur, cur', Inside) /\ cur'.body = "cancel" /\ cur'.known = cur.known
  BY <1>1, CurForm DEF Apart, Inside, CaseFields
<1>3. CaseId # "probe_contract"
  BY <1>1, OtherCase
<1>4. CaseInv(cur', CurrentId)
  BY <1>1, <1>2, <1>3, BodyGoesOn
<1>5. QED
  BY <1>1, <1>2, <1>4, BodySteps

LEMMA HostMeetsDeadlineKeeps == QualInv /\ HostMeetsDeadline => QualInv'
<1> SUFFICES ASSUME QualInv, HostMeetsDeadline PROVE QualInv'
  OBVIOUS
<1>1. PICK e \in Events[CaseId], t \in Taints :
        /\ Sees(t)
        /\ cur' = [cur EXCEPT !.body = "next", !.events = Append(@, e),
                     !.timedOut = @ \/ (e.type = "run.failed" /\ e.code = "deadline")]
  BY DEF HostMeetsDeadline
<1>2. UNCHANGED <<kit, suite, release>> /\ cur.body \in {"deadline", "pending"}
  BY DEF HostMeetsDeadline
<1> DEFINE ev == Append(cur.events, e)
           late == cur.timedOut \/ (e.type = "run.failed" /\ e.code = "deadline")
<1>3. cur' = [[[cur EXCEPT !.body = "next"] EXCEPT !.events = ev] EXCEPT !.timedOut = late]
  BY <1>1, CurForm DEF CaseFields
<1> HIDE DEF ev, late
<1>4. Apart(cur, cur', Inside) /\ cur'.body = "next" /\ cur'.known = cur.known
  BY <1>3, CurForm DEF Apart, Inside, CaseFields
<1>5. CaseId # "probe_contract"
  BY <1>2, OtherCase
<1>6. CaseInv(cur', CurrentId)
  BY <1>2, <1>4, <1>5, BodyGoesOn
<1>7. QED
  BY <1>1, <1>2, <1>4, <1>6, BodySteps

LEMMA HostHasDescendantsKeeps == QualInv /\ HostHasDescendants => QualInv'
<1> SUFFICES ASSUME QualInv, HostHasDescendants PROVE QualInv'
  OBVIOUS
<1> DEFINE reached == CASE CaseId = "descendants_disposed_normal" -> "next"
                   [] CaseId = "descendants_disposed_cancel" -> "cancel"
                   [] OTHER -> "deadline"
<1>1. PICK t \in Taints, lineage \in BOOLEAN :
        /\ scan' = Observe(scan, t)
        /\ world' = [Counted(t) EXCEPT !.tree = "alive"]
        /\ cur' = [(IF ~lineage THEN Settles(cur, FALSE) ELSE [cur EXCEPT !.body = reached])
                     EXCEPT !.known = TRUE]
  BY DEF HostHasDescendants
<1>2. UNCHANGED <<kit, suite, release>> /\ cur.body = "descendants"
  BY DEF HostHasDescendants
<1>3. CaseId \in TreeCases /\ CurrentId = CaseId /\ ~cur.known /\ ~cur.disposed
  BY <1>2, UnderWay, CurForm DEF Descends
<1>4. CaseId # "probe_contract"
  BY <1>2, OtherCase
<1>5. WorldMoves /\ world'.mishap = world.mishap
  <2>1. SeenInv /\ world.mishap \in BOOLEAN
    BY CurForm DEF SeenInv
  <2> DEFINE w == Counted(t)
  <2>2. /\ w = [f \in {"tree", "seen", "mishap"} |-> w[f]] /\ w.seen \in Nat
        /\ (w.seen > 0 => scan' # "clean") /\ w.mishap = world.mishap
    BY <1>1, <2>1, CountedMoves
  <2>3. world' = [w EXCEPT !.tree = "alive"]
    BY <1>1
  <2> HIDE DEF w
  <2>4. world' = [f \in {"tree", "seen", "mishap"} |-> world'[f]]
        /\ world'.seen = w.seen /\ world'.mishap = w.mishap
    BY <2>2, <2>3
  <2>5. QED
    BY <2>1, <2>2, <2>4 DEF WorldMoves
<1>6. CASE ~lineage
  <2> DEFINE e == Settles(cur, FALSE)
  <2>1. Apart(cur, e, {"body", "events", "passed"}) /\ FALSE \in BOOLEAN
    BY CurForm, SettlesIs
  <2>2. cur' = [e EXCEPT !.known = TRUE]
    BY <1>1, <1>6
  <2> HIDE DEF e
  <2>3. Apart(e, cur', {"identity", "known"}) /\ cur'.known
    BY <2>1, <2>2 DEF Apart, CaseFields
  <2>4. Apart(cur, cur', Inside) /\ CaseInv(cur', CurrentId)
    BY <1>2, <1>3, <1>4, <2>1, <2>3, BodySettled DEF e
  <2>5. QED
    BY <1>2, <1>3, <1>5, <2>4, BodyKeeps
<1>7. CASE lineage
  <2>1. reached \in {"next", "cancel", "deadline"}
    OBVIOUS
  <2>2. cur' = [[cur EXCEPT !.body = reached] EXCEPT !.known = TRUE]
    BY <1>1, <1>7
  <2> HIDE DEF reached
  <2>3. Apart(cur, cur', Inside) /\ cur'.body = reached
    BY <2>2, CurForm DEF Apart, Inside, CaseFields
  <2>4. cur'.disposed = cur.disposed /\ cur'.state = cur.state
    BY <2>3, ApartInside
  <2>5. Judges(cur', CurrentId)
    BY <1>3, <1>4, <2>1, <2>3 DEF Judges
  <2>6. Descends(cur', CurrentId)
    BY <1>3, <2>1, <2>3, <2>4 DEF Descends
  <2>7. cur'.body \notin Early /\ cur'.body \notin {"preflight", "bind"}
    BY <2>1, <2>3 DEF Early
  <2>8. CaseInv(cur, CurrentId)
    BY DEF QualInv
  <2>9. CaseInv(cur', CurrentId)
    BY <1>2, <2>3, <2>5, <2>6, <2>7, <2>8, BodyMoves
  <2>10. QED
    BY <1>2, <1>3, <1>5, <2>3, <2>9, BodyKeeps
<1>8. QED
  BY <1>6, <1>7

-----------------------------------------------------------------------------
(* What a body tracks and registers, also while its case is finalized.     *)

Outwards == {"body", "run", "cleanups", "state"}

LEMMA RegisteringKeeps ==
  ASSUME QualInv, cur.body # "settled", Apart(cur, cur', Outwards), CaseForm(cur'),
         Registers(cur'), cur'.body \notin {"settled", "start", "create", "descendants"},
         cur'.run = cur.run \/ cur.run = "untracked", cur'.run = "untracked" => cur.run = "untracked",
         RegisteredCleanups(cur) \subseteq RegisteredCleanups(cur'),
         \A x \in RegisteredCleanups(cur) : cur'.state[x] = cur.state[x],
         cur'.body \notin {"probe", "identity"}, CaseId # "probe_contract", ~cur.known,
         cur'.body = "bind" => CaseId \in TreeCases, UNCHANGED <<kit, suite, release>>,
         (\E t \in Taints : Sees(t)) \/ UNCHANGED <<scan, world>>
  PROVE  QualInv'
<1> DEFINE id == CurrentId
<1>1. /\ cur'.processed = cur.processed /\ cur'.awaits = cur.awaits /\ cur'.outcome = cur.outcome
      /\ cur'.finalizing = cur.finalizing /\ cur'.done = cur.done /\ cur'.errors = cur.errors
      /\ cur'.known = cur.known /\ cur'.disposed = cur.disposed
  BY DEF Apart, CaseFields, Outwards
<1>2. InCase /\ id = CaseId
  BY UnderWay
<1>3. Finalizes(cur')
  <2>1. ~cur.done /\ cur.outcome # "value"
    BY CurForm DEF Finalizes, AtRest
  <2>2. Resources(cur) \subseteq Resources(cur')
    BY DEF Resources
  <2>3. ASSUME NEW r \in cur.processed \ {cur.awaits}
        PROVE  HasSettled(cur', r)
    <3>1. HasSettled(cur, r) /\ r \in Resources(cur)
      BY CurForm DEF Finalizes
    <3>2. CASE r = "run"
      <4>1. cur.run \in {"cancelled", "cancelfailed"}
        BY <3>1, <3>2 DEF HasSettled
      <4>2. QED
        BY <3>2, <4>1 DEF HasSettled
    <3>3. CASE r # "run"
      <4>1. r \in RegisteredCleanups(cur)
        BY <3>1, <3>3 DEF Resources
      <4>2. QED
        BY <3>1, <3>3, <4>1 DEF HasSettled
    <3>4. QED
      BY <3>2, <3>3
  <2>4. QED
    BY <1>1, <2>1, <2>2, <2>3, CurForm DEF Finalizes
<1>4. Judges(cur', id)
  BY <1>2 DEF Judges
<1>5. Descends(cur', id)
  BY <1>1, <1>2, CurForm DEF Descends
<1>6. CaseInv(cur', CurrentId)
  BY <1>3, <1>4, <1>5 DEF CaseInv
<1>7. WorldMoves /\ world'.tree = world.tree /\ world'.mishap = world.mishap
  BY CurForm, SeesMoves, SameWorldMoves
<1>8. /\ world'.tree # "none" => CurrentId \in TreeCases
      /\ cur'.disposed => world'.tree = "dead"
  BY <1>1, <1>2, <1>7, CurForm DEF SeenInv
<1>9. QED
  BY <1>1, <1>2, <1>6, <1>7, <1>8, InCaseMoves

LEMMA TrackRunIs ==
  ASSUME NEW c, CaseForm(c)
  PROVE  /\ Apart(c, TrackRun(c), {"run"}) /\ TrackRun(c).run \in {"tracked", "cancelling"}
         /\ CaseForm(TrackRun(c))
<1> DEFINE r == IF c.finalizing THEN "cancelling" ELSE "tracked"
<1>1. TrackRun(c) = [c EXCEPT !.run = r] /\ r \in {"tracked", "cancelling"}
  BY DEF TrackRun
<1>2. c = [f \in CaseFields |-> c[f]]
  BY DEF CaseForm
<1> HIDE DEF r
<1>3. Apart(c, TrackRun(c), {"run"}) /\ TrackRun(c).run = r
  BY <1>1, <1>2 DEF Apart, CaseFields
<1>4. CaseForm(TrackRun(c))
  BY <1>1, <1>3 DEF Apart, CaseFields, CaseForm, RunStates
<1>5. QED
  BY <1>1, <1>3, <1>4

Reaching(c, reached) == [c EXCEPT !.body = reached]

LEMMA RegisterIs ==
  ASSUME NEW c, CaseForm(c), NEW what \in CleanupKinds, NEW reached,
         Append(c.cleanups, what) \in CleanupLists,
         NEW d, d = Reaching(RegisterCleanup(c, what), reached)
  PROVE  /\ Apart(c, d, {"body", "cleanups", "state"})
         /\ d.body = reached /\ d.cleanups = Append(c.cleanups, what)
         /\ d.state[what] \in {"invoked", "registered"}
         /\ \A x \in CleanupKinds \ {what} : d.state[x] = c.state[x]
         /\ CaseForm(d)
<1> DEFINE s == IF c.finalizing THEN "invoked" ELSE "registered"
           l == Append(c.cleanups, what)
           m == [c.state EXCEPT ![what] = s]
<1>1. c = [f \in CaseFields |-> c[f]] /\ c.state \in [CleanupKinds -> CleanupStates]
  BY DEF CaseForm
<1>2. d = [[[c EXCEPT !.cleanups = l] EXCEPT !.state = m] EXCEPT !.body = reached]
  BY <1>1 DEF RegisterCleanup, Reaching, CaseFields
<1>3. /\ m \in [CleanupKinds -> CleanupStates] /\ m[what] \in {"invoked", "registered"}
      /\ \A x \in CleanupKinds \ {what} : m[x] = c.state[x]
  BY <1>1 DEF CleanupStates
<1>4. l \in CleanupLists
  OBVIOUS
<1> HIDE DEF l, m
<1>5. /\ Apart(c, d, {"body", "cleanups", "state"})
      /\ d.body = reached /\ d.cleanups = l /\ d.state = m
  BY <1>1, <1>2 DEF Apart, CaseFields
<1>6. CaseForm(d)
  BY <1>3, <1>4, <1>5 DEF Apart, CaseFields, CaseForm
<1>7. QED
  BY <1>3, <1>5, <1>6 DEF l

\* Opening the stream registers its return, after the disposal of the fixture if there is one.
LEMMA StreamOpensIs ==
  ASSUME NEW c, CaseForm(c), NEW reached, c.cleanups \in {<<>>, <<"dispose">>},
         NEW d, d = StreamOpens(c, reached)
  PROVE  /\ Apart(c, d, {"body", "cleanups", "state"}) /\ d.body = reached /\ CaseForm(d)
         /\ RegisteredCleanups(d) = RegisteredCleanups(c) \cup {"return"}
         /\ d.state["return"] \in {"invoked", "registered"} /\ d.state["dispose"] = c.state["dispose"]
<1>1. /\ Append(<<>>, "return") = <<"return">>
      /\ Append(<<"dispose">>, "return") = <<"dispose", "return">>
  <2>1. <<>> \in Seq(CleanupKinds) /\ <<"dispose">> \in Seq(CleanupKinds)
        /\ <<"return">> \in Seq(CleanupKinds) /\ <<"dispose", "return">> \in Seq(CleanupKinds)
    BY DEF CleanupKinds
  <2>2. "return" \in CleanupKinds
    BY DEF CleanupKinds
  <2> DEFINE a == Append(<<>>, "return")
             b == Append(<<"dispose">>, "return")
  <2>3. /\ a \in Seq(CleanupKinds) /\ Len(a) = 1 /\ a[1] = "return"
        /\ b \in Seq(CleanupKinds) /\ Len(b) = 2 /\ b[1] = "dispose" /\ b[2] = "return"
    BY <2>1, <2>2, AppendProperties
  <2> HIDE DEF a, b
  <2>4. a = <<"return">>
    BY <2>1, <2>3, SeqEqual
  <2>5. b = <<"dispose", "return">>
    BY <2>1, <2>3, SeqEqual
  <2>6. QED
    BY <2>4, <2>5 DEF a, b
<1>2. d = Reaching(RegisterCleanup(c, "return"), reached)
  BY DEF StreamOpens, Reaching
<1>3. /\ Apart(c, d, {"body", "cleanups", "state"}) /\ d.body = reached /\ CaseForm(d)
      /\ d.cleanups = Append(c.cleanups, "return") /\ d.state["return"] \in {"invoked", "registered"}
      /\ \A x \in CleanupKinds \ {"return"} : d.state[x] = c.state[x]
  <2>1. Append(c.cleanups, "return") \in CleanupLists
    BY <1>1 DEF CleanupLists
  <2>2. "return" \in CleanupKinds
    BY DEF CleanupKinds
  <2>3. QED
    BY <1>2, <2>1, <2>2, RegisterIs
<1>4. RegisteredCleanups(d) = RegisteredCleanups(c) \cup {"return"}
  <2>1. CASE c.cleanups = <<>>
    <3>1. d.cleanups = <<"return">>
      BY <1>1, <1>3, <2>1
    <3>2. QED
      BY <2>1, <3>1, CleanupsOf
  <2>2. CASE c.cleanups = <<"dispose">>
    <3>1. d.cleanups = <<"dispose", "return">>
      BY <1>1, <1>3, <2>2
    <3>2. QED
      BY <2>2, <3>1, CleanupsOf
  <2>3. QED
    BY <2>1, <2>2
<1>5. QED
  BY <1>3, <1>4 DEF CleanupKinds

\* A run that is tracked and whose stream is opened, together or one after the other.
LEMMA OpeningKeeps ==
  ASSUME QualInv, cur.body \in {"start", "preflight", "bind"}, CaseId # "probe_contract",
         NEW c, \/ c = TrackRun(cur) /\ cur.body \in {"start", "bind"}
                \/ c = cur /\ cur.body = "preflight",
         NEW reached \in {"first", "buffer", "next"}, cur' = StreamOpens(c, reached),
         UNCHANGED <<kit, suite, release>>,
         (\E t \in Taints : Sees(t)) \/ UNCHANGED <<scan, world>>
  PROVE  QualInv'
<1>1. CaseForm(cur) /\ Registers(cur)
  BY CurForm
<1>2. /\ CaseForm(c) /\ Apart(cur, c, {"run"})
      /\ c.run = cur.run \/ (c.run \in {"tracked", "cancelling"} /\ cur.body \in {"start", "bind"})
  <2>1. CASE c = cur
    BY <1>1, <2>1, CurForm DEF Apart
  <2>2. CASE c = TrackRun(cur) /\ cur.body \in {"start", "bind"}
    BY <1>1, <2>2, TrackRunIs
  <2>3. QED
    BY <2>1, <2>2
<1>3. cur.cleanups \in {<<>>, <<"dispose">>}
  BY <1>1 DEF Registers, Early
<1>4. c.cleanups = cur.cleanups /\ c.state = cur.state /\ RegisteredCleanups(c) = RegisteredCleanups(cur)
  BY <1>2 DEF Apart, CaseFields, RegisteredCleanups
<1>5. /\ Apart(c, cur', {"body", "cleanups", "state"}) /\ cur'.body = reached /\ CaseForm(cur')
      /\ RegisteredCleanups(cur') = RegisteredCleanups(cur) \cup {"return"}
      /\ cur'.state["return"] \in {"invoked", "registered"}
      /\ cur'.state["dispose"] = cur.state["dispose"]
  BY <1>2, <1>3, <1>4, StreamOpensIs
<1>6. Apart(cur, cur', Outwards) /\ cur'.run = c.run
  BY <1>2, <1>5 DEF Apart, CaseFields, Outwards
<1>7. cur.body \in {"start", "bind"} => cur.run = "untracked"
  BY <1>1 DEF Registers, Early
<1>8. "return" \notin RegisteredCleanups(cur) /\ RegisteredCleanups(cur) \subseteq {"dispose"}
  BY <1>3, CleanupsOf
<1>9. Registers(cur')
  <2>1. cur'.body \notin Early /\ cur'.body \notin {"preflight", "bind"}
    BY <1>5 DEF Early
  <2>2. \A x \in CleanupKinds : cur'.state[x] = "none" <=> x \notin RegisteredCleanups(cur')
    BY <1>1, <1>5, <1>8 DEF CleanupKinds, Registers
  <2>3. QED
    BY <2>1, <2>2 DEF Registers
<1>10. ~cur.known
  BY CurForm DEF Descends
<1>11. \A x \in RegisteredCleanups(cur) : cur'.state[x] = cur.state[x]
  BY <1>5, <1>8
<1>12. /\ cur'.run = cur.run \/ cur.run = "untracked"
       /\ cur'.run = "untracked" => cur.run = "untracked"
  BY <1>2, <1>6, <1>7
<1>13. QED
  BY <1>5, <1>6, <1>9, <1>10, <1>11, <1>12, RegisteringKeeps

LEMMA BodyStartsKeeps == QualInv /\ BodyStarts => QualInv'
<1> SUFFICES ASSUME QualInv, BodyStarts PROVE QualInv'
  OBVIOUS
<1>1. UNCHANGED <<kit, suite, scan, world, release>> /\ cur.body = "start"
      /\ cur.body # "settled"
  BY DEF BodyStarts
<1>2. ~cur.known /\ cur.probe = "none" /\ cur.run = "untracked" /\ cur.cleanups = <<>>
  BY <1>1, CurForm DEF Descends, Judges, Registers, Early
<1> DEFINE tracked == TrackRun(cur)
           probes == [cur EXCEPT !.body = "probe"]
           asks == [tracked EXCEPT !.body = "preflight"]
           creates == [cur EXCEPT !.body = "create"]
           opens(reached) == StreamOpens(tracked, reached)
<1>0. cur' = CASE CaseId = "probe_contract" -> probes
               [] CaseId \in PreflightCases -> asks
               [] CaseId = "cancel_stops_active_run" -> opens("first")
               [] CaseId = "cancel_buffered" -> opens("buffer")
               [] CaseId \in TreeCases -> creates
               [] OTHER -> opens("next")
  BY DEF BodyStarts
<1> HIDE DEF tracked, probes, asks, creates, opens
<1>3. CASE CaseId = "probe_contract"
  <2>1. cur' = [cur EXCEPT !.body = "probe"]
    <3>1. CaseId \notin PreflightCases /\ CaseId \notin TreeCases
          /\ CaseId # "cancel_stops_active_run" /\ CaseId # "cancel_buffered"
      BY <1>3 DEF PreflightCases, DenyCases, TreeCases
    <3>2. cur' = probes
      BY <1>0, <1>3, <3>1
    <3>3. QED
      BY <3>2 DEF probes
  <2>2. Apart(cur, cur', Inside) /\ cur'.body = "probe" /\ cur'.known = cur.known
        /\ cur'.probe = cur.probe
    BY <2>1, CurForm DEF Apart, Inside, CaseFields
  <2>3. CaseInv(cur', CurrentId)
    BY <1>1, <1>2, <2>2, BodyGoesOn DEF Early
  <2>4. QED
    BY <1>1, <2>2, <2>3, BodySteps
<1>4. CASE CaseId \in PreflightCases
  <2>0. CaseId # "probe_contract"
    BY <1>4 DEF PreflightCases, DenyCases
  <2> DEFINE e == tracked
  <2>1. cur' = [e EXCEPT !.body = "preflight"]
    <3>1. CaseId \notin TreeCases
          /\ CaseId # "cancel_stops_active_run" /\ CaseId # "cancel_buffered"
      BY <1>4 DEF PreflightCases, DenyCases, TreeCases
    <3>2. cur' = asks
      BY <1>0, <1>4, <2>0, <3>1
    <3>3. QED
      BY <3>2 DEF asks
  <2>2. Apart(cur, e, {"run"}) /\ e.run \in {"tracked", "cancelling"} /\ CaseForm(e)
    BY CurForm, TrackRunIs DEF tracked
  <2> HIDE DEF e
  <2>3. Apart(cur, cur', {"run", "body"}) /\ cur'.body = "preflight" /\ cur'.run = e.run
    BY <2>1, <2>2 DEF Apart, CaseFields
  <2>4. cur'.cleanups = cur.cleanups /\ cur'.state = cur.state
        /\ RegisteredCleanups(cur') = RegisteredCleanups(cur)
    BY <2>3 DEF Apart, CaseFields, RegisteredCleanups
  <2>5. CaseForm(cur')
    BY <2>2, <2>3, CurForm DEF CaseForm, Apart, CaseFields
  <2>6. Registers(cur')
    BY <1>2, <2>3, <2>4, CurForm DEF Registers, Early
  <2>7. Apart(cur, cur', Outwards)
    BY <2>3 DEF Apart, Outwards
  <2>8. cur'.run # "untracked"
    BY <2>2, <2>3
  <2>9. QED
    BY <1>1, <1>2, <2>0, <2>3, <2>4, <2>5, <2>6, <2>7, <2>8, RegisteringKeeps
<1>5. CASE CaseId \in TreeCases
  <2>1. CaseId # "probe_contract" /\ CaseId \notin PreflightCases
        /\ CaseId # "cancel_stops_active_run" /\ CaseId # "cancel_buffered"
    BY <1>5 DEF TreeCases, PreflightCases, DenyCases
  <2>2. cur' = [cur EXCEPT !.body = "create"]
    <3>1. cur' = creates
      BY <1>0, <1>5, <2>1
    <3>2. QED
      BY <3>1 DEF creates
  <2>3. Apart(cur, cur', Inside) /\ cur'.body = "create" /\ cur'.known = cur.known
    BY <2>2, CurForm DEF Apart, Inside, CaseFields
  <2>4. CaseInv(cur', CurrentId)
    BY <1>1, <1>2, <1>5, <2>1, <2>3, BodyGoesOn DEF Early
  <2>5. QED
    BY <1>1, <2>3, <2>4, BodySteps
<1>6. CASE CaseId # "probe_contract" /\ CaseId \notin PreflightCases \cup TreeCases
  <2>1. PICK reached \in {"first", "buffer", "next"} : cur' = StreamOpens(TrackRun(cur), reached)
    <3>1. \E reached \in {"first", "buffer", "next"} : cur' = opens(reached)
      BY <1>0, <1>6
    <3>2. QED
      BY <3>1 DEF opens, tracked
  <2>2. QED
    BY <1>1, <1>6, <2>1, OpeningKeeps
<1>7. QED
  BY <1>3, <1>4, <1>5, <1>6

LEMMA HostPreflightsKeeps == QualInv /\ HostPreflights => QualInv'
<1> SUFFICES ASSUME QualInv, HostPreflights PROVE QualInv'
  OBVIOUS
<1>1. UNCHANGED <<kit, suite, release>> /\ cur.body = "preflight"
  BY DEF HostPreflights
<1>2. CaseId # "probe_contract" /\ CurrentId = CaseId
  BY <1>1, OtherCase, UnderWay
<1>3. ASSUME NEW t \in Taints, NEW denial \in BOOLEAN, Sees(t),
             cur' = Settles(cur, denial /\ Observe(scan, t) # "incomplete")
      PROVE  QualInv'
  <2> DEFINE p == denial /\ Observe(scan, t) # "incomplete"
  <2>1. p \in BOOLEAN /\ cur' = Settles(cur, p)
    BY <1>3
  <2> HIDE DEF p
  <2>2. Apart(cur, cur', Inside) /\ CaseInv(cur', CurrentId)
    BY <1>1, <1>2, <2>1, BodyJustSettles
  <2>3. QED
    BY <1>1, <1>3, <2>2, BodySteps
<1>4. ASSUME cur' = StreamOpens(cur, "next"), UNCHANGED <<scan, world>>
      PROVE  QualInv'
  BY <1>1, <1>2, <1>4, OpeningKeeps
<1>5. QED
  BY <1>3, <1>4 DEF HostPreflights

LEMMA HostBindsKeeps == QualInv /\ HostBinds => QualInv'
<1> SUFFICES ASSUME QualInv, HostBinds PROVE QualInv'
  OBVIOUS
<1>1. UNCHANGED <<kit, suite, release>> /\ cur.body = "bind"
  BY DEF HostBinds
<1>2. CaseId # "probe_contract" /\ CurrentId = CaseId
  BY <1>1, OtherCase, UnderWay
<1>3. (\E t \in Taints : Sees(t)) \/ UNCHANGED <<scan, world>>
  BY DEF HostBinds
<1>4. cur' = Settles(cur, FALSE) \/ cur' = StreamOpens(TrackRun(cur), "first")
  BY DEF HostBinds
<1>5. CASE cur' = Settles(cur, FALSE)
  <2>1. Apart(cur, cur', Inside) /\ CaseInv(cur', CurrentId)
    BY <1>1, <1>5, BodyFails
  <2>2. QED
    BY <1>1, <1>3, <2>1, BodySteps
<1>6. CASE cur' = StreamOpens(TrackRun(cur), "first")
  BY <1>1, <1>2, <1>3, <1>6, OpeningKeeps
<1>7. QED
  BY <1>4, <1>5, <1>6

LEMMA FixtureCreatedKeeps == QualInv /\ FixtureCreated => QualInv'
<1> SUFFICES ASSUME QualInv, FixtureCreated PROVE QualInv'
  OBVIOUS
<1>1. UNCHANGED <<kit, suite, scan, world, release>> /\ cur.body = "create"
  BY DEF FixtureCreated
<1>2. CaseId \in TreeCases /\ CurrentId = CaseId /\ ~cur.known
  BY <1>1, UnderWay, CurForm DEF Descends
<1>3. CaseId # "probe_contract"
  BY <1>1, OtherCase
<1>4. CASE cur' = Settles(cur, FALSE)
  <2>1. Apart(cur, cur', Inside) /\ CaseInv(cur', CurrentId)
    BY <1>1, <1>4, BodyFails
  <2>2. QED
    BY <1>1, <2>1, BodySteps
<1>5. CASE cur' = [RegisterCleanup(cur, "dispose") EXCEPT !.body = "bind"]
  <2>1. cur.run = "untracked" /\ cur.cleanups = <<>> /\ RegisteredCleanups(cur) = {}
    BY <1>1, CurForm, CleanupsOf DEF Registers, Early
  <2>2. Append(cur.cleanups, "dispose") = <<"dispose">>
    BY <2>1
  <2>3. /\ Apart(cur, cur', {"body", "cleanups", "state"}) /\ cur'.body = "bind"
        /\ cur'.cleanups = <<"dispose">> /\ cur'.state["dispose"] \in {"invoked", "registered"}
        /\ \A x \in CleanupKinds \ {"dispose"} : cur'.state[x] = cur.state[x]
        /\ CaseForm(cur')
    <3>1. Append(cur.cleanups, "dispose") \in CleanupLists /\ "dispose" \in CleanupKinds
      BY <2>2 DEF CleanupKinds, CleanupLists
    <3>2. cur' = Reaching(RegisterCleanup(cur, "dispose"), "bind")
      BY <1>5 DEF Reaching
    <3>3. QED
      BY <2>2, <3>1, <3>2, CurForm, RegisterIs
  <2>4. Apart(cur, cur', Outwards) /\ cur'.run = cur.run
    BY <2>3 DEF Apart, Outwards, CaseFields
  <2>5. RegisteredCleanups(cur') = {"dispose"}
    BY <2>3, CleanupsOf
  <2>6. Registers(cur')
    <3>1. \A x \in CleanupKinds : cur'.state[x] = "none" <=> x \notin RegisteredCleanups(cur')
      BY <2>1, <2>3, <2>5, CurForm DEF Registers, CleanupKinds
    <3>2. QED
      BY <2>1, <2>3, <2>4, <3>1 DEF Registers, Early
  <2>7. QED
    BY <1>1, <1>2, <1>3, <2>1, <2>3, <2>4, <2>6, RegisteringKeeps
<1>6. QED
  BY <1>4, <1>5 DEF FixtureCreated

-----------------------------------------------------------------------------
(* The finalizer, and what it and the body have asked for.                 *)

Beside == {"run", "state", "processed", "awaits", "done", "errors", "disposed", "outcome",
           "finalizing"}

LEMMA FinalizingForm ==
  ASSUME QualInv, Apart(cur, cur', Beside), CaseForm(cur'), Finalizes(cur'),
         cur'.run = "untracked" <=> cur.run = "untracked",
         \A x \in CleanupKinds : cur'.state[x] = "none" <=> cur.state[x] = "none",
         cur'.disposed => cur.known /\ cur'.state["dispose"] = "settled"
  PROVE  CaseInv(cur', CurrentId)
<1>1. /\ cur'.body = cur.body /\ cur'.cleanups = cur.cleanups /\ cur'.passed = cur.passed
      /\ cur'.probe = cur.probe /\ cur'.known = cur.known
  BY DEF Apart, CaseFields, Beside
<1>2. Registers(cur')
  BY <1>1, CurForm DEF Registers, RegisteredCleanups
<1>3. Judges(cur', CurrentId)
  BY <1>1, CurForm DEF Judges
<1>4. Descends(cur', CurrentId)
  BY <1>1, CurForm DEF Descends
<1>5. QED
  BY <1>2, <1>3, <1>4 DEF CaseInv

\* After the last case nothing runs.
LEMMA NothingRuns ==
  ASSUME QualInv, ~InCase
  PROVE  /\ AtRest(cur) /\ cur.run # "cancelling"
         /\ \A x \in CleanupKinds : cur.state[x] # "invoked"
<1>1. AtRest(cur)
  BY DEF QualInv, SuiteInv
<1>2. ASSUME NEW r \in Resources(cur)
      PROVE  HasSettled(cur, r)
  <2>1. r \in cur.processed /\ cur.awaits = "none"
    BY <1>1 DEF AtRest, Unprocessed
  <2>2. r # "none"
    <3>1. RegisteredCleanups(cur) \subseteq CleanupKinds
      BY CurForm, CleanupsOf DEF CaseForm, CleanupLists, CleanupKinds
    <3>2. QED
      BY <3>1 DEF Resources, CleanupKinds
  <2>3. QED
    BY <2>1, <2>2, CurForm DEF Finalizes
<1>3. cur.run # "cancelling"
  <2>1. cur.run = "cancelling" => "run" \in Resources(cur)
    BY DEF Resources
  <2>2. QED
    BY <1>2, <2>1 DEF HasSettled
<1>4. ASSUME NEW x \in CleanupKinds, cur.state[x] = "invoked"
      PROVE  FALSE
  <2>1. x \in RegisteredCleanups(cur)
    BY <1>4, CurForm DEF Registers
  <2>2. HasSettled(cur, x) /\ x # "run"
    BY <1>2, <2>1 DEF Resources, CleanupKinds
  <2>3. QED
    BY <1>4, <2>2 DEF HasSettled
<1>5. QED
  BY <1>1, <1>3, <1>4

LEMMA RestKeeps ==
  ASSUME QualInv, UNCHANGED <<kit, suite, scan, world, release>>, ~InCase,
         CaseInv(cur', CurrentId), AtRest(cur')
  PROVE  QualInv'
<1>1. CurrentId' = CurrentId /\ ~InCase'
  BY SameSuite
<1>2. CaseInv(cur, CurrentId)'
  <2>1. CaseInv(cur', CurrentId')
    BY <1>1
  <2>2. QED
    BY <2>1
<1>3. SuiteInv'
  <2>1. AtRest(cur)'
    OBVIOUS
  <2>2. QED
    BY <1>1, <2>1 DEF QualInv, SuiteInv, Results, SuiteContract
<1>4. ProbeInv' /\ ReleaseInv' /\ EarnedInv'
  BY DEF QualInv, ProbeInv, ReleaseInv, DomainStatus, EarnedInv
<1>5. SeenInv' /\ MishapInv'
  BY <1>1 DEF QualInv, SeenInv, MishapInv
<1>6. QED
  BY <1>2, <1>3, <1>4, <1>5 DEF QualInv

LEMMA CaseKeeps ==
  ASSUME QualInv, UNCHANGED <<kit, suite, scan, world, release>>,
         CaseInv(cur', CurrentId), ~InCase => AtRest(cur'),
         cur'.disposed => cur.disposed,
         cur.outcome = "timeout" => cur'.outcome = "timeout", cur.errors => cur'.errors
  PROVE  QualInv'
<1>1. CASE ~InCase
  BY <1>1, RestKeeps
<1>2. CASE InCase
  <2>1. WorldMoves /\ world'.tree = world.tree /\ world'.mishap = world.mishap
    BY CurForm, SameWorldMoves
  <2>2. (world.tree # "none" => CurrentId \in TreeCases) /\ (cur.disposed => world.tree = "dead")
    BY <1>2, CurForm DEF SeenInv
  <2>3. QED
    BY <1>2, <2>1, <2>2, InCaseMoves
<1>3. QED
  BY <1>1, <1>2

\* What has settled stays so, however the rest goes on.
LEMMA SettlingKeeps ==
  ASSUME QualInv, Apart(cur, cur', {"run", "state", "errors", "disposed"}), CaseForm(cur'),
         cur'.run = "untracked" <=> cur.run = "untracked",
         cur.run \in {"cancelled", "cancelfailed"} => cur'.run \in {"cancelled", "cancelfailed"},
         \A x \in CleanupKinds : /\ cur'.state[x] = "none" <=> cur.state[x] = "none"
                                 /\ cur.state[x] = "settled" => cur'.state[x] = "settled"
  PROVE  Finalizes(cur') /\ Apart(cur, cur', Beside) /\ cur'.outcome = cur.outcome
<1>1. /\ cur'.body = cur.body /\ cur'.cleanups = cur.cleanups /\ cur'.processed = cur.processed
      /\ cur'.awaits = cur.awaits /\ cur'.outcome = cur.outcome /\ cur'.done = cur.done
      /\ cur'.finalizing = cur.finalizing
  BY DEF Apart, CaseFields
<1>2. Resources(cur') = Resources(cur)
  BY <1>1 DEF Resources, RegisteredCleanups
<1>3. RegisteredCleanups(cur) \subseteq CleanupKinds
  BY CurForm, CleanupsOf DEF CaseForm, CleanupLists, CleanupKinds
<1>4. ASSUME NEW r \in Resources(cur), HasSettled(cur, r)
      PROVE  HasSettled(cur', r)
  BY <1>3, <1>4 DEF HasSettled, Resources
<1>5. Finalizes(cur')
  BY <1>1, <1>2, <1>4, CurForm DEF Finalizes, AtRest, Unprocessed
<1>6. Apart(cur, cur', Beside)
  BY DEF Apart, Beside
<1>7. QED
  BY <1>1, <1>5, <1>6

LEMMA BodyCancelsKeeps == QualInv /\ BodyCancels => QualInv'
<1> SUFFICES ASSUME QualInv, BodyCancels PROVE QualInv'
  OBVIOUS
<1>1. /\ UNCHANGED <<kit, suite, scan, world, release>> /\ cur.body = "cancel"
      /\ cur.run = "tracked" /\ cur' = [cur EXCEPT !.run = "cancelling"]
  BY DEF BodyCancels
<1>2. Apart(cur, cur', {"run"}) /\ cur'.run = "cancelling"
  BY <1>1, CurForm DEF Apart, CaseFields
<1>3. /\ Apart(cur, cur', {"run", "state", "errors", "disposed"}) /\ cur'.state = cur.state
      /\ cur'.disposed = cur.disposed /\ cur'.errors = cur.errors
  BY <1>2 DEF Apart, CaseFields
<1>4. CaseForm(cur')
  BY <1>2, CurForm DEF Apart, CaseFields, CaseForm, RunStates
<1>5. Finalizes(cur') /\ Apart(cur, cur', Beside) /\ cur'.outcome = cur.outcome
  BY <1>1, <1>2, <1>3, <1>4, SettlingKeeps
<1>6. cur.disposed => cur.known /\ cur.state["dispose"] = "settled"
  BY CurForm DEF Descends
<1>7. CaseInv(cur', CurrentId)
  BY <1>1, <1>2, <1>3, <1>4, <1>5, <1>6, FinalizingForm
<1>8. InCase
  BY <1>1, UnderWay
<1>9. QED
  BY <1>1, <1>3, <1>5, <1>7, <1>8, CaseKeeps

LEMMA CancelSettlesKeeps == QualInv /\ CancelSettles => QualInv'
<1> SUFFICES ASSUME QualInv, CancelSettles PROVE QualInv'
  OBVIOUS
<1>1. UNCHANGED <<kit, suite, release>> /\ cur.run = "cancelling"
  BY DEF CancelSettles
<1>2. InCase
  BY <1>1, NothingRuns
<1>3. cur.disposed => cur.known /\ cur.state["dispose"] = "settled"
  BY CurForm DEF Descends
<1>4. ASSUME NEW to \in {"cancelled", "cancelfailed"}, cur'.run = to,
             Apart(cur, cur', {"run", "errors"})
      PROVE  CaseInv(cur', CurrentId) /\ cur'.outcome = cur.outcome /\ cur'.disposed = cur.disposed
  <2>1. /\ Apart(cur, cur', {"run", "state", "errors", "disposed"}) /\ cur'.state = cur.state
        /\ cur'.disposed = cur.disposed
    BY <1>4 DEF Apart, CaseFields
  <2>2. CaseForm(cur')
    BY <1>4, CurForm DEF Apart, CaseFields, CaseForm, RunStates
  <2>3. Finalizes(cur') /\ Apart(cur, cur', Beside) /\ cur'.outcome = cur.outcome
    BY <1>1, <1>4, <2>1, <2>2, SettlingKeeps
  <2>4. QED
    BY <1>1, <1>3, <1>4, <2>1, <2>2, <2>3, FinalizingForm
<1>5. ASSUME cur' = [cur EXCEPT !.run = "cancelled"], UNCHANGED <<scan, world>>
      PROVE  QualInv'
  <2>1. Apart(cur, cur', {"run", "errors"}) /\ cur'.run = "cancelled" /\ cur'.errors = cur.errors
    BY <1>5, CurForm DEF Apart, CaseFields
  <2>2. CaseInv(cur', CurrentId) /\ cur'.outcome = cur.outcome /\ cur'.disposed = cur.disposed
    BY <1>4, <2>1
  <2>3. QED
    BY <1>1, <1>2, <1>5, <2>1, <2>2, CaseKeeps
<1>6. ASSUME NEW t \in Taints, cur' = [cur EXCEPT !.run = "cancelfailed", !.errors = TRUE],
             scan' = Observe(scan, t), world' = [Counted(t) EXCEPT !.mishap = TRUE]
      PROVE  QualInv'
  <2>1. Apart(cur, cur', {"run", "errors"}) /\ cur'.run = "cancelfailed" /\ cur'.errors
    BY <1>6, CurForm DEF Apart, CaseFields
  <2>2. CaseInv(cur', CurrentId) /\ cur'.outcome = cur.outcome /\ cur'.disposed = cur.disposed
    BY <1>4, <2>1
  <2>3. WorldMoves /\ world'.tree = world.tree
    <3> DEFINE w == Counted(t)
    <3>1. /\ w = [f \in {"tree", "seen", "mishap"} |-> w[f]] /\ w.seen \in Nat
          /\ (w.seen > 0 => scan' # "clean") /\ w.tree = world.tree
      BY <1>6, CurForm, CountedMoves
    <3>2. world' = [w EXCEPT !.mishap = TRUE]
      BY <1>6
    <3> HIDE DEF w
    <3>3. QED
      BY <3>1, <3>2 DEF WorldMoves
  <2>4. (world.tree # "none" => CurrentId \in TreeCases) /\ (cur.disposed => world.tree = "dead")
    BY <1>2, CurForm DEF SeenInv
  <2>5. QED
    BY <1>1, <1>2, <2>1, <2>2, <2>3, <2>4, InCaseMoves
<1>7. QED
  BY <1>5, <1>6 DEF CancelSettles

\* A failure of what was asked for costs the case its results.
LEMMA FailureMoves ==
  ASSUME QualInv, NEW t \in Taints, scan' = Observe(scan, t),
         world' = [Counted(t) EXCEPT !.mishap = TRUE]
  PROVE  WorldMoves /\ world'.tree = world.tree
<1> DEFINE w == Counted(t)
<1>1. /\ w = [f \in {"tree", "seen", "mishap"} |-> w[f]] /\ w.seen \in Nat
      /\ (w.seen > 0 => scan' # "clean") /\ w.tree = world.tree
  BY CurForm, CountedMoves
<1>2. world' = [w EXCEPT !.mishap = TRUE]
  OBVIOUS
<1> HIDE DEF w
<1>3. QED
  BY <1>1, <1>2 DEF WorldMoves

LEMMA CleanupSettlesKeeps ==
  ASSUME QualInv, NEW x \in CleanupKinds, CleanupSettles(x)
  PROVE  QualInv'
<1>1. UNCHANGED <<kit, suite, release>> /\ cur.state[x] = "invoked"
  BY DEF CleanupSettles
<1>2. InCase
  BY <1>1, NothingRuns
<1>3. (cur.disposed => cur.known /\ cur.state["dispose"] = "settled")
      /\ (cur.known => CurrentId \in TreeCases)
  BY <1>2, PlaceIs, CurForm DEF Descends, CurrentId
<1>4. (world.tree # "none" => CurrentId \in TreeCases) /\ (cur.disposed => world.tree = "dead")
  BY <1>2, CurForm DEF SeenInv
<1> DEFINE s == [cur.state EXCEPT ![x] = "settled"]
<1>5. /\ s \in [CleanupKinds -> CleanupStates] /\ s[x] = "settled"
      /\ \A y \in CleanupKinds \ {x} : s[y] = cur.state[y]
  BY CurForm DEF CaseForm, CleanupStates
<1> HIDE DEF s
<1>6. ASSUME Apart(cur, cur', {"state", "disposed", "errors"}), cur'.state = s,
             cur'.disposed => cur.disposed \/ (cur.known /\ x = "dispose")
      PROVE  CaseInv(cur', CurrentId) /\ cur'.outcome = cur.outcome
  <2>1. Apart(cur, cur', {"run", "state", "errors", "disposed"}) /\ cur'.run = cur.run
    BY <1>6 DEF Apart, CaseFields
  <2>2. CaseForm(cur')
    BY <1>5, <1>6, CurForm DEF Apart, CaseFields, CaseForm
  <2>3. \A y \in CleanupKinds : /\ cur'.state[y] = "none" <=> cur.state[y] = "none"
                                /\ cur.state[y] = "settled" => cur'.state[y] = "settled"
    BY <1>1, <1>5, <1>6
  <2>4. Finalizes(cur') /\ Apart(cur, cur', Beside) /\ cur'.outcome = cur.outcome
    BY <2>1, <2>2, <2>3, SettlingKeeps
  <2>5. cur'.disposed => cur.known /\ cur'.state["dispose"] = "settled"
    BY <1>3, <1>5, <1>6, <2>3 DEF CleanupKinds
  <2>6. QED
    BY <2>1, <2>2, <2>3, <2>4, <2>5, FinalizingForm
<1>7. ASSUME x = "dispose", cur.known, NEW after \in {"alive", "dead"},
             world' = [world EXCEPT !.tree = after], UNCHANGED scan,
             cur' = [cur EXCEPT !.state[x] = "settled", !.disposed = after = "dead"]
      PROVE  QualInv'
  <2> DEFINE disappeared == after = "dead"
  <2>1. cur' = [[cur EXCEPT !.state = s] EXCEPT !.disposed = disappeared]
    BY <1>7, CurForm DEF s, CaseFields
  <2>2. Apart(cur, cur', {"state", "disposed", "errors"}) /\ cur'.state = s
        /\ cur'.disposed = disappeared /\ cur'.errors = cur.errors
    BY <2>1, CurForm DEF Apart, CaseFields
  <2>3. CaseInv(cur', CurrentId) /\ cur'.outcome = cur.outcome
    BY <1>6, <1>7, <2>2
  <2>4. WorldMoves /\ world'.tree = after /\ world'.mishap = world.mishap
    <3>1. world = [f \in {"tree", "seen", "mishap"} |-> world[f]] /\ world.seen \in Nat
          /\ world.mishap \in BOOLEAN /\ (world.seen > 0 => scan # "clean")
      BY CurForm DEF SeenInv
    <3>2. /\ world' = [f \in {"tree", "seen", "mishap"} |-> world'[f]]
          /\ world'.seen = world.seen /\ world'.mishap = world.mishap /\ world'.tree = after
      BY <1>7, <3>1
    <3>3. QED
      BY <1>7, <3>1, <3>2 DEF WorldMoves
  <2>5. world'.tree # "none" => CurrentId \in TreeCases
    BY <1>3, <1>7
  <2>6. cur'.disposed => world'.tree = "dead"
    BY <2>2, <2>4
  <2>7. QED
    BY <1>1, <1>2, <2>2, <2>3, <2>4, <2>5, <2>6, InCaseMoves
<1>8. ASSUME cur' = [cur EXCEPT !.state[x] = "settled"], UNCHANGED <<scan, world>>
      PROVE  QualInv'
  <2>1. cur' = [cur EXCEPT !.state = s]
    BY <1>8, CurForm DEF s, CaseFields
  <2>2. Apart(cur, cur', {"state", "disposed", "errors"}) /\ cur'.state = s
        /\ cur'.disposed = cur.disposed /\ cur'.errors = cur.errors
    BY <2>1, CurForm DEF Apart, CaseFields
  <2>3. CaseInv(cur', CurrentId) /\ cur'.outcome = cur.outcome
    BY <1>6, <2>2
  <2>4. QED
    BY <1>1, <1>2, <1>8, <2>2, <2>3, CaseKeeps
<1>9. ASSUME NEW t \in Taints, cur' = [cur EXCEPT !.state[x] = "settled", !.errors = TRUE],
             scan' = Observe(scan, t), world' = [Counted(t) EXCEPT !.mishap = TRUE]
      PROVE  QualInv'
  <2>1. cur' = [[cur EXCEPT !.state = s] EXCEPT !.errors = TRUE]
    BY <1>9, CurForm DEF s, CaseFields
  <2>2. Apart(cur, cur', {"state", "disposed", "errors"}) /\ cur'.state = s
        /\ cur'.disposed = cur.disposed /\ cur'.errors
    BY <2>1, CurForm DEF Apart, CaseFields
  <2>3. CaseInv(cur', CurrentId) /\ cur'.outcome = cur.outcome
    BY <1>6, <2>2
  <2>4. WorldMoves /\ world'.tree = world.tree
    BY <1>9, FailureMoves
  <2>5. QED
    BY <1>1, <1>2, <1>4, <2>2, <2>3, <2>4, InCaseMoves
<1>10. QED
  BY <1>7, <1>8, <1>9 DEF CleanupSettles

-----------------------------------------------------------------------------
LEMMA NextIsUnprocessed ==
  ASSUME QualInv, Unprocessed(cur) # {}
  PROVE  NextResource(cur) \in Unprocessed(cur)
<1>1. CASE "run" \in Unprocessed(cur)
  BY <1>1 DEF NextResource
<1>2. CASE "run" \notin Unprocessed(cur)
  <2> DEFINE U == Unprocessed(cur)
             L == cur.cleanups
  <2>1. PICK r \in U : r \in RegisteredCleanups(cur)
    BY <1>2 DEF Unprocessed, Resources
  <2>2. PICK i \in DOMAIN L : L[i] = r
    BY <2>1 DEF RegisteredCleanups
  <2>3. DOMAIN L \subseteq 1..2
    <3>1. L \in CleanupLists
      BY CurForm DEF CaseForm
    <3> HIDE DEF L
    <3>2. L \in Seq(CleanupKinds) /\ Len(L) <= 2
      <4>1. L = <<>> \/ L = <<"return">> \/ L = <<"dispose">> \/ L = <<"dispose", "return">>
        BY <3>1 DEF CleanupLists
      <4>2. "return" \in CleanupKinds /\ "dispose" \in CleanupKinds
        BY DEF CleanupKinds
      <4>3. /\ <<>> \in Seq(CleanupKinds) /\ Len(<<>>) = 0
            /\ <<"return">> \in Seq(CleanupKinds) /\ Len(<<"return">>) = 1
            /\ <<"dispose">> \in Seq(CleanupKinds) /\ Len(<<"dispose">>) = 1
            /\ <<"dispose", "return">> \in Seq(CleanupKinds) /\ Len(<<"dispose", "return">>) = 2
        BY <4>2
      <4>4. CASE L = <<>>
        BY <4>3, <4>4
      <4>5. CASE L = <<"return">>
        BY <4>3, <4>5
      <4>6. CASE L = <<"dispose">>
        BY <4>3, <4>6
      <4>7. CASE L = <<"dispose", "return">>
        BY <4>3, <4>7
      <4>8. QED
        BY <4>1, <4>4, <4>5, <4>6, <4>7
    <3>3. DOMAIN L = 1..Len(L) /\ Len(L) \in Nat
      BY <3>2
    <3>4. QED
      BY <3>2, <3>3
  <2>4. \E l \in DOMAIN L : L[l] \in U /\ \A j \in DOMAIN L : j > l => L[j] \notin U
    <3>1. CASE 2 \in DOMAIN L /\ L[2] \in U
      BY <2>3, <3>1
    <3>2. CASE ~(2 \in DOMAIN L /\ L[2] \in U)
      <4>1. i = 1
        BY <2>2, <2>3, <3>2
      <4>2. QED
        BY <2>2, <2>3, <3>2, <4>1
    <3>3. QED
      BY <3>1, <3>2
  <2>5. L[CHOOSE l \in DOMAIN L : L[l] \in U /\ \A j \in DOMAIN L : j > l => L[j] \notin U] \in U
    BY <2>4
  <2>6. QED
    BY <1>2, <2>5 DEF NextResource
<1>3. QED
  BY <1>1, <1>2

LEMMA FinalizerTakesKeeps == QualInv /\ FinalizerTakes => QualInv'
<1> SUFFICES ASSUME QualInv, FinalizerTakes PROVE QualInv'
  OBVIOUS
<1> DEFINE r == NextResource(cur)
           more == cur.processed \cup {r}
           run == IF r = "run" /\ cur.run = "tracked" THEN "cancelling" ELSE cur.run
           state == [x \in CleanupKinds |-> IF x = r /\ cur.state[x] = "registered"
                                            THEN "invoked" ELSE cur.state[x]]
<1>1. /\ UNCHANGED <<kit, suite, scan, world, release>>
      /\ cur.finalizing /\ cur.awaits = "none" /\ Unprocessed(cur) # {}
      /\ cur' = [[[[cur EXCEPT !.awaits = r] EXCEPT !.processed = more] EXCEPT !.run = run]
                    EXCEPT !.state = state]
  <2>1. DOMAIN cur.state = CleanupKinds
    BY CurForm DEF CaseForm
  <2>2. QED
    BY <2>1, CurForm DEF FinalizerTakes, CaseFields
<1>2. r \in Unprocessed(cur) /\ InCase
  BY <1>1, NextIsUnprocessed, NothingRuns DEF AtRest
<1>3. ~cur.done
  BY <1>1, CurForm DEF Finalizes, AtRest
<1>4. /\ state \in [CleanupKinds -> CleanupStates] /\ run \in RunStates
      /\ run = "untracked" <=> cur.run = "untracked"
      /\ cur.run \in {"cancelled", "cancelfailed"} => run = cur.run
      /\ \A x \in CleanupKinds : /\ state[x] = "none" <=> cur.state[x] = "none"
                                 /\ cur.state[x] = "settled" => state[x] = "settled"
  BY CurForm DEF CaseForm, CleanupStates, RunStates
<1>5. more = cur.processed \cup {r}
  OBVIOUS
<1> HIDE DEF r, more, run, state
<1>6. /\ Apart(cur, cur', {"awaits", "processed", "run", "state"}) /\ cur'.awaits = r
      /\ cur'.processed = more /\ cur'.run = run /\ cur'.state = state
  BY <1>1, CurForm DEF Apart, CaseFields
<1>7. /\ cur'.body = cur.body /\ cur'.cleanups = cur.cleanups /\ cur'.outcome = cur.outcome
      /\ cur'.finalizing = cur.finalizing /\ cur'.done = cur.done /\ cur'.errors = cur.errors
      /\ cur'.disposed = cur.disposed
  BY <1>6 DEF Apart, CaseFields
<1>8. Resources(cur') = Resources(cur) /\ RegisteredCleanups(cur) \subseteq CleanupKinds
      /\ "none" \notin Resources(cur)
  <2>1. RegisteredCleanups(cur') = RegisteredCleanups(cur)
    BY <1>7 DEF RegisteredCleanups
  <2>2. RegisteredCleanups(cur) \subseteq CleanupKinds
    BY CurForm, CleanupsOf DEF CaseForm, CleanupLists, CleanupKinds
  <2>3. QED
    BY <1>4, <1>6, <2>1, <2>2 DEF Resources, CleanupKinds
<1>9. Finalizes(cur')
  <2>1. r \in Resources(cur) /\ cur.processed \subseteq Resources(cur)
    BY <1>2, CurForm DEF Unprocessed, Finalizes
  <2>2. ASSUME NEW q \in cur.processed
        PROVE  HasSettled(cur', q)
    <3>1. HasSettled(cur, q)
      BY <1>1, <1>8, <2>1, CurForm DEF Finalizes
    <3>2. q = "run" \/ q \in CleanupKinds
      BY <1>8, <2>1 DEF Resources
    <3>3. QED
      BY <1>4, <1>6, <3>1, <3>2 DEF HasSettled
  <2>3. QED
    BY <1>3, <1>5, <1>6, <1>7, <1>8, <2>1, <2>2, CurForm DEF Finalizes
<1>10. CaseForm(cur')
  BY <1>4, <1>6, <1>7, CurForm DEF Apart, CaseForm
<1>11. Apart(cur, cur', Beside)
  BY <1>6 DEF Apart, Beside
<1>12. cur'.disposed => cur.known /\ cur'.state["dispose"] = "settled"
  BY <1>4, <1>6, <1>7, CurForm DEF Descends, CleanupKinds
<1>13. CaseInv(cur', CurrentId)
  BY <1>4, <1>6, <1>9, <1>10, <1>11, <1>12, FinalizingForm
<1>14. QED
  BY <1>1, <1>2, <1>7, <1>13, CaseKeeps

\* The finalizer's and the clock's own steps ask for nothing.
LEMMA PlainForm ==
  ASSUME QualInv, Apart(cur, cur', {"awaits", "done", "outcome", "finalizing"}),
         cur'.done \in BOOLEAN, cur'.finalizing \in BOOLEAN,
         cur'.outcome \in {"none", "value", "timeout"}, Finalizes(cur')
  PROVE  /\ CaseInv(cur', CurrentId)
         /\ cur'.errors = cur.errors /\ cur'.disposed = cur.disposed
<1>1. /\ cur'.run = cur.run /\ cur'.state = cur.state /\ cur'.disposed = cur.disposed
      /\ cur'.errors = cur.errors /\ cur'.cleanups = cur.cleanups
  BY DEF Apart, CaseFields
<1>2. CaseForm(cur') /\ Apart(cur, cur', Beside)
  BY <1>1, CurForm DEF Apart, CaseForm, Beside
<1>3. cur.disposed => cur.known /\ cur.state["dispose"] = "settled"
  BY CurForm DEF Descends
<1>4. QED
  BY <1>1, <1>2, <1>3, FinalizingForm

LEMMA PlainSettles ==
  ASSUME Apart(cur, cur', {"awaits", "done", "outcome", "finalizing"})
  PROVE  /\ cur'.processed = cur.processed /\ cur'.body = cur.body
         /\ Resources(cur') = Resources(cur) /\ Unprocessed(cur') = Unprocessed(cur)
         /\ \A r : HasSettled(cur', r) <=> HasSettled(cur, r)
<1>1. /\ cur'.processed = cur.processed /\ cur'.run = cur.run /\ cur'.state = cur.state
      /\ cur'.cleanups = cur.cleanups /\ cur'.body = cur.body
  BY DEF Apart, CaseFields
<1>2. Resources(cur') = Resources(cur)
  BY <1>1 DEF Resources, RegisteredCleanups
<1>3. QED
  BY <1>1, <1>2 DEF HasSettled, Unprocessed

LEMMA FinalizerGoesOnKeeps == QualInv /\ FinalizerGoesOn => QualInv'
<1> SUFFICES ASSUME QualInv, FinalizerGoesOn PROVE QualInv'
  OBVIOUS
<1>1. /\ UNCHANGED <<kit, suite, scan, world, release>>
      /\ cur.awaits # "none" /\ HasSettled(cur, cur.awaits) /\ cur' = [cur EXCEPT !.awaits = "none"]
  BY DEF FinalizerGoesOn
<1>2. InCase /\ ~cur.done
  BY <1>1, NothingRuns, CurForm DEF AtRest, Finalizes
<1>3. /\ Apart(cur, cur', {"awaits", "done", "outcome", "finalizing"}) /\ cur'.awaits = "none"
      /\ cur'.done = cur.done /\ cur'.outcome = cur.outcome /\ cur'.finalizing = cur.finalizing
  BY <1>1, CurForm DEF Apart, CaseFields
<1>4. Finalizes(cur')
  BY <1>1, <1>2, <1>3, PlainSettles, CurForm DEF Finalizes
<1>5. /\ CaseInv(cur', CurrentId) /\ cur'.errors = cur.errors /\ cur'.disposed = cur.disposed
  BY <1>3, <1>4, PlainForm, CurForm DEF CaseForm
<1>6. QED
  BY <1>1, <1>2, <1>3, <1>5, CaseKeeps

LEMMA FinalizerReturnsKeeps == QualInv /\ FinalizerReturns => QualInv'
<1> SUFFICES ASSUME QualInv, FinalizerReturns PROVE QualInv'
  OBVIOUS
<1>1. /\ UNCHANGED <<kit, suite, scan, world, release>> /\ cur.finalizing
      /\ AtRest(cur) /\ cur' = [cur EXCEPT !.done = TRUE]
  BY DEF FinalizerReturns, AtRest
<1>2. /\ Apart(cur, cur', {"awaits", "done", "outcome", "finalizing"}) /\ cur'.awaits = cur.awaits
      /\ cur'.done = TRUE /\ cur'.outcome = cur.outcome /\ cur'.finalizing = cur.finalizing
  BY <1>1, CurForm DEF Apart, CaseFields
<1>3. AtRest(cur')
  BY <1>1, <1>2, PlainSettles DEF AtRest
<1>4. Finalizes(cur')
  BY <1>1, <1>2, <1>3, PlainSettles, CurForm DEF Finalizes
<1>5. /\ CaseInv(cur', CurrentId) /\ cur'.errors = cur.errors /\ cur'.disposed = cur.disposed
  BY <1>2, <1>4, PlainForm, CurForm DEF CaseForm
<1>6. QED
  BY <1>1, <1>2, <1>3, <1>5, CaseKeeps

LEMMA CaseSettlesKeeps == QualInv /\ CaseSettles => QualInv'
<1> SUFFICES ASSUME QualInv, CaseSettles PROVE QualInv'
  OBVIOUS
<1>1. /\ UNCHANGED <<kit, suite, scan, world, release>> /\ cur.outcome = "none"
      /\ cur.body = "settled" /\ cur' = [cur EXCEPT !.outcome = "value", !.finalizing = TRUE]
  BY DEF CaseSettles
<1>2. /\ Apart(cur, cur', {"awaits", "done", "outcome", "finalizing"}) /\ cur'.awaits = cur.awaits
      /\ cur'.done = cur.done /\ cur'.outcome = "value" /\ cur'.finalizing = TRUE
  BY <1>1, CurForm DEF Apart, CaseFields
<1>3. ~cur.done
  BY <1>1, CurForm DEF Finalizes
<1>4. Finalizes(cur')
  BY <1>1, <1>2, <1>3, PlainSettles, CurForm DEF Finalizes
<1>5. /\ CaseInv(cur', CurrentId) /\ cur'.errors = cur.errors /\ cur'.disposed = cur.disposed
  BY <1>2, <1>4, PlainForm, CurForm DEF CaseForm
<1>6. ~InCase => AtRest(cur')
  BY <1>2, NothingRuns, PlainSettles DEF AtRest
<1>7. QED
  BY <1>1, <1>2, <1>5, <1>6, CaseKeeps

LEMMA CaseTimesOutKeeps == QualInv /\ CaseTimesOut => QualInv'
<1> SUFFICES ASSUME QualInv, CaseTimesOut PROVE QualInv'
  OBVIOUS
<1>1. /\ UNCHANGED <<kit, suite, scan, release>> /\ cur.outcome = "none"
      /\ cur.body # "settled" /\ cur' = [cur EXCEPT !.outcome = "timeout", !.finalizing = TRUE]
      /\ world' = [world EXCEPT !.mishap = TRUE]
  BY DEF CaseTimesOut
<1>2. /\ Apart(cur, cur', {"awaits", "done", "outcome", "finalizing"}) /\ cur'.awaits = cur.awaits
      /\ cur'.done = cur.done /\ cur'.outcome = "timeout" /\ cur'.finalizing = TRUE
  BY <1>1, CurForm DEF Apart, CaseFields
<1>3. ~cur.done /\ InCase
  BY <1>1, UnderWay, CurForm DEF Finalizes
<1>4. Finalizes(cur')
  BY <1>1, <1>2, <1>3, PlainSettles, CurForm DEF Finalizes
<1>5. /\ CaseInv(cur', CurrentId) /\ cur'.errors = cur.errors /\ cur'.disposed = cur.disposed
  BY <1>2, <1>4, PlainForm, CurForm DEF CaseForm
<1>6. WorldMoves /\ world'.tree = world.tree
  BY <1>1, CurForm DEF SeenInv, WorldMoves
<1>7. (world.tree # "none" => CurrentId \in TreeCases) /\ (cur.disposed => world.tree = "dead")
  BY <1>3, CurForm DEF SeenInv
<1>8. QED
  BY <1>1, <1>2, <1>3, <1>5, <1>6, <1>7, InCaseMoves

-----------------------------------------------------------------------------
(* The suite.                                                              *)

SuiteFields == {"pc", "results", "probe", "identity", "record"}

\* While the results stay, so does the place in the contract.
LEMMA SamePlace ==
  ASSUME kit' = kit, suite'.results = suite.results
  PROVE  CurrentId' = CurrentId /\ InCase' = InCase
  BY DEF CurrentId, InCase, CaseId, SuiteContract

LEMMA SuiteStops ==
  ASSUME QualInv, UNCHANGED <<kit, scan, world, release>>, NEW to \in {"isolating", "thrown"},
         suite' = [suite EXCEPT !.pc = to], CaseInv(cur', CurrentId), ~InCase => AtRest(cur'),
         cur'.disposed = cur.disposed, cur'.outcome = cur.outcome, cur'.errors = cur.errors
  PROVE  QualInv'
<1>1. /\ suite' = [f \in SuiteFields |-> suite'[f]] /\ suite'.pc = to
      /\ suite'.results = suite.results /\ suite'.probe = suite.probe
  BY CurForm DEF SuiteInv, SuiteFields
<1>2. CurrentId' = CurrentId /\ InCase' = InCase
  BY <1>1, SamePlace
<1>3. CaseInv(cur, CurrentId)'
  <2>1. CaseInv(cur', CurrentId')
    BY <1>2
  <2>2. QED
    BY <2>1
<1>4. SuiteInv'
  <2>1. AtRest(cur)' = AtRest(cur')
    OBVIOUS
  <2>2. QED
    BY <1>1, <1>2, <2>1, CurForm DEF SuiteInv, Results, SuiteContract, SuiteFields
<1>5. ProbeInv' /\ ReleaseInv' /\ EarnedInv'
  BY <1>1 DEF QualInv, ProbeInv, ReleaseInv, DomainStatus, EarnedInv
<1>6. SeenInv' /\ MishapInv'
  BY <1>1, <1>2 DEF QualInv, SeenInv, MishapInv
<1>7. QED
  BY <1>3, <1>4, <1>5, <1>6 DEF QualInv

LEMMA GraceEndsKeeps == QualInv /\ GraceEnds => QualInv'
<1> SUFFICES ASSUME QualInv, GraceEnds PROVE QualInv'
  OBVIOUS
<1> DEFINE run == IF cur.run = "tracked" THEN "cancelling" ELSE cur.run
           state == [x \in CleanupKinds |-> IF cur.state[x] = "registered"
                                            THEN "invoked" ELSE cur.state[x]]
<1>1. /\ UNCHANGED <<kit, scan, world, release>> /\ suite.pc = "case"
      /\ suite' = [suite EXCEPT !.pc = "isolating"]
      /\ cur' = [[cur EXCEPT !.run = run] EXCEPT !.state = state]
  <2>1. DOMAIN cur.state = CleanupKinds
    BY CurForm DEF CaseForm
  <2>2. QED
    BY <2>1, CurForm DEF GraceEnds, CaseFields
<1>2. InCase
  BY <1>1, CurForm DEF SuiteInv
<1>3. /\ state \in [CleanupKinds -> CleanupStates] /\ run \in RunStates
      /\ run = "untracked" <=> cur.run = "untracked"
      /\ cur.run \in {"cancelled", "cancelfailed"} => run = cur.run
      /\ \A x \in CleanupKinds : /\ state[x] = "none" <=> cur.state[x] = "none"
                                 /\ cur.state[x] = "settled" => state[x] = "settled"
  BY CurForm DEF CaseForm, CleanupStates, RunStates
<1> HIDE DEF run, state
<1>4. /\ Apart(cur, cur', {"run", "state", "errors", "disposed"}) /\ cur'.run = run
      /\ cur'.state = state /\ cur'.disposed = cur.disposed /\ cur'.errors = cur.errors
  BY <1>1, CurForm DEF Apart, CaseFields
<1>5. CaseForm(cur')
  BY <1>3, <1>4, CurForm DEF Apart, CaseFields, CaseForm
<1>6. Finalizes(cur') /\ Apart(cur, cur', Beside) /\ cur'.outcome = cur.outcome
  BY <1>3, <1>4, <1>5, SettlingKeeps
<1>7. cur'.disposed => cur.known /\ cur'.state["dispose"] = "settled"
  BY <1>3, <1>4, CurForm DEF Descends, CleanupKinds
<1>8. CaseInv(cur', CurrentId)
  BY <1>3, <1>4, <1>5, <1>6, <1>7, FinalizingForm
<1>9. QED
  BY <1>1, <1>2, <1>4, <1>6, <1>8, SuiteStops

LEMMA IsolationEndsKeeps == QualInv /\ IsolationEnds => QualInv'
<1> SUFFICES ASSUME QualInv, IsolationEnds PROVE QualInv'
  OBVIOUS
<1>1. /\ UNCHANGED <<kit, scan, world, release>> /\ suite' = [suite EXCEPT !.pc = "thrown"]
      /\ cur' = cur
  BY DEF IsolationEnds
<1>2. CaseInv(cur', CurrentId) /\ (~InCase => AtRest(cur'))
  BY <1>1 DEF QualInv, SuiteInv
<1>3. QED
  BY <1>1, <1>2, SuiteStops

\* The results of a case: one verdict, or the two of the event stream.
LEMMA ResultIs ==
  ASSUME QualInv, InCase, cur.done
  PROVE  LET res == CaseResult(cur) IN
         /\ res \in Seq(BOOLEAN) /\ Len(res) = Width(CaseId)
         /\ cur.errors \/ cur.outcome = "timeout" => ~res[1]
         /\ ~(cur.errors \/ cur.outcome = "timeout") /\ CaseId \notin TreeCases => res = cur.passed
         /\ CaseId \in TreeCases /\ res[1] => cur.disposed
<1>1. CurrentId = CaseId /\ CaseId # Over
  BY PlaceIs, CurForm DEF CurrentId
<1>2. cur.body = "settled"
  BY CurForm DEF Finalizes, AtRest
<1>3. cur.passed \in Seq(BOOLEAN) /\ Len(cur.passed) = Width(CaseId)
  BY <1>1, <1>2, CurForm DEF Judges
<1>4. Width(CaseId) \in {1, 2} /\ cur.passed[1] \in BOOLEAN
  BY <1>3 DEF Width
<1>5. CASE cur.errors \/ cur.outcome = "timeout"
  <2>1. CASE CaseId = "events_well_formed"
    <3>1. CaseResult(cur) = <<FALSE, FALSE>> /\ Width(CaseId) = 2
      BY <1>5, <2>1 DEF CaseResult, Width
    <3>2. <<FALSE, FALSE>> \in Seq(BOOLEAN) /\ Len(<<FALSE, FALSE>>) = 2
          /\ <<FALSE, FALSE>>[1] = FALSE
      OBVIOUS
    <3> DEFINE res == CaseResult(cur)
    <3>3. res \in Seq(BOOLEAN) /\ Len(res) = Width(CaseId) /\ res[1] = FALSE
      BY <3>1, <3>2
    <3>4. QED
      BY <1>5, <3>3
  <2>2. CASE CaseId # "events_well_formed"
    <3>1. CaseResult(cur) = <<FALSE>> /\ Width(CaseId) = 1
      BY <1>5, <2>2 DEF CaseResult, Width
    <3>2. <<FALSE>> \in Seq(BOOLEAN) /\ Len(<<FALSE>>) = 1 /\ <<FALSE>>[1] = FALSE
      OBVIOUS
    <3> DEFINE res == CaseResult(cur)
    <3>3. res \in Seq(BOOLEAN) /\ Len(res) = Width(CaseId) /\ res[1] = FALSE
      BY <3>1, <3>2
    <3>4. QED
      BY <1>5, <3>3
  <2>3. QED
    BY <2>1, <2>2
<1>6. CASE ~(cur.errors \/ cur.outcome = "timeout") /\ CaseId \in TreeCases
  <2> DEFINE v == cur.passed[1] /\ cur.known /\ cur.disposed
  <2>1. CaseResult(cur) = <<v>>
    BY <1>6 DEF CaseResult
  <2>2. v \in BOOLEAN /\ (v => cur.disposed)
    OBVIOUS
  <2> HIDE DEF v
  <2>3. Width(CaseId) = 1
    BY <1>6 DEF Width, TreeCases
  <2>4. <<v>> \in Seq(BOOLEAN) /\ Len(<<v>>) = 1 /\ <<v>>[1] = v
    BY <2>2
  <2>5. QED
    BY <1>6, <2>1, <2>2, <2>3, <2>4
<1>7. CASE ~(cur.errors \/ cur.outcome = "timeout") /\ CaseId \notin TreeCases
  <2>1. CaseResult(cur) = cur.passed
    BY <1>7 DEF CaseResult
  <2>2. QED
    BY <1>3, <1>7, <2>1
<1>8. QED
  BY <1>5, <1>6, <1>7

\* What the next case starts from.
LEMMA NewCaseForm ==
  ASSUME NEW id
  PROVE  /\ CaseInv(NewCase, id) /\ NewCase.disposed = FALSE
         /\ NewCase.outcome = "none" /\ NewCase.errors = FALSE
<1> DEFINE s == [c \in {"return", "dispose"} |-> "none"]
           e == <<>>
           p == {}
<1>1. NewCase = [body |-> "start", events |-> e, run |-> "untracked", cleanups |-> e,
                 state |-> s, processed |-> p, awaits |-> "none", outcome |-> "none",
                 finalizing |-> FALSE, done |-> FALSE, timedOut |-> FALSE, errors |-> FALSE,
                 passed |-> e, probe |-> "none", identity |-> FALSE, known |-> FALSE,
                 disposed |-> FALSE]
  BY DEF NewCase
<1>2. s \in [CleanupKinds -> CleanupStates] /\ \A x \in CleanupKinds : s[x] = "none"
  BY DEF CleanupKinds, CleanupStates
<1>3. e = <<>> /\ p = {}
  OBVIOUS
<1> HIDE DEF s, e, p
<1>4. /\ NewCase = [f \in CaseFields |-> NewCase[f]]
      /\ NewCase.body = "start" /\ NewCase.run = "untracked" /\ NewCase.cleanups = e
      /\ NewCase.state = s /\ NewCase.processed = p /\ NewCase.awaits = "none"
      /\ NewCase.outcome = "none" /\ NewCase.finalizing = FALSE /\ NewCase.done = FALSE
      /\ NewCase.errors = FALSE /\ NewCase.probe = "none" /\ NewCase.known = FALSE
      /\ NewCase.disposed = FALSE
  BY <1>1 DEF CaseFields
<1>5. RegisteredCleanups(NewCase) = {}
  BY <1>3, <1>4, CleanupsOf
<1>6. CaseForm(NewCase)
  BY <1>2, <1>3, <1>4 DEF CaseForm, RunStates, CleanupLists
<1>7. Registers(NewCase)
  BY <1>2, <1>3, <1>4, <1>5 DEF Registers
<1>8. Finalizes(NewCase)
  BY <1>3, <1>4 DEF Finalizes
<1>9. Judges(NewCase, id) /\ Descends(NewCase, id)
  BY <1>4 DEF Judges, Descends
<1>10. QED
  BY <1>4, <1>6, <1>7, <1>8, <1>9 DEF CaseInv

LEMMA ConcatIs ==
  ASSUME NEW S, NEW s \in Seq(S), NEW t \in Seq(S)
  PROVE  /\ s \o t \in Seq(S) /\ Len(s \o t) = Len(s) + Len(t)
         /\ \A i \in 1..Len(s) : (s \o t)[i] = s[i]
         /\ \A i \in 1..Len(t) : (s \o t)[Len(s) + i] = t[i]
  OBVIOUS

\* The results go on, one for each entry of the contract that the case answers.
LEMMA ResultsGrow ==
  ASSUME QualInv, InCase, cur.done
  PROVE  LET res == CaseResult(cur)
             n == Len(suite.results)
             fresh == [i \in DOMAIN res |-> [id |-> SuiteContract[n + i][2], passed |-> res[i]]]
             all == suite.results \o fresh
         IN /\ n \in Nat /\ Len(res) \in {1, 2} /\ n + Len(res) <= Len(SuiteContract)
            /\ all \in Seq(Results) /\ Len(all) = n + Len(res)
            /\ \A i \in 1..n : all[i] = suite.results[i]
            /\ \A i \in 1..Len(res) : /\ all[n + i].id = SuiteContract[n + i][2]
                                      /\ all[n + i].passed = res[i]
            /\ \A i \in DOMAIN all : all[i].id = SuiteContract[i][2]
            /\ \A i \in DOMAIN all : i \notin 1..n => i = n + 1 \/ (Len(res) = 2 /\ i = n + 2)
<1> DEFINE res == CaseResult(cur)
           n == Len(suite.results)
           m == Len(SuiteContract)
           fresh == [i \in DOMAIN res |-> [id |-> SuiteContract[n + i][2], passed |-> res[i]]]
           all == suite.results \o fresh
<1>1. res \in Seq(BOOLEAN) /\ Len(res) = Width(CaseId)
  BY ResultIs
<1>2. n \in Nat /\ m \in Nat /\ n + 1 \in 1..m /\ CaseId = SuiteContract[n + 1][2]
      /\ DOMAIN suite.results = 1..n /\ DOMAIN SuiteContract = 1..m
  BY CurForm, PlaceIs
<1>3. Len(res) \in {1, 2} /\ n + Len(res) <= m
  <2>1. CASE CaseId = "events_well_formed"
    <3>1. (n + 1) + 1 \in DOMAIN SuiteContract
      BY <1>2, <2>1, CurForm, ContractIs DEF SuiteInv
    <3>2. Len(res) = 2
      BY <1>1, <2>1 DEF Width
    <3> HIDE DEF res, n, m
    <3>3. QED
      BY <1>2, <3>1, <3>2
  <2>2. CASE CaseId # "events_well_formed"
    <3>1. Len(res) = 1
      BY <1>1, <2>2 DEF Width
    <3> HIDE DEF res, n, m
    <3>2. QED
      BY <1>2, <3>1
  <2>3. QED
    BY <2>1, <2>2
<1>4. suite.results \in Seq(Results) /\ \A i \in 1..n : suite.results[i].id = SuiteContract[i][2]
  BY <1>2, CurForm DEF SuiteInv
<1>5. DOMAIN res = 1..Len(res)
  BY <1>1
<1> HIDE DEF res, n, m
<1>6. \A i \in DOMAIN res : n + i \in 1..m /\ res[i] \in BOOLEAN
  BY <1>1, <1>2, <1>3, <1>5
<1>7. fresh \in Seq(Results) /\ Len(fresh) = Len(res)
      /\ \A i \in 1..Len(res) : fresh[i].id = SuiteContract[n + i][2] /\ fresh[i].passed = res[i]
  <2>1. fresh \in [1..Len(res) -> Results]
    BY <1>2, <1>5, <1>6 DEF Results
  <2>2. Len(res) \in Nat
    BY <1>1
  <2>3. \A i \in 1..Len(res) : fresh[i].id = SuiteContract[n + i][2] /\ fresh[i].passed = res[i]
    BY <1>5
  <2> HIDE DEF fresh
  <2>4. QED
    BY <2>1, <2>2, <2>3
<1> HIDE DEF fresh
<1>8. /\ all \in Seq(Results) /\ Len(all) = n + Len(res)
      /\ \A i \in 1..n : all[i] = suite.results[i]
      /\ \A i \in 1..Len(res) : all[n + i] = fresh[i]
  <2> DEFINE old == suite.results
  <2>0. old \in Seq(Results) /\ fresh \in Seq(Results)
    BY <1>4, <1>7
  <2> HIDE DEF old
  <2>1. /\ all \in Seq(Results) /\ Len(all) = Len(suite.results) + Len(fresh)
        /\ \A i \in 1..Len(suite.results) : all[i] = suite.results[i]
        /\ \A i \in 1..Len(fresh) : all[Len(suite.results) + i] = fresh[i]
    <3>1. /\ old \o fresh \in Seq(Results) /\ Len(old \o fresh) = Len(old) + Len(fresh)
          /\ \A i \in 1..Len(old) : (old \o fresh)[i] = old[i]
          /\ \A i \in 1..Len(fresh) : (old \o fresh)[Len(old) + i] = fresh[i]
      BY <2>0, ConcatIs
    <3>2. old = suite.results
      BY DEF old
    <3>3. QED
      BY <3>1, <3>2
  <2> HIDE DEF all
  <2>2. QED
    BY <1>7, <2>1 DEF n
<1> HIDE DEF all
<1>9. \A i \in DOMAIN all : i \notin 1..n => i = n + 1 \/ (Len(res) = 2 /\ i = n + 2)
  <2>1. DOMAIN all = 1..(n + Len(res))
    BY <1>8
  <2>2. ASSUME NEW i \in DOMAIN all, i \notin 1..n
        PROVE  i = n + 1 \/ (Len(res) = 2 /\ i = n + 2)
    <3> DEFINE k == Len(res)
    <3>1. k = 1 \/ k = 2
      BY <1>3
    <3>2. n \in Nat /\ i \in 1..(n + k)
      BY <1>2, <2>1
    <3> HIDE DEF k
    <3>3. i = n + 1 \/ (k = 2 /\ i = n + 2)
      BY <2>2, <3>1, <3>2
    <3>4. QED
      BY <3>3 DEF k
  <2>3. QED
    BY <2>2
<1>10. \A i \in DOMAIN all : all[i].id = SuiteContract[i][2]
  <2> TAKE i \in DOMAIN all
  <2>1. CASE i \in 1..n
    BY <1>4, <1>8, <2>1
  <2>2. CASE i \notin 1..n
    BY <1>7, <1>8, <1>9, <1>3, <2>2
  <2>3. QED
    BY <2>1, <2>2
<1>11. \A i \in 1..Len(res) : /\ all[n + i].id = SuiteContract[n + i][2]
                               /\ all[n + i].passed = res[i]
  BY <1>7, <1>8
<1>12. /\ n \in Nat /\ Len(res) \in {1, 2} /\ n + Len(res) <= m
       /\ all \in Seq(Results) /\ Len(all) = n + Len(res)
       /\ \A i \in 1..n : all[i] = suite.results[i]
       /\ \A i \in 1..Len(res) : /\ all[n + i].id = SuiteContract[n + i][2]
                                 /\ all[n + i].passed = res[i]
       /\ \A i \in DOMAIN all : all[i].id = SuiteContract[i][2]
       /\ \A i \in DOMAIN all : i \notin 1..n => i = n + 1 \/ (Len(res) = 2 /\ i = n + 2)
  BY <1>2, <1>3, <1>8, <1>9, <1>10, <1>11
<1>13. QED
  BY <1>12 DEF res, n, m, fresh, all

LEMMA CaseEndsKeeps == QualInv /\ CaseEnds => QualInv'
<1> SUFFICES ASSUME QualInv, CaseEnds PROVE QualInv'
  OBVIOUS
<1> DEFINE res == CaseResult(cur)
           n == Len(suite.results)
           m == Len(SuiteContract)
           fresh == [i \in DOMAIN res |-> [id |-> SuiteContract[n + i][2], passed |-> res[i]]]
           all == suite.results \o fresh
           kept == ~cur.errors /\ cur.outcome = "value"
           probe == IF CaseId = "probe_contract" /\ kept THEN cur.probe ELSE suite.probe
           identity == IF CaseId = "probe_contract" /\ kept THEN cur.identity ELSE suite.identity
           last == n + Len(res) = m
           reached == IF last THEN "assemble" ELSE "case"
           mishap == world.mishap \/ (world.tree = "alive" /\ res = <<TRUE>>)
<1>1. /\ UNCHANGED <<kit, scan, release>> /\ suite.pc = "case" /\ cur.done
      /\ suite' = [[[[suite EXCEPT !.results = all] EXCEPT !.probe = probe]
                      EXCEPT !.identity = identity] EXCEPT !.pc = reached]
      /\ cur' = (IF last THEN [cur EXCEPT !.done = FALSE] ELSE NewCase)
      /\ world' = [[world EXCEPT !.tree = "none"] EXCEPT !.mishap = mishap]
  BY CurForm DEF CaseEnds, SuiteInv, SeenInv
<1>2. InCase /\ CurrentId = CaseId
  BY <1>1, CurForm DEF SuiteInv, CurrentId
<1>3. cur.outcome \in {"value", "timeout"} /\ cur.body = "settled" /\ AtRest(cur) /\ cur.finalizing
  BY <1>1, CurForm DEF CaseForm, Finalizes, AtRest
<1>4. /\ res \in Seq(BOOLEAN) /\ Len(res) = Width(CaseId)
      /\ cur.errors \/ cur.outcome = "timeout" => ~res[1]
      /\ ~(cur.errors \/ cur.outcome = "timeout") /\ CaseId \notin TreeCases => res = cur.passed
      /\ CaseId \in TreeCases /\ res[1] => cur.disposed
  BY <1>1, <1>2, ResultIs
<1>5. /\ n \in Nat /\ Len(res) \in {1, 2} /\ n + Len(res) <= m
      /\ all \in Seq(Results) /\ Len(all) = n + Len(res)
      /\ \A i \in 1..n : all[i] = suite.results[i]
      /\ \A i \in 1..Len(res) : /\ all[n + i].id = SuiteContract[n + i][2]
                                /\ all[n + i].passed = res[i]
      /\ \A i \in DOMAIN all : all[i].id = SuiteContract[i][2]
      /\ \A i \in DOMAIN all : i \notin 1..n => i = n + 1 \/ (Len(res) = 2 /\ i = n + 2)
  BY <1>1, <1>2, ResultsGrow
<1>6. /\ m \in Nat /\ DOMAIN suite.results = 1..n /\ DOMAIN SuiteContract = 1..m
      /\ n + 1 \in 1..m /\ CaseId = SuiteContract[n + 1][2] /\ n < m
  BY <1>2, CurForm, PlaceIs DEF InCase
<1>7. /\ reached \in {"case", "assemble"} /\ (reached = "assemble" <=> last) /\ mishap \in BOOLEAN
      /\ (mishap => world.mishap \/ (world.tree = "alive" /\ res[1]))
  <2>1. world.mishap \in BOOLEAN
    BY CurForm DEF SeenInv
  <2>2. res = <<TRUE>> => res[1]
    OBVIOUS
  <2>3. QED
    BY <2>1, <2>2
<1>8. last \in BOOLEAN /\ (last <=> n + Len(res) = m)
  OBVIOUS
<1> DEFINE k == Len(res)
<1>9. k \in {1, 2} /\ n + k <= m /\ Len(all) = n + k /\ (last <=> n + k = m)
  BY <1>5, <1>8
<1>10. DOMAIN all = 1..(n + k) /\ n + 1 \in DOMAIN all
  <2> HIDE DEF all, k, n
  <2>1. DOMAIN all = 1..(n + k)
    BY <1>5, <1>9
  <2>2. QED
    BY <1>5, <1>9, <2>1
<1>11. kept = (~cur.errors /\ cur.outcome # "timeout")
  BY <1>3
<1>12. /\ probe = (IF CaseId = "probe_contract" /\ kept THEN cur.probe ELSE suite.probe)
  OBVIOUS
<1> HIDE DEF res, n, m, fresh, all, kept, probe, identity, last, reached, mishap, k
<1>13. /\ suite' = [f \in SuiteFields |-> suite'[f]] /\ suite'.results = all
       /\ suite'.probe = probe /\ suite'.pc = reached
  BY <1>1, CurForm DEF SuiteInv, SuiteFields
<1>14. /\ world' = [f \in {"tree", "seen", "mishap"} |-> world'[f]] /\ world'.seen = world.seen
       /\ world'.tree = "none" /\ world'.mishap = mishap
  BY <1>1, CurForm DEF SeenInv
<1>15. SuiteContract' = SuiteContract
  BY <1>1 DEF SuiteContract
<1>16. InCase' = (n + k < m)
  BY <1>9, <1>13, <1>15 DEF InCase, m
<1>17. InCase' = ~last
  BY <1>5, <1>6, <1>8, <1>9, <1>16
<1>18. CaseInv(cur', CurrentId') /\ (last => AtRest(cur'))
       /\ (InCase' => ~cur'.disposed)
  <2>1. CASE last
    <3>1. cur' = [cur EXCEPT !.done = FALSE]
      BY <1>1, <2>1
    <3>2. /\ Apart(cur, cur', {"awaits", "done", "outcome", "finalizing"})
          /\ cur'.awaits = cur.awaits /\ cur'.done = FALSE /\ cur'.outcome = cur.outcome
          /\ cur'.finalizing = cur.finalizing
      BY <3>1, CurForm DEF Apart, CaseFields
    <3>3. /\ cur'.processed = cur.processed /\ cur'.body = cur.body
          /\ Resources(cur') = Resources(cur) /\ Unprocessed(cur') = Unprocessed(cur)
          /\ \A r : HasSettled(cur', r) <=> HasSettled(cur, r)
      BY <3>2, PlainSettles
    <3>4. AtRest(cur')
      BY <1>3, <3>2, <3>3 DEF AtRest
    <3>5. Finalizes(cur')
      BY <3>2, <3>3, CurForm DEF Finalizes
    <3>6. CaseInv(cur', CaseId)
      BY <1>2, <3>2, <3>5, PlainForm, CurForm DEF CaseForm
    <3>7. CurrentId' = Over
      BY <1>17, <2>1 DEF CurrentId
    <3>8. Judges(cur', Over)
      <4>1. Over # "probe_contract"
        BY PlaceIs, ContractIs, CurForm DEF SuiteInv
      <4>2. QED
        BY <1>3, <3>3, <4>1 DEF Judges
    <3>9. Descends(cur', Over)
      BY <1>3, <3>3, <3>6 DEF Descends, CaseInv
    <3>10. CaseInv(cur', Over)
      BY <3>6, <3>8, <3>9 DEF CaseInv
    <3>11. QED
      BY <1>17, <2>1, <3>4, <3>7, <3>10
  <2>2. CASE ~last
    <3>1. cur' = NewCase
      BY <1>1, <2>2
    <3>2. QED
      BY <2>2, <3>1, NewCaseForm
  <2>3. QED
    BY <2>1, <2>2
<1>19. CaseInv(cur, CurrentId)'
  BY <1>18
<1>20. SuiteInv'
  <2>1. AtRest(cur)' = AtRest(cur')
    OBVIOUS
  <2>2. Results' = Results
    BY <1>15 DEF Results
  <2>3. Len(suite'.results) <= Len(SuiteContract')
    BY <1>9, <1>13, <1>15 DEF m
  <2>4. kit' \in DOMAIN Contracts
    BY <1>1, CurForm DEF SuiteInv
  <2>5. QED
    BY <1>5, <1>7, <1>13, <1>15, <1>17, <1>18, <2>1, <2>2, <2>3, <2>4 DEF SuiteInv, SuiteFields
<1>21. ProbeInv'
  <2>1. \A i, j \in DOMAIN SuiteContract : SuiteContract[i][2] = SuiteContract[j][2] => i = j
    BY ContractIs, CurForm DEF SuiteInv
  <2>2. ProbeInv /\ \A i \in 1..n : suite.results[i].id = SuiteContract[i][2]
    BY <1>6, CurForm DEF QualInv, SuiteInv
  <2>3. CASE CaseId = "probe_contract"
    <3>1. \A i \in 1..n : suite.results[i].id # "probe_contract"
      <4> TAKE i \in 1..n
      <4>1. i \in DOMAIN SuiteContract /\ n + 1 \in DOMAIN SuiteContract /\ i # n + 1
        BY <1>5, <1>6
      <4>2. QED
        BY <1>6, <2>1, <2>2, <2>3, <4>1
    <3>2. suite.probe = "none"
      BY <1>6, <2>2, <3>1 DEF ProbeInv
    <3>3. k = 1
      BY <1>4, <2>3 DEF Width, k
    <3>4. all[n + 1].id = "probe_contract" /\ all[n + 1].passed = res[1]
      <4>1. 1 \in 1..Len(res)
        BY <1>5
      <4>2. QED
        BY <1>5, <1>6, <2>3, <4>1
    <3>5. res[1] = (probe = "valid")
      <4>1. CASE kept
        <5>1. res = cur.passed
          BY <1>4, <1>11, <2>3, <4>1 DEF TreeCases
        <5>2. cur.passed[1] = (cur.probe = "valid")
          BY <1>2, <1>3, <2>3, CurForm DEF Judges
        <5>3. QED
          BY <1>12, <2>3, <4>1, <5>1, <5>2
      <4>2. CASE ~kept
        <5>1. res[1] = FALSE
          <6>1. res[1] \in BOOLEAN
            BY <1>4, <3>3 DEF k
          <6>2. ~res[1]
            BY <1>3, <1>4, <1>11, <4>2
          <6>3. QED
            BY <6>1, <6>2
        <5>2. probe = "none"
          BY <1>12, <3>2, <4>2
        <5>3. QED
          BY <5>1, <5>2
      <4>3. QED
        BY <4>1, <4>2
    <3>6. ASSUME NEW i \in DOMAIN all, all[i].id = "probe_contract"
          PROVE  all[i].passed = (probe = "valid")
      <4>1. i \notin 1..n
        BY <1>5, <3>1, <3>6
      <4>2. i = n + 1
        BY <1>5, <3>3, <4>1 DEF k
      <4>3. QED
        BY <3>4, <3>5, <4>2
    <3>7. QED
      BY <1>10, <1>13, <3>4, <3>6 DEF ProbeInv
  <2>4. CASE CaseId # "probe_contract"
    <3>1. probe = suite.probe
      BY <1>12, <2>4
    <3>2. ASSUME NEW i \in DOMAIN all, i \notin 1..n
          PROVE  all[i].id # "probe_contract"
      <4>1. CASE i = n + 1
        BY <1>5, <1>6, <2>4, <4>1
      <4>2. CASE k = 2 /\ i = n + 2
        <5>1. CaseId = "events_well_formed"
          BY <1>4, <4>2 DEF Width, k
        <5>2. SuiteContract[(n + 1) + 1][2] = "exactly_one_terminal"
          BY <1>6, <5>1, ContractIs, CurForm DEF SuiteInv
        <5>3. (n + 1) + 1 = n + 2
          BY <1>5
        <5>4. QED
          BY <1>5, <4>2, <5>2, <5>3
      <4>3. QED
        BY <1>5, <3>2, <4>1, <4>2 DEF k
    <3>3. ASSUME NEW i \in DOMAIN all, all[i].id = "probe_contract"
          PROVE  all[i].passed = (probe = "valid")
      <4>1. i \in 1..n
        BY <3>2, <3>3
      <4>2. QED
        BY <1>5, <1>6, <2>2, <3>1, <3>3, <4>1 DEF ProbeInv
    <3>4. ASSUME \A i \in DOMAIN all : all[i].id # "probe_contract"
          PROVE  probe = "none"
      <4>1. \A i \in 1..n : i \in DOMAIN all
        BY <1>5, <1>9, <1>10
      <4>2. \A i \in 1..n : suite.results[i].id # "probe_contract"
        BY <1>5, <3>4, <4>1
      <4>3. QED
        BY <1>6, <2>2, <3>1, <4>2 DEF ProbeInv
    <3>5. QED
      BY <1>13, <3>3, <3>4 DEF ProbeInv
  <2>5. QED
    BY <2>3, <2>4
<1>22. SeenInv'
  <2>1. world.seen \in Nat /\ (world.seen > 0 => scan # "clean")
    BY CurForm DEF SeenInv
  <2>2. QED
    BY <1>1, <1>7, <1>14, <1>18, <2>1 DEF SeenInv
<1>23. MishapInv'
  <2> SUFFICES ASSUME mishap PROVE \E i \in DOMAIN all : ~all[i].passed
    BY <1>13, <1>14 DEF MishapInv
  <2>1. \A i \in 1..n : i \in DOMAIN all
    BY <1>5, <1>9, <1>10
  <2>2. all[n + 1].passed = res[1] /\ n + 1 \in DOMAIN all
    <3>1. k = 1 \/ k = 2
      BY <1>9
    <3>2. 1 \in 1..k
      BY <3>1
    <3>3. 1 \in 1..Len(res)
      BY <3>2 DEF k
    <3>4. QED
      BY <1>5, <1>10, <3>3
  <2>3. CASE \E i \in DOMAIN suite.results : ~suite.results[i].passed
    BY <1>5, <1>6, <2>1, <2>3
  <2>4. CASE cur.outcome = "timeout" \/ cur.errors
    BY <1>4, <2>2, <2>4
  <2>5. CASE world.tree = "alive" /\ res[1]
    <3>1. CaseId \in TreeCases
      BY <1>2, <2>5, CurForm DEF SeenInv
    <3>2. cur.disposed
      BY <1>4, <2>5, <3>1
    <3>3. world.tree = "dead"
      BY <1>2, <3>2, CurForm DEF SeenInv
    <3>4. QED
      BY <2>5, <3>3
  <2>6. QED
    BY <1>7, <2>3, <2>4, <2>5 DEF QualInv, MishapInv
<1>24. EarnedInv' /\ ReleaseInv'
  BY <1>1, <1>7, <1>13 DEF QualInv, EarnedInv, ReleaseInv, DomainStatus
<1>25. QED
  BY <1>19, <1>20, <1>21, <1>22, <1>23, <1>24 DEF QualInv

LEMMA ContractAnswered ==
  ASSUME SuiteInv, ~InCase
  PROVE  Len(suite.results) = Len(SuiteContract)
<1> DEFINE a == Len(suite.results)
           b == Len(SuiteContract)
<1>1. a \in Nat /\ b \in Nat /\ a <= b /\ ~(a < b)
  BY PlaceIs DEF SuiteInv, InCase
<1> HIDE DEF a, b
<1>2. a = b
  BY <1>1
<1>3. QED
  BY <1>2 DEF a, b

\* The cases of a record are the results, but for what the scanner overrules.
Overruled(cases) ==
  /\ DOMAIN cases = 1..Len(suite.results)
  /\ \A i \in 1..Len(suite.results) :
       /\ cases[i].id = SuiteContract[i][2]
       /\ cases[i].passed => suite.results[i].passed
       /\ cases[i].id = "no_metadata_echo" /\ scan # "clean" => ~cases[i].passed
       /\ cases[i].id # "no_metadata_echo" => cases[i].passed = suite.results[i].passed

LEMMA ScannerOverrules ==
  ASSUME SuiteInv, NEW cases,
         cases = [i \in DOMAIN suite.results |->
                    IF suite.results[i].id = "no_metadata_echo" /\ scan # "clean"
                    THEN [suite.results[i] EXCEPT !.passed = FALSE] ELSE suite.results[i]]
  PROVE  Overruled(cases) /\ Len(cases) = Len(suite.results)
<1> DEFINE n == Len(suite.results)
<1>1. n \in Nat /\ DOMAIN suite.results = 1..n
  BY PlaceIs
<1>2. \A i \in 1..n : /\ suite.results[i] = [id |-> suite.results[i].id,
                                             passed |-> suite.results[i].passed]
                      /\ suite.results[i].id = SuiteContract[i][2]
  <2> TAKE i \in 1..n
  <2>1. suite.results[i] \in Results /\ suite.results[i].id = SuiteContract[i][2]
    BY <1>1 DEF SuiteInv
  <2>2. QED
    BY <2>1 DEF Results
<1>3. DOMAIN cases = 1..n /\ Len(cases) = n
  BY <1>1
<1>4. \A i \in 1..n : /\ cases[i].id = SuiteContract[i][2]
                      /\ cases[i].passed => suite.results[i].passed
                      /\ cases[i].id = "no_metadata_echo" /\ scan # "clean" => ~cases[i].passed
                      /\ cases[i].id # "no_metadata_echo" =>
                           cases[i].passed = suite.results[i].passed
  <2> TAKE i \in 1..n
  <2>1. CASE suite.results[i].id = "no_metadata_echo" /\ scan # "clean"
    <3>1. cases[i] = [suite.results[i] EXCEPT !.passed = FALSE]
      BY <1>1, <2>1
    <3> DEFINE was == suite.results[i]
               is == cases[i]
    <3>2. was = [id |-> was.id, passed |-> was.passed] /\ is = [was EXCEPT !.passed = FALSE]
          /\ was.id = SuiteContract[i][2]
      BY <1>2, <3>1
    <3> HIDE DEF was, is
    <3>3. is.id = was.id /\ is.passed = FALSE
      BY <3>2
    <3>4. QED
      BY <2>1, <3>2, <3>3 DEF was, is
  <2>2. CASE ~(suite.results[i].id = "no_metadata_echo" /\ scan # "clean")
    <3>1. cases[i] = suite.results[i]
      BY <1>1, <2>2
    <3>2. QED
      BY <1>2, <2>2, <3>1
  <2>3. QED
    BY <2>1, <2>2
<1>5. QED
  BY <1>3, <1>4 DEF Overruled

\* The validator of records accepts what a suite has recorded.
LEMMA RecordIsValid ==
  ASSUME SuiteInv, ProbeInv, ~InCase, NEW cases, Overruled(cases),
         Len(cases) = Len(suite.results)
  PROVE  ValidRecord(SuiteRecordOf(kit, cases, suite.probe = "valid"))
<1> DEFINE n == Len(suite.results)
           implemented == suite.probe = "valid"
           sum == Summary(kit, cases)
           conformant == implemented /\ AllPassed(cases)
           r == SuiteRecordOf(kit, cases, implemented)
           probe == {i \in DOMAIN cases : cases[i].id = "probe_contract"}
<1>1. /\ n \in Nat /\ n = Len(SuiteContract) /\ DOMAIN suite.results = 1..n
      /\ DOMAIN SuiteContract = 1..n
  BY PlaceIs, ContractAnswered
<1>2. /\ DOMAIN cases = 1..n /\ Len(cases) = n
      /\ \A i \in 1..n : /\ cases[i].id = SuiteContract[i][2]
                         /\ cases[i].id # "no_metadata_echo" =>
                              cases[i].passed = suite.results[i].passed
  BY DEF Overruled
<1>3. \A i \in 1..n : suite.results[i].id = SuiteContract[i][2]
  BY <1>1 DEF SuiteInv
<1>4. /\ r.kit = kit /\ r.cases = cases /\ r.domains = sum
      /\ r.implemented = implemented /\ r.conformant = conformant
  <2> HIDE DEF sum, implemented, conformant
  <2>1. r = [kit |-> kit, cases |-> cases, domains |-> sum,
             implemented |-> implemented, conformant |-> conformant]
    BY DEF SuiteRecordOf, sum, conformant
  <2> HIDE DEF r
  <2>2. QED
    BY <2>1
<1> HIDE DEF r, n
<1>5. CasesMatchContract(r)
  <2>1. Len(r.cases) = Len(Contracts[r.kit])
    BY <1>1, <1>2, <1>4 DEF SuiteContract
  <2>2. \A i, j \in 1..n : i # j => cases[i].id # cases[j].id
    <3>1. \A i, j \in 1..n : SuiteContract[i][2] = SuiteContract[j][2] => i = j
      BY <1>1, ContractIs DEF SuiteInv
    <3>2. QED
      BY <1>2, <3>1
  <2>3. \A i \in 1..n : \E j \in DOMAIN SuiteContract : SuiteContract[j][2] = cases[i].id
    <3> TAKE i \in 1..n
    <3>1. i \in DOMAIN SuiteContract /\ SuiteContract[i][2] = cases[i].id
      BY <1>1, <1>2
    <3>2. QED
      BY <3>1
  <2>4. r.domains = Summary(r.kit, r.cases)
    BY <1>4
  <2>5. SuiteContract = Contracts[r.kit]
    BY <1>4 DEF SuiteContract
  <2>6. \A i, j \in DOMAIN r.cases : i # j => r.cases[i].id # r.cases[j].id
    BY <1>2, <1>4, <2>2
  <2>7. \A i \in DOMAIN r.cases : \E j \in DOMAIN Contracts[r.kit] :
          Contracts[r.kit][j][2] = r.cases[i].id
    BY <1>2, <1>4, <2>3, <2>5
  <2>8. QED
    BY <2>1, <2>4, <2>6, <2>7 DEF CasesMatchContract
<1>6. implemented = (probe # {} /\ \A i \in probe : cases[i].passed)
  <2>1. PICK i \in DOMAIN SuiteContract : SuiteContract[i][2] = "probe_contract"
    BY ContractIs DEF SuiteInv
  <2>2. i \in probe
    BY <1>1, <1>2, <2>1
  <2>3. \A j \in probe : cases[j].passed = implemented
    <3> TAKE j \in probe
    <3>1. j \in 1..n /\ cases[j].id = "probe_contract"
      BY <1>2
    <3>2. cases[j].passed = suite.results[j].passed /\ suite.results[j].id = "probe_contract"
      BY <1>2, <1>3, <3>1
    <3>3. QED
      BY <1>1, <3>1, <3>2 DEF ProbeInv
  <2> HIDE DEF probe, implemented
  <2>4. implemented \in BOOLEAN
    BY DEF implemented
  <2>5. QED
    BY <2>2, <2>3, <2>4
<1>7. ValidRecord(r)
  <2> HIDE DEF implemented, conformant
  <2>1. QED
    BY <1>4, <1>5, <1>6 DEF ValidRecord, conformant
<1>8. QED
  BY <1>7 DEF r

LEMMA SuiteAssemblesKeeps == QualInv /\ SuiteAssembles => QualInv'
<1> SUFFICES ASSUME QualInv, SuiteAssembles PROVE QualInv'
  OBVIOUS
<1> DEFINE cases == [i \in DOMAIN suite.results |->
                       IF suite.results[i].id = "no_metadata_echo" /\ scan # "clean"
                       THEN [suite.results[i] EXCEPT !.passed = FALSE] ELSE suite.results[i]]
           r == SuiteRecordOf(kit, cases, suite.probe = "valid")
<1>1. /\ UNCHANGED <<kit, cur, scan, world, release>> /\ suite.pc = "assemble"
      /\ suite' = IF suite.probe = "noversion" THEN [suite EXCEPT !.pc = "thrown"]
                  ELSE IF ~ValidRecord(r) THEN [suite EXCEPT !.pc = "rejected"]
                  ELSE [suite EXCEPT !.pc = "returned", !.record = r]
  BY DEF SuiteAssembles
<1>2. ~InCase /\ CaseInv(cur', CurrentId) /\ AtRest(cur')
  BY <1>1, CurForm DEF QualInv, SuiteInv
<1>3. ValidRecord(r) /\ Overruled(cases)
  BY <1>2, ScannerOverrules, RecordIsValid, CurForm DEF QualInv
<1>4. r.conformant => AllPassed(cases)
  <2> DEFINE ok == (suite.probe = "valid") /\ AllPassed(cases)
             sum == Summary(kit, cases)
             probed == suite.probe = "valid"
  <2>1. r = [kit |-> kit, cases |-> cases, domains |-> sum, implemented |-> probed,
             conformant |-> ok]
    BY DEF SuiteRecordOf
  <2>2. ok => AllPassed(cases)
    OBVIOUS
  <2> HIDE DEF ok, sum, probed, cases, r
  <2>3. QED
    BY <2>1, <2>2
<1> HIDE DEF cases, r
<1>5. r.conformant => ~world.mishap /\ world.seen = 0
  <2> SUFFICES ASSUME r.conformant PROVE ~world.mishap /\ world.seen = 0
    OBVIOUS
  <2>1. \A i \in DOMAIN cases : cases[i].passed
    BY <1>4 DEF AllPassed
  <2>2. ~world.mishap
    BY <1>2, <1>3, <2>1, PlaceIs, CurForm DEF QualInv, MishapInv, Overruled
  <2>3. PICK i \in DOMAIN SuiteContract : SuiteContract[i][2] = "no_metadata_echo"
    BY ContractIs, CurForm DEF SuiteInv
  <2>4. i \in DOMAIN suite.results /\ suite.results[i].id = "no_metadata_echo"
    <3>1. Len(suite.results) = Len(SuiteContract)
      BY <1>2, ContractAnswered, CurForm
    <3>2. i \in DOMAIN suite.results
      BY <2>3, <3>1, PlaceIs, CurForm
    <3>3. QED
      BY <2>3, <3>2, CurForm DEF SuiteInv
  <2>5. scan = "clean"
    BY <1>3, <2>1, <2>4, PlaceIs, CurForm DEF Overruled, SuiteInv
  <2>6. world.seen \in Nat /\ ~(world.seen > 0)
    BY <2>5, CurForm DEF SeenInv
  <2>7. QED
    BY <2>2, <2>6
<1>6. CASE suite.probe = "noversion"
  <2>1. suite' = [suite EXCEPT !.pc = "thrown"]
    BY <1>1, <1>6
  <2>2. QED
    BY <1>1, <1>2, <2>1, SuiteStops
<1>7. CASE suite.probe # "noversion"
  <2>1. suite' = [[suite EXCEPT !.pc = "returned"] EXCEPT !.record = r]
    BY <1>1, <1>3, <1>7
  <2>2. /\ suite' = [f \in SuiteFields |-> suite'[f]] /\ suite'.pc = "returned"
        /\ suite'.results = suite.results /\ suite'.probe = suite.probe /\ suite'.record = r
    BY <2>1, CurForm DEF SuiteInv, SuiteFields
  <2>3. CurrentId' = CurrentId /\ InCase' = InCase
    BY <1>1, <2>2, SamePlace
  <2>4. CaseInv(cur, CurrentId)'
    <3>1. CaseInv(cur', CurrentId')
      BY <1>2, <2>3
    <3>2. QED
      BY <3>1
  <2>5. SuiteInv'
    <3>1. AtRest(cur)' = AtRest(cur')
      OBVIOUS
    <3>2. QED
      BY <1>1, <1>2, <2>2, <2>3, <3>1, CurForm DEF SuiteInv, Results, SuiteContract, SuiteFields
  <2>6. ProbeInv' /\ ReleaseInv'
    BY <1>1, <2>2 DEF QualInv, ProbeInv, ReleaseInv, DomainStatus
  <2>7. EarnedInv'
    BY <1>1, <1>5, <2>2 DEF EarnedInv
  <2>8. SeenInv' /\ MishapInv'
    BY <1>1, <2>2, <2>3 DEF QualInv, SeenInv, MishapInv
  <2>9. QED
    BY <2>4, <2>5, <2>6, <2>7, <2>8 DEF QualInv
<1>8. QED
  BY <1>6, <1>7

-----------------------------------------------------------------------------
(* The release gate.                                                       *)

LEMMA SnapshotRows ==
  ASSUME NEW r, NEW claim
  PROVE  LET s == SnapshotOf(r, claim) IN
         /\ \A d \in DOMAIN s.rows : s.rows[d].status = DomainStatus(s.rows[d])
<1> DEFINE rows == [d \in DomainsOf(r.kit) |->
                      [status |-> DomainStatus(r.domains[d]),
                       passed |-> r.domains[d].passed, failed |-> r.domains[d].failed]]
           s == SnapshotOf(r, claim)
<1>1. \A d \in DOMAIN rows : rows[d].status = DomainStatus(rows[d])
  BY DEF DomainStatus
<1> HIDE DEF rows
<1>2. s.rows = rows
  BY DEF SnapshotOf, rows
<1>3. QED
  BY <1>1, <1>2

LEMMA PublishRecordKeeps == QualInv /\ PublishRecord => QualInv'
<1> SUFFICES ASSUME QualInv, PublishRecord PROVE QualInv'
  OBVIOUS
<1>1. UNCHANGED <<kit, suite, cur, scan, world>>
  BY DEF PublishRecord
<1>2. ReleaseInv'
  <2>1. PICK k \in DOMAIN Contracts, claim \in Claims : \E r \in RecordsOf(k) :
          release' = [base |-> IF release.base = NoSnapshot \/ NoRegression(release.base, SnapshotOf(r, claim))
                               THEN SnapshotOf(r, claim) ELSE release.base,
                      tried |-> release.tried + 1]
    BY DEF PublishRecord
  <2>2. PICK r \in RecordsOf(k) :
          release' = [base |-> IF release.base = NoSnapshot \/ NoRegression(release.base, SnapshotOf(r, claim))
                               THEN SnapshotOf(r, claim) ELSE release.base,
                      tried |-> release.tried + 1]
    BY <2>1
  <2> DEFINE s == SnapshotOf(r, claim)
             base == IF release.base = NoSnapshot \/ NoRegression(release.base, s)
                     THEN s ELSE release.base
             tried == release.tried + 1
  <2>3. release' = [base |-> base, tried |-> tried] /\ base \in {s, release.base}
    BY <2>2
  <2>4. \A d \in DOMAIN s.rows : s.rows[d].status = DomainStatus(s.rows[d])
    BY SnapshotRows
  <2> HIDE DEF s, base, tried
  <2>5. release' = [f \in {"base", "tried"} |-> release'[f]] /\ release'.base \in {s, release.base}
    BY <2>3
  <2>6. QED
    BY <2>4, <2>5 DEF QualInv, ReleaseInv, DomainStatus
<1>3. QED
  <2>1. CurrentId' = CurrentId /\ InCase' = InCase
    BY <1>1, SameSuite
  <2>2. CaseInv(cur, CurrentId)'
    <3>1. CaseInv(cur', CurrentId')
      BY <1>1, <2>1 DEF QualInv
    <3>2. QED
      BY <3>1
  <2>3. SuiteInv'
    <3>1. AtRest(cur)' = AtRest(cur)
      BY <1>1 DEF AtRest, Unprocessed, Resources, RegisteredCleanups
    <3>2. QED
      BY <1>1, <2>1, <3>1 DEF QualInv, SuiteInv, Results, SuiteContract
  <2>4. ProbeInv' /\ EarnedInv' /\ SeenInv' /\ MishapInv'
    BY <1>1, <2>1 DEF QualInv, ProbeInv, EarnedInv, SeenInv, MishapInv
  <2>5. QED
    BY <1>2, <2>2, <2>3, <2>4 DEF QualInv

-----------------------------------------------------------------------------
LEMMA QualInitially == QualInit => QualInv
<1> SUFFICES ASSUME QualInit PROVE QualInv
  OBVIOUS
<1> DEFINE res == <<>>
<1>1. /\ kit \in SuiteKits /\ cur = NewCase /\ scan = "clean"
      /\ suite = [pc |-> "case", results |-> res, probe |-> "none", identity |-> FALSE,
                  record |-> NoSnapshot]
      /\ world = [tree |-> "none", seen |-> 0, mishap |-> FALSE]
      /\ release = [base |-> NoSnapshot, tried |-> 0]
  BY DEF QualInit
<1>2. res \in Seq(Results) /\ Len(res) = 0 /\ DOMAIN res = {}
  OBVIOUS
<1> HIDE DEF res
<1>3. kit \in DOMAIN Contracts
  BY <1>1, KitAssumption DEF KitAssumption
<1>4. /\ suite = [f \in {"pc", "results", "probe", "identity", "record"} |-> suite[f]]
      /\ suite.pc = "case" /\ suite.results = res /\ suite.probe = "none"
  BY <1>1
<1>5. InCase
  <2>1. PICK i \in DOMAIN SuiteContract : SuiteContract[i][2] = "probe_contract"
    BY <1>3, ContractIs
  <2>2. DOMAIN SuiteContract = 1..Len(SuiteContract) /\ Len(SuiteContract) \in Nat
    BY <1>3, ContractIs
  <2> DEFINE m == Len(SuiteContract)
  <2>3. m \in Nat /\ i \in 1..m
    BY <2>1, <2>2
  <2> HIDE DEF m
  <2>4. 0 < m
    BY <2>3
  <2>5. QED
    BY <1>2, <1>4, <2>4 DEF InCase, m
<1>6. CaseInv(cur, CurrentId) /\ ~cur.disposed
  BY <1>1, NewCaseForm
<1>7. SuiteInv
  <2>1. 0 <= Len(SuiteContract)
    BY <1>3, ContractIs
  <2>2. QED
    BY <1>2, <1>3, <1>4, <1>5, <2>1 DEF SuiteInv
<1>8. ProbeInv
  BY <1>2, <1>4 DEF ProbeInv
<1>9. SeenInv /\ MishapInv
  BY <1>1, <1>6 DEF SeenInv, MishapInv
<1>10. EarnedInv
  BY <1>4 DEF EarnedInv
<1>11. ReleaseInv
  BY <1>1 DEF ReleaseInv
<1>12. QED
  BY <1>6, <1>7, <1>8, <1>9, <1>10, <1>11 DEF QualInv

LEMMA QualStutters == QualInv /\ UNCHANGED qualVars => QualInv'
<1> SUFFICES ASSUME QualInv, UNCHANGED qualVars PROVE QualInv'
  OBVIOUS
<1>1. UNCHANGED <<kit, suite, scan, world, release>> /\ cur' = cur
  BY DEF qualVars
<1>2. CaseInv(cur', CurrentId) /\ (~InCase => AtRest(cur'))
  BY <1>1 DEF QualInv, SuiteInv
<1>3. QED
  BY <1>1, <1>2, CaseKeeps

LEMMA QualSteps == QualInv /\ [QualNext]_qualVars => QualInv'
<1> SUFFICES ASSUME QualInv, [QualNext]_qualVars PROVE QualInv'
  OBVIOUS
<1>1. CASE HostActs
  <2>1. CASE \E x \in {"return", "dispose"} : CleanupSettles(x)
    BY <2>1, CleanupSettlesKeeps DEF CleanupKinds
  <2>2. QED
    BY <1>1, <2>1, HostThrowsKeeps, HostProbesKeeps, HostIdentifiesKeeps, HostPreflightsKeeps,
       HostEmitsKeeps, HostEndsKeeps, HostStartsKeeps, HostBuffersKeeps, FixtureCreatedKeeps,
       HostBindsKeeps, HostHasDescendantsKeeps, HostMeetsDeadlineKeeps, CancelSettlesKeeps
       DEF HostActs
<1>2. CASE BodyStep
  BY <1>2, BodyStartsKeeps, BodyCancelsKeeps, BodyCancelledKeeps, DeadlinePassesKeeps DEF BodyStep
<1>3. CASE FinalizerStep
  BY <1>3, FinalizerTakesKeeps, FinalizerGoesOnKeeps, FinalizerReturnsKeeps DEF FinalizerStep
<1>4. CASE BoundStep
  BY <1>4, CaseSettlesKeeps, CaseTimesOutKeeps, GraceEndsKeeps, IsolationEndsKeeps DEF BoundStep
<1>5. CASE SuiteStep
  BY <1>5, CaseEndsKeeps, SuiteAssemblesKeeps DEF SuiteStep
<1>6. CASE PublishRecord
  BY <1>6, PublishRecordKeeps
<1>7. CASE UNCHANGED qualVars
  BY <1>7, QualStutters
<1>8. QED
  BY <1>1, <1>2, <1>3, <1>4, <1>5, <1>6, <1>7 DEF QualNext, SuiteNext

\* A record says what its suite saw, and a case leaves nothing behind.
LEMMA QualInvSound == QualInv => QualifiedIsEarned /\ CaseLeavesNothing
<1> SUFFICES ASSUME QualInv PROVE QualifiedIsEarned /\ CaseLeavesNothing
  OBVIOUS
<1>1. QualifiedIsEarned
  BY DEF QualInv, SuiteInv, EarnedInv, QualifiedIsEarned
<1>2. CaseLeavesNothing
  <2> SUFFICES ASSUME cur.done
               PROVE  /\ cur.body = "settled"
                      /\ cur.run \in {"untracked", "cancelled", "cancelfailed"}
                      /\ \A x \in RegisteredCleanups(cur) : cur.state[x] = "settled"
    BY DEF CaseLeavesNothing
  <2>1. AtRest(cur)
    BY CurForm DEF Finalizes
  <2>2. RegisteredCleanups(cur) \subseteq CleanupKinds
    BY CurForm, CleanupsOf DEF CaseForm, CleanupLists, CleanupKinds
  <2>3. ASSUME NEW r \in Resources(cur)
        PROVE  HasSettled(cur, r)
    <3>1. r \in cur.processed /\ cur.awaits = "none"
      BY <2>1 DEF AtRest, Unprocessed
    <3>2. r # "none"
      BY <2>2 DEF Resources, CleanupKinds
    <3>3. QED
      BY <3>1, <3>2, CurForm DEF Finalizes
  <2>4. cur.run \in {"untracked", "cancelled", "cancelfailed"}
    BY <2>3 DEF Resources, HasSettled
  <2>5. \A x \in RegisteredCleanups(cur) : cur.state[x] = "settled"
    BY <2>2, <2>3 DEF Resources, HasSettled, CleanupKinds
  <2>6. QED
    BY <2>1, <2>4, <2>5 DEF AtRest
<1>3. QED
  BY <1>1, <1>2

EvidenceKeptNow ==
  release.base # NoSnapshot =>
    LET old == release.base  new == release'.base IN
    /\ new.host = old.host /\ new.version = old.version
    /\ new.kit = old.kit \/ KitAge(new.kit) >= KitAge(old.kit)
    /\ old.conformant => new.conformant
    /\ old.live => new.live
    /\ \A d \in DOMAIN old.rows :
         old.rows[d].status = "supported" =>
           d \in DOMAIN new.rows /\ new.rows[d].failed = 0

LEMMA EvidenceSteps == QualInv /\ [QualNext]_qualVars => EvidenceKeptNow
<1> SUFFICES ASSUME QualInv, [QualNext]_qualVars, release.base # NoSnapshot PROVE EvidenceKeptNow
  BY DEF EvidenceKeptNow
<1>1. \A d \in DOMAIN release.base.rows :
        release.base.rows[d].status = "supported" => release.base.rows[d].failed = 0
  BY DEF QualInv, ReleaseInv, DomainStatus
<1>2. CASE release' = release
  BY <1>1, <1>2 DEF EvidenceKeptNow
<1>3. CASE PublishRecord
  <2>1. PICK k \in DOMAIN Contracts, claim \in Claims : \E r \in RecordsOf(k) :
          release' = [base |-> IF release.base = NoSnapshot \/ NoRegression(release.base, SnapshotOf(r, claim))
                               THEN SnapshotOf(r, claim) ELSE release.base,
                      tried |-> release.tried + 1]
    BY <1>3 DEF PublishRecord
  <2>2. PICK r \in RecordsOf(k) :
          release' = [base |-> IF release.base = NoSnapshot \/ NoRegression(release.base, SnapshotOf(r, claim))
                               THEN SnapshotOf(r, claim) ELSE release.base,
                      tried |-> release.tried + 1]
    BY <2>1
  <2> DEFINE s == SnapshotOf(r, claim)
             base == IF NoRegression(release.base, s) THEN s ELSE release.base
             tried == release.tried + 1
  <2>3. release' = [base |-> base, tried |-> tried]
    BY <2>2
  <2>4. base = release.base \/ (NoRegression(release.base, s) /\ base = s)
    OBVIOUS
  <2> HIDE DEF s, base, tried
  <2>5. release'.base = base
    BY <2>3
  <2>6. CASE base = release.base
    BY <1>1, <2>5, <2>6 DEF EvidenceKeptNow
  <2>7. CASE NoRegression(release.base, s) /\ base = s
    <3>1. RowsAccountForCorpus(s)
      BY <2>7 DEF NoRegression, ValidSnapshot
    <3>2. \A d \in DOMAIN s.rows : s.rows[d].status = "supported" => s.rows[d].failed = 0
      BY <3>1 DEF RowsAccountForCorpus, DomainStatus
    <3>3. QED
      BY <2>5, <2>7, <3>2 DEF NoRegression, EvidenceKeptNow
  <2>8. QED
    BY <2>4, <2>6, <2>7
<1>4. CASE SuiteNext
  <2>1. release' = release
    BY <1>4 DEF SuiteNext, HostActs, BodyStep, FinalizerStep, BoundStep, SuiteStep, HostThrows,
       HostProbes, HostIdentifies, HostPreflights, HostEmits, HostEnds, HostStarts, HostBuffers,
       FixtureCreated, HostBinds, HostHasDescendants, HostMeetsDeadline, CancelSettles,
       CleanupSettles, BodyStarts, BodyCancels, BodyCancelled, DeadlinePasses, FinalizerTakes,
       FinalizerGoesOn, FinalizerReturns, CaseSettles, CaseTimesOut, GraceEnds, IsolationEnds,
       CaseEnds, SuiteAssembles
  <2>2. QED
    BY <1>2, <2>1
<1>5. QED
  BY <1>2, <1>3, <1>4 DEF QualNext, qualVars

(* A record says what its suite saw, whatever the Host answers, throws or  *)
(* leaves pending: no suite of any contract is conformant after a case     *)
(* timed out, a cleanup failed, a descendant stayed or something was seen  *)
(* that is not clean; a case that is done has left nothing behind; and     *)
(* what a release has earned survives every later one.                     *)
THEOREM QualificationSound == QualSpec => SuiteSound
<1>1. QualInit => QualInv
  BY QualInitially
<1>2. QualInv /\ [QualNext]_qualVars => QualInv'
  BY QualSteps
<1>3. QualInv => QualifiedIsEarned /\ CaseLeavesNothing
  BY QualInvSound
<1>4. QualInv /\ [QualNext]_qualVars => [EvidenceKeptNow]_qualVars
  BY EvidenceSteps
<1>5. QED
  BY <1>1, <1>2, <1>3, <1>4, PTL DEF QualSpec, SuiteSound, EvidenceKept, EvidenceKeptNow
=============================================================================
