--------------------------- MODULE DigitalEmployee ---------------------------
(***************************************************************************)
(* The employee facade (packages/core/src/digital-employee.ts) over its    *)
(* job runner, its session store (session-store.ts) and its verified FAQ   *)
(* (faq-store.ts), fed by a chat channel whose thread key is derived from  *)
(* the conversation and the sender (connectors/channels/dingtalk).  The    *)
(* task a job runs is #runAnswerLoop: its synchronous prefix belongs to    *)
(* the start of the job, its synchronous tail to the end, and everything   *)
(* awaited in between interleaves with the other actions.                  *)
(***************************************************************************)
EXTENDS JobRunner, SequencesExt

CONSTANTS
  Conversations,      \* chat conversations an actor may write in
  Topics,             \* what a message is about: all that similarity tells apart
  UnsafeTopics,       \* topics whose text matches UNSAFE_PATTERNS
  sessionTtl, maxSessions, maxMessages, maxFaqs,
  MaxHits             \* bound: FAQ hit counters stop here

ASSUME StoreAssumption ==
  /\ sessionTtl \in Nat \ {0} /\ maxSessions \in Nat \ {0}
  /\ maxMessages \in Nat \ {0} /\ maxFaqs \in Nat \ {0} /\ MaxHits \in Nat
  /\ UnsafeTopics \subseteq Topics

VARIABLES
  thread, topic,      \* per call: its session id and what it asks
  sessions,           \* #sessions: id -> session, n numbers the insertions
  faq                 \* #entries, in the insertion order of the Map

storeVars == <<thread, topic, sessions, faq>>
vars == <<runnerVars, storeVars>>

NoThread == <<>>
NoTopic == "none"

ThreadOfConversation(conv, a) == <<conv>>
\* normalizeDingTalkMessage: the thread key hashes conversation AND actor.
\* (The variant above it drops the actor.)
ThreadOf(conv, a) == <<conv, a>>

----------------------------------------------------------------------------
(* SessionStore, as functions of the stored Map.                           *)

\* A session as an operation leaves it.
Session(state, messages, n) ==
  [state |-> state, messages |-> messages, lastActive |-> now, n |-> n]

Put(S, id, s) == [x \in DOMAIN S \cup {id} |-> IF x = id THEN s ELSE S[x]]
Delete(S, ids) == [x \in DOMAIN S \ ids |-> S[x]]
Expired(S) == {x \in DOMAIN S : now - S[x].lastActive >= sessionTtl}

PruneSessions(S) == Delete(S, Expired(S))

\* #ensureCapacity: the first of the least recently active sessions goes.
EnsureCapacity(S) ==
  IF Cardinality(DOMAIN S) < maxSessions THEN S
  ELSE LET least(x) == \A y \in DOMAIN S :
                         \/ S[x].lastActive < S[y].lastActive
                         \/ S[x].lastActive = S[y].lastActive /\ S[x].n <= S[y].n
       IN  Delete(S, {CHOOSE x \in DOMAIN S : least(x)})

GetOrCreate(S, id) ==
  LET T == PruneSessions(S)
      last == Max({0} \cup {T[x].n : x \in DOMAIN T})
  IN  IF id \in DOMAIN T THEN T
      ELSE Put(EnsureCapacity(T), id, Session("idle", <<>>, last + 1))

LastN(s, n) == IF Len(s) <= n THEN s ELSE SubSeq(s, Len(s) - n + 1, Len(s))

AppendMessage(S, id, m) ==
  LET T == GetOrCreate(S, id)
  IN  Put(T, id, Session(T[id].state, LastN(Append(T[id].messages, m), maxMessages), T[id].n))

SetState(S, id, st) ==
  LET T == GetOrCreate(S, id)
  IN  Put(T, id, Session(st, T[id].messages, T[id].n))

\* get(): reads one session and drops it if it has expired.
AfterGet(S, id) == Delete(S, {id} \cap Expired(S))

\* The exchanges of a transcript: an assistant message right after a user's.
\* The variant pairs the last answer with any earlier question.
ExchangesLoose(M) ==
  {p \in (1..Len(M)) \X (1..Len(M)) :
     p[1] < p[2] /\ M[p[1]].role = "user" /\ M[p[2]].role = "assistant"}
Exchanges(M) ==
  {p \in (1..Len(M)) \X (1..Len(M)) :
     p[1] + 1 = p[2] /\ M[p[1]].role = "user" /\ M[p[2]].role = "assistant"}

LastExchange(M) ==
  CHOOSE p \in Exchanges(M) : \A q \in Exchanges(M) : q[2] <= p[2]

----------------------------------------------------------------------------
(* VerifiedFaqStore.                                                       *)

\* search(): every entry close enough to the question gets a hit.
Searched(F, t) ==
  [i \in 1..Len(F) |->
     IF F[i].question = t /\ F[i].hits < MaxHits
       THEN [F[i] EXCEPT !.hits = @ + 1] ELSE F[i]]

\* #evict: fewest hits first, then least recently updated.
Evicted(F) ==
  IF Len(F) <= maxFaqs THEN F
  ELSE LET before(i, k) ==
             \/ F[i].hits < F[k].hits
             \/ F[i].hits = F[k].hits /\ F[i].updatedAt < F[k].updatedAt
             \/ F[i].hits = F[k].hits /\ F[i].updatedAt = F[k].updatedAt /\ i <= k
       IN  RemoveAt(F, CHOOSE i \in 1..Len(F) : \A k \in 1..Len(F) : before(i, k))

\* add() of verified feedback: replace the answer of a similar question, or
\* append a new entry and evict.
AddFaq(F, q, a) ==
  LET same == {i \in 1..Len(F) : F[i].question = q}
  IN  IF q \in UnsafeTopics THEN F
      ELSE IF same # {}
        THEN [i \in 1..Len(F) |->
                IF i \in same
                  THEN [F[i] EXCEPT !.answers = a, !.updatedAt = now,
                                    !.hits = IF @ < MaxHits THEN @ + 1 ELSE @]
                  ELSE F[i]]
        ELSE Evicted(Append(F, [question |-> q, answers |-> a,
                                hits |-> 0, updatedAt |-> now]))

----------------------------------------------------------------------------
(* The answer loop.                                                        *)

Question(c) == [role |-> "user", call |-> c, outcome |-> "asked"]
Answer(c, outcome) == [role |-> "assistant", call |-> c, outcome |-> outcome]

\* The synchronous prefix of #runAnswerLoop on the two stores.
Begin(st, c, thr, top) ==
  [sessions |-> SetState(AppendMessage(st.sessions, thr[c], Question(c)),
                         thr[c], "working"),
   faq |-> Searched(st.faq, top[c])]

\* Its synchronous tail, by how the loop ends: EscalationPolicy.evaluate asks
\* for a human (for lack of an answer, confidence, evidence or citations, or
\* because the model or a rule does), or not; a thrown error appends nothing.
EndStates == {"answered", "escalated", "error_escalated", "error_failed"}
EndStateOf(outcome) ==
  CASE outcome = "answered" -> "idle"
    [] outcome = "error_failed" -> "failed"
    [] OTHER -> "waiting_for_human"

End(S, c, outcome) ==
  LET T == IF outcome \in {"answered", "escalated"}
             THEN AppendMessage(S, thread[c], Answer(c, outcome)) ELSE S
  IN  SetState(T, thread[c], EndStateOf(outcome))

\* The jobs `started`, in order, run their prefix on the stores.
BeginAll(st, started, thr, top) ==
  FoldLeft(LAMBDA acc, c : Begin(acc, c, thr, top), st, started)

----------------------------------------------------------------------------
EmployeeInit ==
  /\ Init
  /\ thread = [c \in Calls |-> NoThread]
  /\ topic = [c \in Calls |-> NoTopic]
  /\ sessions = [id \in {} |-> <<>>]
  /\ faq = <<>>

Ask(c, raw, conv, t) ==
  /\ thread' = [thread EXCEPT ![c] = ThreadOf(conv, ActorOf(raw))]
  /\ topic' = [topic EXCEPT ![c] = t]

\* answer() admitted with a free slot.
AnswerStarts(c, raw, conv, t, j) ==
  /\ RunStarts(c, raw, j)
  /\ Ask(c, raw, conv, t)
  /\ LET st == Begin([sessions |-> sessions, faq |-> faq], c, thread', topic')
     IN  sessions' = st.sessions /\ faq' = st.faq

\* answer() admitted into the queue.
AnswerQueues(c, raw, conv, t, j) ==
  /\ RunEnqueues(c, raw, j)
  /\ Ask(c, raw, conv, t)
  /\ UNCHANGED <<sessions, faq>>

\* answer() refused: #failureResult, nothing stored.
AnswerRefused(raw, j) == RunRefused(raw, j) /\ UNCHANGED storeVars

\* The loop of call c ends and the runner drains.
AnswerEnds(c, outcome) ==
  /\ Finish(c)
  /\ LET started == SubSeq(queue, 1, DrainCount(running - 1))
         st == BeginAll([sessions |-> End(sessions, c, outcome), faq |-> faq],
                        started, thread, topic)
     IN  sessions' = st.sessions /\ faq' = st.faq
  /\ UNCHANGED <<thread, topic>>

\* recordFeedback() with verified feedback, for the last exchange of session id.
\* Authorisation is the embedder's choice.  Only an idle session whose last
\* exchange was answered qualifies.
Feedback(id, authorized) ==
  LET S == AfterGet(sessions, id)
      s == S[id]
      p == LastExchange(s.messages)
      stores == /\ id \in DOMAIN S /\ Exchanges(s.messages) # {}
                /\ s.state = "idle"
                /\ s.messages[p[2]].outcome = "answered"
                /\ authorized
  IN  /\ sessions' = S
      /\ faq' = IF stores THEN AddFaq(faq, topic[s.messages[p[1]].call],
                                      topic[s.messages[p[2]].call])
                ELSE faq
      /\ UNCHANGED <<runnerVars, thread, topic>>

\* SessionStore.close().
CloseSession(id) ==
  /\ sessions' = Delete(sessions, {id})
  /\ UNCHANGED <<runnerVars, thread, topic, faq>>

Threads == {ThreadOf(conv, a) : conv \in Conversations, a \in Actors}
Requests == JobIds \cup {NoJob}

EmployeeNext ==
  \/ \E c \in Calls, raw \in RawActors, conv \in Conversations, t \in Topics, j \in Requests :
       \/ AnswerStarts(c, raw, conv, t, j)
       \/ AnswerQueues(c, raw, conv, t, j)
  \/ \E raw \in RawActors, j \in Requests : AnswerRefused(raw, j)
  \/ \E c \in Calls, outcome \in EndStates : AnswerEnds(c, outcome)
  \/ \E id \in Threads, authorized \in BOOLEAN : Feedback(id, authorized)
  \/ \E id \in Threads : CloseSession(id)
  \/ (\E i \in 1..Len(queue) : QueueTimeout(i)) /\ UNCHANGED storeVars
  \/ Close /\ UNCHANGED storeVars
  \/ Tick /\ UNCHANGED storeVars

EmployeeSpec == EmployeeInit /\ [][EmployeeNext]_vars

----------------------------------------------------------------------------
\* A session is marked as working exactly while an answer loop of its thread
\* runs: no outcome, eviction, expiry or queueing leaves it stuck or shows a
\* busy session as free.
WorkingIffAnswering ==
  \A id \in DOMAIN sessions :
    sessions[id].state = "working" <=> \E c \in Calls : phase[c] = "running" /\ thread[c] = id

\* Transcripts stay paired: an assistant message that is not the first one
\* kept follows the user message of the same request, so history handed to
\* the model and feedback never mix two requests.
TranscriptPaired ==
  \A id \in DOMAIN sessions : LET M == sessions[id].messages IN
    \A k \in 2..Len(M) : M[k].role = "assistant" =>
      M[k - 1].role = "user" /\ M[k - 1].call = M[k].call

\* Every stored FAQ answers the question it is filed under.
FaqGenuine == \A i \in 1..Len(faq) : faq[i].answers = faq[i].question

\* Requests that share a conversation keep apart, in its state and its messages,
\* whatever is evicted, expires or overlaps (session-store.ts), and feedback files
\* no answer under a question it does not belong to (recordFeedback).
AnswersSound == WorkingIffAnswering /\ TranscriptPaired /\ FaqGenuine
=============================================================================
