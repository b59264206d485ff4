-------------------------- MODULE TurnAndHostProofs --------------------------
(***************************************************************************)
(* A turn and the Hosts that carry it out.                                 *)
(* For every set of runs, turns and sealed requests, every limit and every *)
(* interleaving: a governed turn keeps what it prints, records and spends  *)
(* together, and implements the contract of TurnContract.                  *)
(* For every set of calls and invocations, and whatever a child process    *)
(* writes: the stdio adapter and the native hosts of the CLI end each      *)
(* stream once and as the contract says, after what they started is gone.  *)
(* For any calls and settings of a model port: a text is the final word of *)
(* a child that conformed, and no child outlives what it was asked.        *)
(***************************************************************************)
EXTENDS TurnExecutor, AgentHosts, StdioHost, ModelPorts, SetInduction, SequenceTheorems

Looping == {"top", "model", "commit", "check"}
Begun == {"prepare", "gate"} \cup Looping
Writing == {"evidence", "link"}
Pcs == {"new", "terminal", "exited", "dead"} \cup Begun \cup Writing

AllRequests == UNION {Requests[r] : r \in Runs}
LocalStates ==
  [pc : Pcs, req : AllRequests \cup {None}, started : BOOLEAN, startedAt : Nat \cup {None},
   attempt : Nat, iterations : Nat, used : Nat, history : Seq(Texts), consumed : BOOLEAN,
   refs : Refs, gateAt : Nat \cup {None}, code : Codes \cup {None},
   onFail : {"fail", "throw", "swallow"}, terminal : Codes \cup {None}, exit : {0, 1, None}]

\* The permission gate let the request through; the operator's verdicts did.
Permitted(q) ==
  /\ q.permissions # None => ValidArtifact(q.permissions)
  /\ DecisionSummary(q).denied = {}
Granted(l) ==
  /\ l.req.approval \notin {"action", "stale_action"}
  /\ \A i \in DOMAIN l.req.verdicts :
       LET v == l.req.verdicts[i] IN
       v.decision = "granted" /\ (v.expires # None => l.gateAt <= v.expires)

\* One iteration for every attempt, and never more attempts than the cap.
Counted(l) ==
  /\ l.pc \in {"prepare", "gate"} => l.iterations = 0
  /\ l.pc \in Looping => l.attempt >= 1
  /\ l.pc \in {"top", "model"} => l.iterations = l.attempt - 1
  /\ l.pc \in {"commit", "check"} => l.iterations = l.attempt
  /\ l.pc \in {"model", "commit", "check"} => l.attempt <= l.req.maxIterations
  /\ l.pc = "top" => l.attempt - 1 <= l.req.maxIterations
  /\ l.pc \in Writing => l.iterations <= l.req.maxIterations

\* What a run carries to the evidence sink.  Only a cancellation and what the
\* catch block itself reports may be lost without a word.
Recordable(l) ==
  /\ l.code \in RecordCodes
  /\ l.onFail = "swallow" => l.code \in {"cancelled", "internal_error"}
  /\ l.onFail # "fail" => l.code # "permission_denied"
  /\ l.code = "permission_denied" <=> DecisionSummary(l.req).denied # {}
  /\ l.code = "goal_met" => l.started

\* The evidence of the turn of r is its own, with this code.
Recorded(r, code, refs) ==
  LET e == evidence[TurnOf[r]] IN
  /\ e # None /\ e.run = r /\ e.code = code /\ e.refs = refs
  /\ code = "goal_met" => e.status = "completed"

\* What is always true of a run r whose local state is l.
RunOK(r, l) ==
  /\ l \in LocalStates
  /\ l.pc = "new" => l = Fresh
  /\ l.pc \in Begun \cup Writing \cup {"terminal"} \/ l.consumed => l.req \in Requests[r]
  /\ l.pc \in Begun => l.started /\ Permitted(l.req)
  /\ l.pc \in Begun \cup Writing =>
       l.startedAt # None /\ l.startedAt <= now
  /\ l.pc \in {"prepare", "gate"} => ~l.consumed
  /\ l.pc = "gate" => ApprovalFieldsValid(l.req)
  /\ l.pc \in Looping \/ l.consumed => Granted(l) /\ Permitted(l.req)
  /\ Counted(l)
  /\ l.pc \in Writing => Recordable(l)
  /\ l.pc = "terminal" =>
       /\ l.code \in Codes
       /\ l.code \in Governed \cup {"goal_met"} => Recorded(r, l.code, l.refs)
       /\ l.code = "goal_met" => l.started
  /\ l.terminal # None => l.pc = "exited"
  /\ l.terminal \in Governed \cup {"goal_met"} => Recorded(r, l.terminal, l.refs)

\* A record in the evidence directory.
RecordOK(e) ==
  /\ e \in TurnRecords /\ ConformantRecord(e)
  /\ e.permissions.denied # {} <=> e.code = "permission_denied"

\* A run is going when nothing but its own end keeps it from committing one
\* more iteration: it passed its budget check, or it will on the usage it read.
Going(l) == l.pc \in {"model", "commit"} \/ (l.pc = "top" /\ l.used < Limit)
Sharers(k) == {r \in Runs : s[r].req # None /\ s[r].req.key = k}
GoingOn(k) == {r \in Sharers(k) : Going(s[r])}

\* What the going runs will still commit is counted in: a run that shares the
\* budget passes the check only while there is something left, and the first
\* who used the last of it is not going any more.
BudgetInv ==
  \A k \in LedgerKeys :
    /\ ledger[k] \in Nat
    /\ Sharers(k) = {} => ledger[k] = 0
    /\ Sharers(k) # {} => ledger[k] + Cardinality(GoingOn(k)) <= Limit + Cardinality(Sharers(k)) - 1

\* The inductive invariant.
TurnInv ==
  /\ s \in [Runs -> LocalStates] /\ evidence \in [Turns -> TurnRecords \cup {None}]
  /\ ledger \in [LedgerKeys -> Nat] /\ taskState \subseteq Turns /\ now \in Nat
  /\ \A r \in Runs : RunOK(r, s[r])
  /\ \A t \in Turns : evidence[t] # None => RecordOK(evidence[t])
  /\ \A t \in taskState : evidence[t] # None /\ evidence[t].status = "completed"
  /\ BudgetInv

-----------------------------------------------------------------------------
\* The assumption on the constants, for the steps that need it.
LEMMA TurnFacts ==
  /\ IsFiniteSet(Runs) /\ TurnOf \in [Runs -> Turns] /\ Limit \in Nat
  /\ None \notin Codes /\ None \notin Nat /\ None \notin LedgerKeys /\ None \notin TurnRecords
  /\ \A r \in Runs : \A q \in Requests[r] : SealedRequest(q) /\ q # None /\ q \in AllRequests
BY TurnAssumption DEF SealedRequest, AllRequests

\* None is not a code; what a record may carry and what is governed are.
LEMMA CodeFacts ==
  /\ RecordCodes \subseteq Codes /\ None \notin Codes /\ None \notin Governed \cup {"goal_met"}
  /\ Governed \cup {"goal_met"} \subseteq RecordCodes
<1>1. RecordCodes \subseteq Codes
  BY DEF Codes
<1>2. Governed \cup {"goal_met"} \subseteq RecordCodes
  BY DEF RecordCodes, Governed
<1> QED
  BY <1>1, <1>2, TurnFacts

\* What a run that stops keeps of its local state.
LEMMA SettledFacts ==
  ASSUME NEW l \in LocalStates, NEW code \in Codes, NEW pc \in Pcs
  PROVE  LET t == Settled(l, pc, code)
         IN  /\ t \in LocalStates /\ t.pc = pc /\ t.code = code
             /\ t.req = l.req /\ t.refs = l.refs /\ t.started = l.started
             /\ t.consumed = l.consumed /\ t.gateAt = l.gateAt /\ t.terminal = l.terminal
             /\ t.startedAt = l.startedAt /\ t.iterations = l.iterations
<1> DEFINE t == [l EXCEPT !.pc = pc, !.code = code, !.history = <<>>, !.attempt = 0, !.used = 0]
<1>1. <<>> \in Seq(Texts)
  OBVIOUS
<1>2. t \in LocalStates
  BY <1>1 DEF LocalStates
<1>3. /\ t.pc = pc /\ t.code = code
      /\ t.req = l.req /\ t.refs = l.refs /\ t.started = l.started
      /\ t.consumed = l.consumed /\ t.gateAt = l.gateAt /\ t.terminal = l.terminal
      /\ t.startedAt = l.startedAt /\ t.iterations = l.iterations
  BY DEF LocalStates
<1> QED
  BY <1>2, <1>3 DEF Settled

\* What a run that ends keeps, and what one that records its end keeps.
LEMMA TerminatesFacts ==
  ASSUME NEW l \in LocalStates, NEW code \in Codes
  PROVE  LET t == Terminates(l, code)
         IN  /\ t \in LocalStates /\ t.pc = "terminal" /\ t.code = code
             /\ t.req = l.req /\ t.refs = l.refs /\ t.started = l.started
             /\ t.consumed = l.consumed /\ t.gateAt = l.gateAt /\ t.terminal = l.terminal
<1> DEFINE u == Settled(l, "terminal", code)
<1>1. /\ u \in LocalStates /\ u.pc = "terminal" /\ u.code = code
      /\ u.req = l.req /\ u.refs = l.refs /\ u.started = l.started
      /\ u.consumed = l.consumed /\ u.gateAt = l.gateAt /\ u.terminal = l.terminal
  BY SettledFacts DEF Pcs
<1> HIDE DEF u
<1> DEFINE t == [u EXCEPT !.startedAt = None, !.iterations = 0]
<1>2. t \in LocalStates
  BY <1>1 DEF LocalStates
<1>3. /\ t.pc = "terminal" /\ t.code = code
      /\ t.req = l.req /\ t.refs = l.refs /\ t.started = l.started
      /\ t.consumed = l.consumed /\ t.gateAt = l.gateAt /\ t.terminal = l.terminal
  BY <1>1 DEF LocalStates
<1>4. Terminates(l, code) = t
  BY DEF Terminates, u
<1> HIDE DEF t
<1> QED
  BY <1>2, <1>3, <1>4

LEMMA RecordsFacts ==
  ASSUME NEW l \in LocalStates, NEW code \in Codes, NEW onFail \in {"fail", "throw", "swallow"}
  PROVE  LET t == Records(l, code, onFail)
         IN  /\ t \in LocalStates /\ t.pc = "evidence" /\ t.code = code /\ t.onFail = onFail
             /\ t.req = l.req /\ t.refs = l.refs /\ t.started = l.started
             /\ t.consumed = l.consumed /\ t.gateAt = l.gateAt /\ t.terminal = l.terminal
             /\ t.startedAt = l.startedAt /\ t.iterations = l.iterations
<1> DEFINE u == Settled(l, "evidence", code)
<1>1. /\ u \in LocalStates /\ u.pc = "evidence" /\ u.code = code
      /\ u.req = l.req /\ u.refs = l.refs /\ u.started = l.started
      /\ u.consumed = l.consumed /\ u.gateAt = l.gateAt /\ u.terminal = l.terminal
      /\ u.startedAt = l.startedAt /\ u.iterations = l.iterations
  BY SettledFacts DEF Pcs, Writing
<1> HIDE DEF u
<1>2. Records(l, code, onFail) = [u EXCEPT !.onFail = onFail]
  BY DEF Records, u
<1> DEFINE t == [u EXCEPT !.onFail = onFail]
<1>3. /\ t \in LocalStates /\ t.pc = u.pc /\ t.code = u.code /\ t.onFail = onFail
      /\ t.req = u.req /\ t.refs = u.refs /\ t.started = u.started
      /\ t.consumed = u.consumed /\ t.gateAt = u.gateAt /\ t.terminal = u.terminal
      /\ t.startedAt = u.startedAt /\ t.iterations = u.iterations
  <2>1. u \in LocalStates
    BY <1>1
  <2>2. t \in LocalStates
    BY <2>1 DEF LocalStates
  <2>3. /\ t.onFail = onFail /\ t.pc = u.pc /\ t.code = u.code
        /\ t.req = u.req /\ t.refs = u.refs /\ t.started = u.started
    BY <2>1 DEF LocalStates
  <2>4. /\ t.consumed = u.consumed /\ t.gateAt = u.gateAt /\ t.terminal = u.terminal
        /\ t.startedAt = u.startedAt /\ t.iterations = u.iterations
    BY <2>1 DEF LocalStates
  <2> HIDE DEF t
  <2> QED
    BY <2>2, <2>3, <2>4
<1> HIDE DEF t
<1>4. Records(l, code, onFail) = t
  BY <1>2 DEF t
<1> QED
  BY <1>1, <1>3, <1>4

\* The verdicts are read from the request and the time of the gate only.
LEMMA GrantedSame ==
  ASSUME NEW l, NEW t, t.req = l.req, t.gateAt = l.gateAt
  PROVE  Granted(t) <=> Granted(l)
BY DEF Granted

\* A run that ends unrecorded, or after its record.
LEMMA TerminatesOK ==
  ASSUME NEW r \in Runs, NEW l \in LocalStates, NEW code \in Codes, l.req \in Requests[r],
         l.consumed => Granted(l) /\ Permitted(l.req), l.terminal = None,
         code \in Governed \cup {"goal_met"} => Recorded(r, code, l.refs),
         code = "goal_met" => l.started
  PROVE  RunOK(r, Terminates(l, code))
<1> DEFINE t == Terminates(l, code)
<1>1. /\ t \in LocalStates /\ t.pc = "terminal" /\ t.code = code
      /\ t.req = l.req /\ t.refs = l.refs /\ t.started = l.started
      /\ t.consumed = l.consumed /\ t.gateAt = l.gateAt /\ t.terminal = None
  BY TerminatesFacts
<1> HIDE DEF t
<1>2. t.consumed => Granted(t) /\ Permitted(t.req)
  BY <1>1, GrantedSame
<1>3. RunOK(r, t)
  BY <1>1, <1>2, CodeFacts DEF RunOK, Counted, Begun, Looping, Writing
<1> QED
  BY <1>3 DEF t

\* A run that goes to the evidence sink.
LEMMA RecordsOK ==
  ASSUME NEW r \in Runs, NEW l \in LocalStates, NEW code \in RecordCodes,
         NEW onFail \in {"fail", "throw", "swallow"}, l.req \in Requests[r],
         l.consumed => Granted(l) /\ Permitted(l.req), l.terminal = None,
         l.startedAt # None, l.startedAt <= now, l.iterations <= l.req.maxIterations,
         onFail = "swallow" => code \in {"cancelled", "internal_error"},
         onFail # "fail" => code # "permission_denied",
         code = "permission_denied" <=> DecisionSummary(l.req).denied # {},
         code = "goal_met" => l.started
  PROVE  RunOK(r, Records(l, code, onFail))
<1> DEFINE t == Records(l, code, onFail)
<1>1. /\ t \in LocalStates /\ t.pc = "evidence" /\ t.code = code /\ t.onFail = onFail
      /\ t.req = l.req /\ t.refs = l.refs /\ t.started = l.started
      /\ t.consumed = l.consumed /\ t.gateAt = l.gateAt /\ t.terminal = None
      /\ t.startedAt = l.startedAt /\ t.iterations = l.iterations
  <2>1. code \in Codes
    BY CodeFacts
  <2> QED
    BY SMTT(20), <2>1, RecordsFacts
<1> HIDE DEF t
<1>2. t.consumed => Granted(t) /\ Permitted(t.req)
  BY <1>1, GrantedSame
<1>3. RunOK(r, t)
  BY <1>1, <1>2, CodeFacts DEF RunOK, Counted, Recordable, Begun, Looping, Writing
<1> QED
  BY <1>3 DEF t

-----------------------------------------------------------------------------
\* The sharers of a budget and the going ones among them can be counted.
LEMMA SharersFacts ==
  ASSUME NEW k
  PROVE  /\ IsFiniteSet(Sharers(k)) /\ Cardinality(Sharers(k)) \in Nat
         /\ IsFiniteSet(GoingOn(k)) /\ Cardinality(GoingOn(k)) \in Nat
         /\ GoingOn(k) \subseteq Sharers(k) /\ Cardinality(GoingOn(k)) <= Cardinality(Sharers(k))
         /\ IsFiniteSet(Sharers(k)') /\ Cardinality(Sharers(k)') \in Nat
         /\ IsFiniteSet(GoingOn(k)') /\ Cardinality(GoingOn(k)') \in Nat
         /\ GoingOn(k)' \subseteq Sharers(k)' /\ Cardinality(GoingOn(k)') <= Cardinality(Sharers(k)')
<1>1. /\ Sharers(k) \subseteq Runs /\ GoingOn(k) \subseteq Sharers(k)
      /\ Sharers(k)' \subseteq Runs /\ GoingOn(k)' \subseteq Sharers(k)'
  BY DEF Sharers, GoingOn
<1> QED
  BY <1>1, TurnFacts, FS_Subset, FS_CardinalityType

\* A run moves without committing.  It may become going only on a ledger that
\* has something left, and a run that takes up its request is not going yet.
LEMMA BudgetMoves ==
  ASSUME s \in [Runs -> LocalStates], BudgetInv, NEW r \in Runs, NEW l \in LocalStates,
         s' = [s EXCEPT ![r] = l], UNCHANGED ledger,
         \/ l.req = s[r].req
         \/ s[r].req = None /\ ~Going(l) /\ ~Going(s[r]),
         Going(l) /\ l.req # None /\ l.req.key \in LedgerKeys
           => Going(s[r]) \/ ledger[l.req.key] < Limit
  PROVE  BudgetInv'
<1> SUFFICES ASSUME NEW k \in LedgerKeys
             PROVE  /\ ledger[k] \in Nat
                    /\ Sharers(k)' = {} => ledger[k] = 0
                    /\ Sharers(k)' # {} =>
                         ledger[k] + Cardinality(GoingOn(k)') <= Limit + Cardinality(Sharers(k)') - 1
  BY DEF BudgetInv
<1>1. s'[r] = l /\ \A u \in Runs \ {r} : s'[u] = s[u]
  OBVIOUS
<1>2. /\ ledger[k] \in Nat /\ Limit \in Nat
      /\ Sharers(k) = {} => ledger[k] = 0
      /\ Sharers(k) # {} => ledger[k] + Cardinality(GoingOn(k)) <= Limit + Cardinality(Sharers(k)) - 1
  BY TurnFacts DEF BudgetInv
<1>3. CASE l.req = s[r].req
  <2>1. Sharers(k)' = Sharers(k)
    BY <1>1, <1>3 DEF Sharers
  <2>2. CASE r \in GoingOn(k)' /\ r \notin GoingOn(k)
    <3>1. ledger[k] < Limit
      BY <2>2, <1>1, <1>3 DEF GoingOn, Sharers, Going
    <3> QED
      BY <3>1, <2>1, <1>2, SharersFacts
  <2>3. CASE ~(r \in GoingOn(k)' /\ r \notin GoingOn(k))
    <3>1. GoingOn(k)' \subseteq GoingOn(k)
      BY <2>1, <2>3, <1>1 DEF GoingOn, Going, Sharers
    <3>2. Cardinality(GoingOn(k)') <= Cardinality(GoingOn(k))
      BY <3>1, SharersFacts, FS_Subset
    <3> QED
      BY <3>2, <2>1, <1>2, SharersFacts
  <2> QED
    BY <2>2, <2>3
<1>4. CASE s[r].req = None /\ ~Going(l) /\ ~Going(s[r])
  <2>1. GoingOn(k)' = GoingOn(k)
    BY <1>1, <1>4 DEF GoingOn, Going, Sharers
  <2>2. CASE r \in Sharers(k)'
    <3>1. Sharers(k)' = Sharers(k) \cup {r} /\ r \notin Sharers(k)
      BY <1>1, <1>4, <2>2 DEF Sharers
    <3>2. Cardinality(Sharers(k)') = Cardinality(Sharers(k)) + 1
      BY <3>1, SharersFacts, FS_AddElement
    <3>3. CASE Sharers(k) = {}
      <4>1. GoingOn(k) = {} /\ Cardinality(GoingOn(k)) = 0 /\ Cardinality(Sharers(k)) = 0
        BY <3>3, SharersFacts, FS_EmptySet
      <4> QED
        BY <4>1, <3>1, <3>2, <3>3, <2>1, <1>2
    <3>4. CASE Sharers(k) # {}
      BY <3>1, <3>2, <3>4, <2>1, <1>2, SharersFacts
    <3> QED
      BY <3>3, <3>4
  <2>3. CASE r \notin Sharers(k)'
    <3>1. Sharers(k)' = Sharers(k)
      BY <1>1, <1>4, <2>3 DEF Sharers
    <3> QED
      BY <3>1, <2>1, <1>2
  <2> QED
    BY <2>2, <2>3
<1> QED
  BY <1>3, <1>4

\* A going run commits one iteration and is not going any more.
LEMMA BudgetCommits ==
  ASSUME s \in [Runs -> LocalStates], BudgetInv, NEW r \in Runs, NEW l \in LocalStates,
         s' = [s EXCEPT ![r] = l], l.req = s[r].req, Going(s[r]), ~Going(l), s[r].req # None,
         ledger \in [LedgerKeys -> Nat], s[r].req.key \in LedgerKeys \cup {None},
         ledger' = IF s[r].req.key = None THEN ledger ELSE [ledger EXCEPT ![s[r].req.key] = @ + 1]
  PROVE  BudgetInv'
<1> SUFFICES ASSUME NEW k \in LedgerKeys
             PROVE  /\ ledger'[k] \in Nat
                    /\ Sharers(k)' = {} => ledger'[k] = 0
                    /\ Sharers(k)' # {} =>
                         ledger'[k] + Cardinality(GoingOn(k)') <= Limit + Cardinality(Sharers(k)') - 1
  BY DEF BudgetInv
<1>1. s'[r] = l /\ \A u \in Runs \ {r} : s'[u] = s[u]
  OBVIOUS
<1>2. /\ ledger[k] \in Nat /\ Limit \in Nat
      /\ Sharers(k) = {} => ledger[k] = 0
      /\ Sharers(k) # {} => ledger[k] + Cardinality(GoingOn(k)) <= Limit + Cardinality(Sharers(k)) - 1
  BY TurnFacts DEF BudgetInv
<1>3. Sharers(k)' = Sharers(k)
  BY <1>1 DEF Sharers
<1>4. GoingOn(k)' = GoingOn(k) \ {r}
  BY <1>1, <1>3 DEF GoingOn, Going, Sharers
<1>5. CASE s[r].req.key = k
  <2>1. r \in GoingOn(k) /\ r \in Sharers(k)
    BY <1>5 DEF GoingOn, Sharers
  <2>2. Cardinality(GoingOn(k)') = Cardinality(GoingOn(k)) - 1
    BY <2>1, <1>4, SharersFacts, FS_RemoveElement
  <2>3. ledger'[k] = ledger[k] + 1
    BY <1>5, TurnFacts
  <2> QED
    BY <2>1, <2>2, <2>3, <1>2, <1>3, SharersFacts
<1>6. CASE s[r].req.key # k
  <2>1. r \notin GoingOn(k)
    BY <1>6 DEF GoingOn, Sharers
  <2>2. GoingOn(k)' = GoingOn(k) /\ ledger'[k] = ledger[k]
    BY <2>1, <1>4, <1>6
  <2> QED
    BY <2>2, <1>2, <1>3
<1> QED
  BY <1>5, <1>6

-----------------------------------------------------------------------------
\* The permission gate counts what it allowed and names what it denied first;
\* if it denied nothing, everything the turn asks for is permitted.
LEMMA SummaryFacts ==
  ASSUME NEW q, SealedRequest(q)
  PROVE  /\ DecisionSummary(q) \in [allowed : Nat, denied : SUBSET DenialKinds]
         /\ q.permissions # None /\ DecisionSummary(q).denied = {} =>
              /\ q.position \in DOMAIN q.permissions
              /\ \A ask \in Range(Asks(q)) : Permits(q.permissions[q.position], ask)
<1> DEFINE asks == Asks(q)
           entry == q.permissions[q.position]
           refused == {i \in DOMAIN asks : ~Permits(entry, asks[i])}
           first == {i \in refused : \A j \in refused : i <= j}
           decided == {i \in DOMAIN asks : \A j \in refused : i < j}
           AskSet == [kind : {"context", "authority"}, what : Seq(STRING) \cup STRING]
<1>1. asks \in Seq(AskSet)
  <2> DEFINE c == [i \in DOMAIN q.reads |-> [kind |-> "context", what |-> q.reads[i]]]
             a == [i \in DOMAIN q.tools |-> [kind |-> "authority", what |-> q.tools[i]]]
  <2>1. q.reads \in Seq(Seq(STRING)) /\ q.tools \in Seq(STRING)
    BY DEF SealedRequest
  <2>2. c \in Seq(AskSet) /\ a \in Seq(AskSet)
    <3>1. /\ DOMAIN q.reads = 1..Len(q.reads) /\ Len(q.reads) \in Nat
          /\ DOMAIN q.tools = 1..Len(q.tools) /\ Len(q.tools) \in Nat
      BY <2>1
    <3>2. \A i \in 1..Len(q.reads) : [kind |-> "context", what |-> q.reads[i]] \in AskSet
      BY <2>1
    <3>3. \A i \in 1..Len(q.tools) : [kind |-> "authority", what |-> q.tools[i]] \in AskSet
      BY <2>1
    <3>4. c \in [1..Len(q.reads) -> AskSet] /\ a \in [1..Len(q.tools) -> AskSet]
      BY <3>1, <3>2, <3>3
    <3> HIDE DEF c, a, AskSet
    <3> QED
      BY <3>1, <3>4
  <2> HIDE DEF c, a, AskSet
  <2>3. c \o a \in Seq(AskSet)
    BY <2>2, ConcatProperties
  <2> QED
    BY <2>3 DEF Asks, c, a
<1>2. /\ DOMAIN asks = 1..Len(asks) /\ Len(asks) \in Nat
      /\ \A i \in DOMAIN asks : asks[i].kind \in {"context", "authority"}
  <2> HIDE DEF asks, AskSet
  <2>1. /\ DOMAIN asks = 1..Len(asks) /\ Len(asks) \in Nat
        /\ \A i \in 1..Len(asks) : asks[i] \in AskSet
    BY <1>1, LenProperties, ElementOfSeq
  <2>2. \A a \in AskSet : a.kind \in {"context", "authority"}
    BY DEF AskSet
  <2> QED
    BY <2>1, <2>2
<1> HIDE DEF asks
<1>3. Cardinality(decided) \in Nat
  <2>1. decided \subseteq 1..Len(asks) /\ IsFiniteSet(1..Len(asks))
    BY <1>2, FS_Interval
  <2> HIDE DEF decided
  <2> QED
    BY <2>1, FS_Subset, FS_CardinalityType
<1>4. {asks[i].kind : i \in first} \subseteq DenialKinds
  BY <1>2 DEF DenialKinds
<1>5. {asks[i].kind : i \in first} = {} => refused = {}
  <2> SUFFICES ASSUME refused # {} PROVE first # {}
    OBVIOUS
  <2>1. refused \subseteq Nat
    BY <1>2
  <2> HIDE DEF refused
  <2> QED
    BY <2>1, LeastNat
<1>6. CASE q.permissions = None
  BY <1>6 DEF DecisionSummary, DenialKinds
<1>7. CASE q.permissions # None /\ q.position \notin DOMAIN q.permissions
  BY <1>7 DEF DecisionSummary, DenialKinds
<1>8. CASE q.permissions # None /\ q.position \in DOMAIN q.permissions
  <2> DEFINE kinds == {asks[i].kind : i \in first}
  <2>1. DecisionSummary(q) = [allowed |-> Cardinality(decided), denied |-> kinds]
    BY <1>8 DEF DecisionSummary, asks
  <2>5. kinds \subseteq DenialKinds /\ (kinds = {} => refused = {})
    BY <1>4, <1>5
  <2> HIDE DEF decided, refused, kinds
  <2>2. DecisionSummary(q) \in [allowed : Nat, denied : SUBSET DenialKinds]
    BY <2>1, <2>5, <1>3
  <2>3. DecisionSummary(q).denied = {} => refused = {}
    BY <2>1, <2>5
  <2>4. refused = {} => \A ask \in Range(Asks(q)) : Permits(q.permissions[q.position], ask)
    BY DEF refused, Range, asks
  <2> QED
    BY <2>2, <2>3, <2>4, <1>8
<1> QED
  BY <1>6, <1>7, <1>8

\* A run that moves, the task states being those of turns on record.
LEMMA StepOfRun ==
  ASSUME TurnInv, NEW r \in Runs, NEW l, s' = [s EXCEPT ![r] = l],
         UNCHANGED <<evidence, ledger, now>>, RunOK(r, l),
         taskState' \subseteq Turns,
         \A v \in taskState' : evidence[v] # None /\ evidence[v].status = "completed",
         \/ l.req = s[r].req
         \/ s[r].req = None /\ ~Going(l) /\ ~Going(s[r]),
         Going(l) /\ l.req # None /\ l.req.key \in LedgerKeys
           => Going(s[r]) \/ ledger[l.req.key] < Limit
  PROVE  TurnInv'
<1>1. l \in LocalStates
  BY DEF RunOK
<1>2. BudgetInv'
  BY <1>1, BudgetMoves DEF TurnInv
<1>3. s' \in [Runs -> LocalStates] /\ s'[r] = l /\ \A u \in Runs \ {r} : s'[u] = s[u]
  BY <1>1 DEF TurnInv
<1>4. \A u \in Runs : RunOK(u, s'[u])
  BY <1>3 DEF TurnInv
<1>5. \A u \in Runs : \A m : RunOK(u, m)' <=> RunOK(u, m)
  BY DEF RunOK, Recorded
<1>6. \A u \in Runs : RunOK(u, s[u])'
  BY <1>3, <1>4, <1>5
<1> QED
  BY <1>2, <1>3, <1>6 DEF TurnInv, RecordOK, ConformantRecord

\* A run that moves with everything but its own state unchanged.
LEMMA LocalStep ==
  ASSUME TurnInv, NEW r \in Runs, NEW l, s' = [s EXCEPT ![r] = l],
         UNCHANGED <<evidence, ledger, taskState, now>>, RunOK(r, l),
         \/ l.req = s[r].req
         \/ s[r].req = None /\ ~Going(l) /\ ~Going(s[r]),
         Going(l) /\ l.req # None /\ l.req.key \in LedgerKeys
           => Going(s[r]) \/ ledger[l.req.key] < Limit
  PROVE  TurnInv'
<1>1. /\ taskState' \subseteq Turns
      /\ \A v \in taskState' : evidence[v] # None /\ evidence[v].status = "completed"
  BY DEF TurnInv
<1> QED
  BY <1>1, StepOfRun

\* What the invariant says of a run under way.
LEMMA RunFacts ==
  ASSUME TurnInv, NEW r \in Runs
  PROVE  /\ s \in [Runs -> LocalStates] /\ s[r] \in LocalStates /\ RunOK(r, s[r]) /\ now \in Nat
         /\ s[r].pc \in Begun \cup Writing \cup {"terminal"} =>
              /\ s[r].req \in Requests[r] /\ SealedRequest(s[r].req) /\ s[r].req # None
              /\ s[r].terminal = None
              /\ s[r].consumed => Granted(s[r]) /\ Permitted(s[r].req)
         /\ s[r].pc \in Begun \cup Writing =>
              /\ s[r].startedAt # None /\ s[r].startedAt <= now
              /\ s[r].iterations <= s[r].req.maxIterations
         /\ s[r].pc \in Begun => s[r].started /\ DecisionSummary(s[r].req).denied = {}
         /\ s[r].pc = "new" => s[r] = Fresh /\ s[r].req = None /\ ~s[r].consumed /\ s[r].terminal = None
<1>1. s \in [Runs -> LocalStates] /\ s[r] \in LocalStates /\ RunOK(r, s[r]) /\ now \in Nat
  BY DEF TurnInv
<1>2. s[r].pc \in Begun \cup Writing \cup {"terminal"} => s[r].req \in Requests[r] /\ s[r].pc # "exited"
  BY <1>1 DEF RunOK, Begun, Looping, Writing
<1>3. s[r].pc = "new" => s[r] = Fresh /\ s[r].req = None /\ ~s[r].consumed /\ s[r].terminal = None
  BY <1>1 DEF RunOK, Fresh
<1>4. s[r].pc \in Begun \cup Writing => s[r].iterations <= s[r].req.maxIterations
  <2>1. s[r].pc \in Begun \cup Writing => Counted(s[r]) /\ s[r].req.maxIterations \in Nat
    BY <1>1, <1>2, TurnFacts DEF RunOK, SealedRequest
  <2>2. s[r].attempt \in Nat /\ s[r].iterations \in Nat
    BY <1>1 DEF LocalStates
  <2> QED
    BY <2>1, <2>2 DEF Counted, Begun, Looping, Writing
<1>5. s[r].pc \in Begun => s[r].started /\ DecisionSummary(s[r].req).denied = {}
  BY <1>1 DEF RunOK, Permitted
<1> QED
  BY <1>1, <1>2, <1>3, <1>4, <1>5, TurnFacts DEF RunOK

\* The turn begins with nothing done.
LEMMA TurnInitInv == TurnInit => TurnInv
<1> SUFFICES ASSUME TurnInit PROVE TurnInv
  OBVIOUS
<1>1. Fresh \in LocalStates
  BY EmptySeq DEF Fresh, LocalStates, Pcs, Refs
<1>2. \A r \in Runs : s[r] = Fresh
  BY DEF TurnInit
<1>3. \A r \in Runs : RunOK(r, Fresh)
  <2>1. /\ Fresh.pc = "new" /\ Fresh.terminal = None /\ ~Fresh.consumed
    BY DEF Fresh
  <2> QED
    BY <1>1, <2>1, CodeFacts DEF RunOK, Counted, Begun, Looping, Writing
<1>4. BudgetInv
  <2>1. \A k : Sharers(k) = {}
    BY <1>2 DEF Sharers, Fresh
  <2> QED
    BY <2>1 DEF BudgetInv, TurnInit
<1>5. /\ s \in [Runs -> LocalStates] /\ evidence \in [Turns -> TurnRecords \cup {None}]
      /\ ledger \in [LedgerKeys -> Nat] /\ taskState \subseteq Turns /\ now \in Nat
  <2> HIDE DEF Fresh
  <2> QED
    BY <1>1 DEF TurnInit
<1> QED
  BY <1>2, <1>3, <1>4, <1>5 DEF TurnInv, TurnInit
-----------------------------------------------------------------------------
\* A run under way ends without a word in the evidence, or after it.
LEMMA TerminateStep ==
  ASSUME TurnInv, NEW r \in Runs, s[r].pc \in Begun \cup Writing, NEW code \in Codes,
         code \in Governed \cup {"goal_met"} => Recorded(r, code, s[r].refs),
         code = "goal_met" => s[r].started,
         s' = [s EXCEPT ![r] = Terminates(s[r], code)],
         UNCHANGED <<evidence, ledger, taskState, now>>
  PROVE  TurnInv'
<1> DEFINE t == Terminates(s[r], code)
<1>1. RunOK(r, t)
  BY RunFacts, TerminatesOK
<1>2. t.req = s[r].req /\ t.pc = "terminal"
  BY RunFacts, TerminatesFacts
<1> HIDE DEF t
<1>3. ~Going(t)
  BY <1>2 DEF Going
<1>4. s' = [s EXCEPT ![r] = t]
  BY DEF t
<1> QED
  BY <1>1, <1>2, <1>3, <1>4, LocalStep

\* A run under way goes to the evidence sink; l is what it has learnt just now.
LEMMA RecordStep ==
  ASSUME TurnInv, NEW r \in Runs, s[r].pc \in Begun \cup Writing, NEW l \in LocalStates,
         l.req = s[r].req, l.terminal = s[r].terminal, l.started = s[r].started,
         l.startedAt = s[r].startedAt, l.iterations = s[r].iterations,
         l.consumed => Granted(l) /\ Permitted(l.req),
         NEW code \in RecordCodes, NEW onFail \in {"fail", "throw", "swallow"},
         onFail = "swallow" => code \in {"cancelled", "internal_error"},
         code # "permission_denied", DecisionSummary(l.req).denied = {},
         code = "goal_met" => l.started,
         s' = [s EXCEPT ![r] = Records(l, code, onFail)],
         UNCHANGED <<evidence, ledger, taskState, now>>
  PROVE  TurnInv'
<1> DEFINE t == Records(l, code, onFail)
<1>1. RunOK(r, t)
  BY RunFacts, RecordsOK
<1>2. t.req = s[r].req /\ t.pc = "evidence"
  BY CodeFacts, RecordsFacts
<1> HIDE DEF t
<1>3. ~Going(t)
  BY <1>2 DEF Going
<1>4. s' = [s EXCEPT ![r] = t]
  BY DEF t
<1> QED
  BY <1>1, <1>2, <1>3, <1>4, LocalStep

\* The same where the run has learnt nothing new.
LEMMA PlainRecordStep ==
  ASSUME TurnInv, NEW r \in Runs,
         s[r].pc \in Begun \cup Writing, DecisionSummary(s[r].req).denied = {},
         NEW code \in RecordCodes, NEW onFail \in {"fail", "throw", "swallow"},
         onFail = "swallow" => code \in {"cancelled", "internal_error"},
         code # "permission_denied", code = "goal_met" => s[r].started,
         s' = [s EXCEPT ![r] = Records(s[r], code, onFail)],
         UNCHANGED <<evidence, ledger, taskState, now>>
  PROVE  TurnInv'
BY RunFacts, RecordStep

\* A process that cannot begin the turn.
LEMMA SpawnFailsInv ==
  ASSUME TurnInv, NEW r \in Runs, SpawnFails(r)
  PROVE  TurnInv'
<1> DEFINE t == [Fresh EXCEPT !.pc = "exited", !.exit = 1]
<1>1. s[r] = Fresh /\ Fresh \in LocalStates
  BY RunFacts DEF SpawnFails
<1>2. t \in LocalStates /\ t.pc = "exited" /\ t.terminal = None /\ ~t.consumed /\ t.req = None
  BY <1>1 DEF LocalStates, Pcs, Fresh
<1>3. s' = [s EXCEPT ![r] = t]
  BY <1>1, RunFacts DEF SpawnFails
<1> HIDE DEF t
<1>4. RunOK(r, t)
  BY <1>2, CodeFacts DEF RunOK, Counted, Begun, Looping, Writing
<1>5. ~Going(t) /\ s[r].req = None
  BY <1>1, <1>2 DEF Going, Fresh
<1> QED
  BY <1>2, <1>3, <1>4, <1>5, LocalStep DEF SpawnFails, Local

\* The permission gate lets through what it permits, and records a denial.
LEMMA PermissionGateInv ==
  ASSUME TurnInv, NEW r \in Runs, PermissionGate(r)
  PROVE  TurnInv'
<1>1. PICK q \in Requests[r] :
        s' = [s EXCEPT ![r] =
              IF q.permissions # None /\ ~ValidArtifact(q.permissions)
                THEN Terminates([s[r] EXCEPT !.req = q, !.startedAt = now], "permissions_invalid")
              ELSE IF DecisionSummary(q).denied # {}
                THEN Records([s[r] EXCEPT !.req = q, !.startedAt = now], "permission_denied", "fail")
              ELSE [[s[r] EXCEPT !.req = q, !.startedAt = now] EXCEPT !.pc = "prepare", !.started = TRUE]]
  BY DEF PermissionGate
<1> DEFINE l == [s[r] EXCEPT !.req = q, !.startedAt = now]
<1>2. s[r] = Fresh /\ Fresh \in LocalStates /\ now \in Nat /\ None \notin Nat
  BY RunFacts, TurnFacts DEF PermissionGate
<1>3. SealedRequest(q) /\ q.maxIterations \in Nat /\ q \in AllRequests
  BY TurnFacts DEF SealedRequest
<1>4. /\ l \in LocalStates /\ l.req = q /\ l.startedAt = now /\ ~l.consumed
      /\ l.terminal = None /\ l.iterations = 0 /\ l.started = FALSE
  <2>1. l \in LocalStates
    BY <1>2, <1>3 DEF LocalStates
  <2>2. /\ l.req = q /\ l.startedAt = now /\ l.consumed = s[r].consumed
        /\ l.terminal = s[r].terminal /\ l.iterations = s[r].iterations /\ l.started = s[r].started
    BY <1>2 DEF LocalStates
  <2> HIDE DEF l
  <2> QED
    BY <2>1, <2>2, <1>2 DEF Fresh
<1>5. s[r].req = None /\ ~Going(s[r])
  BY <1>2 DEF Going, Fresh
<1>l. Local
  BY DEF PermissionGate
<1> HIDE DEF l
<1>6. CASE q.permissions # None /\ ~ValidArtifact(q.permissions)
  <2> DEFINE t == Terminates(l, "permissions_invalid")
  <2>1. /\ "permissions_invalid" \in Codes
        /\ "permissions_invalid" \notin Governed \cup {"goal_met"}
    BY DEF Codes, Governed
  <2>2. RunOK(r, t)
    BY <1>4, <2>1, TerminatesOK
  <2>3. t.pc = "terminal"
    BY <1>4, <2>1, TerminatesFacts
  <2>4. s' = [s EXCEPT ![r] = t]
    BY <1>1, <1>6 DEF l
  <2> HIDE DEF t
  <2>5. ~Going(t)
    BY <2>3 DEF Going
  <2> QED
    BY <1>5, <1>l, <2>2, <2>4, <2>5, LocalStep DEF Local
<1>7. CASE ~(q.permissions # None /\ ~ValidArtifact(q.permissions)) /\ DecisionSummary(q).denied # {}
  <2> DEFINE t == Records(l, "permission_denied", "fail")
  <2>1. "permission_denied" \in RecordCodes /\ "permission_denied" \in Codes
    BY DEF RecordCodes, Codes
  <2>2. RunOK(r, t)
    BY <1>2, <1>3, <1>4, <1>7, <2>1, RecordsOK
  <2>3. t.pc = "evidence"
    BY <1>4, <2>1, RecordsFacts
  <2>4. s' = [s EXCEPT ![r] = t]
    BY <1>1, <1>7 DEF l
  <2> HIDE DEF t
  <2>5. ~Going(t)
    BY <2>3 DEF Going
  <2> QED
    BY <1>5, <1>l, <2>2, <2>4, <2>5, LocalStep DEF Local
<1>8. CASE ~(q.permissions # None /\ ~ValidArtifact(q.permissions)) /\ DecisionSummary(q).denied = {}
  <2> DEFINE t == [l EXCEPT !.pc = "prepare", !.started = TRUE]
  <2>1. /\ t \in LocalStates /\ t.pc = "prepare" /\ t.started /\ t.req = q /\ t.startedAt = now
        /\ ~t.consumed /\ t.terminal = None /\ t.iterations = 0
    <3>1. "prepare" \in Pcs
      BY DEF Pcs, Begun
    <3> QED
      BY <1>4, <3>1 DEF LocalStates
  <2>2. s' = [s EXCEPT ![r] = t]
    BY <1>1, <1>7, <1>8 DEF l
  <2> HIDE DEF t
  <2>3. Permitted(t.req)
    BY <1>8, <2>1 DEF Permitted
  <2>4. RunOK(r, t)
    BY <1>2, <2>1, <2>3, CodeFacts DEF RunOK, Counted, Begun, Looping, Writing
  <2>5. ~Going(t)
    BY <2>1 DEF Going
  <2> QED
    BY <1>5, <1>l, <2>2, <2>4, <2>5, LocalStep DEF Local
<1> QED
  BY <1>6, <1>7, <1>8

\* The checks before the approval gate, and the recalls, leave no evidence.
LEMMA PrepareInv ==
  ASSUME TurnInv, NEW r \in Runs, Prepare(r)
  PROVE  TurnInv'
<1> DEFINE q == s[r].req
<1>1. s[r].pc = "prepare" /\ s[r].pc \in Begun \cup Writing
  BY DEF Prepare, Begun
<1>2. /\ "input_invalid" \in Codes /\ "output_schema_invalid" \in Codes
      /\ \A c \in {"input_invalid", "output_schema_invalid", "unavailable", "denied"} :
           c \in Codes /\ c \notin Governed \cup {"goal_met"}
  BY DEF Codes, Governed
<1>3. \A m, x : RecallCode(m, x) # None => RecallCode(m, x) \in {"unavailable", "denied"}
  BY DEF RecallCode
<1>4. PICK m \in RecallResults, c \in RecallResults :
       s' = [s EXCEPT ![r] =
              IF ~ValidTurnRequest(q) THEN Terminates(s[r], "input_invalid")
              ELSE IF q.schema = "bad" THEN Terminates(s[r], "output_schema_invalid")
              ELSE IF RecallCode(q.memory, m) # None
                THEN Terminates(s[r], RecallCode(q.memory, m))
              ELSE IF RecallCode(q.context, c) # None
                THEN Terminates(s[r], RecallCode(q.context, c))
              ELSE [s[r] EXCEPT !.pc = "gate"]]
  BY DEF Prepare
<1>l. UNCHANGED <<evidence, ledger, taskState, now>>
  BY DEF Prepare, Local
<1>5. CASE \E code \in {"input_invalid", "output_schema_invalid", "unavailable", "denied"} :
             s' = [s EXCEPT ![r] = Terminates(s[r], code)]
  BY <1>1, <1>2, <1>5, <1>l, TerminateStep
<1>6. CASE ValidTurnRequest(q) /\ s' = [s EXCEPT ![r] = [s[r] EXCEPT !.pc = "gate"]]
  <2> DEFINE t == [s[r] EXCEPT !.pc = "gate"]
  <2>1. s[r] \in LocalStates /\ RunOK(r, s[r])
    BY RunFacts
  <2>2. /\ t \in LocalStates /\ t.pc = "gate" /\ t.started = s[r].started /\ t.req = q
        /\ t.startedAt = s[r].startedAt /\ t.consumed = s[r].consumed
        /\ t.terminal = s[r].terminal /\ t.iterations = s[r].iterations
    BY <2>1 DEF LocalStates, Pcs, Begun
  <2>3. s' = [s EXCEPT ![r] = t]
    BY <1>6
  <2> HIDE DEF t
  <2>4. /\ s[r].terminal = None /\ q \in Requests[r] /\ s[r].started /\ Permitted(q) /\ s[r].iterations = 0
        /\ s[r].startedAt # None /\ s[r].startedAt <= now /\ ~s[r].consumed
    BY <1>1, <2>1 DEF RunOK, Counted, Begun
  <2>5. RunOK(r, t)
    BY <1>6, <2>2, <2>4, CodeFacts DEF RunOK, Counted, Begun, Looping, Writing, ValidTurnRequest
  <2>6. ~Going(t)
    BY <2>2 DEF Going
  <2> QED
    BY <1>l, <2>2, <2>3, <2>5, <2>6, LocalStep
<1> QED
  BY <1>3, <1>4, <1>5, <1>6

\* The operator's verdicts: the model is reached with all granted in time only.
LEMMA ApprovalGateInv ==
  ASSUME TurnInv, NEW r \in Runs, ApprovalGate(r)
  PROVE  TurnInv'
<1> DEFINE q == s[r].req
           l == [s[r] EXCEPT !.gateAt = now, !.used = IF q.key = None THEN 0 ELSE ledger[q.key]]
           loop == [l EXCEPT !.pc = "top", !.attempt = 1]
           refs(outcome) == [l EXCEPT !.refs = outcome]
           granted == [loop EXCEPT !.refs = "granted"]
<1>1. s[r].pc = "gate" /\ s[r].pc \in Begun
  BY DEF ApprovalGate, Begun
<1>2. /\ s[r] \in LocalStates /\ RunOK(r, s[r]) /\ now \in Nat /\ q \in Requests[r]
      /\ SealedRequest(q) /\ s[r].terminal = None /\ s[r].started /\ DecisionSummary(q).denied = {}
      /\ s[r].startedAt # None /\ s[r].startedAt <= now
  BY <1>1, RunFacts
<1>3. ~s[r].consumed /\ ApprovalFieldsValid(q) /\ Permitted(q) /\ s[r].iterations = 0
  BY <1>1, <1>2 DEF RunOK, Counted
<1>4. (IF q.key = None THEN 0 ELSE ledger[q.key]) \in Nat
  BY <1>2 DEF TurnInv, SealedRequest
<1>5. /\ l \in LocalStates /\ l.req = q /\ l.terminal = s[r].terminal /\ l.started = s[r].started
      /\ l.startedAt = s[r].startedAt /\ l.iterations = s[r].iterations /\ l.consumed = s[r].consumed
      /\ l.gateAt = now /\ l.used = (IF q.key = None THEN 0 ELSE ledger[q.key])
  <2>1. l \in LocalStates
    <3> DEFINE used == IF q.key = None THEN 0 ELSE ledger[q.key]
    <3>1. used \in Nat /\ now \in Nat \cup {None} /\ s[r] \in LocalStates
      BY <1>2, <1>4
    <3>2. l = [s[r] EXCEPT !.gateAt = now, !.used = used]
      OBVIOUS
    <3> HIDE DEF l, used
    <3> QED
      BY <3>1, <3>2 DEF LocalStates
  <2>2. /\ l.req = q /\ l.terminal = s[r].terminal /\ l.started = s[r].started
        /\ l.startedAt = s[r].startedAt /\ l.iterations = s[r].iterations /\ l.consumed = s[r].consumed
        /\ l.gateAt = now /\ l.used = (IF q.key = None THEN 0 ELSE ledger[q.key])
    BY <1>2 DEF LocalStates
  <2> QED
    BY <2>1, <2>2
<1>g. ApprovalGate(r) => 
          s' = [s EXCEPT ![r] =
          CASE q.contextOver -> Records(l, "context_budget_exceeded", "fail")
            [] q.approval = "none" /\ ~q.contextOver -> loop
            [] q.approval = "stale_action" /\ ~q.contextOver ->
                 Records(l, "approval_preview_invalid", "fail")
            [] q.approval = "action" /\ ~q.contextOver ->
                 Records(refs("requested"), "approval_required", "fail")
            [] q.approval \in {"single", "batch"} /\ ~q.contextOver ->
                 IF \E v \in Range(q.verdicts) : VerdictExpired(v)
                 THEN Records(refs("expired"), "approval_expired", "fail")
                 ELSE IF q.verdicts[1].decision = "denied"
                 THEN Records(refs("denied"), "approval_denied", "fail")
                 ELSE granted]
  BY DEF ApprovalGate
<1>l. UNCHANGED <<evidence, ledger, taskState, now>>
  BY DEF ApprovalGate, Local
<1> HIDE DEF l
<1>6. \A x \in {"requested", "expired", "denied"} :
        /\ refs(x) \in LocalStates /\ refs(x).req = q /\ refs(x).terminal = s[r].terminal
        /\ refs(x).started = s[r].started /\ refs(x).startedAt = s[r].startedAt
        /\ refs(x).iterations = s[r].iterations /\ ~refs(x).consumed
  <2> SUFFICES ASSUME NEW x \in {"requested", "expired", "denied"}
      PROVE  /\ refs(x) \in LocalStates /\ refs(x).req = q /\ refs(x).terminal = s[r].terminal
             /\ refs(x).started = s[r].started /\ refs(x).startedAt = s[r].startedAt
             /\ refs(x).iterations = s[r].iterations /\ ~refs(x).consumed
    OBVIOUS
  <2>1. x \in Refs
    BY DEF Refs
  <2>2. refs(x) \in LocalStates
    BY <1>5, <2>1 DEF LocalStates
  <2>3. /\ refs(x).req = l.req /\ refs(x).terminal = l.terminal
        /\ refs(x).started = l.started /\ refs(x).startedAt = l.startedAt
        /\ refs(x).iterations = l.iterations /\ refs(x).consumed = l.consumed
    BY <1>5 DEF LocalStates
  <2> HIDE DEF refs
  <2> QED
    BY <2>2, <2>3, <1>3, <1>5
<1>7. /\ loop \in LocalStates /\ granted \in LocalStates
      /\ \A t \in {loop, granted} :
           /\ t.pc = "top" /\ t.attempt = 1 /\ t.req = q /\ t.terminal = None /\ t.started
           /\ t.startedAt = s[r].startedAt /\ t.iterations = 0 /\ ~t.consumed /\ t.gateAt = now
           /\ t.used = l.used
  <2>1. "granted" \in Refs /\ "top" \in Pcs
    BY DEF Refs, Pcs, Begun, Looping
  <2>2. loop \in LocalStates /\ granted \in LocalStates
    BY <1>5, <2>1 DEF LocalStates
  <2>3. \A t \in {loop, granted} :
           /\ t.pc = "top" /\ t.attempt = 1 /\ t.req = l.req /\ t.terminal = l.terminal
           /\ t.started = l.started /\ t.used = l.used
           /\ t.startedAt = l.startedAt /\ t.iterations = l.iterations
           /\ t.consumed = l.consumed /\ t.gateAt = l.gateAt
    BY <1>5 DEF LocalStates
  <2> HIDE DEF loop, granted
  <2> QED
    BY <2>2, <2>3, <1>2, <1>3, <1>5
<1>8. \A c \in {"context_budget_exceeded", "approval_preview_invalid", "approval_required",
                "approval_expired", "approval_denied"} :
        c \in RecordCodes /\ c # "permission_denied" /\ c # "goal_met"
  BY DEF RecordCodes
<1>9. CASE \E m \in {l, refs("requested"), refs("expired"), refs("denied")},
              c \in {"context_budget_exceeded", "approval_preview_invalid", "approval_required",
                     "approval_expired", "approval_denied"} :
              s' = [s EXCEPT ![r] = Records(m, c, "fail")]
  <2>1. PICK m \in {l, refs("requested"), refs("expired"), refs("denied")},
              c \in {"context_budget_exceeded", "approval_preview_invalid", "approval_required",
                     "approval_expired", "approval_denied"} :
              s' = [s EXCEPT ![r] = Records(m, c, "fail")]
    BY <1>9
  <2>2. /\ m \in LocalStates /\ m.req = q /\ m.terminal = s[r].terminal
        /\ m.started = s[r].started /\ m.startedAt = s[r].startedAt
        /\ m.iterations = s[r].iterations /\ ~m.consumed
    BY <1>3, <1>5, <1>6
  <2> QED
    BY <2>1, <2>2, <1>1, <1>2, <1>8, <1>l, RecordStep
<1>10. CASE /\ s' = [s EXCEPT ![r] = loop] \/ s' = [s EXCEPT ![r] = granted]
            /\ q.approval = "none" \/ /\ q.approval \in {"single", "batch"}
                                      /\ ~ \E v \in Range(q.verdicts) : VerdictExpired(v)
                                      /\ q.verdicts[1].decision # "denied"
  <2>1. PICK t \in {loop, granted} : s' = [s EXCEPT ![r] = t]
    BY <1>10
  <2>2. /\ t \in LocalStates
        /\ t.pc = "top" /\ t.attempt = 1 /\ t.req = q /\ t.terminal = None /\ t.started
        /\ t.startedAt = s[r].startedAt /\ t.iterations = 0 /\ ~t.consumed /\ t.gateAt = now
        /\ t.used = l.used
    BY <1>7
  <2> HIDE DEF loop, granted
  <2>3. Granted(t)
    <3>1. /\ q.verdicts \in Seq(Range(q.verdicts))
          /\ \A v \in Range(q.verdicts) :
               v.decision \in {"granted", "denied"} /\ v.expires \in Nat \cup {None}
      BY <1>2 DEF SealedRequest
    <3>2. /\ DOMAIN q.verdicts = 1..Len(q.verdicts) /\ Len(q.verdicts) \in Nat
          /\ \A i \in DOMAIN q.verdicts : q.verdicts[i] \in Range(q.verdicts)
      BY <3>1, LenProperties DEF Range
    <3>3. CASE q.approval = "none"
      <4>1. DOMAIN q.verdicts = {}
        BY <3>3, <1>3 DEF ApprovalFieldsValid
      <4> QED
        BY <4>1, <3>3, <2>2 DEF Granted
    <3>4. CASE /\ q.approval \in {"single", "batch"}
               /\ ~ \E v \in Range(q.verdicts) : VerdictExpired(v)
               /\ q.verdicts[1].decision # "denied"
      <4>1. \A i \in DOMAIN q.verdicts : q.verdicts[i].decision = q.verdicts[1].decision
        BY <3>2, <3>4, <1>3 DEF ApprovalFieldsValid
      <4>2. \A i \in DOMAIN q.verdicts : q.verdicts[i].decision = "granted"
        BY <3>1, <3>2, <3>4, <4>1
      <4>3. \A i \in DOMAIN q.verdicts : q.verdicts[i].expires # None => now <= q.verdicts[i].expires
        BY <3>1, <3>2, <3>4, <1>2 DEF VerdictExpired
      <4> QED
        BY <4>2, <4>3, <3>4, <2>2 DEF Granted
    <3> QED
      BY <1>10, <3>3, <3>4
  <2>4. RunOK(r, t)
    <3>1. q.maxIterations \in Nat
      BY <1>2 DEF SealedRequest
    <3> QED
      BY <2>2, <2>3, <3>1, <1>2, <1>3, CodeFacts DEF RunOK, Counted, Begun, Looping, Writing
  <2>5. Going(t) /\ t.req # None /\ t.req.key \in LedgerKeys => ledger[t.req.key] < Limit
    BY <2>2, <1>5, TurnFacts DEF Going
  <2> QED
    BY <2>1, <2>2, <2>4, <2>5, <1>l, LocalStep
<1>11. q.approval \in {"none", "action", "stale_action", "single", "batch"}
  BY <1>2 DEF SealedRequest
<1> HIDE DEF refs, loop, granted, q
<1> QED
  BY <1>g, <1>9, <1>10, <1>11 DEF ApprovalGate

\* The head of the loop: one more model call needs room in the budget last read.
LEMMA LoopTopInv ==
  ASSUME TurnInv, NEW r \in Runs, LoopTop(r)
  PROVE  TurnInv'
<1> DEFINE q == s[r].req
           t == [s[r] EXCEPT !.pc = "model", !.consumed = TRUE]
<1>1. s[r].pc = "top" /\ s[r].pc \in Begun
  BY DEF LoopTop, Begun, Looping
<1>2. /\ s[r] \in LocalStates /\ RunOK(r, s[r]) /\ q \in Requests[r] /\ SealedRequest(q)
      /\ q # None /\ s[r].terminal = None /\ s[r].started
      /\ s[r].startedAt # None /\ s[r].startedAt <= now /\ Permitted(q) /\ Granted(s[r])
      /\ s[r].attempt >= 1 /\ s[r].iterations = s[r].attempt - 1
      /\ s[r].attempt \in Nat /\ q.maxIterations \in Nat
  BY <1>1, RunFacts DEF RunOK, Looping, Counted, Begun, LocalStates, SealedRequest
<1>3. PICK halted \in BOOLEAN :
       s' = [s EXCEPT ![r] =
         CASE s[r].attempt > q.maxIterations /\ q.schema = "none" ->
                Records(s[r], "iteration_cap", "fail")
           [] s[r].attempt > q.maxIterations /\ q.schema # "none" ->
                Records(s[r], "output_invalid", "throw")
           [] s[r].attempt <= q.maxIterations /\ halted ->
                Records(s[r], "cancelled", "swallow")
           [] s[r].attempt <= q.maxIterations /\ ~halted ->
                IF q.deadline # None /\ now > q.deadline
                THEN Records(s[r], "deadline_exceeded", "fail")
                ELSE IF q.key # None /\ PositionExceeded(s[r].used, 1)
                THEN Records(s[r], "position_budget_exceeded", "fail")
                ELSE t]
  BY DEF LoopTop
<1>l. UNCHANGED <<evidence, ledger, taskState, now>>
  BY DEF LoopTop, Local
<1>4. \A c \in {"iteration_cap", "output_invalid", "cancelled", "deadline_exceeded",
                "position_budget_exceeded"} : c \in RecordCodes /\ c # "permission_denied"
  BY DEF RecordCodes
<1>5. CASE \E c \in {"iteration_cap", "output_invalid", "cancelled", "deadline_exceeded",
                     "position_budget_exceeded"}, onFail \in {"fail", "throw", "swallow"} :
             /\ onFail = "swallow" => c = "cancelled"
             /\ s' = [s EXCEPT ![r] = Records(s[r], c, onFail)]
  <2>1. PICK c \in {"iteration_cap", "output_invalid", "cancelled", "deadline_exceeded",
                     "position_budget_exceeded"}, onFail \in {"fail", "throw", "swallow"} :
             /\ onFail = "swallow" => c = "cancelled"
             /\ s' = [s EXCEPT ![r] = Records(s[r], c, onFail)]
    BY <1>5
  <2>2. c \in RecordCodes /\ c # "permission_denied" /\ c # "goal_met"
    BY <1>4
  <2>3. s[r].pc \in Begun \cup Writing /\ DecisionSummary(s[r].req).denied = {}
    BY <1>1, RunFacts
  <2> QED
    BY <2>1, <2>2, <2>3, <1>l, PlainRecordStep
<1>6. CASE /\ s' = [s EXCEPT ![r] = t] /\ s[r].attempt <= q.maxIterations
           /\ q.key # None => ~PositionExceeded(s[r].used, 1)
  <2>1. /\ t \in LocalStates /\ t.pc = "model" /\ t.started = s[r].started /\ t.req = q
        /\ t.startedAt = s[r].startedAt /\ t.consumed /\ t.attempt = s[r].attempt
        /\ t.terminal = s[r].terminal /\ t.iterations = s[r].iterations /\ t.gateAt = s[r].gateAt
    <3>1. "model" \in Pcs
      BY DEF Pcs, Begun, Looping
    <3> QED
      BY <1>2, <3>1 DEF LocalStates
  <2>2. s' = [s EXCEPT ![r] = t]
    BY <1>6
  <2> HIDE DEF t
  <2>3. Granted(t)
    BY <2>1, <1>2, GrantedSame
  <2>4. RunOK(r, t)
    BY <1>2, <1>6, <2>1, <2>3, CodeFacts DEF RunOK, Counted, Begun, Looping, Writing
  <2>5. q.key \in LedgerKeys => s[r].used < Limit
    BY <1>2, <1>6, TurnFacts DEF PositionExceeded, LocalStates
  <2>6. Going(t) /\ t.req # None /\ t.req.key \in LedgerKeys => Going(s[r])
    BY <1>1, <2>1, <2>5 DEF Going
  <2> QED
    BY <1>l, <2>1, <2>2, <2>4, <2>6, LocalStep
<1> HIDE DEF t
<1>7. CASE s[r].attempt > q.maxIterations
  <2>1. ~(s[r].attempt <= q.maxIterations)
    BY <1>2, <1>7
  <2>2. \/ s' = [s EXCEPT ![r] = Records(s[r], "iteration_cap", "fail")]
        \/ s' = [s EXCEPT ![r] = Records(s[r], "output_invalid", "throw")]
    BY <2>1, <1>3, <1>7
  <2> QED
    BY <2>2, <1>5
<1>8. CASE s[r].attempt <= q.maxIterations
  <2>1. ~(s[r].attempt > q.maxIterations)
    BY <1>2, <1>8
  <2>2. CASE halted
    <3>1. s' = [s EXCEPT ![r] = Records(s[r], "cancelled", "swallow")]
      BY <2>1, <2>2, <1>3, <1>8
    <3> QED
      BY <3>1, <1>5
  <2>3. CASE ~halted
    <3>1. \/ s' = [s EXCEPT ![r] = Records(s[r], "deadline_exceeded", "fail")]
          \/ s' = [s EXCEPT ![r] = Records(s[r], "position_budget_exceeded", "fail")]
          \/ /\ s' = [s EXCEPT ![r] = t]
             /\ q.key # None => ~PositionExceeded(s[r].used, 1)
      BY <2>1, <2>3, <1>3, <1>8
    <3> QED
      BY <3>1, <1>5, <1>6, <1>8
  <2> QED
    BY <2>2, <2>3
<1> QED
  BY <1>2, <1>7, <1>8

\* What the doom loop looks at stays a sequence of answers.
LEMMA ObservedType ==
  ASSUME NEW h \in Seq(Texts), NEW text \in Texts
  PROVE  Observed(h, text) \in Seq(Texts)
<1>1. Append(h, text) \in Seq(Texts) /\ Append(h, text) # <<>>
  BY AppendProperties
<1> QED
  BY <1>1, HeadTailProperties DEF Observed

\* The model answers or throws.
LEMMA ModelAnswersInv ==
  ASSUME TurnInv, NEW r \in Runs, ModelAnswers(r)
  PROVE  TurnInv'
<1>1. s[r].pc = "model" /\ s[r].pc \in Begun
  BY DEF ModelAnswers, Begun, Looping
<1>2. /\ s[r] \in LocalStates /\ RunOK(r, s[r]) /\ s[r].terminal = None /\ s[r].started
      /\ s[r].req \in Requests[r] /\ s[r].attempt \in Nat
      /\ s[r].startedAt # None /\ s[r].startedAt <= now /\ Permitted(s[r].req) /\ Granted(s[r])
      /\ s[r].attempt >= 1 /\ s[r].iterations = s[r].attempt - 1
      /\ s[r].attempt <= s[r].req.maxIterations
  BY <1>1, RunFacts DEF RunOK, Looping, Counted, Begun, LocalStates
<1>l. UNCHANGED <<evidence, ledger, taskState, now>>
  BY DEF ModelAnswers, Local
<1>3. CASE s' = [s EXCEPT ![r] = Records(s[r], "internal_error", "swallow")]
  <2>1. "internal_error" \in RecordCodes
    BY DEF RecordCodes
  <2> QED
    BY <2>1, <1>1, <1>3, <1>l, RunFacts, PlainRecordStep
<1>4. CASE \E text \in Texts :
             s' = [s EXCEPT ![r].pc = "commit", ![r].iterations = @ + 1,
                            ![r].history = Observed(s[r].history, text)]
  <2>1. PICK text \in Texts :
             s' = [s EXCEPT ![r].pc = "commit", ![r].iterations = @ + 1,
                            ![r].history = Observed(s[r].history, text)]
    BY <1>4
  <2> DEFINE h == Observed(s[r].history, text)
             n == s[r].iterations + 1
             t == [s[r] EXCEPT !.pc = "commit", !.iterations = n, !.history = h]
  <2>2. h \in Seq(Texts)
    BY <1>2, ObservedType DEF LocalStates
  <2>3. s' = [s EXCEPT ![r] = t]
    BY <2>1, RunFacts
  <2>n. n \in Nat
    BY <1>2
  <2> HIDE DEF h, n
  <2>4. t \in LocalStates
    <3>1. "commit" \in Pcs /\ s[r] \in LocalStates
      BY <1>2 DEF Pcs, Begun, Looping
    <3> QED
      BY <2>2, <2>n, <3>1 DEF LocalStates
  <2>5. /\ t.pc = "commit" /\ t.started = s[r].started /\ t.req = s[r].req
        /\ t.startedAt = s[r].startedAt /\ t.consumed = s[r].consumed /\ t.attempt = s[r].attempt
        /\ t.terminal = s[r].terminal /\ t.iterations = s[r].iterations + 1
        /\ t.gateAt = s[r].gateAt
    BY <1>2 DEF LocalStates, n
  <2> HIDE DEF t
  <2>6. Granted(t)
    BY <2>5, <1>2, GrantedSame
  <2>7. RunOK(r, t)
    BY <1>2, <2>4, <2>5, <2>6, CodeFacts DEF RunOK, Counted, Begun, Looping, Writing
  <2>8. Going(s[r])
    BY <1>1 DEF Going
  <2> QED
    BY <1>l, <2>3, <2>5, <2>7, <2>8, LocalStep
<1> QED
  BY <1>3, <1>4 DEF ModelAnswers

\* The iteration is committed to the shared ledger.
LEMMA CommitUsageInv ==
  ASSUME TurnInv, NEW r \in Runs, CommitUsage(r)
  PROVE  TurnInv'
<1> DEFINE t == [s[r] EXCEPT !.pc = "check"]
<1>1. s[r].pc = "commit" /\ s[r].pc \in Begun /\ Going(s[r])
  BY DEF CommitUsage, Begun, Looping, Going
<1>2. /\ s \in [Runs -> LocalStates] /\ s[r] \in LocalStates /\ RunOK(r, s[r])
      /\ s[r].terminal = None /\ s[r].started
      /\ s[r].req \in Requests[r] /\ s[r].attempt \in Nat /\ s[r].req # None
      /\ s[r].req.key \in LedgerKeys \cup {None}
      /\ s[r].startedAt # None /\ s[r].startedAt <= now /\ Permitted(s[r].req) /\ Granted(s[r])
      /\ s[r].attempt >= 1 /\ s[r].iterations = s[r].attempt
      /\ s[r].attempt <= s[r].req.maxIterations
  BY <1>1, RunFacts DEF RunOK, Looping, Counted, Begun, LocalStates, SealedRequest
<1>3. /\ t \in LocalStates /\ t.pc = "check" /\ t.started = s[r].started /\ t.req = s[r].req
      /\ t.startedAt = s[r].startedAt /\ t.consumed = s[r].consumed /\ t.attempt = s[r].attempt
      /\ t.terminal = s[r].terminal /\ t.iterations = s[r].iterations /\ t.gateAt = s[r].gateAt
  <2>1. "check" \in Pcs /\ s[r] \in LocalStates
    BY <1>2 DEF Pcs, Begun, Looping
  <2> QED
    BY <2>1 DEF LocalStates
<1>4. /\ s' = [s EXCEPT ![r] = t]
      /\ ledger' = IF s[r].req.key = None THEN ledger ELSE [ledger EXCEPT ![s[r].req.key] = @ + 1]
      /\ UNCHANGED <<evidence, taskState, now>>
  BY RunFacts DEF CommitUsage
<1> HIDE DEF t
<1>5. Granted(t)
  BY <1>2, <1>3, GrantedSame
<1>6. RunOK(r, t)
  BY <1>2, <1>3, <1>5, CodeFacts DEF RunOK, Counted, Begun, Looping, Writing
<1>7. BudgetInv'
  <2>1. ~Going(t)
    BY <1>3 DEF Going
  <2> QED
    BY <2>1, <1>1, <1>2, <1>3, <1>4, BudgetCommits DEF TurnInv
<1>8. ledger' \in [LedgerKeys -> Nat]
  BY <1>2, <1>4 DEF TurnInv
<1>9. s' \in [Runs -> LocalStates] /\ s'[r] = t /\ \A u \in Runs \ {r} : s'[u] = s[u]
  BY <1>2, <1>3, <1>4
<1>10. \A u \in Runs : \A m : RunOK(u, m)' <=> RunOK(u, m)
  BY <1>4 DEF RunOK, Recorded
<1>11. \A u \in Runs : RunOK(u, s[u])'
  BY <1>6, <1>9, <1>10 DEF TurnInv
<1> QED
  BY <1>4, <1>7, <1>8, <1>9, <1>11 DEF TurnInv, RecordOK, ConformantRecord

\* After the answer: the usage read anew decides whether the run goes on.
LEMMA CheckAnswerInv ==
  ASSUME TurnInv, NEW r \in Runs, CheckAnswer(r)
  PROVE  TurnInv'
<1> DEFINE q == s[r].req
           l == [s[r] EXCEPT !.used = IF q.key = None THEN 0 ELSE ledger[q.key]]
           n == l.attempt + 1
           t == [l EXCEPT !.pc = "top", !.attempt = n]
<1>1. s[r].pc = "check" /\ s[r].pc \in Begun
  BY DEF CheckAnswer, Begun, Looping
<1>2. /\ s[r] \in LocalStates /\ RunOK(r, s[r]) /\ s[r].terminal = None /\ s[r].started
      /\ q \in Requests[r] /\ SealedRequest(q) /\ q # None /\ s[r].attempt \in Nat
      /\ s[r].startedAt # None /\ s[r].startedAt <= now /\ Permitted(q) /\ Granted(s[r])
      /\ s[r].attempt >= 1 /\ s[r].iterations = s[r].attempt
      /\ s[r].attempt <= q.maxIterations /\ DecisionSummary(q).denied = {}
      /\ q.maxIterations \in Nat
  BY <1>1, RunFacts DEF RunOK, Looping, Counted, Begun, LocalStates, SealedRequest
<1>3. (IF q.key = None THEN 0 ELSE ledger[q.key]) \in Nat
  BY <1>2 DEF TurnInv, SealedRequest
<1>4. l \in LocalStates
  BY <1>2, <1>3 DEF LocalStates
<1>5. /\ l.req = q /\ l.terminal = None /\ l.started /\ l.attempt = s[r].attempt
      /\ l.startedAt = s[r].startedAt /\ l.iterations = s[r].iterations
      /\ l.consumed = s[r].consumed /\ l.gateAt = s[r].gateAt
      /\ l.used = (IF q.key = None THEN 0 ELSE ledger[q.key])
  BY <1>2 DEF LocalStates
<1>6. /\ \/ s' = [s EXCEPT ![r] = Records(l, "position_budget_exceeded", "fail")]
         \/ s' = [s EXCEPT ![r] = Records(l, "turn_budget_exceeded", "fail")]
         \/ s' = [s EXCEPT ![r] = Records(l, "doom_loop", "fail")]
         \/ s' = [s EXCEPT ![r] = Records(l, "goal_met", "throw")]
         \/ s' = [s EXCEPT ![r] = t]
      /\ UNCHANGED <<evidence, ledger, taskState, now>>
  BY DEF CheckAnswer, Local
<1> HIDE DEF l
<1>7. Granted(l)
  BY <1>2, <1>5, GrantedSame
<1>8. CASE \E c \in {"position_budget_exceeded", "turn_budget_exceeded", "doom_loop", "goal_met"},
              onFail \in {"fail", "throw"} : s' = [s EXCEPT ![r] = Records(l, c, onFail)]
  <2>1. \A c \in {"position_budget_exceeded", "turn_budget_exceeded", "doom_loop", "goal_met"} :
          c \in RecordCodes /\ c # "permission_denied"
    BY DEF RecordCodes
  <2>2. PICK c \in {"position_budget_exceeded", "turn_budget_exceeded", "doom_loop", "goal_met"},
              onFail \in {"fail", "throw"} : s' = [s EXCEPT ![r] = Records(l, c, onFail)]
    BY <1>8
  <2>3. /\ c \in RecordCodes /\ c # "permission_denied" /\ onFail \in {"fail", "throw", "swallow"}
        /\ onFail # "swallow" /\ l.terminal = s[r].terminal /\ l.started = s[r].started
    BY <2>1, <1>2, <1>5
  <2> QED
    BY <2>2, <2>3, <1>1, <1>2, <1>4, <1>5, <1>6, <1>7, RecordStep
<1>9. CASE s' = [s EXCEPT ![r] = t]
  <2>n. n \in Nat
    BY <1>2, <1>5
  <2> HIDE DEF n
  <2>1. t \in LocalStates
    BY <1>4, <2>n DEF LocalStates, Pcs, Begun, Looping
  <2>2. /\ t.pc = "top" /\ t.req = l.req /\ t.terminal = l.terminal /\ t.started = l.started
        /\ t.attempt = l.attempt + 1 /\ t.startedAt = l.startedAt /\ t.iterations = l.iterations
        /\ t.consumed = l.consumed /\ t.gateAt = l.gateAt /\ t.used = l.used
    BY <1>4 DEF LocalStates, n
  <2>3. s' = [s EXCEPT ![r] = t]
    BY <1>9
  <2> HIDE DEF t
  <2>4. Granted(t)
    BY <1>7, <2>2, GrantedSame
  <2>5. RunOK(r, t)
    BY <1>2, <1>5, <2>1, <2>2, <2>4, CodeFacts DEF RunOK, Counted, Begun, Looping, Writing
  <2>6. Going(t) /\ t.req # None /\ t.req.key \in LedgerKeys => ledger[t.req.key] < Limit
    BY <2>2, <1>5, TurnFacts DEF Going
  <2> QED
    BY <1>5, <1>6, <2>2, <2>3, <2>5, <2>6, LocalStep
<1> QED
  BY <1>6, <1>8, <1>9

-----------------------------------------------------------------------------
\* What a run carries to the evidence sink.
LEMMA WritingFacts ==
  ASSUME TurnInv, NEW r \in Runs, s[r].pc \in Writing
  PROVE  /\ s \in [Runs -> LocalStates] /\ s[r] \in LocalStates /\ RunOK(r, s[r])
         /\ Recordable(s[r]) /\ s[r].code \in RecordCodes /\ s[r].code \in Codes
         /\ s[r].onFail \in {"fail", "throw", "swallow"}
         /\ s[r].req \in Requests[r] /\ SealedRequest(s[r].req) /\ s[r].terminal = None
         /\ s[r].startedAt \in Nat /\ s[r].startedAt <= now /\ now \in Nat
         /\ s[r].iterations \in Nat /\ s[r].iterations <= s[r].req.maxIterations
         /\ s[r].consumed => Granted(s[r]) /\ Permitted(s[r].req)
         /\ s[r].refs \in Refs
<1>1. /\ s \in [Runs -> LocalStates] /\ s[r] \in LocalStates /\ RunOK(r, s[r]) /\ now \in Nat
      /\ s[r].req \in Requests[r] /\ SealedRequest(s[r].req) /\ s[r].terminal = None
      /\ s[r].startedAt # None /\ s[r].startedAt <= now /\ s[r].iterations <= s[r].req.maxIterations
      /\ s[r].consumed => Granted(s[r]) /\ Permitted(s[r].req)
  BY RunFacts
<1>2. Recordable(s[r]) /\ s[r].code \in RecordCodes /\ s[r].code \in Codes
  BY <1>1, CodeFacts DEF RunOK, Recordable
<1>3. /\ s[r].onFail \in {"fail", "throw", "swallow"} /\ s[r].startedAt \in Nat \cup {None}
      /\ s[r].iterations \in Nat /\ s[r].refs \in Refs
  BY <1>1 DEF LocalStates
<1> QED
  BY <1>1, <1>2, <1>3

\* Where a failed write leads: nothing governed ends with its own code unrecorded.
LEMMA WriteFailsInv ==
  ASSUME TurnInv, NEW r \in Runs, s[r].pc \in Writing,
         s' = [s EXCEPT ![r] = WriteFails(s[r])],
         UNCHANGED <<evidence, ledger, taskState, now>>
  PROVE  TurnInv'
<1>1. s[r].pc \in Begun \cup Writing
  OBVIOUS
<1>2. /\ "internal_error" \in RecordCodes /\ "internal_error" \in Codes
      /\ \A c \in {"cancelled", "internal_error"} : c \notin Governed \cup {"goal_met"}
  BY DEF RecordCodes, Codes, Governed
<1>3. CASE s[r].onFail = "fail"
  <2>1. s' = [s EXCEPT ![r] = Terminates(s[r], "internal_error")]
    BY <1>3 DEF WriteFails
  <2> QED
    BY <2>1, <1>1, <1>2, TerminateStep
<1>4. CASE s[r].onFail = "throw"
  <2>1. s' = [s EXCEPT ![r] = Records(s[r], "internal_error", "swallow")]
    BY <1>4 DEF WriteFails
  <2>2. DecisionSummary(s[r].req).denied = {}
    BY <1>4, WritingFacts DEF Recordable
  <2> QED
    BY <2>1, <2>2, <1>1, <1>2, PlainRecordStep
<1>5. CASE s[r].onFail = "swallow"
  <2>1. s' = [s EXCEPT ![r] = Terminates(s[r], s[r].code)]
    BY <1>5 DEF WriteFails
  <2>2. s[r].code \in {"cancelled", "internal_error"}
    BY <1>5, WritingFacts DEF Recordable
  <2> QED
    BY <2>1, <2>2, <1>1, <1>2, WritingFacts, TerminateStep
<1> QED
  BY <1>3, <1>4, <1>5, WritingFacts

\* The look at the target, and the failure of any file operation.
LEMMA EvidenceChecksInv ==
  ASSUME TurnInv, NEW r \in Runs, EvidenceChecks(r) \/ EvidenceIOError(r)
  PROVE  TurnInv'
<1> DEFINE t == [s[r] EXCEPT !.pc = "link"]
<1>1. /\ s[r].pc \in Writing
      /\ \/ s' = [s EXCEPT ![r] = WriteFails(s[r])]
         \/ s' = [s EXCEPT ![r] = t]
      /\ UNCHANGED <<evidence, ledger, taskState, now>>
  BY DEF EvidenceChecks, EvidenceIOError, Local, Writing
<1>2. CASE s' = [s EXCEPT ![r] = WriteFails(s[r])]
  BY <1>1, <1>2, WriteFailsInv
<1>3. CASE s' = [s EXCEPT ![r] = t]
  <2>1. s[r] \in LocalStates
    BY <1>1, WritingFacts
  <2>2. /\ t \in LocalStates /\ t.pc = "link" /\ t.req = s[r].req /\ t.code = s[r].code
        /\ t.onFail = s[r].onFail /\ t.started = s[r].started /\ t.startedAt = s[r].startedAt
        /\ t.iterations = s[r].iterations /\ t.consumed = s[r].consumed
        /\ t.gateAt = s[r].gateAt /\ t.terminal = s[r].terminal
    BY <2>1 DEF LocalStates, Pcs, Writing
  <2>3. s' = [s EXCEPT ![r] = t]
    BY <1>3
  <2> HIDE DEF t
  <2>4. t.consumed => Granted(t) /\ Permitted(t.req)
    BY <1>1, <2>2, GrantedSame, WritingFacts
  <2>5. Recordable(t)
    BY SMTT(20), <1>1, <2>2, WritingFacts DEF Recordable
  <2>6. t.startedAt # None
    BY <1>1, <2>2, WritingFacts, TurnFacts
  <2>7. RunOK(r, t)
    BY <1>1, <2>2, <2>4, <2>5, <2>6, WritingFacts, CodeFacts
       DEF RunOK, Counted, Begun, Looping, Writing
  <2>8. ~Going(t)
    BY <2>2 DEF Going
  <2> QED
    BY <1>1, <2>2, <2>3, <2>7, <2>8, LocalStep
<1> QED
  BY <1>1, <1>2, <1>3

\* The terminal reason of a code that can be recorded is a known one.
LEMMA ReasonFacts ==
  ASSUME NEW code \in RecordCodes
  PROVE  ReasonOf(code) \in TerminalReasons
BY DEF RecordCodes, ReasonOf, TerminalReasons

\* The record a run writes is one the engine's own conformance check accepts.
LEMMA RecordOfOK ==
  ASSUME TurnInv, NEW r \in Runs, s[r].pc \in Writing
  PROVE  /\ RecordOK(RecordOf(r))
         /\ RecordOf(r).run = r /\ RecordOf(r).code = s[r].code /\ RecordOf(r).refs = s[r].refs
         /\ s[r].code = "goal_met" => RecordOf(r).status = "completed"
<1> DEFINE summary == DecisionSummary(s[r].req)
           reason == ReasonOf(s[r].code)
           status == IF s[r].code = "goal_met" THEN "completed" ELSE "failed"
           max == s[r].req.maxIterations
           rec == [run |-> r, code |-> s[r].code, refs |-> s[r].refs, reason |-> reason,
                   status |-> status, iterations |-> s[r].iterations, maxIterations |-> max,
                   permissions |-> summary, startedAt |-> s[r].startedAt, completedAt |-> now]
<1>1. summary \in [allowed : Nat, denied : SUBSET DenialKinds]
  BY WritingFacts, SummaryFacts
<1>2. reason \in TerminalReasons
  BY WritingFacts, ReasonFacts
<1>3. status \in {"completed", "failed"} /\ (s[r].code = "goal_met" => status = "completed")
  OBVIOUS
<1>4. max \in Nat
  BY WritingFacts DEF SealedRequest
<1>5. s[r].code = "permission_denied" <=> summary.denied # {}
  BY WritingFacts DEF Recordable
<1> HIDE DEF summary, reason, status, max
<1>6. rec \in TurnRecords
  BY <1>1, <1>2, <1>3, <1>4, WritingFacts DEF TurnRecords
<1>7. summary.denied \subseteq DenialKinds
  BY <1>1
<1>8. ConformantRecord(rec)
  BY <1>2, <1>3, <1>7, WritingFacts DEF ConformantRecord, max
<1>9. RecordOf(r) = rec
  BY DEF RecordOf, summary, reason, status, max
<1>10. RecordOK(rec)
  BY <1>5, <1>6, <1>8 DEF RecordOK
<1> QED
  BY <1>3, <1>9, <1>10

\* The link creates the file or finds it there; what is there stays.
LEMMA EvidenceLinkInv ==
  ASSUME TurnInv, NEW r \in Runs, EvidenceLink(r)
  PROVE  TurnInv'
<1> DEFINE turn == TurnOf[r]
<1>0. PICK t : t = Terminates(s[r], s[r].code)
  OBVIOUS
<1>1. s[r].pc \in Writing /\ turn \in Turns
  BY TurnFacts DEF EvidenceLink, Writing
<1>2. CASE evidence[turn] # None
  <2>1. s' = [s EXCEPT ![r] = WriteFails(s[r])] /\ UNCHANGED <<evidence, ledger, taskState, now>>
    BY <1>2 DEF EvidenceLink
  <2> QED
    BY <2>1, <1>1, WriteFailsInv
<1>3. CASE evidence[turn] = None
  <2>1. /\ evidence' = [evidence EXCEPT ![turn] = RecordOf(r)] /\ s' = [s EXCEPT ![r] = t]
        /\ UNCHANGED <<ledger, taskState, now>>
    BY <1>0, <1>3 DEF EvidenceLink
  <2>2. /\ t \in LocalStates /\ t.pc = "terminal" /\ t.code = s[r].code
        /\ t.req = s[r].req /\ t.refs = s[r].refs /\ t.started = s[r].started
        /\ t.consumed = s[r].consumed /\ t.gateAt = s[r].gateAt /\ t.terminal = s[r].terminal
    BY <1>0, <1>1, WritingFacts, TerminatesFacts
  <2>3. /\ RecordOK(RecordOf(r)) /\ RecordOf(r) \in TurnRecords /\ RecordOf(r) # None
        /\ RecordOf(r).run = r /\ RecordOf(r).code = s[r].code /\ RecordOf(r).refs = s[r].refs
        /\ s[r].code = "goal_met" => RecordOf(r).status = "completed"
    BY <1>1, RecordOfOK, TurnFacts DEF RecordOK
  <2>4. /\ evidence'[turn] = RecordOf(r)
        /\ \A v \in Turns \ {turn} : evidence'[v] = evidence[v]
        /\ evidence' \in [Turns -> TurnRecords \cup {None}]
    BY <2>1, <2>3, <1>1 DEF TurnInv
  <2>5. s \in [Runs -> LocalStates] /\ s' \in [Runs -> LocalStates] /\ s'[r] = t
        /\ \A u \in Runs \ {r} : s'[u] = s[u]
    BY <2>1, <2>2 DEF TurnInv
  <2>6. \A u \in Runs : \A code, refs : Recorded(u, code, refs) => Recorded(u, code, refs)'
    <3> SUFFICES ASSUME NEW u \in Runs, NEW code, NEW refs, Recorded(u, code, refs)
                 PROVE  Recorded(u, code, refs)'
      OBVIOUS
    <3>1. TurnOf[u] # turn /\ TurnOf[u] \in Turns
      BY <1>3, TurnFacts DEF Recorded
    <3>2. evidence'[TurnOf[u]] = evidence[TurnOf[u]]
      BY <3>1, <2>4
    <3> QED
      BY <3>2 DEF Recorded
  <2>7. \A u \in Runs : \A m : RunOK(u, m) => RunOK(u, m)'
    BY <2>1, <2>6 DEF RunOK
  <2>8. RunOK(r, t)'
    <3>1. Recorded(r, t.code, t.refs)'
      BY <2>2, <2>3, <2>4 DEF Recorded
    <3>2. t.consumed => Granted(t) /\ Permitted(t.req)
      BY <1>1, <2>2, GrantedSame, WritingFacts
    <3>3. t.code = "goal_met" => t.started
      BY <1>1, <2>2, WritingFacts DEF Recordable
    <3>4. t.terminal = None /\ t.req \in Requests[r] /\ t.code \in Codes
      BY <1>1, <2>2, WritingFacts
    <3> QED
      BY <2>2, <3>1, <3>2, <3>3, <3>4, CodeFacts DEF RunOK, Counted, Begun, Looping, Writing
  <2>9. \A u \in Runs : RunOK(u, s[u])'
    BY <2>5, <2>7, <2>8 DEF TurnInv
  <2>10. \A v \in Turns : evidence'[v] # None => RecordOK(evidence'[v])
    BY <2>3, <2>4 DEF TurnInv
  <2>11. \A v \in taskState : v # turn /\ v \in Turns
    BY <1>3 DEF TurnInv
  <2>12. \A v \in taskState' : evidence'[v] # None /\ evidence'[v].status = "completed"
    BY <2>1, <2>4, <2>11 DEF TurnInv
  <2>13. BudgetInv'
    <3>1. ~Going(t)
      BY <2>2 DEF Going
    <3> QED
      BY <2>1, <2>2, <3>1, BudgetMoves DEF TurnInv
  <2>14. \A e : RecordOK(e)' <=> RecordOK(e)
    BY DEF RecordOK, ConformantRecord
  <2> QED
    BY <2>1, <2>4, <2>5, <2>9, <2>10, <2>12, <2>13, <2>14 DEF TurnInv
<1> QED
  BY <1>2, <1>3

\* The terminal event is printed, after the task state where there is one.
LEMMA EmitTerminalInv ==
  ASSUME TurnInv, NEW r \in Runs, EmitTerminal(r)
  PROVE  TurnInv'
<1>1. /\ s[r].pc = "terminal" /\ s[r].pc \in Begun \cup Writing \cup {"terminal"}
      /\ UNCHANGED <<evidence, ledger, now>>
  BY DEF EmitTerminal
<1>2. /\ s[r] \in LocalStates /\ RunOK(r, s[r]) /\ s[r].terminal = None /\ s[r].req \in Requests[r]
      /\ s[r].code \in Codes
      /\ s[r].code \in Governed \cup {"goal_met"} => Recorded(r, s[r].code, s[r].refs)
  BY <1>1, RunFacts DEF RunOK
<1>3. s[r].consumed => Granted(s[r]) /\ Permitted(s[r].req)
  BY <1>1, RunFacts
<1>4. PICK exit \in {0, 1}, terminal \in {None, s[r].code} :
        /\ s' = [s EXCEPT ![r].pc = "exited", ![r].exit = exit, ![r].terminal = terminal]
        /\ \/ taskState' = taskState
           \/ s[r].code = "goal_met" /\ taskState' = taskState \cup {TurnOf[r]}
  <2>1. CASE s' = [s EXCEPT ![r].pc = "exited", ![r].exit = 0, ![r].terminal = s[r].code]
    BY <2>1 DEF EmitTerminal
  <2>2. CASE s' = [s EXCEPT ![r].pc = "exited", ![r].exit = 1] /\ UNCHANGED taskState
    <3>1. ASSUME NEW l \in LocalStates, l.terminal = None
          PROVE  [l EXCEPT !.pc = "exited", !.exit = 1]
                   = [l EXCEPT !.pc = "exited", !.exit = 1, !.terminal = None]
      BY <3>1 DEF LocalStates
    <3>2. s' = [s EXCEPT ![r] = [s[r] EXCEPT !.pc = "exited", !.exit = 1]]
      BY <2>2
    <3>3. s' = [s EXCEPT ![r] = [s[r] EXCEPT !.pc = "exited", !.exit = 1, !.terminal = None]]
      BY <1>2, <3>1, <3>2
    <3> QED
      BY <2>2, <3>3
  <2> QED
    BY <2>1, <2>2 DEF EmitTerminal
<1> DEFINE t == [s[r] EXCEPT !.pc = "exited", !.exit = exit, !.terminal = terminal]
<1>5. t \in LocalStates
  <2>1. terminal \in Codes \cup {None} /\ exit \in {0, 1, None} /\ "exited" \in Pcs
    BY <1>2 DEF Pcs
  <2>2. \A l \in LocalStates : [l EXCEPT !.pc = "exited"] \in LocalStates
    BY <2>1 DEF LocalStates
  <2>3. \A l \in LocalStates : [l EXCEPT !.exit = exit] \in LocalStates
    BY <2>1 DEF LocalStates
  <2>4. \A l \in LocalStates : [l EXCEPT !.terminal = terminal] \in LocalStates
    BY <2>1 DEF LocalStates
  <2> QED
    BY <1>2, <2>2, <2>3, <2>4
<1>6. /\ t.pc = "exited" /\ t.terminal = terminal /\ t.req = s[r].req /\ t.refs = s[r].refs
      /\ t.consumed = s[r].consumed /\ t.gateAt = s[r].gateAt
  BY <1>2 DEF LocalStates
<1>7. s' = [s EXCEPT ![r] = t]
  BY <1>4, RunFacts
<1> HIDE DEF t
<1>8. t.consumed => Granted(t) /\ Permitted(t.req)
  BY <1>3, <1>6, GrantedSame
<1>9. RunOK(r, t)
  <2>1. terminal \in Governed \cup {"goal_met"} => Recorded(r, terminal, t.refs)
    BY <1>2, <1>6, CodeFacts
  <2> QED
    BY <1>2, <1>5, <1>6, <1>8, <2>1 DEF RunOK, Counted, Begun, Looping, Writing
<1>10. ~Going(t)
  BY <1>6 DEF Going
<1>11. /\ taskState' \subseteq Turns
       /\ \A v \in taskState' : evidence[v] # None /\ evidence[v].status = "completed"
  BY <1>2, <1>4, TurnFacts DEF TurnInv, Recorded
<1> QED
  BY <1>1, <1>6, <1>7, <1>9, <1>10, <1>11, StepOfRun

\* The process of a run dies.
LEMMA CrashInv ==
  ASSUME TurnInv, NEW r \in Runs, Crash(r)
  PROVE  TurnInv'
<1> DEFINE t == [s[r] EXCEPT !.pc = "dead"]
<1>1. s[r] \in LocalStates /\ RunOK(r, s[r]) /\ s[r].pc \notin {"new", "exited", "dead"}
  BY RunFacts DEF Crash
<1>2. s[r].pc \in Begun \cup Writing \cup {"terminal"}
  BY <1>1 DEF LocalStates, Pcs
<1>3. /\ t \in LocalStates /\ t.pc = "dead" /\ t.req = s[r].req /\ t.consumed = s[r].consumed
      /\ t.gateAt = s[r].gateAt /\ t.terminal = s[r].terminal
  BY <1>1 DEF LocalStates, Pcs
<1>4. s' = [s EXCEPT ![r] = t] /\ UNCHANGED <<evidence, ledger, taskState, now>>
  BY RunFacts DEF Crash
<1> HIDE DEF t
<1>5. t.terminal = None
  BY <1>2, <1>3, RunFacts
<1>6. t.consumed => Granted(t) /\ Permitted(t.req) /\ t.req \in Requests[r]
  BY <1>2, <1>3, GrantedSame, RunFacts
<1>7. RunOK(r, t)
  BY <1>3, <1>5, <1>6, CodeFacts DEF RunOK, Counted, Begun, Looping, Writing
<1>8. ~Going(t)
  BY <1>3 DEF Going
<1> QED
  BY <1>3, <1>4, <1>7, <1>8, LocalStep

\* Time passes for all runs alike.
LEMMA ClockTicksInv ==
  ASSUME TurnInv, ClockTicks
  PROVE  TurnInv'
<1>1. now \in Nat /\ now' = now + 1 /\ UNCHANGED <<s, evidence, ledger, taskState>>
  BY DEF TurnInv, ClockTicks
<1>2. ASSUME NEW r \in Runs PROVE RunOK(r, s[r])'
  <2>1. RunOK(r, s[r]) /\ s[r].startedAt \in Nat \cup {None}
    BY DEF TurnInv, LocalStates
  <2>2. s[r].startedAt # None /\ s[r].startedAt <= now => s[r].startedAt <= now'
    BY <1>1, <2>1
  <2>3. \A code, refs : Recorded(r, code, refs)' <=> Recorded(r, code, refs)
    BY <1>1 DEF Recorded
  <2> QED
    BY <1>1, <2>1, <2>2, <2>3 DEF RunOK
<1>3. BudgetInv'
  BY <1>1 DEF TurnInv, BudgetInv, Sharers, GoingOn
<1> QED
  BY <1>1, <1>2, <1>3 DEF TurnInv, RecordOK, ConformantRecord

\* Every step keeps the invariant.
LEMMA TurnNextInv == TurnInv /\ [TurnNext]_turnVars => TurnInv'
<1> SUFFICES ASSUME TurnInv, [TurnNext]_turnVars PROVE TurnInv'
  OBVIOUS
<1>1. ASSUME NEW r \in Runs, RunStep(r) PROVE TurnInv'
  BY <1>1, SpawnFailsInv, PermissionGateInv, PrepareInv, ApprovalGateInv, LoopTopInv,
     ModelAnswersInv, CommitUsageInv, CheckAnswerInv, EvidenceChecksInv, EvidenceLinkInv,
     EmitTerminalInv DEF RunStep
<1>2. CASE UNCHANGED turnVars
  <2>1. UNCHANGED <<s, evidence, ledger, taskState, now>>
    BY <1>2 DEF turnVars
  <2>2. \A u \in Runs : \A m : RunOK(u, m)' <=> RunOK(u, m)
    BY <2>1 DEF RunOK, Recorded
  <2> QED
    BY <2>1, <2>2 DEF TurnInv, BudgetInv, Sharers, GoingOn, RecordOK, ConformantRecord
<1> QED
  BY <1>1, <1>2, CrashInv, ClockTicksInv DEF TurnNext

\* The inductive invariant holds in every reachable state.
LEMMA TurnAlways == TurnSpec => []TurnInv
BY TurnInitInv, TurnNextInv, PTL DEF TurnSpec

\* The invariant says what is promised of a turn.
LEMMA TurnInvGoverned == TurnInv => TurnGoverned
<1> SUFFICES ASSUME TurnInv PROVE TurnGoverned
  OBVIOUS
<1>1. \A r \in Runs : RunOK(r, s[r])
  BY DEF TurnInv
<1>2. CompletedIsRecorded
  BY <1>1 DEF CompletedIsRecorded, RunOK, Recorded, TurnInv
<1>3. GovernedStopRecorded
  BY <1>1 DEF GovernedStopRecorded, RunOK, Recorded
<1>4. NoModelWithoutVerdict
  BY <1>1 DEF NoModelWithoutVerdict, RunOK, Granted
<1>5. NoModelWithoutPermission
  <2>1. ASSUME NEW r \in Runs, s[r].consumed, s[r].req.permissions # None
        PROVE  LET q == s[r].req IN
               /\ ValidArtifact(q.permissions) /\ q.position \in DOMAIN q.permissions
               /\ \A ask \in Range(Asks(q)) : Permits(q.permissions[q.position], ask)
    <3>1. Permitted(s[r].req) /\ s[r].req \in Requests[r]
      BY <1>1, <2>1 DEF RunOK
    <3>2. SealedRequest(s[r].req)
      BY <3>1, TurnFacts
    <3> QED
      BY <2>1, <3>1, <3>2, SummaryFacts DEF Permitted
  <2>2. \A v \in Turns : evidence[v] # None =>
          (evidence[v].permissions.denied # {} <=> evidence[v].code = "permission_denied")
    BY DEF TurnInv, RecordOK
  <2> QED
    BY <2>1, <2>2 DEF NoModelWithoutPermission
<1>6. RecordsConform
  BY DEF RecordsConform, TurnInv, RecordOK
<1>7. BudgetOvershoot
  <2>1. \A k \in LedgerKeys : Sharers(k) # {} => ledger[k] <= Limit + Cardinality(Sharers(k)) - 1
    BY SharersFacts, TurnFacts DEF TurnInv, BudgetInv
  <2> QED
    BY <2>1 DEF BudgetOvershoot, Sharers
<1> QED
  BY <1>2, <1>3, <1>4, <1>5, <1>6, <1>7 DEF TurnGoverned

\* However many runs of however many turns are under way, crash or share a
\* budget: what a turn prints, records, spends and asks permission for stays
\* together (turn-executor.ts).
THEOREM TurnStaysGoverned == TurnSpec => []TurnGoverned
BY TurnAlways, TurnInvGoverned, PTL

-----------------------------------------------------------------------------
(***************************************************************************)
(* The executor implements the contract.                                   *)
(***************************************************************************)
Phase(l) == IF l.terminal # None THEN "ended" ELSE IF l.started THEN "started" ELSE "new"
Outcome(l) == IF l.terminal = None THEN None
              ELSE IF l.terminal = "goal_met" THEN "completed" ELSE "failed"
Noted(e) == IF e = None THEN None ELSE [run |-> e.run, status |-> e.status]
phases == [r \in Runs |-> Phase(s[r])]
outcomes == [r \in Runs |-> Outcome(s[r])]
notes == [t \in Turns |-> Noted(evidence[t])]

\* A run that stops keeps what the contract sees of it.
LEMMA StopsQuietly ==
  ASSUME NEW l \in LocalStates, NEW code, NEW onFail
  PROVE  /\ Terminates(l, code).terminal = l.terminal /\ Terminates(l, code).started = l.started
         /\ Records(l, code, onFail).terminal = l.terminal
         /\ Records(l, code, onFail).started = l.started
<1>1. "terminal" \in DOMAIN l /\ "started" \in DOMAIN l
  BY DEF LocalStates
<1> QED
  BY <1>1 DEF Terminates, Records, Settled

\* Outside run.started, the evidence file and the terminal event, the contract
\* sees nothing happen.
LEMMA QuietStep ==
  ASSUME s \in [Runs -> LocalStates], NEW r \in Runs, NEW t, s' = [s EXCEPT ![r] = t],
         t.terminal = s[r].terminal, t.started = s[r].started, UNCHANGED evidence
  PROVE  UNCHANGED <<phases, outcomes, notes>>
<1>1. \A u \in Runs : s'[u].terminal = s[u].terminal /\ s'[u].started = s[u].started
  OBVIOUS
<1>2. \A u \in Runs : Phase(s'[u]) = Phase(s[u]) /\ Outcome(s'[u]) = Outcome(s[u])
  BY <1>1 DEF Phase, Outcome
<1> QED
  BY <1>2 DEF phases, outcomes, notes

\* The steps of a run the contract does not see.
LEMMA QuietRunStep ==
  ASSUME TurnInv, NEW r \in Runs,
         \/ SpawnFails(r) \/ Prepare(r) \/ ApprovalGate(r) \/ LoopTop(r) \/ ModelAnswers(r)
         \/ CommitUsage(r) \/ CheckAnswer(r) \/ EvidenceChecks(r) \/ EvidenceIOError(r) \/ Crash(r)
  PROVE  UNCHANGED <<phases, outcomes, notes>>
<1>1. s \in [Runs -> LocalStates] /\ s[r] \in LocalStates
  BY RunFacts
<1>2. "terminal" \in DOMAIN s[r] /\ "started" \in DOMAIN s[r]
  BY <1>1 DEF LocalStates
<1> DEFINE Silent(t) == t.terminal = s[r].terminal /\ t.started = s[r].started
<1>3. \A l \in LocalStates : \A code, onFail :
        Silent(l) => Silent(Terminates(l, code)) /\ Silent(Records(l, code, onFail))
  BY StopsQuietly
<1>4. Silent(WriteFails(s[r]))
  <2>1. s[r].onFail \in {"fail", "throw", "swallow"}
    BY <1>1 DEF LocalStates
  <2> QED
    BY <2>1, <1>1, <1>3 DEF WriteFails
<1>5. \E t : s' = [s EXCEPT ![r] = t] /\ Silent(t)
  <2>1. CASE SpawnFails(r)
    <3> DEFINE t == [s[r] EXCEPT !.pc = "exited", !.exit = 1]
    <3>1. s' = [s EXCEPT ![r] = t] /\ Silent(t)
      BY <1>1, <1>2, <2>1 DEF SpawnFails
    <3> QED
      BY <3>1
  <2>2. CASE Prepare(r)
    <3>1. Silent([s[r] EXCEPT !.pc = "gate"]) /\ Silent(s[r])
      BY <1>2
    <3> HIDE DEF Silent
    <3> QED
      BY <1>1, <1>3, <3>1, <2>2 DEF Prepare
  <2>3. CASE ApprovalGate(r)
    <3> DEFINE q == s[r].req
               use == IF q.key = None THEN 0 ELSE ledger[q.key]
               l == [s[r] EXCEPT !.gateAt = now, !.used = use]
    <3>1. l \in LocalStates
      <4>1. s[r].req \in Requests[r] /\ SealedRequest(s[r].req) /\ now \in Nat
        BY <2>3, RunFacts DEF ApprovalGate, Begun
      <4>2. use \in Nat
        BY <4>1 DEF TurnInv, SealedRequest
      <4> HIDE DEF use
      <4> QED
        BY <1>1, <4>1, <4>2 DEF LocalStates
    <3>2. Silent(l) /\ "terminal" \in DOMAIN l /\ "started" \in DOMAIN l
      BY <1>2
    <3>3. \/ s' = [s EXCEPT ![r] = Records(l, "context_budget_exceeded", "fail")]
          \/ s' = [s EXCEPT ![r] = [l EXCEPT !.pc = "top", !.attempt = 1]]
          \/ s' = [s EXCEPT ![r] = Records(l, "approval_preview_invalid", "fail")]
          \/ s' = [s EXCEPT ![r] = Records([l EXCEPT !.refs = "requested"], "approval_required", "fail")]
          \/ s' = [s EXCEPT ![r] = Records([l EXCEPT !.refs = "expired"], "approval_expired", "fail")]
          \/ s' = [s EXCEPT ![r] = Records([l EXCEPT !.refs = "denied"], "approval_denied", "fail")]
          \/ s' = [s EXCEPT ![r] = [[l EXCEPT !.pc = "top", !.attempt = 1] EXCEPT !.refs = "granted"]]
      <4>1. q.approval \in {"none", "action", "stale_action", "single", "batch"}
        BY <2>3, RunFacts DEF ApprovalGate, Begun, SealedRequest
      <4> HIDE DEF use
      <4> QED
        BY <2>3, <4>1 DEF ApprovalGate, use
    <3> HIDE DEF l
    <3>4. \A x \in Refs : [l EXCEPT !.refs = x] \in LocalStates /\ Silent([l EXCEPT !.refs = x])
      <4>1. \A x \in Refs : [l EXCEPT !.refs = x] \in LocalStates
        BY <3>1 DEF LocalStates
      <4>2. \A x \in Refs : Silent([l EXCEPT !.refs = x])
        BY <3>2
      <4> QED
        BY <4>1, <4>2
    <3>5. /\ Silent([l EXCEPT !.pc = "top", !.attempt = 1])
          /\ Silent([[l EXCEPT !.pc = "top", !.attempt = 1] EXCEPT !.refs = "granted"])
      BY <3>2
    <3>6. "requested" \in Refs /\ "expired" \in Refs /\ "denied" \in Refs
      BY DEF Refs
    <3> HIDE DEF Silent
    <3> QED
      BY <1>3, <3>1, <3>2, <3>3, <3>4, <3>5, <3>6
  <2>4. CASE LoopTop(r)
    <3>1. Silent([s[r] EXCEPT !.pc = "model", !.consumed = TRUE]) /\ Silent(s[r])
      BY <1>2
    <3>2. \/ \E code, onFail : s' = [s EXCEPT ![r] = Records(s[r], code, onFail)]
          \/ s' = [s EXCEPT ![r] = [s[r] EXCEPT !.pc = "model", !.consumed = TRUE]]
      <4>1. s[r].attempt \in Nat /\ s[r].req.maxIterations \in Nat
        BY <1>1, <2>4, RunFacts DEF LoopTop, Begun, Looping, SealedRequest, LocalStates
      <4>2. \/ s[r].attempt > s[r].req.maxIterations /\ ~(s[r].attempt <= s[r].req.maxIterations)
            \/ s[r].attempt <= s[r].req.maxIterations /\ ~(s[r].attempt > s[r].req.maxIterations)
        BY <4>1
      <4> QED
        BY <2>4, <4>2 DEF LoopTop
    <3> HIDE DEF Silent
    <3> QED
      BY <1>1, <1>3, <3>1, <3>2
  <2>5. CASE ModelAnswers(r)
    <3>1. \/ \E n, h : s' = [s EXCEPT ![r].pc = "commit", ![r].iterations = n, ![r].history = h]
          \/ s' = [s EXCEPT ![r] = Records(s[r], "internal_error", "swallow")]
      BY <2>5 DEF ModelAnswers
    <3>2. ASSUME NEW n, NEW h,
                 s' = [s EXCEPT ![r].pc = "commit", ![r].iterations = n, ![r].history = h]
          PROVE  \E t : s' = [s EXCEPT ![r] = t] /\ Silent(t)
      <4> DEFINE t == [s[r] EXCEPT !.pc = "commit", !.iterations = n, !.history = h]
      <4>1. s' = [s EXCEPT ![r] = t] /\ Silent(t)
        BY <1>1, <1>2, <3>2
      <4> QED
        BY <4>1
    <3>3. Silent(s[r])
      OBVIOUS
    <3>4. Silent(Records(s[r], "internal_error", "swallow"))
      BY <1>1, <1>3, <3>3
    <3> HIDE DEF Silent
    <3>5. CASE s' = [s EXCEPT ![r] = Records(s[r], "internal_error", "swallow")]
      BY <3>4, <3>5
    <3> QED
      BY <3>1, <3>2, <3>5
  <2>6. CASE CommitUsage(r) \/ Crash(r)
    <3>1. PICK pc : s' = [s EXCEPT ![r].pc = pc]
      BY <2>6 DEF CommitUsage, Crash
    <3> DEFINE t == [s[r] EXCEPT !.pc = pc]
    <3>2. s' = [s EXCEPT ![r] = t] /\ Silent(t)
      BY <1>1, <1>2, <3>1
    <3> QED
      BY <3>2
  <2>7. CASE CheckAnswer(r)
    <3> DEFINE q == s[r].req
               use == IF q.key = None THEN 0 ELSE ledger[q.key]
               l == [s[r] EXCEPT !.used = use]
    <3>1. l \in LocalStates
      <4>1. s[r].req \in Requests[r] /\ SealedRequest(s[r].req)
        BY <2>7, RunFacts DEF CheckAnswer, Begun, Looping
      <4>2. use \in Nat
        BY <4>1 DEF TurnInv, SealedRequest
      <4> HIDE DEF use
      <4> QED
        BY <1>1, <4>2 DEF LocalStates
    <3>2. Silent(l) /\ "terminal" \in DOMAIN l /\ "started" \in DOMAIN l
      BY <1>2
    <3>3. \/ \E code, onFail : s' = [s EXCEPT ![r] = Records(l, code, onFail)]
          \/ s' = [s EXCEPT ![r] = [l EXCEPT !.pc = "top", !.attempt = @ + 1]]
      BY <2>7 DEF CheckAnswer
    <3> HIDE DEF l
    <3>4. Silent([l EXCEPT !.pc = "top", !.attempt = @ + 1])
      BY <3>2
    <3> HIDE DEF Silent
    <3> QED
      BY <1>3, <3>1, <3>2, <3>3, <3>4
  <2>8. CASE EvidenceChecks(r) \/ EvidenceIOError(r)
    <3>1. Silent([s[r] EXCEPT !.pc = "link"])
      BY <1>2
    <3> HIDE DEF Silent
    <3> QED
      BY <1>4, <2>8, <3>1 DEF EvidenceChecks, EvidenceIOError
  <2> QED
    BY <2>1, <2>2, <2>3, <2>4, <2>5, <2>6, <2>7, <2>8
<1>6. UNCHANGED evidence
  BY DEF SpawnFails, Prepare, ApprovalGate, LoopTop, ModelAnswers, CommitUsage, CheckAnswer,
         EvidenceChecks, EvidenceIOError, Crash, Local
<1> QED
  BY <1>1, <1>5, <1>6, QuietStep

\* The permission gate: run.started, or a stop the contract does not see.
LEMMA PermissionGateContract ==
  ASSUME TurnInv, NEW r \in Runs, PermissionGate(r)
  PROVE  [Contract!Next]_(Contract!vars)
<1>1. /\ s \in [Runs -> LocalStates] /\ s[r] = Fresh /\ s[r] \in LocalStates /\ now \in Nat
      /\ UNCHANGED evidence
  BY RunFacts DEF PermissionGate, Local
<1>2. PICK q \in Requests[r] :
        \/ s' = [s EXCEPT ![r] = Terminates([s[r] EXCEPT !.req = q, !.startedAt = now], "permissions_invalid")]
        \/ s' = [s EXCEPT ![r] = Records([s[r] EXCEPT !.req = q, !.startedAt = now], "permission_denied", "fail")]
        \/ s' = [s EXCEPT ![r] = [[s[r] EXCEPT !.req = q, !.startedAt = now]
                                    EXCEPT !.pc = "prepare", !.started = TRUE]]
  BY DEF PermissionGate
<1> DEFINE l == [s[r] EXCEPT !.req = q, !.startedAt = now]
<1>3. l \in LocalStates
  BY <1>1, TurnFacts DEF LocalStates
<1>4. /\ l.terminal = None /\ l.started = FALSE /\ s[r].terminal = None /\ s[r].started = FALSE
      /\ "terminal" \in DOMAIN l /\ "started" \in DOMAIN l
  BY <1>1 DEF Fresh
<1> HIDE DEF l
<1>5. CASE \/ s' = [s EXCEPT ![r] = Terminates(l, "permissions_invalid")]
           \/ s' = [s EXCEPT ![r] = Records(l, "permission_denied", "fail")]
  <2>1. PICK t : /\ s' = [s EXCEPT ![r] = t] /\ t.terminal = s[r].terminal
                 /\ t.started = s[r].started
    <3> DEFINE t1 == Terminates(l, "permissions_invalid")
               t2 == Records(l, "permission_denied", "fail")
    <3>0. /\ t1.terminal = l.terminal /\ t1.started = l.started
          /\ t2.terminal = l.terminal /\ t2.started = l.started
      BY <1>3, StopsQuietly
    <3>1. /\ t1.terminal = s[r].terminal /\ t1.started = s[r].started
          /\ t2.terminal = s[r].terminal /\ t2.started = s[r].started
      <4> HIDE DEF t1, t2
      <4> QED
        BY <1>4, <3>0
    <3>2. s' = [s EXCEPT ![r] = t1] \/ s' = [s EXCEPT ![r] = t2]
      BY <1>5
    <3> HIDE DEF t1, t2
    <3> QED
      BY <3>1, <3>2
  <2>2. UNCHANGED <<phases, outcomes, notes>>
    BY <1>1, <2>1, QuietStep
  <2> QED
    BY <2>2 DEF Contract!vars, phases, outcomes, notes, Phase, Outcome, Noted
<1>6. CASE s' = [s EXCEPT ![r] = [l EXCEPT !.pc = "prepare", !.started = TRUE]]
  <2>1. PICK t : s' = [s EXCEPT ![r] = t] /\ t.terminal = None /\ t.started = TRUE
    <3> DEFINE t1 == [l EXCEPT !.pc = "prepare", !.started = TRUE]
    <3>1. t1.terminal = None /\ t1.started = TRUE
      BY <1>4
    <3>2. s' = [s EXCEPT ![r] = t1]
      BY <1>6
    <3> HIDE DEF t1
    <3> QED
      BY <3>1, <3>2
  <2>2. s'[r] = t /\ \A u \in Runs \ {r} : s'[u] = s[u]
    BY <1>1, <2>1
  <2>3. phases[r] = "new"
    BY <1>4 DEF phases, Phase
  <2>4. phases' = [phases EXCEPT ![r] = "started"]
    BY <2>1, <2>2 DEF phases, Phase
  <2>5. outcomes' = outcomes
    BY <1>4, <2>1, <2>2 DEF outcomes, Outcome
  <2>6. notes' = notes
    BY <1>1 DEF notes, Noted
  <2>7. Contract!Start(r)
    BY <2>3, <2>4, <2>5, <2>6 DEF Contract!Start, phases, outcomes, notes, Phase, Outcome, Noted
  <2> QED
    BY <2>7 DEF Contract!Next
<1> QED
  BY <1>2, <1>5, <1>6 DEF l

\* The evidence file: written once, or found written.
LEMMA EvidenceLinkContract ==
  ASSUME TurnInv, NEW r \in Runs, EvidenceLink(r)
  PROVE  [Contract!Next]_(Contract!vars)
<1> DEFINE turn == TurnOf[r]
<1>1. s[r].pc \in Writing /\ turn \in Turns
  BY TurnFacts DEF EvidenceLink, Writing
<1>2. /\ s \in [Runs -> LocalStates] /\ s[r] \in LocalStates /\ s[r].terminal = None
      /\ s[r].onFail \in {"fail", "throw", "swallow"}
  BY <1>1, WritingFacts
<1>3. PICK t : /\ s' = [s EXCEPT ![r] = t] /\ t.terminal = s[r].terminal
               /\ t.started = s[r].started
  BY <1>2, StopsQuietly DEF EvidenceLink, WriteFails
<1>4. \A u \in Runs : s'[u].terminal = s[u].terminal /\ s'[u].started = s[u].started
  BY <1>2, <1>3
<1>5. phases' = phases /\ outcomes' = outcomes
  BY <1>4 DEF phases, outcomes, Phase, Outcome
<1>6. CASE evidence[turn] # None
  <2>1. notes' = notes
    BY <1>6 DEF EvidenceLink, notes, Noted
  <2> QED
    BY <1>5, <2>1 DEF Contract!vars, phases, outcomes, notes, Phase, Outcome, Noted
<1>7. CASE evidence[turn] = None
  <2>1. evidence' = [evidence EXCEPT ![turn] = RecordOf(r)]
    BY <1>7 DEF EvidenceLink
  <2>2. RecordOf(r) # None /\ RecordOf(r).run = r /\ RecordOf(r).status \in {"completed", "failed"}
    BY <1>1, RecordOfOK, TurnFacts DEF RecordOK, TurnRecords
  <2>3. notes' = [notes EXCEPT ![turn] = [run |-> r, status |-> RecordOf(r).status]]
    <3>1. /\ evidence'[turn] = RecordOf(r)
          /\ \A v \in Turns \ {turn} : evidence'[v] = evidence[v]
      BY <1>1, <2>1 DEF TurnInv
    <3> QED
      BY <2>2, <3>1 DEF notes, Noted
  <2>4. phases[r] # "ended" /\ notes[turn] = None
    BY <1>1, <1>2, <1>7 DEF phases, Phase, notes, Noted
  <2>5. Contract!WriteRecord(r)
    BY <1>5, <2>2, <2>3, <2>4
       DEF Contract!WriteRecord, phases, outcomes, notes, Phase, Outcome, Noted
  <2> QED
    BY <2>5 DEF Contract!Next
<1> QED
  BY <1>6, <1>7

\* The terminal event: run.completed only over evidence that says so.
LEMMA EmitTerminalContract ==
  ASSUME TurnInv, NEW r \in Runs, EmitTerminal(r)
  PROVE  [Contract!Next]_(Contract!vars)
<1>1. /\ s \in [Runs -> LocalStates] /\ s[r] \in LocalStates /\ RunOK(r, s[r])
      /\ s[r].terminal = None /\ s[r].pc = "terminal" /\ s[r].code \in Codes /\ s[r].code # None
  BY RunFacts, CodeFacts DEF EmitTerminal, RunOK
<1>2. UNCHANGED evidence /\ notes' = notes
  BY DEF EmitTerminal, notes, Noted
<1>3. "terminal" \in DOMAIN s[r] /\ "started" \in DOMAIN s[r]
  BY <1>1 DEF LocalStates
<1>4. CASE s' = [s EXCEPT ![r].pc = "exited", ![r].exit = 1]
  <2>1. PICK t : /\ s' = [s EXCEPT ![r] = t] /\ t.terminal = s[r].terminal
                 /\ t.started = s[r].started
    <3> DEFINE t1 == [s[r] EXCEPT !.pc = "exited", !.exit = 1]
    <3>1. t1.terminal = s[r].terminal /\ t1.started = s[r].started
      BY <1>3
    <3>2. s' = [s EXCEPT ![r] = t1]
      BY <1>1, <1>4
    <3> HIDE DEF t1
    <3> QED
      BY <3>1, <3>2
  <2>2. UNCHANGED <<phases, outcomes, notes>>
    BY <1>1, <1>2, <2>1, QuietStep
  <2> QED
    BY <2>2 DEF Contract!vars, phases, outcomes, notes, Phase, Outcome, Noted
<1>5. CASE s' = [s EXCEPT ![r].pc = "exited", ![r].exit = 0, ![r].terminal = s[r].code]
  <2>1. /\ s'[r].terminal = s[r].code
        /\ \A u \in Runs \ {r} : s'[u] = s[u]
    BY <1>1, <1>3, <1>5
  <2>2. phases[r] # "ended" /\ phases' = [phases EXCEPT ![r] = "ended"]
    BY <1>1, <2>1 DEF phases, Phase
  <2>3. CASE s[r].code = "goal_met"
    <3>1. outcomes' = [outcomes EXCEPT ![r] = "completed"]
      BY <1>1, <2>1, <2>3 DEF outcomes, Outcome
    <3>2. phases[r] = "started"
      BY <1>1, <2>3 DEF phases, Phase, RunOK
    <3>3. notes[TurnOf[r]] = [run |-> r, status |-> "completed"]
      BY <1>1, <2>3, TurnFacts DEF RunOK, Recorded, notes, Noted
    <3>4. Contract!End(r)
      BY <1>2, <2>2, <3>1, <3>2, <3>3
         DEF Contract!End, phases, outcomes, notes, Phase, Outcome, Noted
    <3> QED
      BY <3>4 DEF Contract!Next
  <2>4. CASE s[r].code # "goal_met"
    <3>1. outcomes' = [outcomes EXCEPT ![r] = "failed"]
      BY <1>1, <2>1, <2>4 DEF outcomes, Outcome
    <3>2. Contract!End(r)
      BY <1>2, <2>2, <3>1 DEF Contract!End, phases, outcomes, notes, Phase, Outcome, Noted
    <3> QED
      BY <3>2 DEF Contract!Next
  <2> QED
    BY <2>3, <2>4
<1> QED
  BY <1>4, <1>5 DEF EmitTerminal

\* Every step of the executor is a step of the contract, or none.
LEMMA TurnStepContract ==
  TurnInv /\ [TurnNext]_turnVars => [Contract!Next]_(Contract!vars)
<1> SUFFICES ASSUME TurnInv, [TurnNext]_turnVars PROVE [Contract!Next]_(Contract!vars)
  OBVIOUS
<1>1. CASE UNCHANGED <<phases, outcomes, notes>>
  BY <1>1 DEF Contract!vars, phases, outcomes, notes, Phase, Outcome, Noted
<1>2. CASE ClockTicks \/ UNCHANGED turnVars
  <2>1. UNCHANGED <<s, evidence>>
    BY <1>2 DEF ClockTicks, turnVars
  <2>2. UNCHANGED <<phases, outcomes, notes>>
    BY <2>1 DEF phases, outcomes, notes, Phase, Outcome, Noted
  <2> QED
    BY <1>1, <2>2
<1>3. ASSUME NEW r \in Runs, RunStep(r) \/ Crash(r)
      PROVE  [Contract!Next]_(Contract!vars)
  BY <1>1, <1>3, QuietRunStep, PermissionGateContract, EvidenceLinkContract, EmitTerminalContract
     DEF RunStep
<1> QED
  BY <1>2, <1>3 DEF TurnNext

\* The executor implements the contract the Workbench relies on: whatever runs
\* of a turn race, a turn is reported completed by the one run whose evidence
\* says so, and evidence is written once (turn-executor.ts, turn-evidence.ts).
THEOREM TurnImplementsContract == TurnSpec => ImplementsContract
<1>1. TurnInit => Contract!Init
  BY DEF TurnInit, Fresh, Contract!Init
<1>2. TurnInv /\ [TurnNext]_turnVars => [Contract!Next]_(Contract!vars)
  BY TurnStepContract
<1> QED
  BY <1>1, <1>2, TurnAlways, PTL DEF TurnSpec, ImplementsContract, Contract!Spec

-----------------------------------------------------------------------------
(* The stdio adapter (module StdioHost).                                   *)

EventFields == UNION {EventKeys[t] : t \in DOMAIN EventKeys}
EventCodes == {RealLocalMcpOutcome(p) : p \in McpSettings}
           \cup {"", "fits", "misfit", "agent_host_cancelled", "output_schema_invalid",
                 "output_schema_mismatch"}
Payloads == [type : DOMAIN EventKeys, code : EventCodes, bounded : {TRUE}, keys : SUBSET EventFields]
              \cup {NoCall}

\* What a host may write, and what of it dispatchLine lets through to a stream.
HostLines ==
  [json : BOOLEAN, protocol : {"agent-host-stdio.v1"}, kind : {"response", "event", "partial"},
   ok : BOOLEAN, keys : SUBSET {"protocol", "id", "kind", "ok", "error", "result", "event"},
   id : Calls \cup {NoCall}, event : Payloads,
   result : {NoCall, GoodProbe, [GoodProbe EXCEPT !.keys = @ \cup {"extra"}]}]
GoodLines == {l \in HostLines : ParseHostLine(l) = "ok"}

ParseCodes == {"ok", "bad_framing", "protocol_mismatch", "unknown_message", "bad_response",
               "stream_failed"}
StreamFailures == ParseCodes \cup {"", "unsolicited", "timeout", "cleanup_failed"}
CallResults == StreamFailures \cup {"returned", "digest_mismatch", "adapter_exited", "host_error",
                          "terminal_contract_violated", "abandoned", "probe_invalid"}

HostRequests == [kind : {"probe", "run", "cancel"}, call : Calls]
Streams == UNION {[D -> [queue : Seq(GoodLines), failure : StreamFailures]] : D \in SUBSET Calls}
Clients == [current : 0..MaxKids, exited : BOOLEAN, carry : BOOLEAN, pending : SUBSET Calls,
            streams : Streams]
CallRecords == [pc : {"idle", "load", "wait", "done"}, kid : 0..MaxKids, out : Seq(Payloads),
                saw : BOOLEAN, result : CallResults, timed : BOOLEAN, cancelled : BOOLEAN]
KidRecords == [st : {"none", "alive", "dead"}, termed : BOOLEAN, flags : Flags \cup {{}},
               inbox : Seq(HostRequests), outbox : Seq(HostLines), running : SUBSET Calls,
               cancelled : Calls \cup {NoCall}]

\* Where the terminals of a stream are, and an output that its run's schema admits.
Ends(out) == {k \in DOMAIN out : out[k].type \in TerminalTypes}
Fitting(c, out) ==
  SchemaOf[c] = "ok" /\ Last(out).type = "run.completed" => Last(out).code # "misfit"

\* What a caller has yielded so far: `saw` says exactly when its last event was the one
\* terminal.  Until it has seen one nothing can make it return.
CallSound(c, r) ==
  /\ \A i \in 1..Len(r.out) : EventWire(r.out[i])
  /\ r.pc \in {"idle", "load"} => r.out = <<>> /\ ~r.saw
  /\ r.pc # "done" => r.result = ""
  /\ KindOf[c] = "run" /\ r.pc = "wait" =>
       Ends(r.out) = (IF r.saw THEN {Len(r.out)} ELSE {}) /\ (r.saw => Fitting(c, r.out))
  /\ KindOf[c] = "run" /\ r.result = "returned" =>
       r.pc = "done" /\ Ends(r.out) = {Len(r.out)} /\ Fitting(c, r.out)

TablesMatch(cl, calls) ==
  /\ cl.pending = {c \in Calls : calls[c].pc = "wait" /\ KindOf[c] = "probe"}
  /\ DOMAIN cl.streams = {c \in Calls : calls[c].pc = "wait" /\ KindOf[c] = "run"}

StdioInv ==
  /\ client \in Clients /\ call \in [Calls -> CallRecords] /\ kid \in [Kids -> KidRecords]
  /\ TablesMatch(client, call)
  /\ \A c \in Calls : CallSound(c, call[c])

\* Lines the hosts write.
LEMMA EventKinds ==
  /\ DOMAIN EventKeys = {"run.started", "assistant.delta", "tool.started", "tool.completed",
                         "approval.required", "usage", "run.completed", "run.failed"}
  /\ \A t \in DOMAIN EventKeys : EventKeys[t] \subseteq EventFields
<1>1. DOMAIN EventKeys = {"run.started", "assistant.delta", "tool.started", "tool.completed",
                          "approval.required", "usage", "run.completed", "run.failed"}
  BY DEF EventKeys
<1> QED
  BY <1>1 DEF EventFields

LEMMA HostEventLine ==
  ASSUME NEW x \in Calls, NEW type \in DOMAIN EventKeys, NEW code \in EventCodes
  PROVE  /\ HostEvent(x, type, code) \in HostLines
         /\ HostEvent(x, type, code).event \in Payloads
<1> DEFINE e == [type |-> type, code |-> code, bounded |-> TRUE,
                 keys |-> EventKeys[type] \ (EventOptional \ {"output"})]
<1>1. e \in Payloads
  BY EventKinds DEF Payloads
<1>2. HostEvent(x, type, code) =
        [Bare EXCEPT !.id = x, !.kind = "event", !.keys = {"protocol", "id", "kind", "event"},
                     !.event = e]
  BY DEF HostEvent
<1> HIDE DEF e
<1>3. NoCall \in Payloads
  BY DEF Payloads
<1>4. Bare \in HostLines
  BY <1>3 DEF Bare, HostLines
<1> DEFINE f == [Bare EXCEPT !.id = x, !.kind = "event",
                             !.keys = {"protocol", "id", "kind", "event"}, !.event = e]
<1>5. f.event = e
  BY DEF Bare
<1>6. f \in HostLines
  BY <1>1, <1>4 DEF HostLines
<1> QED
  BY <1>1, <1>2, <1>5, <1>6

LEMMA FailureWire ==
  ASSUME NEW x \in Calls, NEW code \in EventCodes
  PROVE  LET e == HostEvent(x, "run.failed", code).event IN
         e \in Payloads /\ EventWire(e) /\ e.type = "run.failed"
<1> DEFINE keys == EventKeys["run.failed"] \ (EventOptional \ {"output"})
           e == [type |-> "run.failed", code |-> code, bounded |-> TRUE, keys |-> keys]
<1>1. "run.failed" \in DOMAIN EventKeys
  BY EventKinds
<1>2. HostEvent(x, "run.failed", code).event = e
  BY DEF HostEvent, Bare
<1>3. e \in Payloads
  BY <1>1, <1>2, HostEventLine
<1>4. keys \subseteq EventKeys["run.failed"] /\ EventKeys["run.failed"] \ EventOptional \subseteq keys
  OBVIOUS
<1> HIDE DEF keys
<1>5. EventWire(e)
  BY <1>1, <1>4 DEF EventWire
<1> QED
  BY <1>2, <1>3, <1>5

LEMMA ResponseLine ==
  ASSUME NEW x \in Calls, NEW ok \in BOOLEAN
  PROVE  Response(x, ok) \in HostLines
<1>1. NoCall \in Payloads
  BY DEF Payloads
<1>2. Bare \in HostLines
  BY <1>1 DEF Bare, HostLines
<1> QED
  BY <1>2 DEF Response, HostLines

LEMMA PartialLine == Partial \in HostLines
<1>1. NoCall \in Payloads
  BY DEF Payloads
<1>2. Bare \in HostLines
  BY <1>1 DEF Bare, HostLines
<1> QED
  BY <1>2 DEF Partial, HostLines

LEMMA ProbeLine ==
  ASSUME NEW x \in Calls, NEW p \in {GoodProbe, [GoodProbe EXCEPT !.keys = @ \cup {"extra"}]}
  PROVE  ProbeAnswer(x, p) \in HostLines
<1>1. NoCall \in Payloads
  BY DEF Payloads
<1>2. Bare \in HostLines
  BY <1>1 DEF Bare, HostLines
<1> HIDE DEF Bare
<1> QED
  BY <1>2 DEF ProbeAnswer, HostLines

\* parseAgentHostStdioHostLine as the properties see it.
LEMMA ParseFacts ==
  ASSUME NEW l
  PROVE  /\ ParseHostLine(l) \in ParseCodes
         /\ ParseHostLine(l) = "ok" /\ l.kind = "event" => EventWire(l.event)
BY DEF ParseHostLine, ParseCodes

LEMMA WriteType ==
  ASSUME NEW h \in KidRecords, NEW lines \in Seq(HostLines)
  PROVE  Write(h, lines) \in KidRecords
<1>1. h.outbox \o lines \in Seq(HostLines)
  BY ConcatProperties DEF KidRecords
<1> QED
  BY <1>1 DEF Write, KidRecords

\* The streams of a table after one is added or removed, or all have failed.
LEMMA StreamFacts ==
  ASSUME NEW tab \in Streams
  PROVE  /\ DOMAIN tab \subseteq Calls
         /\ \A x \in DOMAIN tab : tab[x] \in [queue : Seq(GoodLines), failure : StreamFailures]
BY DEF Streams

LEMMA WithStream ==
  ASSUME NEW tab \in Streams, NEW c \in Calls
  PROVE  With(tab, c) \in Streams /\ DOMAIN With(tab, c) = DOMAIN tab \cup {c}
<1> DEFINE Rec == [queue : Seq(GoodLines), failure : StreamFailures]
           w == With(tab, c)
           D == DOMAIN tab \cup {c}
<1>1. [queue |-> <<>>, failure |-> ""] \in Rec
  BY DEF StreamFailures
<1>2. /\ D \in SUBSET Calls
      /\ w = [x \in D |-> IF x = c THEN [queue |-> <<>>, failure |-> ""] ELSE tab[x]]
  BY StreamFacts DEF With
<1>3. \A x \in DOMAIN tab : tab[x] \in Rec
  BY StreamFacts
<1> HIDE DEF w, Rec
<1>4. w \in [D -> Rec]
  BY <1>1, <1>2, <1>3
<1>5. w \in Streams
  BY <1>2, <1>4 DEF Streams, Rec
<1> QED
  BY <1>2, <1>5 DEF w

LEMMA WithoutStream ==
  ASSUME NEW tab \in Streams, NEW c
  PROVE  Without(tab, c) \in Streams /\ DOMAIN Without(tab, c) = DOMAIN tab \ {c}
<1> DEFINE Rec == [queue : Seq(GoodLines), failure : StreamFailures]
           w == Without(tab, c)
           D == DOMAIN tab \ {c}
<1>1. D \in SUBSET Calls /\ w = [x \in D |-> tab[x]]
  BY StreamFacts DEF Without
<1>2. \A x \in DOMAIN tab : tab[x] \in Rec
  BY StreamFacts
<1> HIDE DEF w, Rec
<1>3. w \in [D -> Rec]
  BY <1>1, <1>2
<1>4. w \in Streams
  BY <1>1, <1>3 DEF Streams, Rec
<1> QED
  BY <1>1, <1>4 DEF w

\* One stream of the table gets another content.
LEMMA ChangedStream ==
  ASSUME NEW tab \in Streams, NEW c \in DOMAIN tab,
         NEW v \in [queue : Seq(GoodLines), failure : StreamFailures]
  PROVE  [tab EXCEPT ![c] = v] \in Streams /\ DOMAIN [tab EXCEPT ![c] = v] = DOMAIN tab
<1> DEFINE Rec == [queue : Seq(GoodLines), failure : StreamFailures]
           w == [tab EXCEPT ![c] = v]
           D == DOMAIN tab
<1>1. D \in SUBSET Calls /\ \A x \in D : tab[x] \in Rec
  BY StreamFacts
<1>2. DOMAIN w = D /\ \A x \in D : w[x] = IF x = c THEN v ELSE tab[x]
  OBVIOUS
<1>3. tab \in [D -> Rec]
  <2> HIDE DEF Rec
  <2>1. tab = [x \in DOMAIN tab |-> tab[x]]
    BY DEF Streams
  <2> QED
    BY <1>1, <2>1
<1> HIDE DEF Rec
<1>4. v \in Rec
  BY DEF Rec
<1>5. w \in [D -> Rec]
  BY <1>3, <1>4
<1>6. w \in Streams
  BY <1>1, <1>5 DEF Streams, Rec
<1> QED
  BY <1>2, <1>6

LEMMA FailFacts ==
  ASSUME NEW cl \in Clients, NEW why \in StreamFailures
  PROVE  /\ FailStreams(cl, why) \in Clients
         /\ FailStreams(cl, why).current = cl.current
         /\ FailStreams(cl, why).pending = cl.pending
         /\ DOMAIN FailStreams(cl, why).streams = DOMAIN cl.streams
<1> DEFINE tab == cl.streams
           Rec == [queue : Seq(GoodLines), failure : StreamFailures]
           failed(st) == IF st.failure = "" THEN [st EXCEPT !.failure = why] ELSE st
           w == [c \in DOMAIN tab |-> failed(tab[c])]
<1>1. tab \in Streams
  BY DEF Clients
<1>2. FailStreams(cl, why) = [cl EXCEPT !.streams = w]
  BY DEF FailStreams
<1> HIDE DEF tab
<1>3. DOMAIN tab \in SUBSET Calls /\ \A x \in DOMAIN tab : tab[x] \in Rec
  BY <1>1, StreamFacts
<1>4. \A x \in DOMAIN tab : failed(tab[x]) \in Rec
  BY <1>3
<1>5. w \in [DOMAIN tab -> Rec]
  <2> HIDE DEF Rec, failed
  <2> QED
    BY <1>4
<1>6. DOMAIN w = DOMAIN tab
  OBVIOUS
<1> HIDE DEF w
<1>7. w \in Streams
  BY <1>3, <1>5 DEF Streams
<1>8. [cl EXCEPT !.streams = w] \in Clients
  BY <1>7 DEF Clients
<1>9. /\ [cl EXCEPT !.streams = w].current = cl.current
      /\ [cl EXCEPT !.streams = w].pending = cl.pending
      /\ [cl EXCEPT !.streams = w].streams = w
  BY DEF Clients
<1> QED
  BY <1>2, <1>6, <1>8, <1>9 DEF tab

\* Signalling a child, asking it to cancel, writing a request to it.
LEMMA TerminatedType ==
  ASSUME NEW kk \in [Kids -> KidRecords], NEW k \in 0..MaxKids
  PROVE  Terminated(kk, k) \in [Kids -> KidRecords]
<1>1. CASE k = 0 \/ kk[k].st # "alive"
  BY <1>1 DEF Terminated
<1>2. CASE ~(k = 0 \/ kk[k].st # "alive")
  <2>1. k \in Kids
    BY <1>2, CallsAssumption DEF Kids
  <2>2. [kk[k] EXCEPT !.termed = TRUE] \in KidRecords
    BY <2>1 DEF KidRecords
  <2>3. Terminated(kk, k) = [kk EXCEPT ![k] = [kk[k] EXCEPT !.termed = TRUE]]
    BY <1>2 DEF Terminated
  <2> QED
    BY <2>1, <2>2, <2>3
<1> QED
  BY <1>1, <1>2

LEMMA AskedType ==
  ASSUME NEW kk \in [Kids -> KidRecords], NEW k \in Kids, NEW q \in HostRequests
  PROVE  [kk EXCEPT ![k].inbox = Append(@, q)] \in [Kids -> KidRecords]
<1>1. Append(kk[k].inbox, q) \in Seq(HostRequests)
  BY AppendProperties DEF KidRecords
<1>2. [kk[k] EXCEPT !.inbox = Append(kk[k].inbox, q)] \in KidRecords
  BY <1>1 DEF KidRecords
<1> QED
  BY <1>2

LEMMA CancelledType ==
  ASSUME NEW kk \in [Kids -> KidRecords], NEW cl \in Clients, NEW c \in Calls
  PROVE  Cancelled(c, cl, kk) \in [Kids -> KidRecords]
<1>1. CASE cl.exited \/ cl.current = 0 \/ kk[cl.current].st # "alive"
  BY <1>1 DEF Cancelled
<1>2. CASE ~(cl.exited \/ cl.current = 0 \/ kk[cl.current].st # "alive")
  <2>1. cl.current \in Kids
    BY <1>2, CallsAssumption DEF Kids, Clients
  <2>2. [kind |-> "cancel", call |-> c] \in HostRequests
    BY DEF HostRequests
  <2> QED
    BY <1>2, <2>1, <2>2, AskedType DEF Cancelled
<1> QED
  BY <1>1, <1>2

\* The end of a call.
LEMMA EndedFacts ==
  ASSUME call \in [Calls -> CallRecords], NEW c \in Calls, NEW result \in CallResults
  PROVE  LET E == Ended(c, result) IN
         /\ E \in [Calls -> CallRecords]
         /\ \A d \in Calls \ {c} : E[d] = call[d]
         /\ E[c].pc = "done" /\ E[c].result = result /\ E[c].out = call[c].out
<1> DEFINE e == [call[c] EXCEPT !.pc = "done", !.result = result, !.kid = 0,
                                !.saw = FALSE, !.timed = FALSE, !.cancelled = FALSE]
<1>1. 0 \in 0..MaxKids
  BY CallsAssumption
<1>2. e \in CallRecords /\ e.pc = "done" /\ e.result = result /\ e.out = call[c].out
  BY <1>1 DEF CallRecords
<1>3. Ended(c, result) = [call EXCEPT ![c] = e]
  BY DEF Ended
<1> HIDE DEF e
<1> QED
  BY <1>2, <1>3

\* Only one call changes.
LEMMA OneCallSound ==
  ASSUME StdioInv, NEW c \in Calls, NEW f, CallSound(c, f[c]), \A d \in Calls \ {c} : f[d] = call[d]
  PROVE  \A d \in Calls : CallSound(d, f[d])
BY DEF StdioInv

\* The tables after a call has left its wait, and after none has.
LEMMA TablesWithout ==
  ASSUME TablesMatch(client, call), NEW c \in Calls, NEW f, f[c].pc # "wait",
         \A d \in Calls \ {c} : f[d] = call[d], NEW cl,
         cl.pending = client.pending \ {c}, DOMAIN cl.streams = DOMAIN client.streams \ {c}
  PROVE  TablesMatch(cl, f)
BY DEF TablesMatch

LEMMA TablesSame ==
  ASSUME TablesMatch(client, call), NEW f, \A d \in Calls : (f[d].pc = "wait") = (call[d].pc = "wait"),
         NEW cl, cl.pending = client.pending, DOMAIN cl.streams = DOMAIN client.streams
  PROVE  TablesMatch(cl, f)
BY DEF TablesMatch

\* A request is sent: the caller waits, and is in the table of its kind.
LEMMA SendKeeps ==
  ASSUME StdioInv, NEW c \in Calls, call[c].pc \in {"idle", "load"},
         NEW cl \in Clients, NEW kk \in [Kids -> KidRecords], cl.current \in Kids,
         cl.pending = client.pending, cl.streams = client.streams, Send(c, cl, kk)
  PROVE  StdioInv'
<1>1. /\ client \in Clients /\ call \in [Calls -> CallRecords] /\ TablesMatch(client, call)
      /\ CallSound(c, call[c])
  BY DEF StdioInv
<1>2. KindOf[c] \in {"probe", "run"}
  BY CallsAssumption
<1>3. kid' \in [Kids -> KidRecords]
  <2>1. [kind |-> KindOf[c], call |-> c] \in HostRequests
    BY <1>2 DEF HostRequests
  <2> QED
    BY <2>1, AskedType DEF Send
<1> DEFINE r == [call[c] EXCEPT !.pc = "wait", !.kid = cl.current]
<1>4. call' = [call EXCEPT ![c] = r]
  BY DEF Send
<1>5. /\ r \in CallRecords /\ r.pc = "wait" /\ r.out = call[c].out /\ r.saw = call[c].saw
      /\ r.result = call[c].result
  BY <1>1 DEF CallRecords, Clients
<1> HIDE DEF r
<1>6. call' \in [Calls -> CallRecords] /\ call'[c] = r /\ \A d \in Calls \ {c} : call'[d] = call[d]
  BY <1>1, <1>4, <1>5
<1>7. \A d \in Calls : CallSound(d, call'[d])
  <2>1. r.out = <<>> /\ r.saw = FALSE /\ r.result = "" /\ r.out \in Seq(Payloads)
    BY <1>1, <1>5 DEF CallSound, CallRecords
  <2>2. Len(r.out) = 0 /\ DOMAIN r.out = {} /\ 1..0 = {}
    <3>1. Len(<<>>) = 0 /\ DOMAIN <<>> = {} /\ 1..0 = {}
      OBVIOUS
    <3> QED
      BY <2>1, <3>1
  <2>3. CallSound(c, r)
    BY <1>5, <2>1, <2>2 DEF CallSound, Ends
  <2> QED
    BY <1>6, <2>3, OneCallSound
<1>8. client' \in Clients /\ TablesMatch(client', call')
  <2>1. CASE KindOf[c] = "probe"
    <3>1. client' = [cl EXCEPT !.pending = @ \cup {c}]
      BY <2>1 DEF Send
    <3>2. /\ client' \in Clients /\ client'.pending = client.pending \cup {c}
          /\ client'.streams = client.streams
      BY <3>1 DEF Clients
    <3> QED
      BY <1>1, <1>5, <1>6, <2>1, <3>2 DEF TablesMatch
  <2>2. CASE KindOf[c] = "run"
    <3> DEFINE w == With(client.streams, c)
    <3>1. client' = [cl EXCEPT !.streams = w]
      BY <2>2 DEF Send
    <3>2. w \in Streams /\ DOMAIN w = DOMAIN client.streams \cup {c}
      BY <1>1, WithStream DEF Clients
    <3> HIDE DEF w
    <3>3. client' \in Clients /\ client'.pending = client.pending /\ client'.streams = w
      BY <3>1, <3>2 DEF Clients
    <3> QED
      BY <1>1, <1>5, <1>6, <2>2, <3>2, <3>3 DEF TablesMatch
  <2> QED
    BY <1>2, <2>1, <2>2
<1> QED
  BY <1>3, <1>6, <1>7, <1>8 DEF StdioInv

LEMMA StartCallKeeps ==
  ASSUME StdioInv, NEW c \in Calls, StartCall(c)
  PROVE  StdioInv'
<1>1. /\ client \in Clients /\ call \in [Calls -> CallRecords] /\ kid \in [Kids -> KidRecords]
      /\ TablesMatch(client, call) /\ CallSound(c, call[c]) /\ call[c].pc = "idle"
  BY DEF StdioInv, StartCall
<1>2. CASE KindOf[c] = "run" /\ SchemaOf[c] = "bad"
  <2> DEFINE e == HostEvent(c, "run.failed", "output_schema_invalid").event
             E == Ended(c, "returned")
  <2>1. call' = [E EXCEPT ![c].out = <<e>>] /\ UNCHANGED <<client, kid>>
    BY <1>2 DEF StartCall
  <2>2. e \in Payloads /\ EventWire(e) /\ e.type = "run.failed"
    BY FailureWire DEF EventCodes
  <2>3. /\ E \in [Calls -> CallRecords] /\ \A d \in Calls \ {c} : E[d] = call[d]
        /\ E[c].pc = "done" /\ E[c].result = "returned"
    BY <1>1, EndedFacts DEF CallResults
  <2> HIDE DEF e, E
  <2> DEFINE out == <<e>>
             r == [E[c] EXCEPT !.out = out]
  <2>4. call' = [E EXCEPT ![c] = r]
    BY <2>1
  <2>5. r \in CallRecords /\ r.pc = "done" /\ r.result = "returned" /\ r.out = <<e>>
    <3>1. out \in Seq(Payloads)
      BY <2>2
    <3> HIDE DEF out
    <3>2. r \in CallRecords /\ r.pc = "done" /\ r.result = "returned" /\ r.out = out
      BY <2>3, <3>1 DEF CallRecords
    <3> QED
      BY <3>2 DEF out
  <2> HIDE DEF r
  <2>6. /\ call' \in [Calls -> CallRecords] /\ call'[c] = r
        /\ \A d \in Calls \ {c} : call'[d] = call[d]
    BY <2>3, <2>4, <2>5
  <2>7. CallSound(c, r)
    <3>1. Len(r.out) = 1 /\ DOMAIN r.out = {1} /\ 1..1 = {1} /\ r.out[1] = e
      BY <2>5
    <3>2. Ends(r.out) = {1}
      BY <2>2, <3>1 DEF Ends, TerminalTypes
    <3>3. Fitting(c, r.out)
      BY <1>2 DEF Fitting
    <3> QED
      BY <2>2, <2>5, <3>1, <3>2, <3>3 DEF CallSound
  <2>8. \A d \in Calls : CallSound(d, call'[d])
    BY <2>6, <2>7, OneCallSound
  <2>9. TablesMatch(client', call')
    <3>1. \A d \in Calls : (call'[d].pc = "wait") = (call[d].pc = "wait")
      BY <1>1, <2>5, <2>6
    <3> QED
      BY <1>1, <2>1, <3>1, TablesSame
  <2> QED
    BY <1>1, <2>1, <2>6, <2>8, <2>9 DEF StdioInv
<1>3. CASE /\ ~(KindOf[c] = "run" /\ SchemaOf[c] = "bad")
           /\ client.current # 0 /\ ~client.exited /\ kid[client.current].st = "alive"
  <2>1. Send(c, client, kid)
    BY <1>3 DEF StartCall
  <2>2. client.current \in Kids
    BY <1>1, <1>3, CallsAssumption DEF Clients, Kids
  <2> QED
    BY <1>1, <2>1, <2>2, SendKeeps
<1>4. CASE /\ ~(KindOf[c] = "run" /\ SchemaOf[c] = "bad")
           /\ ~(client.current # 0 /\ ~client.exited /\ kid[client.current].st = "alive")
  <2> DEFINE r == [call[c] EXCEPT !.pc = "load"]
  <2>1. call' = [call EXCEPT ![c] = r] /\ UNCHANGED <<client, kid>>
    BY <1>4 DEF StartCall
  <2>2. /\ r \in CallRecords /\ r.pc = "load" /\ r.out = call[c].out /\ r.saw = call[c].saw
        /\ r.result = call[c].result
    BY <1>1 DEF CallRecords
  <2> HIDE DEF r
  <2>3. /\ call' \in [Calls -> CallRecords] /\ call'[c] = r
        /\ \A d \in Calls \ {c} : call'[d] = call[d]
    BY <1>1, <2>1, <2>2
  <2>4. CallSound(c, r)
    BY <1>1, <2>2 DEF CallSound
  <2>5. \A d \in Calls : CallSound(d, call'[d])
    BY <2>3, <2>4, OneCallSound
  <2>6. TablesMatch(client', call')
    <3>1. \A d \in Calls : (call'[d].pc = "wait") = (call[d].pc = "wait")
      BY <1>1, <2>2, <2>3
    <3> QED
      BY <1>1, <2>1, <3>1, TablesSame
  <2> QED
    BY <1>1, <2>1, <2>3, <2>5, <2>6 DEF StdioInv
<1> QED
  BY <1>2, <1>3, <1>4

\* A call that ends before it was sent, or while it waits in no table or leaves it.
LEMMA EndKeepsCalls ==
  ASSUME StdioInv, NEW c \in Calls, NEW result \in CallResults, result # "returned",
         call[c].pc # "done", call' = Ended(c, result)
  PROVE  /\ call' \in [Calls -> CallRecords] /\ call'[c].pc = "done"
         /\ \A d \in Calls \ {c} : call'[d] = call[d]
         /\ \A d \in Calls : CallSound(d, call'[d])
<1>1. call \in [Calls -> CallRecords] /\ CallSound(c, call[c])
  BY DEF StdioInv
<1>2. /\ call' \in [Calls -> CallRecords] /\ \A d \in Calls \ {c} : call'[d] = call[d]
      /\ call'[c].pc = "done" /\ call'[c].result = result /\ call'[c].out = call[c].out
  BY <1>1, EndedFacts
<1>3. CallSound(c, call'[c])
  BY <1>1, <1>2 DEF CallSound
<1> QED
  BY <1>2, <1>3, OneCallSound

LEMMA LoadAndSpawnKeeps ==
  ASSUME StdioInv, NEW c \in Calls, LoadAndSpawn(c)
  PROVE  StdioInv'
<1>1. /\ client \in Clients /\ call \in [Calls -> CallRecords] /\ kid \in [Kids -> KidRecords]
      /\ TablesMatch(client, call) /\ call[c].pc = "load"
  BY DEF StdioInv, LoadAndSpawn
<1>2. CASE call' = Ended(c, "digest_mismatch") /\ UNCHANGED <<client, kid>>
  <2>1. /\ call' \in [Calls -> CallRecords] /\ call'[c].pc = "done"
        /\ \A d \in Calls \ {c} : call'[d] = call[d]
        /\ \A d \in Calls : CallSound(d, call'[d])
    BY <1>1, <1>2, EndKeepsCalls DEF CallResults
  <2>2. \A d \in Calls : (call'[d].pc = "wait") = (call[d].pc = "wait")
    BY <1>1, <2>1
  <2>3. TablesMatch(client', call')
    BY <1>1, <1>2, <2>2, TablesSame
  <2> QED
    BY <1>1, <1>2, <2>1, <2>3 DEF StdioInv
<1>3. ASSUME NEW k \in Kids, NEW flags \in Flags,
             Send(c, [client EXCEPT !.current = k, !.exited = FALSE],
                  [kid EXCEPT ![k].st = "alive", ![k].flags = flags])
      PROVE  StdioInv'
  <2> DEFINE cl == [client EXCEPT !.current = k, !.exited = FALSE]
             h == [kid[k] EXCEPT !.st = "alive", !.flags = flags]
             kk == [kid EXCEPT ![k] = h]
  <2>1. /\ cl \in Clients /\ cl.current = k /\ cl.pending = client.pending
        /\ cl.streams = client.streams
    <3>1. k \in 0..MaxKids
      BY CallsAssumption DEF Kids
    <3> QED
      BY <1>1, <3>1 DEF Clients
  <2>2. h \in KidRecords
    BY <1>1 DEF KidRecords
  <2>3. kk = [kid EXCEPT ![k].st = "alive", ![k].flags = flags]
    BY <1>1
  <2>4. Send(c, cl, kk)
    BY <1>3, <2>3
  <2> HIDE DEF cl, h
  <2>5. kk \in [Kids -> KidRecords]
    BY <1>1, <2>2
  <2> HIDE DEF kk
  <2> QED
    BY <1>1, <2>1, <2>4, <2>5, SendKeeps
<1> QED
  BY <1>2, <1>3 DEF LoadAndSpawn

\* The steps of the hosts stay in the pipes.
LEMMA HostsKeep ==
  ASSUME StdioInv, UNCHANGED <<client, call>>, kid' \in [Kids -> KidRecords]
  PROVE  StdioInv'
BY DEF StdioInv

LEMMA ServeLineKeeps ==
  ASSUME StdioInv, NEW k \in Kids, ServeLine(k)
  PROVE  StdioInv'
<1> DEFINE h == [kid[k] EXCEPT !.inbox = Tail(@)]
           q == Head(kid[k].inbox)
           x == q.call
           g == CASE q.kind = "probe" -> ServeProbe(h, x)
                  [] q.kind = "cancel" -> ServeCancel(h, x)
                  [] q.kind = "run" -> ServeRun(h, x)
<1>1. kid \in [Kids -> KidRecords] /\ kid[k].inbox # <<>>
  BY DEF StdioInv, ServeLine
<1>2. q \in HostRequests /\ Tail(kid[k].inbox) \in Seq(HostRequests)
  BY <1>1, HeadTailProperties DEF KidRecords
<1>3. x \in Calls /\ q.kind \in {"probe", "run", "cancel"}
  BY <1>2 DEF HostRequests
<1>4. h \in KidRecords
  BY <1>1, <1>2 DEF KidRecords
<1>5. UNCHANGED <<client, call>> /\ kid' = [kid EXCEPT ![k] = g]
  BY DEF ServeLine
<1> HIDE DEF h, x
<1>6. ServeProbe(h, x) \in KidRecords
  <2> DEFINE p == IF "unknown_field" \in h.flags
                  THEN [GoodProbe EXCEPT !.keys = @ \cup {"extra"}] ELSE GoodProbe
             l == ProbeAnswer(x, p)
  <2>1. l \in HostLines
    BY <1>3, ProbeLine
  <2>2. ServeProbe(h, x) = Write(h, <<l>>)
    BY DEF ServeProbe
  <2> HIDE DEF l
  <2>3. <<l>> \in Seq(HostLines)
    BY <2>1
  <2> QED
    BY <1>4, <2>2, <2>3, WriteType
<1>7. CancelledRun(x) \in Seq(HostLines)
  <2>1. HostEvent(x, "run.failed", "agent_host_cancelled") \in HostLines
    BY <1>3, EventKinds, HostEventLine DEF EventCodes
  <2>2. Response(x, TRUE) \in HostLines
    BY <1>3, ResponseLine
  <2> DEFINE failed == HostEvent(x, "run.failed", "agent_host_cancelled")
             answer == Response(x, TRUE)
  <2>3. CancelledRun(x) = <<failed, answer>>
    BY DEF CancelledRun
  <2> HIDE DEF failed, answer
  <2>4. failed \in HostLines /\ answer \in HostLines
    BY <2>1, <2>2 DEF failed, answer
  <2> QED
    BY <2>3, <2>4
<1>8. ServeCancel(h, x) \in KidRecords
  <2> DEFINE noted == [h EXCEPT !.cancelled = x]
             less == [noted EXCEPT !.running = @ \ {x}]
  <2>1. noted \in KidRecords
    BY <1>3, <1>4 DEF KidRecords
  <2>2. less \in KidRecords
    BY <2>1 DEF KidRecords
  <2>3. ServeCancel(h, x) \in {noted, Write(less, CancelledRun(x))}
    BY DEF ServeCancel
  <2> HIDE DEF noted, less
  <2> QED
    BY <1>7, <2>1, <2>2, <2>3, WriteType
<1>9. ServeRun(h, x) \in KidRecords
  <2> DEFINE l == HostEvent(x, "run.started", "")
             begun == Write(h, <<l>>)
             more == [begun EXCEPT !.running = @ \cup {x}]
  <2>1. l \in HostLines
    BY <1>3, EventKinds, HostEventLine DEF EventCodes
  <2> HIDE DEF l
  <2>2. <<l>> \in Seq(HostLines)
    BY <2>1
  <2>3. begun \in KidRecords
    BY <1>4, <2>2, WriteType
  <2>4. ServeRun(h, x) \in {more, Write(begun, CancelledRun(x))}
    BY DEF ServeRun, l
  <2> HIDE DEF begun
  <2>5. more \in KidRecords
    BY <1>3, <2>3 DEF KidRecords
  <2> HIDE DEF more
  <2> QED
    BY <1>7, <2>3, <2>4, <2>5, WriteType
<1>10. g \in KidRecords
  BY <1>3, <1>6, <1>8, <1>9
<1> HIDE DEF g
<1>11. kid' \in [Kids -> KidRecords]
  BY <1>1, <1>5, <1>10
<1> QED
  BY <1>5, <1>11, HostsKeep

LEMMA ServeOutcomeKeeps ==
  ASSUME StdioInv, NEW k \in Kids, NEW x \in Calls, ServeOutcome(k, x)
  PROVE  StdioInv'
<1>1. kid \in [Kids -> KidRecords]
  BY DEF StdioInv
<1>2. UNCHANGED <<client, call>>
  BY DEF ServeOutcome
<1> DEFINE h == [kid[k] EXCEPT !.running = @ \ {x}]
<1>3. PICK p \in McpSettings, fits \in {"fits", "misfit"} :
        kid' = [kid EXCEPT ![k] = Write(h, RunLines(kid[k], x, RealLocalMcpOutcome(p), fits))]
  BY DEF ServeOutcome
<1> DEFINE code == RealLocalMcpOutcome(p)
           lines == RunLines(kid[k], x, code, fits)
<1>4. code \in EventCodes /\ fits \in EventCodes /\ "" \in EventCodes
  BY DEF EventCodes
<1> HIDE DEF code
<1>5. lines \in Seq(HostLines)
  <2> DEFINE end == IF code = "ok" THEN HostEvent(x, "run.completed", fits)
                    ELSE HostEvent(x, "run.failed", code)
             more == HostEvent(x, "usage", "")
             answer == Response(x, TRUE)
             flags == kid[k].flags
  <2>1. end \in HostLines /\ more \in HostLines /\ answer \in HostLines
    BY <1>4, EventKinds, HostEventLine, ResponseLine
  <2> DEFINE s2 == IF "dup_terminal" \in flags THEN <<end>> ELSE <<>>
             s3 == IF "after_terminal" \in flags THEN <<more>> ELSE <<>>
             s4 == IF "no_close" \in flags THEN <<>> ELSE <<answer>>
  <2>2. lines = <<end>> \o s2 \o s3 \o s4
    BY DEF RunLines
  <2> HIDE DEF end, more, answer, flags, lines
  <2>3. /\ <<end>> \in Seq(HostLines) /\ s2 \in Seq(HostLines)
        /\ s3 \in Seq(HostLines) /\ s4 \in Seq(HostLines)
    BY <2>1
  <2> HIDE DEF s2, s3, s4
  <2> DEFINE s1 == <<end>>
  <2> HIDE DEF s1
  <2>4. s1 \o s2 \in Seq(HostLines)
    BY <2>3, ConcatProperties DEF s1
  <2>5. (s1 \o s2) \o s3 \in Seq(HostLines)
    BY <2>3, <2>4, ConcatProperties
  <2>6. ((s1 \o s2) \o s3) \o s4 \in Seq(HostLines)
    BY <2>3, <2>5, ConcatProperties
  <2> QED
    BY <2>2, <2>6 DEF s1
<1>6. h \in KidRecords
  BY <1>1 DEF KidRecords
<1>7. Write(h, lines) \in KidRecords
  <2> HIDE DEF h, lines
  <2> QED
    BY <1>5, <1>6, WriteType
<1>8. kid' \in [Kids -> KidRecords]
  BY <1>1, <1>3, <1>7 DEF code
<1> QED
  BY <1>2, <1>8, HostsKeep

LEMMA KidExitsKeeps ==
  ASSUME StdioInv, NEW k \in Kids, KidExits(k)
  PROVE  StdioInv'
<1>1. /\ client \in Clients /\ call \in [Calls -> CallRecords] /\ kid \in [Kids -> KidRecords]
      /\ TablesMatch(client, call) /\ \A c \in Calls : CallSound(c, call[c])
  BY DEF StdioInv
<1>2. kid' \in [Kids -> KidRecords]
  <2> DEFINE left == kid[k].outbox
  <2>1. left \in Seq(HostLines)
    BY <1>1 DEF KidRecords
  <2> HIDE DEF left
  <2>2. PICK cut \in BOOLEAN :
          kid' = [kid EXCEPT ![k] = [NoKid EXCEPT !.st = "dead",
                    !.outbox = IF cut /\ left # <<>> THEN Append(Front(left), Partial) ELSE left]]
    BY DEF KidExits, left
  <2> DEFINE rest == IF cut /\ left # <<>> THEN Append(Front(left), Partial) ELSE left
             h == [NoKid EXCEPT !.st = "dead", !.outbox = rest]
  <2>3. left # <<>> => Append(Front(left), Partial) \in Seq(HostLines)
    <3> SUFFICES ASSUME left # <<>> PROVE Append(Front(left), Partial) \in Seq(HostLines)
      OBVIOUS
    <3> DEFINE front == Front(left)
    <3>1. Len(left) \in Nat /\ Len(left) >= 1
      BY <2>1, EmptySeq
    <3>2. front \in Seq(HostLines)
      BY <2>1, <3>1 DEF Front
    <3> HIDE DEF front
    <3>3. Append(front, Partial) \in Seq(HostLines)
      BY <3>2, PartialLine
    <3> QED
      BY <3>3 DEF front
  <2>4. rest \in Seq(HostLines)
    BY <2>1, <2>3
  <2> HIDE DEF rest
  <2>5. h \in KidRecords
    <3>1. NoKid \in KidRecords
      <4> DEFINE none == <<>>
      <4>1. none \in Seq(HostRequests) /\ none \in Seq(HostLines)
        OBVIOUS
      <4> HIDE DEF none
      <4>2. NoKid = [st |-> "none", termed |-> FALSE, flags |-> {}, inbox |-> none,
                     outbox |-> none, running |-> {}, cancelled |-> NoCall]
        BY DEF NoKid, none
      <4>3. {} \in Flags \cup {{}} /\ {} \in SUBSET Calls /\ NoCall \in Calls \cup {NoCall}
        OBVIOUS
      <4> QED
        BY <4>1, <4>2, <4>3 DEF KidRecords
    <3> QED
      BY <2>4, <3>1 DEF KidRecords
  <2>6. kid' = [kid EXCEPT ![k] = h]
    BY <2>2 DEF rest
  <2> HIDE DEF h
  <2> QED
    BY <1>1, <2>5, <2>6
<1>3. /\ client' \in Clients /\ client'.pending = {}
      /\ DOMAIN client'.streams = DOMAIN client.streams
  <2> DEFINE f == FailStreams(client, "stream_failed")
  <2>1. f \in Clients /\ DOMAIN f.streams = DOMAIN client.streams
    BY <1>1, FailFacts DEF StreamFailures, ParseCodes
  <2>2. client' = [f EXCEPT !.exited = TRUE, !.pending = {}]
    BY DEF KidExits
  <2> HIDE DEF f
  <2> QED
    BY <2>1, <2>2 DEF Clients
<1> DEFINE e(c) == [call[c] EXCEPT !.pc = "done", !.result = "adapter_exited"]
<1>4. call' = [c \in Calls |-> IF c \in client.pending THEN e(c) ELSE call[c]]
  BY DEF KidExits
<1>5. \A c \in Calls : /\ e(c) \in CallRecords /\ e(c).pc = "done"
                       /\ e(c).result = "adapter_exited" /\ e(c).out = call[c].out
  BY <1>1 DEF CallRecords, CallResults
<1> HIDE DEF e
<1>6. call' \in [Calls -> CallRecords]
  BY <1>1, <1>4, <1>5
<1>7. \A c \in Calls : CallSound(c, call'[c])
  <2> SUFFICES ASSUME NEW c \in Calls PROVE CallSound(c, call'[c])
    OBVIOUS
  <2>1. CASE c \in client.pending
    <3>1. call'[c] = e(c) /\ CallSound(c, call[c])
      BY <1>1, <1>4, <2>1
    <3>2. CallSound(c, e(c))
      BY <1>5, <3>1 DEF CallSound
    <3> QED
      BY <3>1, <3>2
  <2>2. CASE c \notin client.pending
    BY <1>1, <1>4, <2>2
  <2> QED
    BY <2>1, <2>2
<1>8. TablesMatch(client', call')
  <2>1. \A c \in Calls : call'[c].pc = IF c \in client.pending THEN "done" ELSE call[c].pc
    BY <1>4, <1>5
  <2> QED
    BY <1>1, <1>3, <2>1 DEF TablesMatch
<1> QED
  BY <1>2, <1>3, <1>6, <1>7, <1>8 DEF StdioInv
\* Steps that change no call.
LEMMA ClientKeeps ==
  ASSUME StdioInv, UNCHANGED call, client' \in Clients, kid' \in [Kids -> KidRecords],
         client'.pending = client.pending, DOMAIN client'.streams = DOMAIN client.streams
  PROVE  StdioInv'
BY DEF StdioInv, TablesMatch

LEMMA ViolationKeeps ==
  ASSUME StdioInv, NEW cl \in Clients, NEW kk \in [Kids -> KidRecords], NEW why \in StreamFailures,
         cl.pending = client.pending, DOMAIN cl.streams = DOMAIN client.streams,
         Violation(cl, kk, why)
  PROVE  StdioInv'
<1>1. /\ client' \in Clients /\ client'.pending = client.pending
      /\ DOMAIN client'.streams = DOMAIN client.streams
  BY FailFacts DEF Violation
<1>2. kid' \in [Kids -> KidRecords]
  BY TerminatedType DEF Violation, Clients
<1> QED
  BY <1>1, <1>2, ClientKeeps DEF Violation

\* A call that leaves its wait, and the table it was in.
LEMMA LeaveKeeps ==
  ASSUME StdioInv, NEW c \in Calls, call[c].pc = "wait", NEW result \in CallResults,
         call' = Ended(c, result), kid' \in [Kids -> KidRecords],
         KindOf[c] = "run" /\ result = "returned" =>
           Ends(call[c].out) = {Len(call[c].out)} /\ Fitting(c, call[c].out),
         client' \in Clients, client'.pending = client.pending \ {c},
         DOMAIN client'.streams = DOMAIN client.streams \ {c}
  PROVE  StdioInv'
<1>1. call \in [Calls -> CallRecords] /\ CallSound(c, call[c]) /\ TablesMatch(client, call)
  BY DEF StdioInv
<1>2. /\ call' \in [Calls -> CallRecords] /\ \A d \in Calls \ {c} : call'[d] = call[d]
      /\ call'[c].pc = "done" /\ call'[c].result = result /\ call'[c].out = call[c].out
  BY <1>1, EndedFacts
<1>3. CallSound(c, call'[c])
  BY <1>1, <1>2 DEF CallSound
<1>4. \A d \in Calls : CallSound(d, call'[d])
  BY <1>2, <1>3, OneCallSound
<1>5. TablesMatch(client', call')
  BY <1>1, <1>2, TablesWithout
<1> QED
  BY <1>2, <1>4, <1>5 DEF StdioInv

LEMMA PoppedType ==
  ASSUME NEW kk \in [Kids -> KidRecords], NEW k \in Kids, kk[k].outbox # <<>>
  PROVE  /\ Head(kk[k].outbox) \in HostLines
         /\ [kk EXCEPT ![k].outbox = Tail(@)] \in [Kids -> KidRecords]
<1> DEFINE left == kk[k].outbox
           rest == Tail(left)
           h == [kk[k] EXCEPT !.outbox = rest]
<1>1. left \in Seq(HostLines) /\ kk[k] \in KidRecords
  BY DEF KidRecords
<1>2. Head(left) \in HostLines /\ rest \in Seq(HostLines)
  BY <1>1, HeadTailProperties
<1>3. [kk EXCEPT ![k].outbox = Tail(@)] = [kk EXCEPT ![k] = h]
  OBVIOUS
<1> HIDE DEF rest
<1>4. h \in KidRecords
  BY <1>1, <1>2 DEF KidRecords
<1> HIDE DEF h
<1> QED
  BY <1>2, <1>3, <1>4

LEMMA DeliverKeeps ==
  ASSUME StdioInv, NEW k \in Kids, Deliver(k)
  PROVE  StdioInv'
<1>1. /\ client \in Clients /\ kid \in [Kids -> KidRecords] /\ call \in [Calls -> CallRecords]
      /\ TablesMatch(client, call) /\ kid[k].outbox # <<>>
  BY DEF StdioInv, Deliver
<1> DEFINE l == Head(kid[k].outbox)
           read == [kid EXCEPT ![k].outbox = Tail(@)]
           cl == [client EXCEPT !.carry = FALSE]
           code == IF client.carry THEN "bad_framing" ELSE ParseHostLine(l)
<1>2. l \in HostLines /\ read \in [Kids -> KidRecords]
  BY <1>1, PoppedType
<1>3. /\ cl \in Clients /\ cl.pending = client.pending /\ cl.streams = client.streams
  BY <1>1 DEF Clients
<1>4. code \in ParseCodes /\ (code = "ok" => ParseHostLine(l) = "ok")
  BY ParseFacts DEF ParseCodes
<1>5. IF l = Partial
      THEN client' = [client EXCEPT !.carry = TRUE] /\ kid' = read /\ UNCHANGED call
      ELSE IF code # "ok" THEN Violation(cl, read, code)
      ELSE IF l.kind = "response" /\ l.id \in cl.pending
      THEN /\ client' = [cl EXCEPT !.pending = @ \ {l.id}]
           /\ call' = Ended(l.id, ProbeResult(l, HostId))
           /\ kid' = read
      ELSE IF l.id \in DOMAIN cl.streams
      THEN /\ client' = [cl EXCEPT !.streams[l.id].queue = Append(@, l)]
           /\ kid' = read /\ UNCHANGED call
      ELSE Violation(cl, read, "unsolicited")
  BY DEF Deliver
<1> HIDE DEF l, read, cl, code
<1>6. CASE l = Partial
  <2>1. client' = [client EXCEPT !.carry = TRUE] /\ kid' = read /\ UNCHANGED call
    BY <1>5, <1>6
  <2>2. /\ client' \in Clients /\ client'.pending = client.pending
        /\ client'.streams = client.streams
    BY <1>1, <2>1 DEF Clients
  <2> QED
    BY <1>2, <2>1, <2>2, ClientKeeps
<1>7. CASE l # Partial /\ code # "ok"
  <2>1. Violation(cl, read, code)
    BY <1>5, <1>7
  <2> QED
    BY <1>2, <1>3, <1>4, <2>1, ViolationKeeps DEF StreamFailures
<1>8. CASE l # Partial /\ code = "ok" /\ l.kind = "response" /\ l.id \in cl.pending
  <2> DEFINE result == ProbeResult(l, HostId)
  <2>1. /\ client' = [cl EXCEPT !.pending = @ \ {l.id}]
        /\ call' = Ended(l.id, result) /\ kid' = read
    BY <1>5, <1>8
  <2>2. result \in {"bad_response", "host_error", "ok", "probe_invalid"}
    BY DEF ProbeResult
  <2> HIDE DEF result
  <2>3. result \in CallResults /\ result # "returned"
    BY <2>2 DEF CallResults, StreamFailures, ParseCodes
  <2>4. l.id \in Calls /\ call[l.id].pc = "wait" /\ KindOf[l.id] = "probe"
    BY <1>1, <1>3, <1>8 DEF TablesMatch
  <2>5. /\ client' \in Clients /\ client'.pending = client.pending \ {l.id}
        /\ client'.streams = client.streams
    BY <1>3, <2>1 DEF Clients
  <2>6. DOMAIN client'.streams = DOMAIN client.streams \ {l.id}
    BY <1>1, <2>4, <2>5 DEF TablesMatch
  <2>7. kid' \in [Kids -> KidRecords]
    BY <1>2, <2>1
  <2> QED
    BY <2>1, <2>3, <2>4, <2>5, <2>6, <2>7, LeaveKeeps
<1>9. CASE /\ l # Partial /\ code = "ok" /\ ~(l.kind = "response" /\ l.id \in cl.pending)
           /\ l.id \in DOMAIN cl.streams
  <2> DEFINE x == l.id
             tab == cl.streams
             v == [tab[x] EXCEPT !.queue = Append(tab[x].queue, l)]
             w == [tab EXCEPT ![x] = v]
  <2>1. client' = [cl EXCEPT !.streams[x].queue = Append(@, l)] /\ kid' = read /\ UNCHANGED call
    BY <1>5, <1>9
  <2>2. client' = [cl EXCEPT !.streams = w]
    BY <2>1
  <2>3. tab \in Streams /\ x \in DOMAIN tab
    BY <1>3, <1>9 DEF Clients
  <2>4. l \in GoodLines
    BY <1>2, <1>4, <1>9 DEF GoodLines
  <2> HIDE DEF tab, x
  <2>5. tab[x] \in [queue : Seq(GoodLines), failure : StreamFailures]
    BY <2>3, StreamFacts
  <2>6. Append(tab[x].queue, l) \in Seq(GoodLines)
    BY <2>4, <2>5, AppendProperties
  <2>7. v \in [queue : Seq(GoodLines), failure : StreamFailures]
    BY <2>5, <2>6
  <2> HIDE DEF v
  <2>8. w \in Streams /\ DOMAIN w = DOMAIN tab
    BY <2>3, <2>7, ChangedStream
  <2> HIDE DEF w
  <2>9. /\ client' \in Clients /\ client'.pending = client.pending /\ client'.streams = w
    BY <1>3, <2>2, <2>8 DEF Clients
  <2>10. DOMAIN client'.streams = DOMAIN client.streams
    BY <1>3, <2>8, <2>9 DEF tab
  <2> QED
    BY <1>2, <2>1, <2>9, <2>10, ClientKeeps
<1>10. CASE /\ l # Partial /\ code = "ok" /\ ~(l.kind = "response" /\ l.id \in cl.pending)
            /\ l.id \notin DOMAIN cl.streams
  <2>1. Violation(cl, read, "unsolicited")
    BY <1>5, <1>10
  <2> QED
    BY <1>2, <1>3, <2>1, ViolationKeeps DEF StreamFailures
<1> QED
  BY <1>6, <1>7, <1>8, <1>9, <1>10
LEMMA StreamLeft ==
  ASSUME StdioInv, NEW c \in Calls, call[c].pc = "wait", KindOf[c] = "run",
         client' = [client EXCEPT !.streams = Without(@, c)]
  PROVE  /\ client' \in Clients /\ client'.pending = client.pending \ {c}
         /\ DOMAIN client'.streams = DOMAIN client.streams \ {c}
<1>1. client \in Clients /\ TablesMatch(client, call)
  BY DEF StdioInv
<1> DEFINE w == Without(client.streams, c)
<1>2. w \in Streams /\ DOMAIN w = DOMAIN client.streams \ {c}
  BY <1>1, WithoutStream DEF Clients
<1>3. client' = [client EXCEPT !.streams = w]
  OBVIOUS
<1> HIDE DEF w
<1>4. client' \in Clients /\ client'.pending = client.pending /\ client'.streams = w
  BY <1>1, <1>2, <1>3 DEF Clients
<1>5. c \notin client.pending
  BY <1>1 DEF TablesMatch
<1> QED
  BY <1>2, <1>4, <1>5

\* What run() yields for an event of its stream.
LEMMA YieldedFacts ==
  ASSUME NEW c \in Calls, NEW e \in Payloads, EventWire(e)
  PROVE  LET y == Yielded(c, e) IN
         /\ y \in Payloads /\ EventWire(y)
         /\ (y.type \in TerminalTypes) = (e.type \in TerminalTypes)
         /\ SchemaOf[c] = "ok" /\ y.type = "run.completed" => y.code # "misfit"
<1>1. CASE e.type = "run.completed" /\ SchemaOf[c] = "ok" /\ e.code = "misfit"
  <2> DEFINE y == HostEvent(c, "run.failed", "output_schema_mismatch").event
  <2>1. y \in Payloads /\ EventWire(y) /\ y.type = "run.failed"
    BY FailureWire DEF EventCodes
  <2>2. Yielded(c, e) = y
    BY <1>1 DEF Yielded
  <2> HIDE DEF y
  <2> QED
    BY <1>1, <2>1, <2>2 DEF TerminalTypes
<1>2. CASE ~(e.type = "run.completed" /\ SchemaOf[c] = "ok" /\ e.code = "misfit")
  <2>1. Yielded(c, e) = e
    BY <1>2 DEF Yielded
  <2> QED
    BY <1>2, <2>1
<1> QED
  BY <1>1, <1>2

\* A caller that has seen no terminal yields one more event.
LEMMA YieldSound ==
  ASSUME NEW c \in Calls, NEW r \in CallRecords, CallSound(c, r), r.pc = "wait", ~r.saw,
         KindOf[c] = "run", NEW y \in Payloads, EventWire(y),
         SchemaOf[c] = "ok" /\ y.type = "run.completed" => y.code # "misfit",
         NEW tab \in CallRecords, tab.pc = "wait", tab.result = r.result, tab.out = Append(r.out, y),
         tab.saw = (y.type \in TerminalTypes)
  PROVE  CallSound(c, tab)
<1> DEFINE out == r.out
           n == Len(out)
<1>1. out \in Seq(Payloads) /\ n \in Nat /\ DOMAIN out = 1..n
  BY DEF CallRecords
<1>2. /\ Len(tab.out) = n + 1 /\ DOMAIN tab.out = 1..(n + 1)
      /\ tab.out[n + 1] = y /\ \A i \in 1..n : tab.out[i] = out[i]
  BY <1>1
<1>3. Last(tab.out) = y
  BY <1>2 DEF Last
<1>4. r.result = "" /\ Ends(out) = {} /\ \A i \in 1..n : EventWire(out[i])
  BY DEF CallSound
<1>5. \A i \in 1..n : out[i].type \notin TerminalTypes
  BY <1>1, <1>4 DEF Ends
<1> HIDE DEF out, n
<1>6. 1..(n + 1) = 1..n \cup {n + 1}
  BY <1>1
<1>7. Ends(tab.out) = IF tab.saw THEN {n + 1} ELSE {}
  <2>1. \A i \in 1..(n + 1) : tab.out[i].type \in TerminalTypes <=> i = n + 1 /\ tab.saw
    BY <1>2, <1>5, <1>6, <1>1
  <2> QED
    BY <1>1, <1>2, <2>1 DEF Ends
<1>8. \A i \in 1..(n + 1) : EventWire(tab.out[i])
  BY <1>2, <1>4, <1>6
<1>9. Fitting(c, tab.out)
  BY <1>3 DEF Fitting
<1> QED
  BY <1>2, <1>4, <1>7, <1>8, <1>9 DEF CallSound

LEMMA RunReadsKeeps ==
  ASSUME StdioInv, NEW c \in Calls, RunReads(c)
  PROVE  StdioInv'
<1>1. /\ client \in Clients /\ call \in [Calls -> CallRecords] /\ kid \in [Kids -> KidRecords]
      /\ TablesMatch(client, call) /\ CallSound(c, call[c]) /\ call[c].pc = "wait"
      /\ c \in DOMAIN client.streams
  BY DEF StdioInv, RunReads
<1>2. KindOf[c] = "run"
  BY <1>1 DEF TablesMatch
<1> DEFINE st == client.streams[c]
           m == Head(st.queue)
<1>3. st \in [queue : Seq(GoodLines), failure : StreamFailures]
  BY <1>1, StreamFacts DEF Clients
<1>4. st.queue # <<>> => m \in GoodLines /\ Tail(st.queue) \in Seq(GoodLines)
  BY <1>3, HeadTailProperties
<1>5. UNCHANGED kid
  BY DEF RunReads
<1>6. ASSUME NEW result \in CallResults,
             client' = [client EXCEPT !.streams = Without(@, c)], call' = Ended(c, result),
             result = "returned" =>
               Ends(call[c].out) = {Len(call[c].out)} /\ Fitting(c, call[c].out)
      PROVE  StdioInv'
  BY <1>1, <1>2, <1>5, <1>6, StreamLeft, LeaveKeeps
<1>7. CASE st.queue = <<>>
  <2>1. client' = [client EXCEPT !.streams = Without(@, c)] /\ call' = Ended(c, st.failure)
    BY <1>7 DEF RunReads
  <2>2. st.failure \in CallResults /\ st.failure # "returned"
    BY <1>3 DEF CallResults, StreamFailures, ParseCodes
  <2> QED
    BY <1>6, <2>1, <2>2
<1>8. CASE st.queue # <<>> /\ m.kind = "event" /\ call[c].saw
  <2>1. /\ client' = [client EXCEPT !.streams = Without(@, c)]
        /\ call' = Ended(c, "terminal_contract_violated")
    BY <1>8 DEF RunReads
  <2> QED
    BY <1>6, <2>1 DEF CallResults
<1>9. CASE st.queue # <<>> /\ m.kind = "event" /\ ~call[c].saw
  <2> DEFINE y == Yielded(c, m.event)
             out == Append(call[c].out, y)
             rest == Tail(st.queue)
             saw == m.event.type \in TerminalTypes
             r == [call[c] EXCEPT !.out = out, !.saw = saw]
             v == [st EXCEPT !.queue = rest]
             w == [client.streams EXCEPT ![c] = v]
  <2>1. /\ client' = [client EXCEPT !.streams = w]
        /\ call' = [call EXCEPT ![c] = r]
    BY <1>1, <1>9 DEF RunReads
  <2>2. m.event \in Payloads /\ EventWire(m.event)
    BY <1>4, <1>9, ParseFacts DEF GoodLines, HostLines
  <2>3. /\ y \in Payloads /\ EventWire(y) /\ saw = (y.type \in TerminalTypes)
        /\ SchemaOf[c] = "ok" /\ y.type = "run.completed" => y.code # "misfit"
    BY <2>2, YieldedFacts
  <2>4. saw \in BOOLEAN
    OBVIOUS
  <2>5. v \in [queue : Seq(GoodLines), failure : StreamFailures]
    BY <1>3, <1>4, <1>9
  <2> HIDE DEF y, saw, v
  <2>6. out \in Seq(Payloads)
    BY <1>1, <2>3, AppendProperties DEF CallRecords
  <2> HIDE DEF out
  <2>7. /\ r \in CallRecords /\ r.pc = "wait" /\ r.result = call[c].result /\ r.out = out
        /\ r.saw = saw
    BY <1>1, <2>4, <2>6 DEF CallRecords
  <2> HIDE DEF r
  <2>8. CallSound(c, r)
    BY <1>1, <1>2, <1>9, <2>3, <2>7, YieldSound DEF out
  <2>9. /\ call' \in [Calls -> CallRecords] /\ call'[c] = r
        /\ \A d \in Calls \ {c} : call'[d] = call[d]
    BY <1>1, <2>1, <2>7
  <2>10. \A d \in Calls : CallSound(d, call'[d])
    BY <2>8, <2>9, OneCallSound
  <2>11. w \in Streams /\ DOMAIN w = DOMAIN client.streams
    BY <1>1, <2>5, ChangedStream DEF Clients
  <2> HIDE DEF w
  <2>12. /\ client' \in Clients /\ client'.pending = client.pending /\ client'.streams = w
    BY <1>1, <2>1, <2>11 DEF Clients
  <2>13. TablesMatch(client', call')
    <3>1. \A d \in Calls : (call'[d].pc = "wait") = (call[d].pc = "wait")
      BY <1>1, <2>7, <2>9
    <3> QED
      BY <1>1, <2>11, <2>12, <3>1, TablesSame
  <2> QED
    BY <1>1, <1>5, <2>9, <2>10, <2>12, <2>13 DEF StdioInv
<1>10. CASE st.queue # <<>> /\ m.kind # "event"
  <2> DEFINE result == IF ~m.ok THEN "host_error"
                       ELSE IF call[c].saw THEN "returned"
                       ELSE "terminal_contract_violated"
  <2>1. client' = [client EXCEPT !.streams = Without(@, c)] /\ call' = Ended(c, result)
    BY <1>10 DEF RunReads
  <2>2. result \in CallResults /\ (result = "returned" => call[c].saw)
    BY DEF CallResults
  <2> HIDE DEF result
  <2>3. result = "returned" =>
          Ends(call[c].out) = {Len(call[c].out)} /\ Fitting(c, call[c].out)
    BY <1>1, <1>2, <2>2 DEF CallSound
  <2> QED
    BY <1>6, <2>1, <2>2, <2>3
<1> QED
  BY <1>7, <1>8, <1>9, <1>10
LEMMA AbandonRunKeeps ==
  ASSUME StdioInv, NEW c \in Calls, AbandonRun(c)
  PROVE  StdioInv'
<1>1. call[c].pc = "wait" /\ KindOf[c] = "run" /\ kid' \in [Kids -> KidRecords]
  BY DEF AbandonRun, StdioInv
<1>2. /\ client' \in Clients /\ client'.pending = client.pending \ {c}
      /\ DOMAIN client'.streams = DOMAIN client.streams \ {c}
  BY <1>1, StreamLeft DEF AbandonRun
<1>3. call' = Ended(c, "abandoned")
  BY DEF AbandonRun
<1> QED
  BY <1>1, <1>2, <1>3, LeaveKeeps DEF CallResults

\* A mark on a call that waits, for its timer or its cancellation.
LEMMA MarkKeeps ==
  ASSUME StdioInv, NEW c \in Calls, call[c].pc = "wait", NEW r \in CallRecords,
         r.pc = "wait", r.out = call[c].out, r.saw = call[c].saw, r.result = call[c].result,
         call' = [call EXCEPT ![c] = r], kid' \in [Kids -> KidRecords], client' \in Clients,
         client'.pending = client.pending, DOMAIN client'.streams = DOMAIN client.streams
  PROVE  StdioInv'
<1>1. call \in [Calls -> CallRecords] /\ CallSound(c, call[c]) /\ TablesMatch(client, call)
  BY DEF StdioInv
<1>2. /\ call' \in [Calls -> CallRecords] /\ call'[c] = r
      /\ \A d \in Calls \ {c} : call'[d] = call[d]
  BY <1>1
<1>3. CallSound(c, r)
  BY <1>1 DEF CallSound
<1>4. \A d \in Calls : CallSound(d, call'[d])
  BY <1>2, <1>3, OneCallSound
<1>5. \A d \in Calls : (call'[d].pc = "wait") = (call[d].pc = "wait")
  BY <1>2
<1>6. TablesMatch(client', call')
  BY <1>1, <1>5, TablesSame
<1> QED
  BY <1>2, <1>4, <1>6 DEF StdioInv

LEMMA CancelRunKeeps ==
  ASSUME StdioInv, NEW c \in Calls, CancelRun(c)
  PROVE  StdioInv'
<1>1. /\ client \in Clients /\ call \in [Calls -> CallRecords] /\ kid \in [Kids -> KidRecords]
      /\ call[c].pc = "wait"
  BY DEF StdioInv, CancelRun
<1>2. kid' \in [Kids -> KidRecords]
  BY <1>1, CancelledType DEF CancelRun
<1> DEFINE r == [call[c] EXCEPT !.cancelled = TRUE]
<1>3. call' = [call EXCEPT ![c] = r] /\ UNCHANGED client
  BY DEF CancelRun
<1>4. /\ r \in CallRecords /\ r.pc = "wait" /\ r.out = call[c].out /\ r.saw = call[c].saw
      /\ r.result = call[c].result
  BY <1>1 DEF CallRecords
<1> HIDE DEF r
<1> QED
  BY <1>1, <1>2, <1>3, <1>4, MarkKeeps

LEMMA CallTimesOutKeeps ==
  ASSUME StdioInv, NEW c \in Calls, CallTimesOut(c)
  PROVE  StdioInv'
<1>1. /\ client \in Clients /\ call \in [Calls -> CallRecords] /\ kid \in [Kids -> KidRecords]
      /\ call[c].pc = "wait" /\ TablesMatch(client, call) /\ KindOf[c] \in {"probe", "run"}
  BY CallsAssumption DEF StdioInv, CallTimesOut
<1>2. CASE KindOf[c] = "probe"
  <2>1. /\ client' = [client EXCEPT !.pending = @ \ {c}] /\ call' = Ended(c, "timeout")
        /\ kid' \in [Kids -> KidRecords]
    BY <1>1, <1>2 DEF CallTimesOut
  <2>2. /\ client' \in Clients /\ client'.pending = client.pending \ {c}
        /\ client'.streams = client.streams
    BY <1>1, <2>1 DEF Clients
  <2>3. c \notin DOMAIN client.streams
    BY <1>1, <1>2 DEF TablesMatch
  <2> QED
    BY <1>1, <2>1, <2>2, <2>3, LeaveKeeps DEF CallResults, StreamFailures
<1>3. CASE KindOf[c] = "run"
  <2> DEFINE tab == client.streams
             why == IF tab[c].failure = "" THEN "timeout" ELSE tab[c].failure
             v == [tab[c] EXCEPT !.failure = why]
             w == [tab EXCEPT ![c] = v]
             r == [call[c] EXCEPT !.timed = TRUE]
  <2>1. /\ client' = [client EXCEPT !.streams = w]
        /\ call' = [call EXCEPT ![c] = r]
        /\ kid' = Cancelled(c, client, Terminated(kid, call[c].kid))
    BY <1>3 DEF CallTimesOut
  <2>2. tab \in Streams /\ c \in DOMAIN tab
    BY <1>1, <1>3 DEF Clients, TablesMatch
  <2>3. v \in [queue : Seq(GoodLines), failure : StreamFailures]
    <3> DEFINE k == tab[c]
    <3>1. k \in [queue : Seq(GoodLines), failure : StreamFailures]
      <4> HIDE DEF tab
      <4> QED
        BY <2>2, StreamFacts
    <3>2. "timeout" \in StreamFailures /\ v = [k EXCEPT !.failure = why]
      BY DEF StreamFailures
    <3>3. k.failure \in StreamFailures /\ why = IF k.failure = "" THEN "timeout" ELSE k.failure
      BY <3>1
    <3> HIDE DEF k, v, why
    <3> QED
      BY <3>1, <3>2, <3>3
  <2> HIDE DEF v
  <2>4. w \in Streams /\ DOMAIN w = DOMAIN tab
    BY <2>2, <2>3, ChangedStream
  <2> HIDE DEF w
  <2>5. client' \in Clients /\ client'.pending = client.pending /\ client'.streams = w
    BY <1>1, <2>1, <2>4 DEF Clients
  <2>6. kid' \in [Kids -> KidRecords]
    <3>1. call[c].kid \in 0..MaxKids
      BY <1>1 DEF CallRecords
    <3>2. Terminated(kid, call[c].kid) \in [Kids -> KidRecords]
      BY <1>1, <3>1, TerminatedType
    <3> QED
      BY <1>1, <2>1, <3>2, CancelledType
  <2>7. /\ r \in CallRecords /\ r.pc = "wait" /\ r.out = call[c].out /\ r.saw = call[c].saw
        /\ r.result = call[c].result
    BY <1>1 DEF CallRecords
  <2> HIDE DEF r
  <2> QED
    BY <1>1, <2>1, <2>4, <2>5, <2>6, <2>7, MarkKeeps
<1> QED
  BY <1>1, <1>2, <1>3

LEMMA StdioInitially == StdioInit => StdioInv
<1> SUFFICES ASSUME StdioInit PROVE StdioInv
  OBVIOUS
<1> DEFINE none == <<>>
           tab == [c \in {} |-> <<>>]
<1>1. client = [current |-> 0, exited |-> FALSE, carry |-> FALSE, pending |-> {}, streams |-> tab]
  BY DEF StdioInit
<1>2. tab \in Streams /\ DOMAIN tab = {}
  <2> DEFINE Rec == [queue : Seq(GoodLines), failure : StreamFailures]
  <2>1. tab \in [{} -> Rec]
    OBVIOUS
  <2> HIDE DEF tab
  <2>2. tab \in Streams
    BY <2>1 DEF Streams
  <2> QED
    BY <2>1, <2>2
<1> HIDE DEF tab
<1>3. client \in Clients /\ client.pending = {} /\ DOMAIN client.streams = {}
  BY <1>1, <1>2, CallsAssumption DEF Clients
<1> DEFINE r == [pc |-> "idle", kid |-> 0, out |-> none, saw |-> FALSE,
                 result |-> "", timed |-> FALSE, cancelled |-> FALSE]
<1>4. none \in Seq(Payloads) /\ none \in Seq(HostRequests) /\ none \in Seq(HostLines)
  OBVIOUS
<1>5. call = [c \in Calls |-> r]
  BY DEF StdioInit
<1>6. Len(none) = 0 /\ 1..0 = {} /\ none = <<>>
  OBVIOUS
<1> HIDE DEF none
<1>7. r \in CallRecords
  BY <1>4, CallsAssumption DEF CallRecords, CallResults, StreamFailures
<1>8. \A c \in Calls : CallSound(c, r)
  BY <1>6 DEF CallSound
<1>9. NoKid \in KidRecords
  <2>1. NoKid = [st |-> "none", termed |-> FALSE, flags |-> {}, inbox |-> none,
                 outbox |-> none, running |-> {}, cancelled |-> NoCall]
    BY <1>6 DEF NoKid
  <2>2. {} \in Flags \cup {{}} /\ {} \in SUBSET Calls /\ NoCall \in Calls \cup {NoCall}
    OBVIOUS
  <2> QED
    BY <1>4, <2>1, <2>2 DEF KidRecords
<1>10. kid \in [Kids -> KidRecords]
  BY <1>9 DEF StdioInit
<1>11. \A c \in Calls : call[c] = r /\ r.pc = "idle"
  BY <1>5
<1> HIDE DEF r
<1>12. call \in [Calls -> CallRecords] /\ \A c \in Calls : CallSound(c, call[c])
  BY <1>5, <1>7, <1>8
<1>13. TablesMatch(client, call)
  BY <1>3, <1>11 DEF TablesMatch
<1> QED
  BY <1>3, <1>10, <1>12, <1>13 DEF StdioInv

LEMMA StdioInvKept ==
  ASSUME StdioInv, [StdioNext]_stdioVars
  PROVE  StdioInv'
<1>1. ASSUME NEW c \in Calls, StartCall(c) PROVE StdioInv'
  BY <1>1, StartCallKeeps
<1>2. ASSUME NEW c \in Calls, LoadAndSpawn(c) PROVE StdioInv'
  BY <1>2, LoadAndSpawnKeeps
<1>3. ASSUME NEW c \in Calls, RunReads(c) PROVE StdioInv'
  BY <1>3, RunReadsKeeps
<1>4. ASSUME NEW c \in Calls, AbandonRun(c) PROVE StdioInv'
  BY <1>4, AbandonRunKeeps
<1>5. ASSUME NEW c \in Calls, CancelRun(c) PROVE StdioInv'
  BY <1>5, CancelRunKeeps
<1>6. ASSUME NEW c \in Calls, CallTimesOut(c) PROVE StdioInv'
  BY <1>6, CallTimesOutKeeps
<1>7. ASSUME NEW k \in Kids, ServeLine(k) PROVE StdioInv'
  BY <1>7, ServeLineKeeps
<1>8. ASSUME NEW k \in Kids, KidExits(k) PROVE StdioInv'
  BY <1>8, KidExitsKeeps
<1>9. ASSUME NEW k \in Kids, Deliver(k) PROVE StdioInv'
  BY <1>9, DeliverKeeps
<1>10. ASSUME NEW k \in Kids, NEW x \in Calls, ServeOutcome(k, x) PROVE StdioInv'
  BY <1>10, ServeOutcomeKeeps
<1>11. CASE Dispose
  <2>1. client \in Clients /\ kid \in [Kids -> KidRecords]
    BY DEF StdioInv
  <2>2. /\ client' \in Clients /\ client'.pending = client.pending
        /\ DOMAIN client'.streams = DOMAIN client.streams
    BY <1>11, <2>1, FailFacts DEF Dispose, StreamFailures
  <2>3. kid' \in [Kids -> KidRecords]
    BY <1>11, <2>1, TerminatedType DEF Dispose, Clients
  <2> QED
    BY <1>11, <2>2, <2>3, ClientKeeps DEF Dispose
<1>12. CASE Disposed
  <2>1. client \in Clients /\ kid' \in [Kids -> KidRecords]
    BY <1>12 DEF StdioInv, Disposed
  <2>2. /\ client' \in Clients /\ client'.pending = client.pending
        /\ client'.streams = client.streams
    BY <1>12, <2>1 DEF Disposed, Clients
  <2> QED
    BY <1>12, <2>1, <2>2, ClientKeeps DEF Disposed
<1>13. CASE UNCHANGED stdioVars
  BY <1>13 DEF stdioVars, StdioInv, TablesMatch
<1> QED
  BY <1>1, <1>2, <1>3, <1>4, <1>5, <1>6, <1>7, <1>8, <1>9, <1>10, <1>11, <1>12, <1>13
     DEF StdioNext

LEMMA StdioInvSound == StdioInv => StdioSound
<1> SUFFICES ASSUME StdioInv PROVE StdioSound
  OBVIOUS
<1>1. ASSUME NEW c \in Calls, KindOf[c] = "run", call[c].result = "returned"
      PROVE  /\ ClassifyEventStream(call[c].out, FALSE) = "accept"
             /\ Fitting(c, call[c].out)
  <2> DEFINE out == call[c].out
  <2>1. out \in Seq(Payloads) /\ CallSound(c, call[c])
    BY DEF StdioInv, CallRecords
  <2>2. DOMAIN out = 1..Len(out) /\ Len(out) \in Nat
    BY <2>1
  <2>3. /\ \A k \in DOMAIN out : EventWire(out[k])
        /\ Ends(out) = {Len(out)} /\ Fitting(c, out)
    BY <1>1, <2>1, <2>2 DEF CallSound
  <2> HIDE DEF out
  <2>4. ClassifyEventStream(out, FALSE) = "accept"
    BY <2>3 DEF ClassifyEventStream, Ends
  <2> QED
    BY <2>3, <2>4 DEF out
<1> QED
  BY <1>1 DEF StdioSound, ReturnedStreamAccepted, TablesMatchCallers, StdioInv, TablesMatch, Fitting

\* Whatever the hosts write, cut short, or leave unanswered, and whoever replaces the child
\* of whom: a run() of the stdio adapter that returns has yielded valid events with exactly
\* one terminal, the last, and no output that breaks its schema; and the tables of pending
\* probes and streams name exactly the callers that wait (stdio-agent-host.ts: dispatchLine,
\* run, probe, timeouts, exits and disposal).
THEOREM StdioStreamsSound == StdioSpec => []StdioSound
<1>1. StdioInit => StdioInv
  BY StdioInitially
<1>2. StdioInv /\ [StdioNext]_stdioVars => StdioInv'
  BY StdioInvKept
<1>3. StdioInv => StdioSound
  BY StdioInvSound
<1> QED
  BY <1>1, <1>2, <1>3, PTL DEF StdioSpec

-----------------------------------------------------------------------------
(* The native hosts (module AgentHosts).                                   *)

Hosts == {HostOf[q] : q \in HostRuns}
RunIds == {RunIdOf[q] : q \in HostRuns}
Reasons == StopReasons \cup {"protocol"}

ProtoCodes ==
  {"", "stdin_failed", "stream_invalid_event", "initialize_response_invalid", "duplicate_result",
   "event_after_result", "result_before_init", "init_required", "session_id_mismatch",
   "runtime_policy_mismatch", "duplicate_init", "runtime_tool_mismatch", "duplicate_tool_call",
   "unknown_tool_result", "duplicate_assistant", "stream_unknown_event", "unexpected_user_event"}
StopCodes ==
  {"", "run_cancelled", "deadline_exceeded", "stdout_limit_exceeded", "stderr_limit_exceeded"}
RefusalCodes == {PreflightCode(h, e, q) : h \in Hosts, e \in Environments, q \in RunRequests}
PlainCodes ==
  {"abandoned", "run_already_active", "cleanup_failed", "adapter_failed",
   "projection_changed_during_copy", "isolation_directory_not_empty", "executable_changed",
   "spawn_failed", "process_failed", "no_response", "init_missing",
   "initialize_response_missing", "prompt_not_submitted", "result_missing",
   "max_turns_exceeded", "execution_failed", "tool_result_missing",
   "output_schema_mismatch", "usage_invalid"}
HostCodes == {"completed"} \cup ProtoCodes \cup StopCodes \cup RefusalCodes \cup PlainCodes


\* Before the finally block, and from there on.
Early == {"idle", "preflight", "stage", "prespawn", "spawn", "read", "yield"}
Late == {"finally", "wait", "auth", "root", "leave", "emit", "done"}
Talking == {"read", "yield"}

SessionRecords == [init : CallIds \cup {NoRun}, resp : BOOLEAN, submitted : BOOLEAN,
             result : ResultKinds \cup {NoRun}, started : SUBSET CallIds,
             completed : SUBSET CallIds, proto : ProtoCodes, lines : Nat]

HostEvents ==
  [type : {"run.started", "tool.started", "tool.completed", "run.completed", "run.failed"},
   id : CallIds \cup {NoRun} \cup HostCodes]
HostRecords ==
  [pc : Early \cup Late, reason : Reasons \cup {NoRun},
   child : {"none", "alive", "dead", "spawn_error"},
   exit : {0, 1}, force : BOOLEAN, killed : BOOLEAN, disk : SUBSET {"root", "auth"},
   s : SessionRecords, code : HostCodes, clean : BOOLEAN, out : Seq(HostEvents)]

\* Events a run has yielded before its terminal: run.started comes first and each event
\* once, a tool.completed after its tool.started.
WellTold(out) ==
  \A k \in 1..Len(out) :
    /\ out[k].type \notin Terminals /\ out[1].type = "run.started"
    /\ out[k].type = "tool.completed" =>
         \E j \in 1..(k-1) : out[j] = Event("tool.started", out[k].id)
    /\ \A j \in 1..(k-1) : out[j] # out[k]

\* What the adapter remembers of the session is what it has yielded.
Remembered(h, m, out) ==
  /\ (out = <<>>) = (m.init = NoRun)
  /\ \A k \in 1..Len(out) : \/ out[k] = Event("run.started", NoRun)
                            \/ out[k].type = "tool.started" /\ out[k].id \in m.started
                            \/ out[k].type = "tool.completed" /\ out[k].id \in m.completed
  /\ h = "qoder" => \A id \in m.started : \E j \in 1..Len(out) : out[j] = Event("tool.started", id)

Told(h, g) ==
  /\ g.pc \in Early => WellTold(g.out) /\ Remembered(h, g.s, g.out) /\ g.code = ""
  /\ g.pc \in Late \ {"done"} => WellTold(g.out) /\ (g.code = "completed" => g.out # <<>>)

\* Why a run is stopped: only a stop arms the timer, kills the child or ends a protocol.
StopsRecorded(g) ==
  g.pc \in Early => /\ g.reason = NoRun => ~g.force /\ ~g.killed /\ g.s.proto = ""
                    /\ g.reason = "protocol" => g.s.proto # ""
                    /\ g.exit \in {0, 1}
                    /\ g.child # "none" <=> g.pc \in Talking
Earned(h, g) ==
  /\ g.s.init # NoRun /\ g.s.submitted
  /\ g.s.result = "ok" \/ (h = "qoder" /\ g.s.result = "bad_usage")
  /\ g.child = "dead" /\ g.exit = 0 /\ ~g.killed
  /\ h = "qoder" => g.s.resp /\ g.s.started = g.s.completed
  /\ g.reason \in {NoRun, "cancelled"}

\* How far the cleanup has come.
Cleaned(g) ==
  /\ g.pc = "auth" => (g.clean => g.child # "alive")
  /\ g.pc = "root" => (g.clean => g.child # "alive" /\ "auth" \notin g.disk)
  /\ g.pc = "leave" => (g.clean => g.child # "alive" /\ g.disk = {})
  /\ g.pc \in {"emit", "done"} /\ g.code \notin {"", "abandoned", "cleanup_failed"} =>
       g.child # "alive" /\ g.disk = {}

RunEnds(out) == {k \in DOMAIN out : out[k].type \in Terminals}
FinalStream(out) ==
  /\ RunEnds(out) = {Len(out)}
  /\ \A k \in 1..Len(out) :
       /\ out[k].type # "run.failed" => out[1].type = "run.started"
       /\ out[k].type = "tool.completed" =>
            \E j \in 1..(k-1) : out[j] = Event("tool.started", out[k].id)
       /\ \A j \in 1..(k-1) : out[j] # out[k]

HostRunOK(h, g) ==
  /\ Told(h, g) /\ StopsRecorded(g) /\ Cleaned(g)
  /\ g.code = "completed" => Earned(h, g)
  /\ g.pc = "done" /\ g.code # "abandoned" => FinalStream(g.out)
  /\ g.pc \in Talking /\ h # "qoder" => g.s.submitted

HostInv ==
  /\ hrun \in [HostRuns -> HostRecords]
  /\ active \in [Hosts -> [RunIds -> HostRuns \cup {NoRun}]]
  /\ \A r \in HostRuns : HostRunOK(HostOf[r], hrun[r])
  /\ \A r \in HostRuns : hrun[r].pc \in {"idle", "emit", "done"} => ~Registered(r)

\* The checks of a verdict or of a validation: the first that holds names the code.
LEMMA FirstCodeFacts ==
  ASSUME NEW C, "completed" \notin C, NEW checks \in Seq(BOOLEAN \X C)
  PROVE  /\ FirstCode(checks) \in C \cup {"completed"}
         /\ FirstCode(checks) = "completed" => \A i \in 1..Len(checks) : ~checks[i][1]
<1> DEFINE hits == {i \in DOMAIN checks : checks[i][1]}
           first == CHOOSE i \in hits : \A j \in hits : i <= j
<1>1. DOMAIN checks = 1..Len(checks) /\ Len(checks) \in Nat
  OBVIOUS
<1>2. \A i \in DOMAIN checks : checks[i] \in BOOLEAN \X C
  BY <1>1
<1>3. FirstCode(checks) = IF hits = {} THEN "completed" ELSE checks[first][2]
  BY DEF FirstCode
<1>4. hits \subseteq Nat
  BY <1>1
<1>5. hits # {} => first \in hits
  <2> SUFFICES ASSUME hits # {} PROVE first \in hits
    OBVIOUS
  <2> HIDE DEF hits
  <2>1. \E i \in hits : \A j \in hits : i <= j
    BY <1>4, LeastNat
  <2> QED
    BY <2>1
<1> HIDE DEF first
<1>6. hits # {} => checks[first][2] \in C
  BY <1>2, <1>5
<1>7. hits = {} => \A i \in 1..Len(checks) : ~checks[i][1]
  BY <1>1
<1> HIDE DEF hits
<1> QED
  BY <1>3, <1>6, <1>7

LEMMA TwoLists ==
  ASSUME NEW C, "completed" \notin C, NEW a \in Seq(BOOLEAN \X C), NEW b \in Seq(BOOLEAN \X C)
  PROVE  /\ FirstCode(a \o b) \in C \cup {"completed"}
         /\ FirstCode(a \o b) = "completed" =>
              (\A i \in 1..Len(a) : ~a[i][1]) /\ (\A i \in 1..Len(b) : ~b[i][1])
<1> DEFINE S == BOOLEAN \X C
           ab == a \o b
<1>1. a \in Seq(S) /\ b \in Seq(S)
  OBVIOUS
<1> HIDE DEF S
<1>2. /\ ab \in Seq(S) /\ Len(ab) = Len(a) + Len(b) /\ Len(a) \in Nat /\ Len(b) \in Nat
      /\ \A i \in 1..Len(a) : ab[i] = a[i]
      /\ \A i \in 1..Len(b) : ab[Len(a) + i] = b[i]
  BY <1>1
<1> HIDE DEF ab
<1>3. ab \in Seq(BOOLEAN \X C)
  BY <1>2 DEF S
<1>4. /\ FirstCode(ab) \in C \cup {"completed"}
      /\ FirstCode(ab) = "completed" => \A i \in 1..Len(ab) : ~ab[i][1]
  BY <1>3, FirstCodeFacts
<1>5. ASSUME FirstCode(ab) = "completed"
      PROVE  (\A i \in 1..Len(a) : ~a[i][1]) /\ (\A i \in 1..Len(b) : ~b[i][1])
  <2>1. \A i \in 1..Len(a) : i \in 1..Len(ab)
    BY <1>2
  <2>2. \A i \in 1..Len(b) : Len(a) + i \in 1..Len(ab)
    BY <1>2
  <2> QED
    BY <1>2, <1>4, <1>5, <2>1, <2>2
<1> QED
  BY <1>4, <1>5 DEF ab

VerdictCodes == ProtoCodes \cup StopCodes \cup PlainCodes

LEMMA VerdictCodesFacts ==
  "completed" \notin VerdictCodes /\ VerdictCodes \cup {"completed"} \subseteq HostCodes
BY DEF VerdictCodes, ProtoCodes, StopCodes, PlainCodes, HostCodes

LEMMA CloseFacts ==
  ASSUME NEW g \in HostRecords
  PROVE  /\ CloseIssues(g) \in Seq(BOOLEAN \X VerdictCodes)
         /\ Len(CloseIssues(g)) = 4
         /\ CloseIssues(g)[1][1] = (g.child = "spawn_error")
         /\ CloseIssues(g)[2][1] = (StoppedCode(g.reason) # "")
         /\ CloseIssues(g)[3][1] = (g.s.proto # "")
         /\ CloseIssues(g)[4][1] = (g.exit # 0)
<1> DEFINE stop == StoppedCode(g.reason)
           proto == g.s.proto
           child == g.child
           exit == g.exit
<1>1. stop \in StopCodes
  BY DEF StoppedCode, StopCodes
<1>2. proto \in ProtoCodes
  BY DEF HostRecords, SessionRecords
<1>3. /\ stop \in VerdictCodes /\ proto \in VerdictCodes /\ "spawn_failed" \in VerdictCodes
      /\ "process_failed" \in VerdictCodes
  BY <1>1, <1>2 DEF VerdictCodes, PlainCodes
<1>4. CloseIssues(g) = << <<child = "spawn_error", "spawn_failed">>, <<stop # "", stop>>,
                          <<proto # "", proto>>, <<exit # 0, "process_failed">> >>
  BY DEF CloseIssues
<1> HIDE DEF stop, proto, child, exit
<1> DEFINE c1 == <<child = "spawn_error", "spawn_failed">>
           c2 == <<stop # "", stop>>
           c3 == <<proto # "", proto>>
           c4 == <<exit # 0, "process_failed">>
<1>5. /\ c1 \in BOOLEAN \X VerdictCodes /\ c2 \in BOOLEAN \X VerdictCodes
      /\ c3 \in BOOLEAN \X VerdictCodes /\ c4 \in BOOLEAN \X VerdictCodes
      /\ c1[1] = (child = "spawn_error") /\ c2[1] = (stop # "") /\ c3[1] = (proto # "")
      /\ c4[1] = (exit # 0)
  BY <1>3
<1>6. CloseIssues(g) = <<c1, c2, c3, c4>>
  BY <1>4
<1> HIDE DEF c1, c2, c3, c4
<1>7. <<c1, c2, c3, c4>> \in Seq(BOOLEAN \X VerdictCodes)
  <2> DEFINE S == BOOLEAN \X VerdictCodes
  <2>1. c1 \in S /\ c2 \in S /\ c3 \in S /\ c4 \in S
    BY <1>5
  <2> HIDE DEF S
  <2>2. <<c1, c2, c3, c4>> \in Seq(S)
    BY <2>1
  <2> QED
    BY <2>2 DEF S
<1>8. /\ Len(CloseIssues(g)) = 4 /\ CloseIssues(g)[1] = c1 /\ CloseIssues(g)[2] = c2
      /\ CloseIssues(g)[3] = c3 /\ CloseIssues(g)[4] = c4
  BY <1>6
<1> QED
  BY <1>5, <1>6, <1>7, <1>8 DEF stop, proto, child, exit

LEMMA QoderVerdictFacts ==
  ASSUME NEW g \in HostRecords
  PROVE  /\ QoderVerdict(g) \in HostCodes
         /\ QoderVerdict(g) = "completed" =>
              /\ g.child # "spawn_error" /\ StoppedCode(g.reason) = "" /\ g.s.proto = ""
              /\ g.exit = 0 /\ g.s.init # NoRun /\ g.s.resp /\ g.s.submitted
              /\ g.s.result \notin {NoRun, "max_turns", "error", "bad_output"}
              /\ g.s.started = g.s.completed
<1> DEFINE m == g.s
           n1 == m.lines = 0
           n2 == m.init = NoRun
           n3 == ~m.resp
           n4 == ~m.submitted
           n5 == m.result = NoRun
           n6 == m.result = "max_turns"
           n7 == m.result = "error"
           n8 == m.started # m.completed
           n9 == m.result = "bad_output"
           b == << <<n1, "no_response">>, <<n2, "init_missing">>,
                   <<n3, "initialize_response_missing">>, <<n4, "prompt_not_submitted">>,
                   <<n5, "result_missing">>, <<n6, "max_turns_exceeded">>,
                   <<n7, "execution_failed">>, <<n8, "tool_result_missing">>,
                   <<n9, "output_schema_mismatch">> >>
           a == CloseIssues(g)
<1>1. QoderVerdict(g) = FirstCode(a \o b)
  BY DEF QoderVerdict
<1>2. m.resp \in BOOLEAN /\ m.submitted \in BOOLEAN
  BY DEF HostRecords, SessionRecords
<1>3. /\ n1 \in BOOLEAN /\ n2 \in BOOLEAN /\ n3 \in BOOLEAN /\ n4 \in BOOLEAN
      /\ n5 \in BOOLEAN /\ n6 \in BOOLEAN /\ n7 \in BOOLEAN /\ n8 \in BOOLEAN /\ n9 \in BOOLEAN
  BY <1>2
<1>4. a \in Seq(BOOLEAN \X VerdictCodes) /\ Len(a) = 4
  BY CloseFacts
<1> HIDE DEF a, n1, n2, n3, n4, n5, n6, n7, n8, n9
<1> DEFINE e1 == <<n1, "no_response">>
           e2 == <<n2, "init_missing">>
           e3 == <<n3, "initialize_response_missing">>
           e4 == <<n4, "prompt_not_submitted">>
           e5 == <<n5, "result_missing">>
           e6 == <<n6, "max_turns_exceeded">>
           e7 == <<n7, "execution_failed">>
           e8 == <<n8, "tool_result_missing">>
           e9 == <<n9, "output_schema_mismatch">>
           S == BOOLEAN \X VerdictCodes
<1>5. /\ e1 \in S /\ e2 \in S /\ e3 \in S /\ e4 \in S /\ e5 \in S /\ e6 \in S /\ e7 \in S
      /\ e8 \in S /\ e9 \in S
  BY <1>3 DEF VerdictCodes, PlainCodes
<1>6. /\ e1[1] = n1 /\ e2[1] = n2 /\ e3[1] = n3 /\ e4[1] = n4 /\ e5[1] = n5 /\ e6[1] = n6
      /\ e7[1] = n7 /\ e8[1] = n8 /\ e9[1] = n9
  OBVIOUS
<1>7. b = <<e1, e2, e3, e4, e5, e6, e7, e8, e9>>
  OBVIOUS
<1> HIDE DEF b, S, e1, e2, e3, e4, e5, e6, e7, e8, e9
<1>8. /\ b \in Seq(S) /\ Len(b) = 9 /\ b[1] = e1 /\ b[2] = e2 /\ b[3] = e3 /\ b[4] = e4
      /\ b[5] = e5 /\ b[6] = e6 /\ b[7] = e7 /\ b[8] = e8 /\ b[9] = e9
  BY <1>5, <1>7
<1>9. /\ FirstCode(a \o b) \in VerdictCodes \cup {"completed"}
      /\ FirstCode(a \o b) = "completed" =>
           (\A i \in 1..Len(a) : ~a[i][1]) /\ (\A i \in 1..Len(b) : ~b[i][1])
  BY <1>4, <1>8, TwoLists, VerdictCodesFacts DEF S
<1>10. ASSUME FirstCode(a \o b) = "completed"
       PROVE  ~n2 /\ ~n3 /\ ~n4 /\ ~n5 /\ ~n6 /\ ~n7 /\ ~n8 /\ ~n9
  BY <1>6, <1>8, <1>9, <1>10
<1>11. ASSUME FirstCode(a \o b) = "completed"
       PROVE  /\ g.child # "spawn_error" /\ StoppedCode(g.reason) = "" /\ g.s.proto = ""
              /\ g.exit = 0
  <2>1. ~a[1][1] /\ ~a[2][1] /\ ~a[3][1] /\ ~a[4][1]
    BY <1>4, <1>9, <1>11
  <2> QED
    BY <2>1, CloseFacts DEF a
<1>12. QoderVerdict(g) \in HostCodes
  BY <1>1, <1>9, VerdictCodesFacts
<1> QED
  BY <1>1, <1>10, <1>11, <1>12, <1>2 DEF n2, n3, n4, n5, n6, n7, n8, n9
LEMMA ZeroToolVerdictFacts ==
  ASSUME NEW g \in HostRecords
  PROVE  /\ ZeroToolVerdict(g) \in HostCodes
         /\ ZeroToolVerdict(g) = "completed" =>
              /\ g.child # "spawn_error" /\ StoppedCode(g.reason) = "" /\ g.s.proto = ""
              /\ g.exit = 0 /\ g.s.init # NoRun
              /\ g.s.result \notin {NoRun, "max_turns", "error", "bad_output", "bad_usage"}
<1> DEFINE m == g.s
           n1 == m.init = NoRun
           n2 == m.result = NoRun
           n3 == m.result = "max_turns"
           n4 == m.result = "error"
           n5 == m.result = "bad_output"
           n6 == m.result = "bad_usage"
           b == << <<n1, "init_missing">>, <<n2, "result_missing">>,
                   <<n3, "max_turns_exceeded">>, <<n4, "execution_failed">>,
                   <<n5, "output_schema_mismatch">>, <<n6, "usage_invalid">> >>
           a == CloseIssues(g)
<1>1. ZeroToolVerdict(g) = FirstCode(a \o b)
  BY DEF ZeroToolVerdict
<1>2. /\ n1 \in BOOLEAN /\ n2 \in BOOLEAN /\ n3 \in BOOLEAN /\ n4 \in BOOLEAN
      /\ n5 \in BOOLEAN /\ n6 \in BOOLEAN
  OBVIOUS
<1>3. a \in Seq(BOOLEAN \X VerdictCodes) /\ Len(a) = 4
  BY CloseFacts
<1> HIDE DEF a, n1, n2, n3, n4, n5, n6
<1> DEFINE e1 == <<n1, "init_missing">>
           e2 == <<n2, "result_missing">>
           e3 == <<n3, "max_turns_exceeded">>
           e4 == <<n4, "execution_failed">>
           e5 == <<n5, "output_schema_mismatch">>
           e6 == <<n6, "usage_invalid">>
           S == BOOLEAN \X VerdictCodes
<1>4. e1 \in S /\ e2 \in S /\ e3 \in S /\ e4 \in S /\ e5 \in S /\ e6 \in S
  BY <1>2 DEF VerdictCodes, PlainCodes
<1>5. e1[1] = n1 /\ e2[1] = n2 /\ e3[1] = n3 /\ e4[1] = n4 /\ e5[1] = n5
      /\ e6[1] = n6
  OBVIOUS
<1>6. b = <<e1, e2, e3, e4, e5, e6>>
  OBVIOUS
<1> HIDE DEF b, S, e1, e2, e3, e4, e5, e6
<1>7. /\ b \in Seq(S) /\ Len(b) = 6 /\ b[1] = e1 /\ b[2] = e2 /\ b[3] = e3 /\ b[4] = e4
      /\ b[5] = e5 /\ b[6] = e6
  BY <1>4, <1>6
<1>8. /\ FirstCode(a \o b) \in VerdictCodes \cup {"completed"}
      /\ FirstCode(a \o b) = "completed" =>
           (\A i \in 1..Len(a) : ~a[i][1]) /\ (\A i \in 1..Len(b) : ~b[i][1])
  BY <1>3, <1>7, TwoLists, VerdictCodesFacts DEF S
<1>9. ASSUME FirstCode(a \o b) = "completed"
      PROVE  ~n1 /\ ~n2 /\ ~n3 /\ ~n4 /\ ~n5 /\ ~n6
  BY <1>5, <1>7, <1>8, <1>9
<1>10. ASSUME FirstCode(a \o b) = "completed"
       PROVE  /\ g.child # "spawn_error" /\ StoppedCode(g.reason) = "" /\ g.s.proto = ""
              /\ g.exit = 0
  <2>1. ~a[1][1] /\ ~a[2][1] /\ ~a[3][1] /\ ~a[4][1]
    BY <1>3, <1>8, <1>10
  <2> QED
    BY <2>1, CloseFacts DEF a
<1>11. ZeroToolVerdict(g) \in HostCodes
  BY <1>1, <1>8, VerdictCodesFacts
<1> QED
  BY <1>1, <1>9, <1>10, <1>11 DEF n1, n2, n3, n4, n5, n6

\* What one line makes of a session: nothing to tell, a first run.started, or in Qoder the
\* start of a tool call nobody had started or the end of one that had been started.
Silently(h, m, a) ==
  /\ a.ev = <<>> /\ a.s.init = m.init
  /\ m.started \subseteq a.s.started /\ m.completed \subseteq a.s.completed
  /\ h = "qoder" => a.s.started = m.started
Announced(m, a) ==
  /\ m.init = NoRun /\ a.s.init \in CallIds /\ a.ev = <<Event("run.started", NoRun)>>
  /\ a.s.started = m.started /\ a.s.completed = m.completed
ToolStarted(m, a) ==
  \E id \in CallIds \ m.started :
    /\ m.init # NoRun /\ a.s.init = m.init /\ a.ev = <<Event("tool.started", id)>>
    /\ a.s.started = m.started \cup {id} /\ a.s.completed = m.completed
ToolCompleted(m, a) ==
  \E id \in m.started \ m.completed :
    /\ m.init # NoRun /\ a.s.init = m.init /\ a.ev = <<Event("tool.completed", id)>>
    /\ a.s.started = m.started /\ a.s.completed = m.completed \cup {id}
LineTaken(h, m, a) ==
  /\ a.s \in SessionRecords /\ (m.submitted => a.s.submitted)
  /\ \/ Silently(h, m, a)
     \/ /\ a.s.proto = m.proto
        /\ \/ Announced(m, a)
           \/ h = "qoder" /\ (ToolStarted(m, a) \/ ToolCompleted(m, a))

LEMMA QuietTaken ==
  ASSUME NEW h, NEW m \in SessionRecords, NEW f \in SessionRecords, m.submitted => f.submitted,
         f.init = m.init, m.started \subseteq f.started, f.completed = m.completed,
         h = "qoder" => f.started = m.started
  PROVE  LineTaken(h, m, Quiet(f))
<1>1. Quiet(f).s = f /\ Quiet(f).ev = <<>>
  BY DEF Quiet
<1> QED
  BY <1>1 DEF LineTaken, Silently

LEMMA RefusedTaken ==
  ASSUME NEW h, NEW m \in SessionRecords, NEW code \in ProtoCodes
  PROVE  LineTaken(h, m, Refused(m, code))
<1> DEFINE f == [m EXCEPT !.proto = code]
<1>1. /\ f \in SessionRecords /\ f.submitted = m.submitted /\ f.init = m.init
      /\ f.started = m.started /\ f.completed = m.completed
  BY DEF SessionRecords
<1>2. Refused(m, code) = Quiet(f)
  BY DEF Refused
<1> HIDE DEF f
<1> QED
  BY <1>1, <1>2, QuietTaken

LEMMA SubmitFacts ==
  ASSUME NEW m \in SessionRecords
  PROVE  LET f == MaybeSubmitPrompt(m) IN
         /\ f \in SessionRecords /\ (m.submitted => f.submitted) /\ f.init = m.init
         /\ f.started = m.started /\ f.completed = m.completed /\ f.proto = m.proto
BY DEF MaybeSubmitPrompt, SessionRecords

LEMMA LineFacts ==
  ASSUME NEW l \in Lines
  PROVE  /\ l.kind \in {"junk", "note", "text", "foreign", "response", "init", "tool_use",
                        "tool_result", "assistant", "result"}
         /\ l.kind \in {"init", "tool_use", "tool_result", "assistant"} => l.id \in CallIds
         /\ l.kind = "result" => l.id \in ResultKinds
         /\ l.ok \in BOOLEAN
BY DEF Lines

LEMMA QoderInitTaken ==
  ASSUME NEW m \in SessionRecords, NEW l, l.id \in CallIds, l.ok \in BOOLEAN
  PROVE  LineTaken("qoder", m, QoderInit(m, l))
<1>1. CASE ~l.ok
  BY <1>1, RefusedTaken DEF QoderInit, ProtoCodes
<1>2. CASE l.ok /\ m.init = NoRun
  <2> DEFINE f == [m EXCEPT !.init = l.id]
             a == [s |-> MaybeSubmitPrompt(f), ev |-> <<Event("run.started", NoRun)>>]
  <2>1. QoderInit(m, l) = a
    BY <1>2 DEF QoderInit
  <2>2. /\ f \in SessionRecords /\ f.submitted = m.submitted /\ f.init = l.id /\ f.proto = m.proto
        /\ f.started = m.started /\ f.completed = m.completed
    BY DEF SessionRecords
  <2> HIDE DEF f
  <2> DEFINE n == MaybeSubmitPrompt(f)
  <2>3. /\ n \in SessionRecords /\ (m.submitted => n.submitted) /\ n.init = l.id
        /\ n.started = m.started /\ n.completed = m.completed /\ n.proto = m.proto
    BY <2>2, SubmitFacts
  <2>4. a.s = n /\ a.ev = <<Event("run.started", NoRun)>>
    OBVIOUS
  <2> HIDE DEF n, a
  <2> QED
    BY <1>2, <2>1, <2>3, <2>4 DEF LineTaken, Announced
<1>3. CASE l.ok /\ m.init # NoRun
  <2>1. QoderInit(m, l) \in {Quiet(m), Refused(m, "duplicate_init")}
    BY <1>3 DEF QoderInit
  <2> QED
    BY <2>1, QuietTaken, RefusedTaken DEF ProtoCodes
<1> QED
  BY <1>1, <1>2, <1>3

LEMMA QoderToolTaken ==
  ASSUME NEW m \in SessionRecords, NEW l, l.id \in CallIds, l.ok \in BOOLEAN, m.init # NoRun
  PROVE  /\ LineTaken("qoder", m, QoderToolUse(m, l))
         /\ LineTaken("qoder", m, QoderToolResult(m, l))
<1>1. LineTaken("qoder", m, QoderToolUse(m, l))
  <2>1. CASE ~l.ok \/ l.id \in m.started
    <3>1. QoderToolUse(m, l) \in {Refused(m, "runtime_tool_mismatch"),
                                  Refused(m, "duplicate_tool_call")}
      BY <2>1 DEF QoderToolUse
    <3> QED
      BY <3>1, RefusedTaken DEF ProtoCodes
  <2>2. CASE l.ok /\ l.id \notin m.started
    <3> DEFINE f == [m EXCEPT !.started = @ \cup {l.id}]
               a == [s |-> f, ev |-> <<Event("tool.started", l.id)>>]
    <3>1. QoderToolUse(m, l) = a
      BY <2>2 DEF QoderToolUse
    <3>2. /\ f \in SessionRecords /\ f.submitted = m.submitted /\ f.init = m.init
          /\ f.proto = m.proto /\ f.started = m.started \cup {l.id} /\ f.completed = m.completed
      BY DEF SessionRecords
    <3>3. a.s = f /\ a.ev = <<Event("tool.started", l.id)>>
      OBVIOUS
    <3> HIDE DEF f, a
    <3>4. ToolStarted(m, a)
      BY <2>2, <3>2, <3>3 DEF ToolStarted
    <3> QED
      BY <3>1, <3>2, <3>3, <3>4 DEF LineTaken
  <2> QED
    BY <2>1, <2>2
<1>2. LineTaken("qoder", m, QoderToolResult(m, l))
  <2>1. CASE l.id \notin m.started \ m.completed
    BY <2>1, RefusedTaken DEF QoderToolResult, ProtoCodes
  <2>2. CASE l.id \in m.started \ m.completed
    <3> DEFINE f == [m EXCEPT !.completed = @ \cup {l.id}]
               a == [s |-> f, ev |-> <<Event("tool.completed", l.id)>>]
    <3>1. QoderToolResult(m, l) = a
      BY <2>2 DEF QoderToolResult
    <3>2. /\ f \in SessionRecords /\ f.submitted = m.submitted /\ f.init = m.init
          /\ f.proto = m.proto /\ f.started = m.started /\ f.completed = m.completed \cup {l.id}
      BY DEF SessionRecords
    <3>3. a.s = f /\ a.ev = <<Event("tool.completed", l.id)>>
      OBVIOUS
    <3> HIDE DEF f, a
    <3>4. ToolCompleted(m, a)
      BY <2>2, <3>2, <3>3 DEF ToolCompleted
    <3> QED
      BY <3>1, <3>2, <3>3, <3>4 DEF LineTaken
  <2> QED
    BY <2>1, <2>2
<1> QED
  BY <1>1, <1>2
LEMMA ResultTaken ==
  ASSUME NEW h, NEW m \in SessionRecords, NEW id \in ResultKinds
  PROVE  LineTaken(h, m, Quiet([m EXCEPT !.result = id]))
<1> DEFINE f == [m EXCEPT !.result = id]
<1>1. /\ f \in SessionRecords /\ f.submitted = m.submitted /\ f.init = m.init
      /\ f.started = m.started /\ f.completed = m.completed
  BY DEF SessionRecords
<1> HIDE DEF f
<1>2. LineTaken(h, m, Quiet(f))
  BY <1>1, QuietTaken
<1> QED
  BY <1>2 DEF f

LEMMA QoderTaken ==
  ASSUME NEW m \in SessionRecords, NEW l \in Lines
  PROVE  LineTaken("qoder", m, QoderAccept(m, l))
<1> DEFINE spoken == {"text", "foreign", "tool_use", "tool_result", "assistant", "result"}
<1>1. CASE l.kind = "junk"
  BY <1>1, RefusedTaken DEF QoderAccept, ProtoCodes
<1>2. CASE l.kind = "response"
  <2> DEFINE f == [m EXCEPT !.resp = TRUE]
             n == MaybeSubmitPrompt(f)
  <2>1. QoderAccept(m, l) \in {Quiet(n), Refused(m, "initialize_response_invalid")}
    BY <1>2 DEF QoderAccept
  <2>2. /\ f \in SessionRecords /\ f.submitted = m.submitted /\ f.init = m.init
        /\ f.started = m.started /\ f.completed = m.completed
    BY DEF SessionRecords
  <2> HIDE DEF f
  <2>3. /\ n \in SessionRecords /\ (m.submitted => n.submitted) /\ n.init = m.init
        /\ n.started = m.started /\ n.completed = m.completed
    BY <2>2, SubmitFacts
  <2> HIDE DEF n
  <2>4. LineTaken("qoder", m, Quiet(n))
    BY <2>3, QuietTaken
  <2>5. LineTaken("qoder", m, Refused(m, "initialize_response_invalid"))
    BY RefusedTaken DEF ProtoCodes
  <2> QED
    BY <2>1, <2>4, <2>5
<1>3. CASE l.kind = "note"
  <2>1. QoderAccept(m, l) = Quiet(m)
    BY <1>3 DEF QoderAccept
  <2> QED
    BY <2>1, QuietTaken
<1>4. CASE l.kind \in spoken /\ m.result # NoRun
  <2>1. QoderAccept(m, l) \in {Refused(m, "duplicate_result"), Refused(m, "event_after_result")}
    BY <1>4 DEF QoderAccept
  <2> QED
    BY <2>1, RefusedTaken DEF ProtoCodes
<1>5. CASE l.kind = "init"
  <2>1. QoderAccept(m, l) = QoderInit(m, l)
    BY <1>5 DEF QoderAccept
  <2> QED
    BY <1>5, <2>1, LineFacts, QoderInitTaken
<1>6. CASE l.kind = "result" /\ m.init = NoRun /\ m.result = NoRun
  <2> DEFINE f == [m EXCEPT !.result = l.id]
             g == [f EXCEPT !.proto = "result_before_init"]
  <2>1. QoderAccept(m, l) = Quiet(g)
    BY <1>6 DEF QoderAccept, Refused
  <2>2. f \in SessionRecords /\ f.submitted = m.submitted /\ f.init = m.init
        /\ f.started = m.started /\ f.completed = m.completed
    BY <1>6, LineFacts DEF SessionRecords
  <2> HIDE DEF f
  <2>3. g \in SessionRecords /\ g.submitted = m.submitted /\ g.init = m.init
        /\ g.started = m.started /\ g.completed = m.completed
    BY <2>2 DEF SessionRecords, ProtoCodes
  <2> HIDE DEF g
  <2> QED
    BY <2>1, <2>3, QuietTaken
<1>7. CASE l.kind \in spoken \ {"result"} /\ m.init = NoRun /\ m.result = NoRun
  <2>1. QoderAccept(m, l) = Refused(m, "init_required")
    BY <1>7 DEF QoderAccept
  <2> QED
    BY <2>1, RefusedTaken DEF ProtoCodes
<1>8. CASE l.kind \in spoken /\ m.init # NoRun /\ m.result = NoRun
  <2>1. QoderAccept(m, l) =
          CASE l.kind = "foreign" -> Refused(m, "session_id_mismatch")
            [] l.kind = "tool_use" -> QoderToolUse(m, l)
            [] l.kind = "tool_result" -> QoderToolResult(m, l)
            [] l.kind = "result" -> Quiet([m EXCEPT !.result = l.id])
            [] l.kind \in {"text", "assistant"} -> Quiet(m)
    BY <1>8 DEF QoderAccept
  <2>2. CASE l.kind = "foreign"
    <3>1. QoderAccept(m, l) = Refused(m, "session_id_mismatch")
      BY <2>1, <2>2
    <3> QED
      BY <3>1, RefusedTaken DEF ProtoCodes
  <2>3. CASE l.kind \in {"tool_use", "tool_result"}
    <3>1. QoderAccept(m, l) \in {QoderToolUse(m, l), QoderToolResult(m, l)}
      BY <2>1, <2>3
    <3> QED
      BY <1>8, <2>3, <3>1, LineFacts, QoderToolTaken
  <2>4. CASE l.kind = "result"
    <3>1. QoderAccept(m, l) = Quiet([m EXCEPT !.result = l.id])
      BY <2>1, <2>4
    <3> QED
      BY <2>4, <3>1, LineFacts, ResultTaken
  <2>5. CASE l.kind \in {"text", "assistant"}
    <3>1. QoderAccept(m, l) = Quiet(m)
      BY <2>1, <2>5
    <3> QED
      BY <3>1, QuietTaken
  <2> QED
    BY <1>8, <2>2, <2>3, <2>4, <2>5
<1> QED
  BY <1>1, <1>2, <1>3, <1>4, <1>5, <1>6, <1>7, <1>8, LineFacts

LEMMA ZeroToolInitTaken ==
  ASSUME NEW h, NEW m \in SessionRecords, NEW l, l.id \in CallIds, l.ok \in BOOLEAN
  PROVE  LineTaken(h, m, ZeroToolInit(m, l))
<1>1. CASE m.init # NoRun \/ ~l.ok
  <2>1. ZeroToolInit(m, l) \in {Refused(m, "duplicate_init"),
                                Refused(m, "runtime_policy_mismatch")}
    BY <1>1 DEF ZeroToolInit
  <2> QED
    BY <2>1, RefusedTaken DEF ProtoCodes
<1>2. CASE l.ok /\ m.init = NoRun
  <2> DEFINE f == [m EXCEPT !.init = l.id]
             a == [s |-> f, ev |-> <<Event("run.started", NoRun)>>]
  <2>1. ZeroToolInit(m, l) = a
    BY <1>2 DEF ZeroToolInit
  <2>2. /\ f \in SessionRecords /\ f.submitted = m.submitted /\ f.init = l.id /\ f.proto = m.proto
        /\ f.started = m.started /\ f.completed = m.completed
    BY DEF SessionRecords
  <2>3. a.s = f /\ a.ev = <<Event("run.started", NoRun)>>
    OBVIOUS
  <2> HIDE DEF f, a
  <2> QED
    BY <1>2, <2>1, <2>2, <2>3 DEF LineTaken, Announced
<1> QED
  BY <1>1, <1>2

LEMMA ZeroToolTaken ==
  ASSUME NEW h \in ZeroTool, NEW m \in SessionRecords, NEW l \in Lines,
         NEW other, LineTaken(h, m, other)
  PROVE  LineTaken(h, m, ZeroToolAccept(m, l, other))
<1>1. CASE l.kind = "junk" \/ (l.kind # "junk" /\ m.result # NoRun)
  <2>1. ZeroToolAccept(m, l, other) \in
          {Refused(m, "stream_invalid_event"), Refused(m, "duplicate_result"),
           Refused(m, "event_after_result")}
    BY <1>1 DEF ZeroToolAccept
  <2> QED
    BY <2>1, RefusedTaken DEF ProtoCodes
<1>2. CASE l.kind = "init" /\ m.result = NoRun
  <2>1. ZeroToolAccept(m, l, other) = ZeroToolInit(m, l)
    BY <1>2 DEF ZeroToolAccept
  <2> QED
    BY <1>2, <2>1, LineFacts, ZeroToolInitTaken
<1>3. CASE l.kind \notin {"junk", "init"} /\ m.result = NoRun /\ m.init = NoRun
  <2>1. ZeroToolAccept(m, l, other) = Refused(m, "init_required")
    BY <1>3 DEF ZeroToolAccept
  <2> QED
    BY <2>1, RefusedTaken DEF ProtoCodes
<1>4. CASE l.kind \notin {"junk", "init"} /\ m.result = NoRun /\ m.init # NoRun
  <2>1. ZeroToolAccept(m, l, other) =
          CASE l.kind = "foreign" -> Refused(m, "session_id_mismatch")
            [] l.kind = "text" -> Quiet(m)
            [] l.kind = "assistant" -> ZeroToolAssistant(m, l)
            [] l.kind = "tool_use" -> Refused(m, "runtime_tool_mismatch")
            [] l.kind = "result" -> Quiet([m EXCEPT !.result = l.id])
            [] OTHER -> other
    BY <1>4 DEF ZeroToolAccept
  <2>2. CASE l.kind \in {"foreign", "tool_use"}
    <3>1. ZeroToolAccept(m, l, other) \in {Refused(m, "session_id_mismatch"),
                                           Refused(m, "runtime_tool_mismatch")}
      BY <2>1, <2>2
    <3> QED
      BY <3>1, RefusedTaken DEF ProtoCodes
  <2>3. CASE l.kind = "text"
    <3>1. ZeroToolAccept(m, l, other) = Quiet(m)
      BY <2>1, <2>3
    <3> QED
      BY <3>1, QuietTaken
  <2>4. CASE l.kind = "assistant"
    <3> DEFINE f == [m EXCEPT !.started = @ \cup {l.id}]
    <3>1. ZeroToolAccept(m, l, other) \in {Refused(m, "duplicate_assistant"), Quiet(f)}
      BY <2>1, <2>4 DEF ZeroToolAssistant
    <3>2. /\ f \in SessionRecords /\ f.submitted = m.submitted /\ f.init = m.init
          /\ m.started \subseteq f.started /\ f.completed = m.completed
      BY <2>4, LineFacts DEF SessionRecords
    <3> HIDE DEF f
    <3>3. LineTaken(h, m, Quiet(f))
      BY <3>2, QuietTaken DEF ZeroTool
    <3>4. LineTaken(h, m, Refused(m, "duplicate_assistant"))
      BY RefusedTaken DEF ProtoCodes
    <3> QED
      BY <3>1, <3>3, <3>4
  <2>5. CASE l.kind = "result"
    <3>1. ZeroToolAccept(m, l, other) = Quiet([m EXCEPT !.result = l.id])
      BY <2>1, <2>5
    <3> QED
      BY <2>5, <3>1, LineFacts, ResultTaken
  <2>6. CASE l.kind \notin {"foreign", "text", "assistant", "tool_use", "result"}
    <3>1. ZeroToolAccept(m, l, other) = other
      BY <2>1, <2>6
    <3> QED
      BY <3>1
  <2> QED
    BY <2>2, <2>3, <2>4, <2>5, <2>6
<1> QED
  BY <1>1, <1>2, <1>3, <1>4

LEMMA AcceptTaken ==
  ASSUME NEW h \in {"qoder", "codebuddy", "qwen", "claude"}, NEW m \in SessionRecords,
         NEW l \in Lines
  PROVE  LineTaken(h, m, Accept(h, m, l))
<1>1. CASE h = "qoder"
  <2>1. Accept(h, m, l) = QoderAccept(m, l)
    BY <1>1 DEF Accept
  <2> QED
    BY <1>1, <2>1, QoderTaken
<1>2. \A code \in {"stream_unknown_event", "runtime_tool_mismatch", "unexpected_user_event"} :
        LineTaken(h, m, Refused(m, code))
  BY RefusedTaken DEF ProtoCodes
<1>3. LineTaken(h, m, Quiet(m))
  BY QuietTaken
<1>4. CASE h = "codebuddy"
  <2> DEFINE other == CASE l.kind = "note" -> Quiet(m)
                        [] l.kind = "response" -> Refused(m, "stream_unknown_event")
                        [] OTHER -> Refused(m, "runtime_tool_mismatch")
  <2>1. Accept(h, m, l) = ZeroToolAccept(m, l, other)
    BY <1>4 DEF Accept, CodebuddyAccept
  <2>2. LineTaken(h, m, other)
    BY <1>2, <1>3
  <2> HIDE DEF other
  <2> QED
    BY <1>4, <2>1, <2>2, ZeroToolTaken DEF ZeroTool
<1>5. CASE h = "qwen"
  <2> DEFINE other == IF l.kind = "note" THEN Refused(m, "stream_unknown_event")
                      ELSE Refused(m, "runtime_tool_mismatch")
  <2>1. Accept(h, m, l) = ZeroToolAccept(m, l, other)
    BY <1>5 DEF Accept, QwenAccept
  <2>2. LineTaken(h, m, other)
    BY <1>2
  <2> HIDE DEF other
  <2> QED
    BY <1>5, <2>1, <2>2, ZeroToolTaken DEF ZeroTool
<1>6. CASE h = "claude"
  <2> DEFINE other == CASE l.kind = "note" -> Quiet(m)
                        [] l.kind = "response" -> Refused(m, "stream_unknown_event")
                        [] OTHER -> Refused(m, "unexpected_user_event")
  <2>1. Accept(h, m, l) = ZeroToolAccept(m, l, other)
    BY <1>6 DEF Accept, ClaudeAccept
  <2>2. LineTaken(h, m, other)
    BY <1>2, <1>3
  <2> HIDE DEF other
  <2> QED
    BY <1>6, <2>1, <2>2, ZeroToolTaken DEF ZeroTool
<1> QED
  BY <1>1, <1>4, <1>5, <1>6
\* One more event of a stream.
LEMMA AppendTold ==
  ASSUME NEW out \in Seq(HostEvents), WellTold(out), NEW e \in HostEvents,
         e.type \notin Terminals, out = <<>> => e.type = "run.started",
         e.type = "tool.completed" =>
           \E j \in 1..Len(out) : out[j] = Event("tool.started", e.id),
         \A j \in 1..Len(out) : out[j] # e
  PROVE  WellTold(Append(out, e))
<1> DEFINE n == Len(out)
           more == Append(out, e)
<1>1. /\ n \in Nat /\ Len(more) = n + 1 /\ more[n + 1] = e
      /\ \A i \in 1..n : more[i] = out[i]
  OBVIOUS
<1>2. more[1].type = "run.started"
  <2>1. CASE n = 0
    <3>1. out = <<>>
      BY <2>1, EmptySeq
    <3> QED
      BY <1>1, <2>1, <3>1
  <2>2. CASE n # 0
    <3>1. 1 \in 1..n
      BY <1>1, <2>2
    <3>2. out[1].type = "run.started"
      BY <3>1 DEF WellTold
    <3> QED
      BY <1>1, <3>1, <3>2
  <2> QED
    BY <2>1, <2>2
<1> HIDE DEF more
<1>3. ASSUME NEW k \in 1..n
      PROVE  /\ more[k].type \notin Terminals
             /\ more[k].type = "tool.completed" =>
                  \E j \in 1..(k-1) : more[j] = Event("tool.started", more[k].id)
             /\ \A j \in 1..(k-1) : more[j] # more[k]
  <2>1. \A j \in 1..(k-1) : j \in 1..n
    BY <1>1
  <2>2. more[k] = out[k] /\ \A j \in 1..(k-1) : more[j] = out[j]
    BY <1>1, <2>1
  <2>3. /\ out[k].type \notin Terminals
        /\ out[k].type = "tool.completed" =>
             \E j \in 1..(k-1) : out[j] = Event("tool.started", out[k].id)
        /\ \A j \in 1..(k-1) : out[j] # out[k]
    BY DEF WellTold
  <2> QED
    BY <2>2, <2>3
<1>4. (n + 1) - 1 = n /\ \A k \in 1..(n + 1) : k \in 1..n \/ k = n + 1
  BY <1>1
<1>5. \A j \in 1..n : more[j] # more[n + 1]
  BY <1>1
<1>6. e.type = "tool.completed" => \E j \in 1..n : more[j] = Event("tool.started", e.id)
  BY <1>1
<1>7. ASSUME NEW k \in 1..(n + 1)
      PROVE  /\ more[k].type \notin Terminals
             /\ more[k].type = "tool.completed" =>
                  \E j \in 1..(k-1) : more[j] = Event("tool.started", more[k].id)
             /\ \A j \in 1..(k-1) : more[j] # more[k]
  <2>1. CASE k \in 1..n
    BY <1>3, <2>1
  <2>2. CASE k = n + 1
    <3>1. k - 1 = n /\ more[k] = e
      BY <1>1, <1>4, <2>2
    <3> QED
      BY <1>5, <1>6, <2>2, <3>1
  <2> QED
    BY <1>4, <2>1, <2>2
<1>8. WellTold(more)
  BY <1>1, <1>2, <1>7 DEF WellTold
<1> QED
  BY <1>8 DEF more

LEMMA EventFacts ==
  ASSUME NEW type \in {"run.started", "tool.started", "tool.completed", "run.completed",
                       "run.failed"},
         NEW id \in CallIds \cup {NoRun} \cup HostCodes
  PROVE  /\ Event(type, id) \in HostEvents
         /\ Event(type, id).type = type /\ Event(type, id).id = id
BY DEF Event, HostEvents

\* A line that a session takes is told as it is remembered.
LEMMA SilentTold ==
  ASSUME NEW h, NEW m, NEW out, Remembered(h, m, out), NEW a, Silently(h, m, a)
  PROVE  Remembered(h, a.s, out)
BY DEF Remembered, Silently

LEMMA TakenTold ==
  ASSUME NEW h, NEW m \in SessionRecords, NEW out \in Seq(HostEvents), WellTold(out),
         Remembered(h, m, out), NEW a, LineTaken(h, m, a)
  PROVE  /\ out \o a.ev \in Seq(HostEvents) /\ WellTold(out \o a.ev)
         /\ Remembered(h, a.s, out \o a.ev)
<1> DEFINE n == Len(out)
<1>1. n \in Nat
  OBVIOUS
<1>2. CASE Silently(h, m, a)
  <2>1. out \o a.ev = out
    BY <1>2, ConcatEmptySeq DEF Silently
  <2> QED
    BY <1>2, <2>1, SilentTold
<1>3. ASSUME NEW e \in HostEvents, a.ev = <<e>>
      PROVE  /\ out \o a.ev = Append(out, e) /\ Append(out, e) \in Seq(HostEvents)
             /\ Len(Append(out, e)) = n + 1 /\ Append(out, e)[n + 1] = e
             /\ \A i \in 1..n : Append(out, e)[i] = out[i]
             /\ Append(out, e) # <<>> /\ n + 1 \in 1..(n + 1)
             /\ \A i \in 1..n : i \in 1..(n + 1)
             /\ \A i \in 1..(n + 1) : i \in 1..n \/ i = n + 1
  <2>1. out \o <<e>> = Append(out, e)
    OBVIOUS
  <2>2. Append(out, e) # <<>>
    BY EmptySeq
  <2> QED
    BY <1>1, <1>3, <2>1, <2>2
<1>4. CASE Announced(m, a)
  <2> DEFINE e == Event("run.started", NoRun)
             more == Append(out, e)
  <2>1. e \in HostEvents /\ e.type = "run.started" /\ a.ev = <<e>>
    BY <1>4, EventFacts DEF Announced
  <2>2. out = <<>> /\ n = 0 /\ m.init = NoRun /\ a.s.init \in CallIds
    BY <1>4 DEF Announced, Remembered
  <2>3. a.s.started = m.started /\ a.s.completed = m.completed
    BY <1>4 DEF Announced
  <2>4. WellTold(more)
    <3> HIDE DEF e
    <3>1. Len(out) = 0 /\ \A j \in 1..Len(out) : out[j] # e
      BY <2>2
    <3>2. e.type \notin Terminals /\ e.type # "tool.completed"
      BY <2>1 DEF Terminals
    <3> QED
      BY <2>1, <2>2, <3>1, <3>2, AppendTold
  <2>5. /\ out \o a.ev = more /\ more \in Seq(HostEvents) /\ more # <<>>
        /\ Len(more) = n + 1 /\ more[n + 1] = e
        /\ \A i \in 1..n : i \in 1..(n + 1) /\ more[i] = out[i]
        /\ \A i \in 1..(n + 1) : i \in 1..n \/ i = n + 1
    BY <1>3, <2>1
  <2> HIDE DEF more
  <2>6. Remembered(h, a.s, more)
    <3>1. \A k \in 1..Len(more) : more[k] = Event("run.started", NoRun)
      BY <2>2, <2>5
    <3>2. h = "qoder" => \A id \in m.started : \E j \in 1..n : out[j] = Event("tool.started", id)
      BY DEF Remembered
    <3>3. a.s.init # NoRun
      BY <2>2, HostsAssumption
    <3> QED
      BY <2>2, <2>3, <2>5, <3>1, <3>2, <3>3 DEF Remembered
  <2> QED
    BY <2>4, <2>5, <2>6
<1>5. CASE h = "qoder" /\ ToolStarted(m, a)
  <2>1. PICK id \in CallIds \ m.started :
          /\ m.init # NoRun /\ a.s.init = m.init /\ a.ev = <<Event("tool.started", id)>>
          /\ a.s.started = m.started \cup {id} /\ a.s.completed = m.completed
    BY <1>5 DEF ToolStarted
  <2> DEFINE e == Event("tool.started", id)
             more == Append(out, e)
  <2>2. e \in HostEvents /\ e.type = "tool.started" /\ e.id = id
    BY EventFacts
  <2>3. Event("run.started", NoRun).type = "run.started"
    BY EventFacts
  <2> HIDE DEF e
  <2>4. out # <<>>
    BY <2>1 DEF Remembered
  <2>5. \A j \in 1..n : out[j] # e
    BY <2>1, <2>2, <2>3 DEF Remembered
  <2>6. WellTold(more)
    BY <2>2, <2>4, <2>5, AppendTold DEF Terminals
  <2>7. /\ out \o a.ev = more /\ more \in Seq(HostEvents) /\ more # <<>>
        /\ Len(more) = n + 1 /\ more[n + 1] = e
        /\ \A i \in 1..n : i \in 1..(n + 1) /\ more[i] = out[i]
        /\ \A i \in 1..(n + 1) : i \in 1..n \/ i = n + 1
        /\ n + 1 \in 1..(n + 1)
    BY <1>3, <2>1, <2>2 DEF e
  <2> HIDE DEF more
  <2>8. Remembered(h, a.s, more)
    <3>1. \A k \in 1..Len(more) :
            \/ more[k] = Event("run.started", NoRun)
            \/ more[k].type = "tool.started" /\ more[k].id \in a.s.started
            \/ more[k].type = "tool.completed" /\ more[k].id \in a.s.completed
      BY <2>1, <2>2, <2>7 DEF Remembered
    <3>2. \A i \in a.s.started : \E j \in 1..Len(more) : more[j] = Event("tool.started", i)
      BY <1>5, <2>1, <2>7 DEF Remembered, e
    <3> QED
      BY <2>1, <2>7, <3>1, <3>2 DEF Remembered
  <2> QED
    BY <2>6, <2>7, <2>8
<1>6. CASE h = "qoder" /\ ToolCompleted(m, a)
  <2>1. PICK id \in m.started \ m.completed :
          /\ m.init # NoRun /\ a.s.init = m.init /\ a.ev = <<Event("tool.completed", id)>>
          /\ a.s.started = m.started /\ a.s.completed = m.completed \cup {id}
    BY <1>6 DEF ToolCompleted
  <2> DEFINE e == Event("tool.completed", id)
             more == Append(out, e)
  <2>2. e \in HostEvents /\ e.type = "tool.completed" /\ e.id = id
    BY EventFacts DEF SessionRecords
  <2>3. Event("run.started", NoRun).type = "run.started"
    BY EventFacts
  <2> HIDE DEF e
  <2>4. out # <<>>
    BY <2>1 DEF Remembered
  <2>5. \A j \in 1..n : out[j] # e
    BY <2>1, <2>2, <2>3 DEF Remembered
  <2>6. \E j \in 1..n : out[j] = Event("tool.started", id)
    BY <1>6, <2>1 DEF Remembered
  <2>7. WellTold(more)
    BY <2>2, <2>4, <2>5, <2>6, AppendTold DEF Terminals
  <2>8. /\ out \o a.ev = more /\ more \in Seq(HostEvents) /\ more # <<>>
        /\ Len(more) = n + 1 /\ more[n + 1] = e
        /\ \A i \in 1..n : i \in 1..(n + 1) /\ more[i] = out[i]
        /\ \A i \in 1..(n + 1) : i \in 1..n \/ i = n + 1
    BY <1>3, <2>1, <2>2 DEF e
  <2> HIDE DEF more
  <2>9. Remembered(h, a.s, more)
    <3>1. \A k \in 1..Len(more) :
            \/ more[k] = Event("run.started", NoRun)
            \/ more[k].type = "tool.started" /\ more[k].id \in a.s.started
            \/ more[k].type = "tool.completed" /\ more[k].id \in a.s.completed
      BY <2>1, <2>2, <2>8 DEF Remembered
    <3>2. \A i \in a.s.started : \E j \in 1..Len(more) : more[j] = Event("tool.started", i)
      BY <1>6, <2>1, <2>8 DEF Remembered
    <3> QED
      BY <2>1, <2>8, <3>1, <3>2 DEF Remembered
  <2> QED
    BY <2>7, <2>8, <2>9
<1> QED
  BY <1>2, <1>4, <1>5, <1>6 DEF LineTaken
\* What HostRunOK asks of a run before and from its finally block on.
LEMMA EarlyOK ==
  ASSUME NEW h, NEW g, g.pc \in Early
  PROVE  HostRunOK(h, g) <=>
           /\ WellTold(g.out) /\ Remembered(h, g.s, g.out) /\ g.code = "" /\ StopsRecorded(g)
           /\ g.pc \in Talking /\ h # "qoder" => g.s.submitted
<1>1. g.pc \notin Late /\ g.pc # "done" /\ g.pc \notin {"auth", "root", "leave", "emit"}
  BY DEF Early, Late
<1>2. Cleaned(g)
  BY <1>1 DEF Cleaned
<1>3. Told(h, g) <=> WellTold(g.out) /\ Remembered(h, g.s, g.out) /\ g.code = ""
  BY <1>1 DEF Told
<1> QED
  BY <1>1, <1>2, <1>3 DEF HostRunOK

EarlySound(h, g) ==
  /\ WellTold(g.out) /\ Remembered(h, g.s, g.out) /\ g.code = "" /\ StopsRecorded(g)
  /\ g.pc \in Talking /\ h # "qoder" => g.s.submitted

LEMMA EarlyFacts ==
  ASSUME NEW h, NEW g, g.pc \in Early, HostRunOK(h, g)
  PROVE  EarlySound(h, g)
BY DEF HostRunOK, Told, EarlySound

LEMMA LateOK ==
  ASSUME NEW h, NEW g, g.pc \in Late \ {"done"}
  PROVE  HostRunOK(h, g) <=>
           /\ WellTold(g.out) /\ Cleaned(g)
           /\ g.code = "completed" => g.out # <<>> /\ Earned(h, g)
<1>1. g.pc \notin Early /\ g.pc # "done" /\ g.pc \notin Talking
  BY DEF Early, Late, Talking
<1>2. StopsRecorded(g)
  BY <1>1 DEF StopsRecorded
<1>3. Told(h, g) <=> WellTold(g.out) /\ (g.code = "completed" => g.out # <<>>)
  BY <1>1 DEF Told
<1> QED
  BY <1>1, <1>2, <1>3 DEF HostRunOK

LEMMA SessionType == Session \in SessionRecords
BY DEF Session, SessionRecords, ProtoCodes

\* What is remembered of the events does not depend on the rest of the session.
LEMMA RememberedSame ==
  ASSUME NEW h, NEW out, NEW m, NEW n, n.init = m.init, n.started = m.started,
         n.completed = m.completed, Remembered(h, m, out)
  PROVE  Remembered(h, n, out)
BY DEF Remembered

LEMMA StopCodesFacts ==
  ASSUME NEW reason
  PROVE  StoppedCode(reason) \in HostCodes \ {"completed"}
<1>1. StoppedCode(reason) \in StopCodes
  BY DEF StoppedCode, StopCodes
<1> QED
  BY <1>1 DEF HostCodes, StopCodes

\* A run that leaves its try block.
LEMMA ThrowOK ==
  ASSUME NEW h, NEW g \in HostRecords, HostRunOK(h, g), g.pc \in Early, NEW code \in HostCodes,
         code = "completed" => Earned(h, g)
  PROVE  /\ Throw(g, code) \in HostRecords /\ Throw(g, code).pc = "finally"
         /\ HostRunOK(h, Throw(g, code))
<1> DEFINE m == IF code = "completed" THEN g.s ELSE Session
           exit == IF code = "completed" THEN g.exit ELSE 0
           f == [g EXCEPT !.code = code, !.pc = "finally", !.s = m, !.exit = exit]
<1>1. Throw(g, code) = f
  BY DEF Throw
<1>2. WellTold(g.out) /\ Remembered(h, g.s, g.out)
  BY EarlyOK
<1>3. m \in SessionRecords /\ exit \in {0, 1}
  BY SessionType DEF HostRecords
<1>4. code = "completed" => m = g.s /\ exit = g.exit
  OBVIOUS
<1> HIDE DEF m, exit
<1>5. /\ f \in HostRecords /\ f.pc = "finally" /\ f.code = code /\ f.s = m /\ f.exit = exit
      /\ f.out = g.out /\ f.child = g.child /\ f.killed = g.killed /\ f.reason = g.reason
  BY <1>3 DEF HostRecords, Late
<1> HIDE DEF f
<1>6. code = "completed" => f.out # <<>> /\ Earned(h, f)
  BY <1>2, <1>4, <1>5 DEF Earned, Remembered
<1>7. Cleaned(f)
  BY <1>5 DEF Cleaned
<1>8. HostRunOK(h, f)
  BY <1>2, <1>5, <1>6, <1>7, LateOK DEF Late
<1> QED
  BY <1>1, <1>5, <1>8

\* Staging writes to the disk, and the next step comes.
LEMMA StagedOK ==
  ASSUME NEW h, NEW g \in HostRecords, HostRunOK(h, g), g.pc \in Early \ Talking,
         NEW disk \in SUBSET {"root", "auth"}, NEW pc \in Early \ Talking
  PROVE  LET f == [g EXCEPT !.disk = disk, !.pc = pc] IN f \in HostRecords /\ HostRunOK(h, f)
<1> DEFINE f == [g EXCEPT !.disk = disk, !.pc = pc]
<1>1. /\ f \in HostRecords /\ f.pc = pc /\ f.code = g.code /\ f.s = g.s /\ f.exit = g.exit
      /\ f.out = g.out /\ f.child = g.child /\ f.killed = g.killed /\ f.reason = g.reason
      /\ f.force = g.force
  BY DEF HostRecords
<1> HIDE DEF f
<1>2. /\ WellTold(g.out) /\ Remembered(h, g.s, g.out) /\ g.code = "" /\ StopsRecorded(g)
  BY EarlyOK
<1>3. StopsRecorded(f)
  BY <1>1, <1>2 DEF StopsRecorded
<1>4. HostRunOK(h, f)
  BY <1>1, <1>2, <1>3, EarlyOK
<1> QED
  BY <1>1, <1>4 DEF f

\* Only the first reason for a stop counts.
LEMMA StoppedFields ==
  ASSUME NEW g \in HostRecords, NEW reason \in Reasons, g.reason = NoRun
  PROVE  LET f == Stopped(g, reason) IN
         /\ f \in HostRecords /\ f.pc = g.pc /\ f.code = g.code /\ f.s = g.s /\ f.exit = g.exit
         /\ f.out = g.out /\ f.child = g.child /\ f.killed = g.killed /\ f.reason = reason
         /\ f.disk = g.disk /\ f.clean = g.clean
BY DEF Stopped, HostRecords

LEMMA StopReasonFacts == NoRun \notin Reasons
BY HostsAssumption DEF Reasons, StopReasons

LEMMA StoppedOK ==
  ASSUME NEW h, NEW g \in HostRecords, HostRunOK(h, g), g.pc \in Early,
         NEW reason \in Reasons \ {"protocol"}, g.reason = NoRun
  PROVE  /\ Stopped(g, reason) \in HostRecords /\ Stopped(g, reason).pc = g.pc
         /\ HostRunOK(h, Stopped(g, reason))
<1> DEFINE f == Stopped(g, reason)
<1>1. /\ f \in HostRecords /\ f.pc = g.pc /\ f.code = g.code /\ f.s = g.s /\ f.exit = g.exit
      /\ f.out = g.out /\ f.child = g.child /\ f.killed = g.killed /\ f.reason = reason
  BY StoppedFields
<1> HIDE DEF f
<1>2. /\ WellTold(g.out) /\ Remembered(h, g.s, g.out) /\ g.code = "" /\ StopsRecorded(g)
      /\ g.pc \in Talking /\ h # "qoder" => g.s.submitted
  BY EarlyOK
<1>3. StopsRecorded(f)
  BY <1>1, <1>2, StopReasonFacts DEF StopsRecorded
<1>4. HostRunOK(h, f)
  BY <1>1, <1>2, <1>3, EarlyOK
<1> QED
  BY <1>1, <1>4 DEF f

\* One run moves on.
LEMMA PutKeeps ==
  ASSUME HostInv, NEW r \in HostRuns, NEW g \in HostRecords, Put(r, g), UNCHANGED active,
         HostRunOK(HostOf[r], g), g.pc \in {"idle", "emit", "done"} => ~Registered(r)
  PROVE  HostInv'
<1>1. hrun \in [HostRuns -> HostRecords]
  BY DEF HostInv
<1>2. /\ hrun' \in [HostRuns -> HostRecords] /\ hrun'[r] = g
      /\ \A q \in HostRuns \ {r} : hrun'[q] = hrun[q]
  BY <1>1 DEF Put
<1> QED
  BY <1>2 DEF HostInv, Registered
\* The type of a run, and where it may leave its try block.
LEMMA HostRunFacts ==
  ASSUME HostInv, NEW r \in HostRuns
  PROVE  /\ hrun[r] \in HostRecords /\ HostRunOK(HostOf[r], hrun[r])
         /\ HostOf[r] \in {"qoder", "codebuddy", "qwen", "claude"}
         /\ HostOf[r] \in Hosts /\ RunIdOf[r] \in RunIds
         /\ active \in [Hosts -> [RunIds -> HostRuns \cup {NoRun}]]
         /\ hrun[r].pc \in {"idle", "emit", "done"} => ~Registered(r)
BY HostsAssumption DEF HostInv, Hosts, RunIds

LEMMA ThrowKeeps ==
  ASSUME HostInv, NEW r \in HostRuns, NEW g \in HostRecords, HostRunOK(HostOf[r], g),
         g.pc \in Early, NEW code \in HostCodes, code = "completed" => Earned(HostOf[r], g),
         Put(r, Throw(g, code)), UNCHANGED active
  PROVE  HostInv'
<1> DEFINE f == Throw(g, code)
<1>1. f \in HostRecords /\ f.pc = "finally" /\ HostRunOK(HostOf[r], f) /\ Put(r, f)
  BY ThrowOK
<1> HIDE DEF f
<1> QED
  BY <1>1, PutKeeps

\* A new entry of the table of active runs.
LEMMA BeginKeeps ==
  ASSUME HostInv, NEW r \in HostRuns, Begin(r)
  PROVE  HostInv'
<1> DEFINE g == hrun[r]
           h == HostOf[r]
           i == RunIdOf[r]
<1>1. /\ g \in HostRecords /\ HostRunOK(h, g) /\ h \in Hosts /\ i \in RunIds
      /\ active \in [Hosts -> [RunIds -> HostRuns \cup {NoRun}]] /\ ~Registered(r)
      /\ g.pc = "idle"
  BY HostRunFacts DEF Begin
<1>2. /\ WellTold(g.out) /\ Remembered(h, g.s, g.out) /\ g.code = "" /\ StopsRecorded(g)
  <2>1. g.pc \in Early
    BY <1>1 DEF Early
  <2> HIDE DEF g, h
  <2> QED
    BY <1>1, <2>1, EarlyOK
<1>3. CASE active[h][i] # NoRun
  <2> DEFINE e == Failed("run_already_active")
             out == <<e>>
             f == [g EXCEPT !.pc = "done", !.out = out]
  <2>1. Put(r, f) /\ UNCHANGED active
    BY <1>3 DEF Begin
  <2>2. e \in HostEvents /\ e.type = "run.failed"
    BY DEF Failed, HostEvents, HostCodes, PlainCodes
  <2> HIDE DEF e
  <2>3. out \in Seq(HostEvents) /\ Len(out) = 1 /\ DOMAIN out = {1} /\ out[1] = e
    BY <2>2
  <2>4. FinalStream(out)
    <3>1. RunEnds(out) = {1}
      BY <2>2, <2>3 DEF RunEnds, Terminals
    <3>2. \A k \in 1..Len(out) : k = 1 /\ 1..(k - 1) = {}
      BY <2>3
    <3> QED
      BY <2>2, <2>3, <3>1, <3>2 DEF FinalStream
  <2> HIDE DEF out
  <2>5. f \in HostRecords /\ f.pc = "done" /\ f.code = "" /\ f.out = out
    BY <1>1, <1>2, <2>3 DEF HostRecords, Late
  <2> HIDE DEF f
  <2>6. HostRunOK(h, f)
    BY <2>4, <2>5 DEF HostRunOK, Told, StopsRecorded, Cleaned, Early, Late, Talking
  <2> QED
    BY <1>1, <2>1, <2>5, <2>6, PutKeeps
<1>4. CASE active[h][i] = NoRun
  <2> DEFINE f == [g EXCEPT !.pc = "preflight"]
             row == [active[h] EXCEPT ![i] = r]
  <2>1. Put(r, f) /\ active' = [active EXCEPT ![h] = row]
    BY <1>4 DEF Begin
  <2>2. f \in HostRecords /\ HostRunOK(h, f) /\ f.pc = "preflight"
    <3> DEFINE f2 == [g EXCEPT !.disk = g.disk, !.pc = "preflight"]
    <3>1. g.disk \in SUBSET {"root", "auth"}
      BY <1>1 DEF HostRecords
    <3>2. g.pc \in Early \ Talking /\ "preflight" \in Early \ Talking
      BY <1>1 DEF Early, Talking
    <3>3. f2 \in HostRecords /\ HostRunOK(h, f2)
      BY <1>1, <3>1, <3>2, StagedOK
    <3>4. f2 = f /\ f.pc = "preflight"
      BY <1>1 DEF HostRecords
    <3> QED
      BY <3>3, <3>4
  <2> HIDE DEF f
  <2>3. row \in [RunIds -> HostRuns \cup {NoRun}] /\ row[i] = r
        /\ \A j \in RunIds : j # i => row[j] = active[h][j]
    BY <1>1
  <2> HIDE DEF row
  <2>4. active' \in [Hosts -> [RunIds -> HostRuns \cup {NoRun}]]
    BY <1>1, <2>1, <2>3
  <2>5. /\ hrun' \in [HostRuns -> HostRecords] /\ hrun'[r] = f
        /\ \A q \in HostRuns \ {r} : hrun'[q] = hrun[q]
    BY <1>1, <2>1, <2>2 DEF Put, HostInv
  <2>6. ASSUME NEW q \in HostRuns, hrun'[q].pc \in {"idle", "emit", "done"}
        PROVE  active'[HostOf[q]][RunIdOf[q]] # q
    <3>1. q # r /\ hrun'[q] = hrun[q]
      BY <2>2, <2>5, <2>6
    <3>2. active[HostOf[q]][RunIdOf[q]] # q /\ HostOf[q] \in Hosts /\ RunIdOf[q] \in RunIds
      BY <2>6, <3>1, HostRunFacts DEF Registered
    <3>3. active'[HostOf[q]] = IF HostOf[q] = h THEN row ELSE active[HostOf[q]]
      BY <1>1, <2>1, <3>2
    <3>4. row[RunIdOf[q]] = IF RunIdOf[q] = i THEN r ELSE active[h][RunIdOf[q]]
      BY <2>3, <3>2
    <3> QED
      BY <3>1, <3>2, <3>3, <3>4
  <2> QED
    BY <2>2, <2>4, <2>5, <2>6 DEF HostInv, Registered
<1> QED
  BY <1>3, <1>4

LEMMA PreflightKeeps ==
  ASSUME HostInv, NEW r \in HostRuns, Preflight(r)
  PROVE  HostInv'
<1> DEFINE g == hrun[r]
           h == HostOf[r]
<1>1. /\ g \in HostRecords /\ HostRunOK(h, g) /\ h \in Hosts /\ g.pc = "preflight"
      /\ UNCHANGED active /\ g.pc \in Early
  BY HostRunFacts DEF Preflight, Early
<1>2. PICK e \in Environments, q \in RunRequests :
        Put(r, IF g.reason # NoRun THEN Throw(g, StoppedCode(g.reason))
               ELSE IF PreflightCode(h, e, q) # "completed" THEN Throw(g, PreflightCode(h, e, q))
               ELSE [g EXCEPT !.pc = "stage"])
  BY DEF Preflight
<1> DEFINE stop == StoppedCode(g.reason)
           code == PreflightCode(h, e, q)
<1>3. stop \in HostCodes /\ stop # "completed"
  BY StopCodesFacts
<1>4. code \in HostCodes
  BY <1>1 DEF HostCodes, RefusalCodes
<1> HIDE DEF stop, code
<1>5. CASE g.reason # NoRun
  <2>1. Put(r, Throw(g, stop))
    BY <1>2, <1>5 DEF stop
  <2> QED
    BY <1>1, <1>3, <2>1, ThrowKeeps
<1>6. CASE g.reason = NoRun /\ code # "completed"
  <2>1. Put(r, Throw(g, code))
    BY <1>2, <1>6 DEF code
  <2> QED
    BY <1>1, <1>4, <1>6, <2>1, ThrowKeeps
<1>7. CASE g.reason = NoRun /\ code = "completed"
  <2> DEFINE f == [g EXCEPT !.disk = g.disk, !.pc = "stage"]
  <2>1. g.disk \in SUBSET {"root", "auth"} /\ f = [g EXCEPT !.pc = "stage"] /\ f.pc = "stage"
    BY <1>1 DEF HostRecords
  <2>2. g.pc \in Early \ Talking /\ "stage" \in Early \ Talking
    BY <1>1 DEF Early, Talking
  <2>3. f \in HostRecords /\ HostRunOK(h, f)
    BY <1>1, <2>1, <2>2, StagedOK
  <2>4. Put(r, f)
    BY <1>2, <1>7, <2>1 DEF code
  <2> HIDE DEF f
  <2> QED
    BY <1>1, <2>1, <2>3, <2>4, PutKeeps
<1> QED
  BY <1>5, <1>6, <1>7

\* Staging with something on the disk, and then an error or the next step.
LEMMA StageKeeps ==
  ASSUME HostInv, NEW r \in HostRuns, hrun[r].pc \in Early \ Talking, UNCHANGED active,
         NEW disk \in SUBSET {"root", "auth"},
         \/ \E code \in HostCodes \ {"completed"} :
              Put(r, Throw([hrun[r] EXCEPT !.disk = disk], code))
         \/ \E pc \in Early \ (Talking \cup {"idle"}) :
              Put(r, [hrun[r] EXCEPT !.disk = disk, !.pc = pc])
  PROVE  HostInv'
<1> DEFINE g == hrun[r]
           h == HostOf[r]
           d == [g EXCEPT !.disk = disk]
<1>1. g \in HostRecords /\ HostRunOK(h, g)
  BY HostRunFacts
<1>2. CASE \E code \in HostCodes \ {"completed"} : Put(r, Throw(d, code))
  <2>1. PICK code \in HostCodes \ {"completed"} : Put(r, Throw(d, code))
    BY <1>2
  <2> DEFINE f == [g EXCEPT !.disk = disk, !.pc = g.pc]
  <2>2. f \in HostRecords /\ HostRunOK(h, f)
    BY <1>1, StagedOK
  <2>3. f = d /\ d.pc = g.pc
    BY <1>1 DEF HostRecords
  <2> HIDE DEF f, d
  <2> QED
    BY <2>1, <2>2, <2>3, ThrowKeeps
<1>3. CASE \E pc \in Early \ (Talking \cup {"idle"}) : Put(r, [g EXCEPT !.disk = disk, !.pc = pc])
  <2>1. PICK pc \in Early \ (Talking \cup {"idle"}) : Put(r, [g EXCEPT !.disk = disk, !.pc = pc])
    BY <1>3
  <2> DEFINE f == [g EXCEPT !.disk = disk, !.pc = pc]
  <2>2. f \in HostRecords /\ HostRunOK(h, f)
    BY <1>1, StagedOK
  <2>3. f.pc = pc /\ pc \notin {"idle", "emit", "done"}
    BY <1>1 DEF HostRecords, Early
  <2> HIDE DEF f
  <2> QED
    BY <2>1, <2>2, <2>3, PutKeeps DEF f
<1> QED
  BY <1>2, <1>3

LEMMA StagingKeeps ==
  ASSUME HostInv, NEW r \in HostRuns, StageQoder(r) \/ StageZeroTool(r) \/ PreSpawn(r)
  PROVE  HostInv'
<1> DEFINE g == hrun[r]
           stop == StoppedCode(g.reason)
           Errors == {"adapter_failed", "projection_changed_during_copy",
                      "isolation_directory_not_empty", "executable_changed"}
<1>1. /\ g \in HostRecords /\ HostRunOK(HostOf[r], g) /\ g.pc \in {"stage", "prespawn"}
      /\ UNCHANGED active /\ g.pc \in Early \ Talking
  BY HostRunFacts DEF StageQoder, StageZeroTool, PreSpawn, Early, Talking
<1>2. stop \in HostCodes \ {"completed"} /\ Errors \subseteq HostCodes \ {"completed"}
  <2>1. Errors \subseteq PlainCodes
    BY DEF PlainCodes
  <2>2. PlainCodes \subseteq HostCodes /\ "completed" \notin Errors
    BY DEF HostCodes
  <2> QED
    BY <2>1, <2>2, StopCodesFacts
<1>3. /\ g.disk \in SUBSET {"root", "auth"} /\ g = [g EXCEPT !.disk = g.disk]
      /\ [g EXCEPT !.pc = "spawn"] = [g EXCEPT !.disk = g.disk, !.pc = "spawn"]
  BY <1>1 DEF HostRecords
<1>4. {"prespawn", "spawn"} \subseteq Early \ (Talking \cup {"idle"})
  BY DEF Early, Talking
<1>5. \/ Put(r, Throw(g, stop)) \/ \E code \in Errors : Put(r, Throw(g, code))
      \/ \E code \in Errors : Put(r, Throw([g EXCEPT !.disk = {"root"}], code))
      \/ \E code \in Errors : Put(r, Throw([g EXCEPT !.disk = {"root", "auth"}], code))
      \/ Put(r, [[g EXCEPT !.disk = {"root"}] EXCEPT !.pc = "prespawn"])
      \/ Put(r, [[g EXCEPT !.disk = {"root", "auth"}] EXCEPT !.pc = "prespawn"])
      \/ Put(r, [g EXCEPT !.pc = "spawn"])
  BY DEF StageQoder, StageZeroTool, PreSpawn
<1> HIDE DEF stop, Errors
<1>6. CASE Put(r, Throw(g, stop)) \/ \E code \in Errors : Put(r, Throw(g, code))
  BY <1>1, <1>2, <1>3, <1>6, StageKeeps
<1>7. CASE \E code \in Errors : Put(r, Throw([g EXCEPT !.disk = {"root"}], code))
  BY <1>1, <1>2, <1>7, StageKeeps
<1>8. CASE \E code \in Errors : Put(r, Throw([g EXCEPT !.disk = {"root", "auth"}], code))
  BY <1>1, <1>2, <1>8, StageKeeps
<1>9. CASE Put(r, [[g EXCEPT !.disk = {"root"}] EXCEPT !.pc = "prespawn"])
  BY <1>1, <1>4, <1>9, StageKeeps
<1>10. CASE Put(r, [[g EXCEPT !.disk = {"root", "auth"}] EXCEPT !.pc = "prespawn"])
  BY <1>1, <1>4, <1>10, StageKeeps
<1>11. CASE Put(r, [g EXCEPT !.pc = "spawn"])
  BY <1>1, <1>3, <1>4, <1>11, StageKeeps
<1> QED
  BY <1>5, <1>6, <1>7, <1>8, <1>9, <1>10, <1>11
\* The child is there, and a stop that came before it is applied to it.
LEMMA SpawnKeeps ==
  ASSUME HostInv, NEW r \in HostRuns, Spawn(r)
  PROVE  HostInv'
<1> DEFINE g == hrun[r]
           h == HostOf[r]
           stop == StoppedCode(g.reason)
<1>1. /\ g \in HostRecords /\ HostRunOK(h, g) /\ g.pc = "spawn" /\ UNCHANGED active
      /\ g.pc \in Early /\ g.pc \notin Talking
  BY HostRunFacts DEF Spawn, Early, Talking
<1>2. stop \in HostCodes /\ stop # "completed"
  BY StopCodesFacts
<1>3. CASE g.reason # NoRun /\ h \in {"qoder", "codebuddy"}
  <2>1. Put(r, Throw(g, stop))
    BY <1>3 DEF Spawn
  <2> HIDE DEF stop
  <2> QED
    BY <1>1, <1>2, <2>1, ThrowKeeps
<1>4. CASE ~(g.reason # NoRun /\ h \in {"qoder", "codebuddy"})
  <2>1. PICK child \in {"alive", "spawn_error"} :
          Put(r, AfterSpawn([g EXCEPT !.child = child, !.pc = "read",
                                      !.s.submitted = h # "qoder"]))
    BY <1>4 DEF Spawn
  <2> DEFINE m == [g.s EXCEPT !.submitted = (h # "qoder")]
             d == [g EXCEPT !.child = child, !.pc = "read", !.s = m]
             d0 == [d EXCEPT !.reason = NoRun]
             f == AfterSpawn(d)
  <2>2. Put(r, f)
    BY <2>1
  <2>3. g.s \in SessionRecords
    BY <1>1 DEF HostRecords
  <2>4. /\ m \in SessionRecords /\ m.submitted = (h # "qoder") /\ m.init = g.s.init
        /\ m.started = g.s.started /\ m.completed = g.s.completed /\ m.proto = g.s.proto
    BY <2>3 DEF SessionRecords
  <2> HIDE DEF m
  <2>5. /\ d \in HostRecords /\ d.pc = "read" /\ d.code = g.code /\ d.s = m /\ d.exit = g.exit
        /\ d.out = g.out /\ d.child = child /\ d.killed = g.killed /\ d.reason = g.reason
        /\ d.force = g.force
    BY <1>1, <2>4 DEF HostRecords, Early
  <2> HIDE DEF d
  <2>6. /\ d0 \in HostRecords /\ d0.pc = "read" /\ d0.code = g.code /\ d0.s = m /\ d0.exit = g.exit
        /\ d0.out = g.out /\ d0.child = child /\ d0.killed = g.killed /\ d0.reason = NoRun
        /\ d0.force = g.force
    BY <2>5 DEF HostRecords
  <2> HIDE DEF d0
  <2>7. /\ WellTold(g.out) /\ Remembered(h, g.s, g.out) /\ g.code = "" /\ StopsRecorded(g)
    <3> HIDE DEF g, h
    <3> QED
      BY <1>1, EarlyOK
  <2>8. /\ f \in HostRecords /\ f.pc = "read" /\ f.code = g.code /\ f.s = m /\ f.exit = g.exit
        /\ f.out = g.out /\ f.child = child /\ f.killed = g.killed /\ f.reason = g.reason
        /\ g.reason = NoRun => f.force = g.force
    <3>1. CASE g.reason = NoRun
      <4>1. f = d
        BY <2>5, <3>1 DEF AfterSpawn
      <4> QED
        BY <2>5, <3>1, <4>1
    <3>2. CASE g.reason # NoRun
      <4>1. f = Stopped(d0, g.reason)
        BY <2>5, <3>2 DEF AfterSpawn, d0
      <4>2. g.reason \in Reasons
        BY <1>1, <3>2 DEF HostRecords
      <4> HIDE DEF f
      <4> QED
        BY <2>6, <3>2, <4>1, <4>2, StoppedFields
    <3> QED
      BY <3>1, <3>2
  <2> HIDE DEF f
  <2>9. Remembered(h, m, f.out)
    <3> HIDE DEF g, h
    <3> QED
      BY <2>4, <2>7, <2>8, RememberedSame
  <2>10. StopsRecorded(f)
    BY <1>1, <2>4, <2>7, <2>8 DEF StopsRecorded, Talking, Early
  <2>11. HostRunOK(h, f)
    <3>1. f.pc \in Early /\ f.pc \in Talking
      BY <2>8 DEF Early, Talking
    <3> HIDE DEF g, h
    <3> QED
      BY <2>4, <2>7, <2>8, <2>9, <2>10, <3>1, EarlyOK
  <2> QED
    BY <1>1, <2>2, <2>8, <2>11, PutKeeps
<1> QED
  BY <1>3, <1>4

LEMMA TalkingFacts ==
  ASSUME HostInv, NEW r \in HostRuns, hrun[r].pc \in Talking
  PROVE  /\ hrun[r] \in HostRecords /\ WellTold(hrun[r].out) /\ hrun[r].code = ""
         /\ Remembered(HostOf[r], hrun[r].s, hrun[r].out) /\ StopsRecorded(hrun[r])
         /\ hrun[r].s \in SessionRecords /\ hrun[r].out \in Seq(HostEvents)
         /\ hrun[r].pc \in Early /\ HostRunOK(HostOf[r], hrun[r])
         /\ HostOf[r] \in {"qoder", "codebuddy", "qwen", "claude"}
         /\ HostOf[r] # "qoder" => hrun[r].s.submitted
<1> DEFINE g == hrun[r]
           h == HostOf[r]
<1>1. /\ g \in HostRecords /\ HostRunOK(h, g) /\ g.pc \in Early /\ g.pc \in Talking
      /\ h \in {"qoder", "codebuddy", "qwen", "claude"}
  BY HostRunFacts DEF Early, Talking
<1>2. g.s \in SessionRecords /\ g.out \in Seq(HostEvents)
  BY <1>1 DEF HostRecords
<1> HIDE DEF g, h
<1>3. /\ WellTold(g.out) /\ Remembered(h, g.s, g.out) /\ g.code = "" /\ StopsRecorded(g)
      /\ h # "qoder" => g.s.submitted
  BY <1>1, EarlyOK
<1> QED
  BY <1>1, <1>2, <1>3 DEF g, h

\* A step of a run that reads: its session and what it has told move together.
LEMMA TalkKeeps ==
  ASSUME HostInv, NEW r \in HostRuns, hrun[r].pc \in Talking, UNCHANGED active,
         NEW f \in HostRecords, f.pc \in Talking, f.code = hrun[r].code, WellTold(f.out),
         Remembered(HostOf[r], f.s, f.out), hrun[r].s.submitted => f.s.submitted,
         StopsRecorded(f), Put(r, f)
  PROVE  HostInv'
<1> DEFINE g == hrun[r]
           h == HostOf[r]
<1>1. f.pc \in Early
  BY DEF Early, Talking
<1>2. g.code = "" /\ (h # "qoder" => g.s.submitted)
  BY TalkingFacts
<1> HIDE DEF g, h
<1>3. HostRunOK(h, f)
  BY <1>1, <1>2, EarlyOK DEF g, h
<1> QED
  BY <1>3, PutKeeps DEF Talking, g, h

LEMMA ReadLineKeeps ==
  ASSUME HostInv, NEW r \in HostRuns, ReadLine(r)
  PROVE  HostInv'
<1> DEFINE g == hrun[r]
           h == HostOf[r]
           m == [g.s EXCEPT !.lines = g.s.lines + 1]
<1>1. /\ g.pc = "read" /\ g.pc \in Talking /\ g.child = "alive" /\ g.reason = NoRun
      /\ UNCHANGED active
  BY DEF ReadLine, Talking
<1>2. /\ g \in HostRecords /\ WellTold(g.out) /\ Remembered(h, g.s, g.out) /\ StopsRecorded(g)
      /\ g.s \in SessionRecords /\ g.out \in Seq(HostEvents) /\ g.code = ""
      /\ g.pc \in Early /\ HostRunOK(h, g) /\ h \in {"qoder", "codebuddy", "qwen", "claude"}
  BY <1>1, TalkingFacts
<1>3. PICK l \in Lines :
        LET a == Accept(h, m, l) IN
        Put(r, IF g.s.lines = MaxEvents THEN Stopped(g, "stdout_limit")
               ELSE IF a.s.proto # "" THEN Stopped([g EXCEPT !.s = a.s], "protocol")
               ELSE [g EXCEPT !.s = a.s, !.out = g.out \o a.ev,
                              !.pc = IF a.ev = <<>> THEN "read" ELSE "yield"])
  BY DEF ReadLine
<1> DEFINE a == Accept(h, m, l)
<1>4. /\ m \in SessionRecords /\ m.init = g.s.init /\ m.started = g.s.started
      /\ m.completed = g.s.completed /\ m.proto = g.s.proto /\ m.submitted = g.s.submitted
  <2> DEFINE n == g.s
  <2>1. n \in SessionRecords /\ m = [n EXCEPT !.lines = n.lines + 1]
    BY <1>2
  <2> HIDE DEF m, n
  <2>2. /\ m \in SessionRecords /\ m.init = n.init /\ m.started = n.started
        /\ m.completed = n.completed /\ m.proto = n.proto /\ m.submitted = n.submitted
    BY <2>1 DEF SessionRecords
  <2> QED
    BY <2>2 DEF n
<1>5. Remembered(h, m, g.out)
  <2> HIDE DEF g, h, m
  <2> QED
    BY <1>2, <1>4, RememberedSame
<1>6. m.proto = "" /\ ~g.force /\ ~g.killed
  BY <1>1, <1>2, <1>4 DEF StopsRecorded
<1> HIDE DEF m
<1>7. LineTaken(h, m, a)
  BY <1>2, <1>4, AcceptTaken
<1>8. \/ Put(r, Stopped(g, "stdout_limit"))
      \/ a.s.proto # "" /\ Put(r, Stopped([g EXCEPT !.s = a.s], "protocol"))
      \/ /\ a.s.proto = ""
         /\ Put(r, [g EXCEPT !.s = a.s, !.out = g.out \o a.ev,
                             !.pc = IF a.ev = <<>> THEN "read" ELSE "yield"])
  BY <1>3
<1> HIDE DEF a
<1>9. a.s \in SessionRecords /\ (g.s.submitted => a.s.submitted)
  BY <1>4, <1>7 DEF LineTaken
<1>10. CASE Put(r, Stopped(g, "stdout_limit"))
  <2> DEFINE f == Stopped(g, "stdout_limit")
  <2>1. "stdout_limit" \in Reasons \ {"protocol"}
    BY DEF Reasons, StopReasons
  <2>2. f \in HostRecords /\ f.pc = g.pc /\ HostRunOK(h, f)
    <3> HIDE DEF g, h
    <3> QED
      BY <1>1, <1>2, <2>1, StoppedOK
  <2> HIDE DEF f
  <2> QED
    BY <1>1, <1>10, <2>2, PutKeeps DEF f
<1>11. CASE a.s.proto # "" /\ Put(r, Stopped([g EXCEPT !.s = a.s], "protocol"))
  <2> DEFINE d == [g EXCEPT !.s = a.s]
             f == Stopped(d, "protocol")
  <2>1. Silently(h, m, a)
    BY <1>6, <1>7, <1>11 DEF LineTaken
  <2>2. Remembered(h, a.s, g.out)
    BY <1>5, <2>1, SilentTold
  <2>3. /\ d \in HostRecords /\ d.pc = g.pc /\ d.code = g.code /\ d.s = a.s /\ d.exit = g.exit
        /\ d.out = g.out /\ d.child = g.child /\ d.killed = g.killed /\ d.reason = g.reason
    BY <1>2, <1>9 DEF HostRecords
  <2> HIDE DEF d
  <2>4. /\ f \in HostRecords /\ f.pc = d.pc /\ f.code = d.code /\ f.s = d.s /\ f.exit = d.exit
        /\ f.out = d.out /\ f.child = d.child /\ f.killed = d.killed /\ f.reason = "protocol"
    BY <1>1, <2>3, StoppedFields DEF Reasons
  <2> HIDE DEF f
  <2>5. StopsRecorded(f)
    BY <1>1, <1>2, <1>11, <2>3, <2>4, StopReasonFacts DEF StopsRecorded, Reasons
  <2>6. Put(r, f)
    BY <1>11 DEF d, f
  <2> QED
    BY <1>1, <1>2, <1>9, <2>2, <2>3, <2>4, <2>5, <2>6, TalkKeeps
<1>12. CASE /\ a.s.proto = ""
            /\ Put(r, [g EXCEPT !.s = a.s, !.out = g.out \o a.ev,
                                !.pc = IF a.ev = <<>> THEN "read" ELSE "yield"])
  <2> DEFINE out == g.out \o a.ev
             pc == IF a.ev = <<>> THEN "read" ELSE "yield"
             f == [g EXCEPT !.s = a.s, !.out = out, !.pc = pc]
  <2>1. out \in Seq(HostEvents) /\ WellTold(out) /\ Remembered(h, a.s, out)
    BY <1>2, <1>4, <1>5, <1>7, TakenTold
  <2>2. pc \in Talking
    BY DEF Talking
  <2>3. Put(r, f)
    BY <1>12
  <2> HIDE DEF out, pc
  <2>4. /\ f \in HostRecords /\ f.pc = pc /\ f.code = g.code /\ f.s = a.s /\ f.exit = g.exit
        /\ f.out = out /\ f.child = g.child /\ f.killed = g.killed /\ f.reason = g.reason
        /\ f.force = g.force
    BY <1>2, <1>9, <2>1, <2>2 DEF HostRecords, Early, Talking
  <2> HIDE DEF f
  <2>5. StopsRecorded(f)
    BY <1>1, <1>2, <1>6, <1>12, <2>2, <2>4, StopReasonFacts DEF StopsRecorded, Reasons
  <2> QED
    BY <1>1, <1>2, <1>9, <2>1, <2>2, <2>3, <2>4, <2>5, TalkKeeps
<1> QED
  BY <1>8, <1>10, <1>11, <1>12
\* A reason to stop, from outside.
LEMMA StoppingKeeps ==
  ASSUME HostInv, NEW r \in HostRuns, NEW reason \in StopReasons,
         AbortOrDeadline(r, reason) \/ OutputLimit(r, reason)
  PROVE  HostInv'
<1> DEFINE g == hrun[r]
           h == HostOf[r]
           f == Stopped(g, reason)
<1>1. /\ g \in HostRecords /\ HostRunOK(h, g) /\ g.reason = NoRun /\ UNCHANGED active
      /\ g.pc \in Early /\ g.pc # "idle" /\ Put(r, f)
  <2>1. /\ g \in HostRecords /\ HostRunOK(h, g)
    BY HostRunFacts
  <2>2. g.pc \in Early \cup Late
    BY <2>1 DEF HostRecords
  <2> QED
    BY <2>1, <2>2 DEF AbortOrDeadline, OutputLimit, Armed, Early, Late
<1>2. reason \in Reasons \ {"protocol"}
  BY DEF Reasons, StopReasons
<1>3. f \in HostRecords /\ f.pc = g.pc /\ HostRunOK(h, f)
  <2> HIDE DEF g, h
  <2> QED
    BY <1>1, <1>2, StoppedOK
<1> HIDE DEF f
<1> QED
  BY <1>1, <1>3, PutKeeps DEF Early

\* cancel() also reaches a run that cleans up.
LEMMA CancelKeeps ==
  ASSUME HostInv, NEW r \in HostRuns, Cancel(r)
  PROVE  HostInv'
<1> DEFINE g == hrun[r]
           h == HostOf[r]
           f == Stopped(g, "cancelled")
<1>1. /\ g \in HostRecords /\ HostRunOK(h, g) /\ g.reason = NoRun /\ UNCHANGED active
      /\ g.pc \notin {"idle", "emit", "done"} /\ Put(r, f)
  BY HostRunFacts DEF Cancel
<1>2. "cancelled" \in Reasons \ {"protocol"}
  BY DEF Reasons, StopReasons
<1>3. /\ f \in HostRecords /\ f.pc = g.pc /\ f.code = g.code /\ f.s = g.s /\ f.exit = g.exit
      /\ f.out = g.out /\ f.child = g.child /\ f.killed = g.killed /\ f.reason = "cancelled"
      /\ f.disk = g.disk /\ f.clean = g.clean
  <2> HIDE DEF g, h
  <2> QED
    BY <1>1, <1>2, StoppedFields
<1>4. HostRunOK(h, f)
  <2>1. CASE g.pc \in Early
    <3> HIDE DEF g, h
    <3> QED
      BY <1>1, <1>2, <2>1, StoppedOK
  <2>2. CASE g.pc \notin Early
    <3>1. g.pc \in Late \ {"done"} /\ f.pc \in Late \ {"done"}
      BY <1>1, <1>3, <2>2 DEF HostRecords
    <3> HIDE DEF g, h, f
    <3>2. /\ WellTold(g.out) /\ Cleaned(g)
          /\ g.code = "completed" => g.out # <<>> /\ Earned(h, g)
      BY <1>1, <3>1, LateOK
    <3>3. Cleaned(f)
      BY <1>3, <3>2 DEF Cleaned
    <3>4. f.code = "completed" => f.out # <<>> /\ Earned(h, f)
      BY <1>3, <3>2 DEF Earned
    <3> QED
      BY <1>3, <3>1, <3>2, <3>3, <3>4, LateOK
  <2> QED
    BY <2>1, <2>2
<1> HIDE DEF f
<1> QED
  BY <1>1, <1>3, <1>4, PutKeeps

LEMMA ConsumeKeeps ==
  ASSUME HostInv, NEW r \in HostRuns, Consume(r)
  PROVE  HostInv'
<1> DEFINE g == hrun[r]
           f == [g EXCEPT !.pc = "read"]
<1>1. g.pc \in Talking /\ Put(r, f) /\ UNCHANGED active
  BY DEF Consume, Talking
<1>2. /\ g \in HostRecords /\ WellTold(g.out) /\ Remembered(HostOf[r], g.s, g.out)
      /\ StopsRecorded(g)
  BY <1>1, TalkingFacts
<1>3. /\ f \in HostRecords /\ f.pc = "read" /\ f.code = g.code /\ f.s = g.s /\ f.exit = g.exit
      /\ f.out = g.out /\ f.child = g.child /\ f.killed = g.killed /\ f.reason = g.reason
      /\ f.force = g.force
  BY <1>2 DEF HostRecords, Early
<1> HIDE DEF f
<1>4. f.pc \in Talking /\ StopsRecorded(f)
  BY <1>1, <1>2, <1>3 DEF StopsRecorded, Talking, Early
<1> QED
  BY <1>1, <1>2, <1>3, <1>4, TalkKeeps

LEMMA StdinErrorKeeps ==
  ASSUME HostInv, NEW r \in HostRuns, StdinError(r)
  PROVE  HostInv'
<1> DEFINE g == hrun[r]
           m == [g.s EXCEPT !.proto = "stdin_failed"]
           d == [g EXCEPT !.s = m]
           f == Stopped(d, "protocol")
<1>1. g.pc \in Talking /\ UNCHANGED active
  BY DEF StdinError, Talking
<1>2. Put(r, f)
  BY DEF StdinError
<1>3. /\ g \in HostRecords /\ WellTold(g.out) /\ Remembered(HostOf[r], g.s, g.out)
      /\ StopsRecorded(g) /\ g.s \in SessionRecords
  BY <1>1, TalkingFacts
<1>4. /\ m \in SessionRecords /\ m.init = g.s.init /\ m.started = g.s.started
      /\ m.completed = g.s.completed /\ m.proto = "stdin_failed" /\ m.submitted = g.s.submitted
  <2> DEFINE n == g.s
  <2>1. n \in SessionRecords /\ m = [n EXCEPT !.proto = "stdin_failed"]
    BY <1>3
  <2> HIDE DEF m, n
  <2>2. /\ m \in SessionRecords /\ m.init = n.init /\ m.started = n.started
        /\ m.completed = n.completed /\ m.proto = "stdin_failed" /\ m.submitted = n.submitted
    BY <2>1 DEF SessionRecords, ProtoCodes
  <2> QED
    BY <2>2 DEF n
<1> HIDE DEF m
<1>5. /\ d \in HostRecords /\ d.pc = g.pc /\ d.code = g.code /\ d.s = m /\ d.exit = g.exit
      /\ d.out = g.out /\ d.child = g.child /\ d.killed = g.killed /\ d.reason = g.reason
      /\ d.force = g.force
  BY <1>3, <1>4 DEF HostRecords
<1> HIDE DEF d
<1>6. /\ f \in HostRecords /\ f.pc = g.pc /\ f.code = g.code /\ f.s = m /\ f.exit = g.exit
      /\ f.out = g.out /\ f.child = g.child /\ f.killed = g.killed
      /\ f.reason = (IF g.reason = NoRun THEN "protocol" ELSE g.reason)
  <2>1. CASE d.reason = NoRun
    BY <1>5, <2>1, StoppedFields DEF Reasons
  <2>2. CASE d.reason # NoRun
    <3>1. f = d
      BY <2>2 DEF Stopped
    <3> QED
      BY <1>5, <2>2, <3>1
  <2> QED
    BY <2>1, <2>2
<1> HIDE DEF f
<1>7. StopsRecorded(f)
  <2>1. f.reason # NoRun
    BY <1>6, StopReasonFacts DEF Reasons
  <2> QED
    BY <1>1, <1>3, <1>4, <1>6, <2>1 DEF StopsRecorded
<1>8. Remembered(HostOf[r], f.s, f.out)
  BY <1>3, <1>4, <1>6, RememberedSame
<1> QED
  BY <1>1, <1>2, <1>3, <1>4, <1>6, <1>7, <1>8, TalkKeeps

LEMMA HandshakeGraceKeeps ==
  ASSUME HostInv, NEW r \in HostRuns, HandshakeGrace(r)
  PROVE  HostInv'
<1> DEFINE g == hrun[r]
           m == [g.s EXCEPT !.submitted = TRUE]
           f == [g EXCEPT !.s = m]
<1>1. g.pc \in Talking /\ UNCHANGED active
  BY DEF HandshakeGrace, Talking
<1>2. /\ g \in HostRecords /\ WellTold(g.out) /\ Remembered(HostOf[r], g.s, g.out)
      /\ StopsRecorded(g) /\ g.s \in SessionRecords
  BY <1>1, TalkingFacts
<1>3. Put(r, f)
  BY DEF HandshakeGrace
<1>4. /\ m \in SessionRecords /\ m.init = g.s.init /\ m.started = g.s.started
      /\ m.completed = g.s.completed /\ m.proto = g.s.proto /\ m.submitted
  <2> DEFINE n == g.s
  <2>1. n \in SessionRecords /\ m = [n EXCEPT !.submitted = TRUE]
    BY <1>2
  <2> HIDE DEF m, n
  <2>2. /\ m \in SessionRecords /\ m.init = n.init /\ m.started = n.started
        /\ m.completed = n.completed /\ m.proto = n.proto /\ m.submitted
    BY <2>1 DEF SessionRecords
  <2> QED
    BY <2>2 DEF n
<1> HIDE DEF m
<1>5. /\ f \in HostRecords /\ f.pc = g.pc /\ f.code = g.code /\ f.s = m /\ f.exit = g.exit
      /\ f.out = g.out /\ f.child = g.child /\ f.killed = g.killed /\ f.reason = g.reason
      /\ f.force = g.force
  BY <1>2, <1>4 DEF HostRecords
<1> HIDE DEF f
<1>6. StopsRecorded(f)
  BY <1>2, <1>4, <1>5 DEF StopsRecorded
<1>7. Remembered(HostOf[r], f.s, f.out)
  BY <1>2, <1>4, <1>5, RememberedSame
<1> QED
  BY <1>1, <1>2, <1>3, <1>4, <1>5, <1>6, <1>7, TalkKeeps

\* The child dies, or is killed: its run notices nothing yet.
LEMMA ChildKeeps ==
  ASSUME HostInv, NEW r \in HostRuns, ChildExits(r) \/ ForceKill(r)
  PROVE  HostInv'
<1> DEFINE g == hrun[r]
           h == HostOf[r]
<1>1. g \in HostRecords /\ HostRunOK(h, g) /\ g.child = "alive" /\ UNCHANGED active
  BY HostRunFacts DEF ChildExits, ForceKill
<1>2. g.pc \in Early => EarlySound(h, g)
  <2> HIDE DEF g, h
  <2> QED
    BY <1>1, EarlyFacts
<1>3. PICK f \in HostRecords :
        /\ Put(r, f) /\ f.pc = g.pc /\ f.code = g.code /\ f.s = g.s /\ f.out = g.out
        /\ f.reason = g.reason /\ f.disk = g.disk /\ f.clean = g.clean /\ f.force = g.force
        /\ f.child \in {"alive", "dead"} /\ (f.child = "alive" \/ f.killed = g.killed)
        /\ f.killed => g.killed \/ g.force
  <2>1. CASE ChildExits(r)
    <3>1. PICK c \in {0, 1} :
            Put(r, [g EXCEPT !.child = "dead", !.exit = IF g.code = "" THEN c ELSE 0])
      BY <2>1 DEF ChildExits
    <3> DEFINE x == IF g.code = "" THEN c ELSE 0
               f == [g EXCEPT !.child = "dead", !.exit = x]
    <3>2. x \in {0, 1} /\ Put(r, f)
      BY <3>1
    <3> HIDE DEF x
    <3>3. /\ f \in HostRecords /\ f.pc = g.pc /\ f.code = g.code /\ f.s = g.s /\ f.out = g.out
          /\ f.reason = g.reason /\ f.disk = g.disk /\ f.clean = g.clean /\ f.force = g.force
          /\ f.child = "dead" /\ f.killed = g.killed
      BY <1>1, <3>2 DEF HostRecords
    <3> HIDE DEF f
    <3> QED
      BY <3>2, <3>3
  <2>2. CASE ForceKill(r)
    <3> DEFINE f == [g EXCEPT !.killed = TRUE]
    <3>1. Put(r, f) /\ g.force
      BY <2>2 DEF ForceKill
    <3>2. /\ f \in HostRecords /\ f.pc = g.pc /\ f.code = g.code /\ f.s = g.s /\ f.out = g.out
          /\ f.reason = g.reason /\ f.disk = g.disk /\ f.clean = g.clean /\ f.force = g.force
          /\ f.child = "alive"
      BY <1>1 DEF HostRecords
    <3> HIDE DEF f
    <3> QED
      BY <3>1, <3>2
  <2> QED
    BY <2>1, <2>2
<1>4. f.exit \in {0, 1} /\ (g.pc \in Early \/ g.pc \in Late)
  BY <1>1, <1>3 DEF HostRecords
<1>5. HostRunOK(h, f)
  <2> HIDE DEF g, h
  <2>1. CASE g.pc \in Early
    <3>1. /\ WellTold(g.out) /\ Remembered(h, g.s, g.out) /\ g.code = "" /\ StopsRecorded(g)
          /\ g.pc \in Talking /\ h # "qoder" => g.s.submitted
      BY <1>2, <2>1 DEF EarlySound
    <3>2. StopsRecorded(f)
      BY <1>1, <1>3, <1>4, <3>1, <2>1 DEF StopsRecorded
    <3> QED
      BY <1>3, <2>1, <3>1, <3>2, EarlyOK
  <2>2. CASE g.pc \in Late \ {"done"}
    <3>1. /\ WellTold(g.out) /\ Cleaned(g)
          /\ g.code = "completed" => g.out # <<>> /\ Earned(h, g)
      BY <1>1, <2>2, LateOK
    <3>2. g.code # "completed"
      BY <1>1, <3>1 DEF Earned
    <3>3. Cleaned(f)
      BY <1>1, <1>3, <3>1 DEF Cleaned
    <3> QED
      BY <1>3, <2>2, <3>1, <3>2, <3>3, LateOK
  <2>3. CASE g.pc = "done"
    <3>1. g.code # "completed" /\ Cleaned(g) /\ (g.code # "abandoned" => FinalStream(g.out))
      BY <1>1, <2>3 DEF HostRunOK, Earned
    <3>2. Cleaned(f)
      BY <1>1, <1>3, <3>1 DEF Cleaned
    <3> QED
      BY <1>3, <2>3, <3>1, <3>2 DEF HostRunOK, Told, StopsRecorded, Early, Late, Talking
  <2> QED
    BY <1>4, <2>1, <2>2, <2>3
<1>6. g.pc \in {"idle", "emit", "done"} => ~Registered(r)
  BY HostRunFacts
<1> QED
  BY <1>1, <1>3, <1>5, <1>6, PutKeeps

\* The verdict, and what completed needs.
LEMMA ConcludeKeeps ==
  ASSUME HostInv, NEW r \in HostRuns, Conclude(r)
  PROVE  HostInv'
<1> DEFINE g == hrun[r]
           h == HostOf[r]
           code == Verdict(h, g)
<1>1. g.pc \in Talking /\ g.child \in {"dead", "spawn_error"} /\ UNCHANGED active
  BY DEF Conclude, Talking
<1>2. Put(r, Throw(g, code))
  BY DEF Conclude
<1>3. /\ g \in HostRecords /\ HostRunOK(h, g) /\ g.pc \in Early /\ StopsRecorded(g)
      /\ g.s \in SessionRecords /\ h \in {"qoder", "codebuddy", "qwen", "claude"}
      /\ h # "qoder" => g.s.submitted
  BY <1>1, TalkingFacts
<1>4. code = IF h = "qoder" THEN QoderVerdict(g) ELSE ZeroToolVerdict(g)
  BY DEF Verdict
<1>5. /\ g.s.result \in ResultKinds \cup {NoRun} /\ g.reason \in Reasons \cup {NoRun}
      /\ g.exit \in {0, 1}
  BY <1>3 DEF HostRecords, SessionRecords
<1> HIDE DEF code, g, h
<1>6. code \in HostCodes
  BY <1>3, <1>4, QoderVerdictFacts, ZeroToolVerdictFacts
<1>7. ASSUME code = "completed" PROVE Earned(h, g)
  <2>1. /\ g.child # "spawn_error" /\ StoppedCode(g.reason) = "" /\ g.s.proto = ""
        /\ g.exit = 0 /\ g.s.init # NoRun
        /\ g.s.result \notin {NoRun, "max_turns", "error", "bad_output"}
        /\ h = "qoder" => g.s.resp /\ g.s.submitted /\ g.s.started = g.s.completed
    BY <1>3, <1>4, <1>7, QoderVerdictFacts, ZeroToolVerdictFacts
  <2>2. g.reason = NoRun
    <3>1. g.reason \notin {"aborted", "cancelled", "deadline", "stdout_limit", "stderr_limit"}
      BY <2>1 DEF StoppedCode
    <3>2. g.reason # "protocol"
      BY <1>3, <2>1 DEF StopsRecorded
    <3> QED
      BY <1>5, <3>1, <3>2 DEF Reasons, StopReasons
  <2>3. ~g.killed
    BY <1>3, <2>2 DEF StopsRecorded
  <2>4. g.s.result = "ok" \/ (h = "qoder" /\ g.s.result = "bad_usage")
    BY <1>3, <1>4, <1>5, <1>7, <2>1, ZeroToolVerdictFacts DEF ResultKinds
  <2> QED
    BY <1>1, <1>3, <2>1, <2>2, <2>3, <2>4 DEF Earned
<1> QED
  BY <1>1, <1>2, <1>3, <1>6, <1>7, ThrowKeeps DEF g, h

LEMMA AbandonKeeps ==
  ASSUME HostInv, NEW r \in HostRuns, Abandon(r)
  PROVE  HostInv'
<1>1. /\ hrun[r].pc \in Talking /\ UNCHANGED active /\ Put(r, Throw(hrun[r], "abandoned"))
  BY DEF Abandon, Talking
<1>2. /\ hrun[r] \in HostRecords /\ HostRunOK(HostOf[r], hrun[r]) /\ hrun[r].pc \in Early
  BY <1>1, TalkingFacts
<1>3. "abandoned" \in HostCodes
  BY DEF HostCodes, PlainCodes
<1> QED
  BY <1>1, <1>2, <1>3, ThrowKeeps
\* The finally block: what the run has said and earned stays as it is.
LEMMA LateKeeps ==
  ASSUME HostInv, NEW r \in HostRuns, UNCHANGED active, hrun[r].pc \in Late \ {"done"},
         NEW f \in HostRecords, f.pc \in Late \ {"emit", "done"}, Put(r, f), Cleaned(f),
         f.code = hrun[r].code, f.out = hrun[r].out, f.s = hrun[r].s, f.exit = hrun[r].exit,
         f.reason = hrun[r].reason, f.child = hrun[r].child,
         f.child = "dead" => f.killed = hrun[r].killed
  PROVE  HostInv'
<1> DEFINE g == hrun[r]
           h == HostOf[r]
<1>1. HostRunOK(h, g)
  BY HostRunFacts
<1>2. HostRunOK(h, f)
  <2>1. g.pc \in Late \ {"done"} /\ f.code = g.code /\ f.out = g.out /\ f.s = g.s
        /\ f.exit = g.exit /\ f.reason = g.reason /\ f.child = g.child
        /\ (f.child = "dead" => f.killed = g.killed)
    OBVIOUS
  <2> HIDE DEF g, h
  <2>2. WellTold(g.out) /\ (g.code = "completed" => g.out # <<>> /\ Earned(h, g))
    BY <1>1, <2>1, LateOK
  <2>3. f.code = "completed" => f.out # <<>> /\ Earned(h, f)
    BY <2>1, <2>2 DEF Earned
  <2> QED
    BY <2>1, <2>2, <2>3, LateOK
<1>3. f.pc \notin {"idle", "emit", "done"}
  BY DEF Late
<1> QED
  BY <1>2, <1>3, PutKeeps

\* A run of the finally block, and what has been cleaned up by then.
LEMMA LateFacts ==
  ASSUME HostInv, NEW r \in HostRuns, hrun[r].pc \in Late \ {"done"}
  PROVE  /\ hrun[r] \in HostRecords /\ Cleaned(hrun[r]) /\ WellTold(hrun[r].out)
         /\ hrun[r].code = "completed" => hrun[r].out # <<>> /\ Earned(HostOf[r], hrun[r])
<1> DEFINE g == hrun[r]
           h == HostOf[r]
<1>1. g \in HostRecords /\ HostRunOK(h, g) /\ g.pc \in Late \ {"done"}
  BY HostRunFacts
<1> HIDE DEF g, h
<1>2. Cleaned(g) /\ WellTold(g.out) /\ (g.code = "completed" => g.out # <<>> /\ Earned(h, g))
  BY <1>1, LateOK
<1> QED
  BY <1>1, <1>2 DEF g, h

LEMMA WaitingKeeps ==
  ASSUME HostInv, NEW r \in HostRuns, Finally(r) \/ WaitForExit(r)
  PROVE  HostInv'
<1> DEFINE g == hrun[r]
<1>1. g.pc \in Late \ {"done"} /\ UNCHANGED active
  BY DEF Finally, WaitForExit, Late
<1>2. g \in HostRecords
  BY <1>1, LateFacts
<1>3. CASE Finally(r)
  <2> DEFINE killed == g.killed \/ g.child = "alive"
             pc == IF g.child = "none" THEN "auth" ELSE "wait"
             f == [g EXCEPT !.force = FALSE, !.killed = killed, !.pc = pc]
  <2>1. Put(r, f)
    BY <1>3 DEF Finally
  <2>2. /\ pc \in {"auth", "wait"} /\ (pc = "auth" => g.child = "none")
        /\ (g.child = "dead" => killed = g.killed) /\ killed \in BOOLEAN
    BY <1>2 DEF HostRecords
  <2> HIDE DEF pc, killed
  <2>3. /\ f \in HostRecords /\ f.pc = pc /\ f.code = g.code /\ f.s = g.s /\ f.exit = g.exit
        /\ f.out = g.out /\ f.child = g.child /\ f.killed = killed /\ f.reason = g.reason
    BY <1>2, <2>2 DEF HostRecords, Late
  <2> HIDE DEF f
  <2>4. Cleaned(f) /\ f.pc \in Late \ {"emit", "done"}
    BY <2>2, <2>3 DEF Cleaned, Late
  <2> QED
    BY <1>1, <2>1, <2>2, <2>3, <2>4, LateKeeps
<1>4. CASE WaitForExit(r)
  <2> DEFINE clean == g.clean /\ g.child # "alive"
             f == [g EXCEPT !.pc = "auth", !.clean = clean]
  <2>1. Put(r, f)
    BY <1>4 DEF WaitForExit
  <2>2. clean \in BOOLEAN /\ (clean => g.child # "alive")
    BY <1>2 DEF HostRecords
  <2> HIDE DEF clean
  <2>3. /\ f \in HostRecords /\ f.pc = "auth" /\ f.code = g.code /\ f.s = g.s /\ f.exit = g.exit
        /\ f.out = g.out /\ f.child = g.child /\ f.killed = g.killed /\ f.reason = g.reason
        /\ f.clean = clean
    BY <1>2, <2>2 DEF HostRecords, Late
  <2> HIDE DEF f
  <2>4. Cleaned(f) /\ f.pc \in Late \ {"emit", "done"}
    BY <2>2, <2>3 DEF Cleaned, Late
  <2> QED
    BY <1>1, <2>1, <2>2, <2>3, <2>4, LateKeeps
<1> QED
  BY <1>3, <1>4

LEMMA RemovingKeeps ==
  ASSUME HostInv, NEW r \in HostRuns, RemoveAuth(r) \/ RemoveRunRoot(r)
  PROVE  HostInv'
<1> DEFINE g == hrun[r]
<1>1. g.pc \in {"auth", "root"} /\ g.pc \in Late \ {"done"} /\ UNCHANGED active
  BY DEF RemoveAuth, RemoveRunRoot, Late
<1>2. g \in HostRecords /\ Cleaned(g)
  BY <1>1, LateFacts
<1>3. PICK disk \in SUBSET {"root", "auth"}, clean \in BOOLEAN, pc \in {"root", "leave"} :
        /\ Put(r, [g EXCEPT !.pc = pc, !.disk = disk, !.clean = clean])
        /\ clean => g.clean
        /\ pc = "root" => g.pc = "auth" /\ (clean => "auth" \notin disk)
        /\ pc = "leave" => g.pc = "root" /\ (clean => disk \subseteq g.disk \ {"root"})
  <2>1. g.disk \in SUBSET {"root", "auth"} /\ g.clean \in BOOLEAN
    BY <1>2 DEF HostRecords
  <2>2. \A p \in {"root", "leave"} : [g EXCEPT !.pc = p] =
          [g EXCEPT !.pc = p, !.disk = g.disk, !.clean = g.clean]
    BY <1>2 DEF HostRecords
  <2>3. \A p \in {"root", "leave"}, d \in SUBSET {"root", "auth"} :
          [g EXCEPT !.pc = p, !.disk = d] = [g EXCEPT !.pc = p, !.disk = d, !.clean = g.clean]
    BY <1>2 DEF HostRecords
  <2>4. \A p \in {"root", "leave"} : [g EXCEPT !.pc = p, !.clean = FALSE] =
          [g EXCEPT !.pc = p, !.disk = g.disk, !.clean = FALSE]
    BY <1>2 DEF HostRecords
  <2>5. CASE RemoveAuth(r)
    <3>1. \/ "auth" \notin g.disk /\ Put(r, [g EXCEPT !.pc = "root"])
          \/ Put(r, [g EXCEPT !.pc = "root", !.disk = g.disk \ {"auth"}])
          \/ Put(r, [g EXCEPT !.pc = "root", !.clean = FALSE])
      BY <2>5 DEF RemoveAuth
    <3>2. g.pc = "auth" /\ g.disk \ {"auth"} \in SUBSET {"root", "auth"}
      BY <2>1, <2>5 DEF RemoveAuth
    <3> HIDE DEF g
    <3> QED
      BY <2>1, <2>2, <2>3, <2>4, <3>1, <3>2
  <2>6. CASE RemoveRunRoot(r)
    <3>1. \/ "root" \notin g.disk /\ Put(r, [g EXCEPT !.pc = "leave"])
          \/ Put(r, [g EXCEPT !.pc = "leave", !.disk = {}])
          \/ Put(r, [g EXCEPT !.pc = "leave", !.clean = FALSE])
      BY <2>6 DEF RemoveRunRoot
    <3>2. g.pc = "root" /\ {} \in SUBSET {"root", "auth"}
      BY <2>1, <2>6 DEF RemoveRunRoot
    <3> HIDE DEF g
    <3>3. CASE "root" \notin g.disk /\ Put(r, [g EXCEPT !.pc = "leave"])
      <4>1. g.disk \subseteq g.disk \ {"root"}
        BY <3>3
      <4> QED
        BY <2>1, <2>2, <3>2, <3>3, <4>1
    <3>4. CASE Put(r, [g EXCEPT !.pc = "leave", !.disk = {}])
      BY <2>1, <2>3, <3>2, <3>4
    <3>5. CASE Put(r, [g EXCEPT !.pc = "leave", !.clean = FALSE])
      BY <2>1, <2>4, <3>2, <3>5
    <3> QED
      BY <3>1, <3>3, <3>4, <3>5
  <2> QED
    BY <2>5, <2>6
<1> DEFINE f == [g EXCEPT !.pc = pc, !.disk = disk, !.clean = clean]
<1>4. /\ f \in HostRecords /\ f.pc = pc /\ f.code = g.code /\ f.s = g.s /\ f.exit = g.exit
      /\ f.out = g.out /\ f.child = g.child /\ f.killed = g.killed /\ f.reason = g.reason
      /\ f.clean = clean /\ f.disk = disk
  BY <1>2 DEF HostRecords, Late
<1>5. Put(r, f)
  BY <1>3
<1> HIDE DEF f
<1>6. g.disk \subseteq {"root", "auth"}
  BY <1>2 DEF HostRecords
<1>7. Cleaned(f)
  <2> HIDE DEF g
  <2>1. CASE pc = "root"
    BY <1>2, <1>3, <1>4, <2>1 DEF Cleaned
  <2>2. CASE pc = "leave"
    <3>1. clean => g.child # "alive" /\ "auth" \notin g.disk
      BY <1>2, <1>3, <2>2 DEF Cleaned
    <3>2. clean => disk = {}
      BY <1>3, <1>6, <2>2, <3>1
    <3> QED
      BY <1>4, <2>2, <3>1, <3>2 DEF Cleaned
  <2> QED
    BY <2>1, <2>2
<1>8. f.pc \in Late \ {"emit", "done"}
  BY <1>4 DEF Late
<1> QED
  BY <1>1, <1>4, <1>5, <1>7, <1>8, LateKeeps
\* The run id is free again, and a failed cleanup is what is left to say.
LEMMA HostLeaveKeeps ==
  ASSUME HostInv, NEW r \in HostRuns, Leave(r)
  PROVE  HostInv'
<1> DEFINE g == hrun[r]
           h == HostOf[r]
           i == RunIdOf[r]
           pc == IF g.code = "abandoned" THEN "done" ELSE "emit"
           code == IF g.clean \/ g.code = "abandoned" THEN g.code ELSE "cleanup_failed"
           f == [g EXCEPT !.pc = pc, !.code = code]
           row == [active[h] EXCEPT ![i] = NoRun]
<1>1. g.pc = "leave" /\ g.pc \in Late \ {"done"}
  BY DEF Leave, Late
<1>2. /\ g \in HostRecords /\ Cleaned(g) /\ WellTold(g.out)
      /\ g.code = "completed" => g.out # <<>> /\ Earned(h, g)
  BY <1>1, LateFacts
<1>3. /\ h \in Hosts /\ i \in RunIds
      /\ active \in [Hosts -> [RunIds -> HostRuns \cup {NoRun}]]
  BY HostRunFacts
<1>4. Put(r, f)
  BY DEF Leave
<1>5. active' = IF active[h][i] = r THEN [active EXCEPT ![h] = row] ELSE active
  BY DEF Leave, Registered
<1>6. /\ pc \in {"done", "emit"} /\ (pc = "done" <=> g.code = "abandoned")
      /\ code \in {g.code, "cleanup_failed"} /\ code \in HostCodes
      /\ code = "cleanup_failed" \/ g.clean \/ g.code = "abandoned"
      /\ g.code = "abandoned" => code = "abandoned"
  <2>1. g.code \in HostCodes /\ "cleanup_failed" \in HostCodes
    BY <1>2 DEF HostRecords, HostCodes, PlainCodes
  <2> QED
    BY <2>1
<1> HIDE DEF pc, code
<1>7. /\ f \in HostRecords /\ f.pc = pc /\ f.code = code /\ f.s = g.s /\ f.exit = g.exit
      /\ f.out = g.out /\ f.child = g.child /\ f.killed = g.killed /\ f.reason = g.reason
      /\ f.clean = g.clean /\ f.disk = g.disk
  BY <1>2, <1>6 DEF HostRecords, Late
<1> HIDE DEF f
<1>8. HostRunOK(h, f)
  <2> HIDE DEF g, h
  <2>1. g.clean => g.child # "alive" /\ g.disk = {}
    BY <1>1, <1>2 DEF Cleaned
  <2>2. Cleaned(f)
    BY <1>6, <1>7, <2>1 DEF Cleaned
  <2>3. f.code = "completed" => f.out # <<>> /\ Earned(h, f)
    BY <1>2, <1>6, <1>7 DEF Earned
  <2>4. f.pc \notin Early /\ f.pc \notin Talking /\ (f.pc = "done" => f.code = "abandoned")
    BY <1>6, <1>7 DEF Early, Talking
  <2>5. Told(h, f) /\ StopsRecorded(f)
    BY <1>2, <1>7, <2>3, <2>4 DEF Told, StopsRecorded
  <2> QED
    BY <2>2, <2>3, <2>4, <2>5 DEF HostRunOK
<1>9. /\ hrun' \in [HostRuns -> HostRecords] /\ hrun'[r] = f
      /\ \A q \in HostRuns \ {r} : hrun'[q] = hrun[q]
  <2>1. hrun \in [HostRuns -> HostRecords]
    BY DEF HostInv
  <2> QED
    BY <1>4, <1>7, <2>1 DEF Put
<1>10. row \in [RunIds -> HostRuns \cup {NoRun}] /\ row[i] = NoRun
       /\ \A j \in RunIds : j # i => row[j] = active[h][j]
  BY <1>3
<1> HIDE DEF row
<1>11. active' \in [Hosts -> [RunIds -> HostRuns \cup {NoRun}]]
  BY <1>3, <1>5, <1>10
<1>12. ASSUME NEW q \in HostRuns, hrun'[q].pc \in {"idle", "emit", "done"}
       PROVE  active'[HostOf[q]][RunIdOf[q]] # q
  <2>1. HostOf[q] \in Hosts /\ RunIdOf[q] \in RunIds /\ q # NoRun
    BY HostsAssumption DEF Hosts, RunIds
  <2>2. active'[HostOf[q]][RunIdOf[q]] \in {NoRun, active[HostOf[q]][RunIdOf[q]]}
    <3>1. CASE active[h][i] # r
      BY <1>5, <3>1
    <3>2. CASE active[h][i] = r
      <4>1. active'[HostOf[q]] = IF HostOf[q] = h THEN row ELSE active[HostOf[q]]
        BY <1>3, <1>5, <2>1, <3>2
      <4>2. row[RunIdOf[q]] = IF RunIdOf[q] = i THEN NoRun ELSE active[h][RunIdOf[q]]
        BY <1>10, <2>1
      <4> QED
        BY <4>1, <4>2
    <3> QED
      BY <3>1, <3>2
  <2>3. CASE q # r
    <3>1. active[HostOf[q]][RunIdOf[q]] # q
      BY <1>9, <1>12, <2>3, HostRunFacts DEF Registered
    <3> QED
      BY <2>1, <2>2, <3>1
  <2>4. CASE q = r
    <3>1. active'[h][i] # r
      <4>1. CASE active[h][i] = r
        BY <1>3, <1>5, <1>10, <2>1, <2>4, <4>1
      <4>2. CASE active[h][i] # r
        BY <1>5, <4>2
      <4> QED
        BY <4>1, <4>2
    <3> QED
      BY <2>4, <3>1
  <2> QED
    BY <2>3, <2>4
<1>13. \A q \in HostRuns : HostRunOK(HostOf[q], hrun'[q])
  BY <1>8, <1>9 DEF HostInv
<1> QED
  BY <1>9, <1>11, <1>12, <1>13 DEF HostInv, Registered

\* The terminal is the last event.
LEMMA TerminalTold ==
  ASSUME NEW out \in Seq(HostEvents), WellTold(out), NEW e \in HostEvents, e.type \in Terminals,
         e.type = "run.completed" => out # <<>>
  PROVE  Append(out, e) \in Seq(HostEvents) /\ FinalStream(Append(out, e))
<1> DEFINE n == Len(out)
           more == Append(out, e)
<1>1. /\ n \in Nat /\ Len(more) = n + 1 /\ more[n + 1] = e /\ DOMAIN more = 1..(n + 1)
      /\ \A i \in 1..n : more[i] = out[i]
      /\ more \in Seq(HostEvents)
  OBVIOUS
<1>2. n # 0 => 1 \in 1..n /\ more[1].type = "run.started"
  <2> SUFFICES ASSUME n # 0 PROVE 1 \in 1..n /\ more[1].type = "run.started"
    OBVIOUS
  <2>1. 1 \in 1..n
    BY <1>1
  <2>2. out[1].type = "run.started" /\ more[1] = out[1]
    BY <1>1, <2>1 DEF WellTold
  <2> QED
    BY <2>1, <2>2
<1>3. n = 0 => out = <<>>
  BY EmptySeq
<1> HIDE DEF more
<1>4. (n + 1) - 1 = n /\ \A k \in 1..(n + 1) : k \in 1..n \/ k = n + 1
  BY <1>1
<1>5. ASSUME NEW k \in 1..n
      PROVE  /\ more[k].type \notin Terminals
             /\ more[k].type \in {"run.started", "tool.started", "tool.completed"}
             /\ more[k].type = "tool.completed" =>
                  \E j \in 1..(k-1) : more[j] = Event("tool.started", more[k].id)
             /\ \A j \in 1..(k-1) : more[j] # more[k]
  <2>1. \A j \in 1..(k-1) : j \in 1..n
    BY <1>1
  <2>2. more[k] = out[k] /\ \A j \in 1..(k-1) : more[j] = out[j]
    BY <1>1, <2>1
  <2>3. /\ out[k].type \notin Terminals
        /\ out[k].type = "tool.completed" =>
             \E j \in 1..(k-1) : out[j] = Event("tool.started", out[k].id)
        /\ \A j \in 1..(k-1) : out[j] # out[k]
    BY DEF WellTold
  <2>4. out[k] \in HostEvents
    OBVIOUS
  <2>5. out[k].type \in {"run.started", "tool.started", "tool.completed"}
    BY <2>3, <2>4 DEF HostEvents, Terminals
  <2> QED
    BY <2>2, <2>3, <2>5
<1>6. RunEnds(more) = {n + 1}
  BY <1>1, <1>4, <1>5 DEF RunEnds
<1>7. n + 1 \in 1..(n + 1) /\ e.type # "tool.completed" /\ \A j \in 1..n : more[j] # e
  BY <1>1, <1>5 DEF Terminals
<1>8. ASSUME NEW k \in 1..(n + 1)
      PROVE  /\ more[k].type # "run.failed" => more[1].type = "run.started"
             /\ more[k].type = "tool.completed" =>
                  \E j \in 1..(k-1) : more[j] = Event("tool.started", more[k].id)
             /\ \A j \in 1..(k-1) : more[j] # more[k]
  <2>1. CASE k \in 1..n
    <3>1. n # 0
      BY <1>1, <2>1
    <3> QED
      BY <1>2, <1>5, <2>1, <3>1
  <2>2. CASE k = n + 1
    <3>1. k - 1 = n /\ more[k] = e
      BY <1>1, <1>4, <2>2
    <3>2. e.type # "run.failed" => more[1].type = "run.started"
      BY <1>2, <1>3 DEF Terminals
    <3> QED
      BY <1>7, <3>1, <3>2
  <2> QED
    BY <1>4, <2>1, <2>2
<1>9. FinalStream(more)
  BY <1>1, <1>6, <1>8 DEF FinalStream
<1> QED
  BY <1>1, <1>9 DEF more

LEMMA EmitKeeps ==
  ASSUME HostInv, NEW r \in HostRuns, Emit(r)
  PROVE  HostInv'
<1> DEFINE g == hrun[r]
           h == HostOf[r]
           e == IF g.code = "completed" THEN Event("run.completed", NoRun) ELSE Failed(g.code)
           out == Append(g.out, e)
           f == [g EXCEPT !.pc = "done", !.out = out]
<1>1. g.pc = "emit" /\ g.pc \in Late \ {"done"} /\ UNCHANGED active /\ Put(r, f)
  BY DEF Emit, Late
<1>2. /\ g \in HostRecords /\ Cleaned(g) /\ WellTold(g.out) /\ ~Registered(r)
      /\ g.code = "completed" => g.out # <<>> /\ Earned(h, g)
  BY <1>1, LateFacts, HostRunFacts
<1>3. /\ e \in HostEvents /\ e.type \in Terminals
      /\ e.type = "run.completed" => g.code = "completed"
  <2>1. g.code \in HostCodes
    BY <1>2 DEF HostRecords
  <2>2. Event("run.completed", NoRun) \in HostEvents
    BY DEF Event, HostEvents
  <2>3. Failed(g.code) \in HostEvents
    BY <2>1 DEF Failed, HostEvents
  <2>4. /\ Event("run.completed", NoRun).type = "run.completed"
        /\ Failed(g.code).type = "run.failed"
    BY DEF Event, Failed
  <2> QED
    BY <2>2, <2>3, <2>4 DEF Terminals
<1> HIDE DEF e
<1>4. g.out \in Seq(HostEvents)
  BY <1>2 DEF HostRecords
<1>5. out \in Seq(HostEvents) /\ FinalStream(out)
  <2> HIDE DEF g
  <2> QED
    BY <1>2, <1>3, <1>4, TerminalTold
<1> HIDE DEF out
<1>6. /\ f \in HostRecords /\ f.pc = "done" /\ f.code = g.code /\ f.s = g.s /\ f.exit = g.exit
      /\ f.out = out /\ f.child = g.child /\ f.killed = g.killed /\ f.reason = g.reason
      /\ f.clean = g.clean /\ f.disk = g.disk
  BY <1>2, <1>5 DEF HostRecords, Late
<1> HIDE DEF f
<1>7. HostRunOK(h, f)
  <2> HIDE DEF g, h
  <2>1. Cleaned(f)
    BY <1>1, <1>2, <1>6 DEF Cleaned
  <2>2. f.code = "completed" => Earned(h, f)
    BY <1>2, <1>6 DEF Earned
  <2>3. Told(h, f) /\ StopsRecorded(f) /\ f.pc \notin Talking
    BY <1>6 DEF Told, StopsRecorded, Early, Talking
  <2> QED
    BY <1>5, <1>6, <2>1, <2>2, <2>3 DEF HostRunOK
<1> QED
  BY <1>1, <1>2, <1>6, <1>7, PutKeeps
\* One run moves, or none does.
LEMMA HostStepKeeps ==
  ASSUME HostInv, [HostNext]_hostVars
  PROVE  HostInv'
<1>1. CASE UNCHANGED hostVars
  BY <1>1 DEF hostVars, HostInv, Registered
<1>2. CASE HostNext
  <2>1. PICK r \in HostRuns :
          \/ HostStep(r) \/ Cancel(r) \/ ReadLine(r) \/ Abandon(r) \/ StdinError(r)
          \/ HandshakeGrace(r) \/ ChildExits(r) \/ ForceKill(r)
          \/ \E reason \in StopReasons : AbortOrDeadline(r, reason) \/ OutputLimit(r, reason)
    BY <1>2 DEF HostNext
  <2>2. CASE HostStep(r)
    <3>1. CASE Begin(r) \/ Preflight(r) \/ StageQoder(r) \/ StageZeroTool(r) \/ PreSpawn(r)
      BY <3>1, BeginKeeps, PreflightKeeps, StagingKeeps
    <3>2. CASE Spawn(r) \/ Consume(r) \/ Conclude(r)
      BY <3>2, SpawnKeeps, ConsumeKeeps, ConcludeKeeps
    <3>3. CASE Finally(r) \/ WaitForExit(r) \/ RemoveAuth(r) \/ RemoveRunRoot(r)
      BY <3>3, WaitingKeeps, RemovingKeeps
    <3>4. CASE Leave(r) \/ Emit(r)
      BY <3>4, HostLeaveKeeps, EmitKeeps
    <3> QED
      BY <2>2, <3>1, <3>2, <3>3, <3>4 DEF HostStep
  <2>3. CASE Cancel(r) \/ ReadLine(r) \/ Abandon(r)
    BY <2>3, CancelKeeps, ReadLineKeeps, AbandonKeeps
  <2>4. CASE StdinError(r) \/ HandshakeGrace(r)
    BY <2>4, StdinErrorKeeps, HandshakeGraceKeeps
  <2>5. CASE ChildExits(r) \/ ForceKill(r)
    BY <2>5, ChildKeeps
  <2>6. CASE \E reason \in StopReasons : AbortOrDeadline(r, reason) \/ OutputLimit(r, reason)
    BY <2>6, StoppingKeeps
  <2> QED
    BY <2>1, <2>2, <2>3, <2>4, <2>5, <2>6
<1> QED
  BY <1>1, <1>2

\* No run has begun: nothing is told, on the disk, or registered.
LEMMA HostBegins ==
  ASSUME HostInit
  PROVE  HostInv
<1>1. NewRun \in HostRecords
  <2>1. Session \in SessionRecords /\ "" \in HostCodes
    BY SessionType DEF HostCodes, ProtoCodes
  <2>2. <<>> \in Seq(HostEvents)
    OBVIOUS
  <2> QED
    BY <2>1, <2>2 DEF NewRun, HostRecords, Early
<1>2. ASSUME NEW h PROVE HostRunOK(h, NewRun)
  <2>1. /\ NewRun.pc = "idle" /\ NewRun.out = <<>> /\ NewRun.s = Session /\ NewRun.code = ""
        /\ NewRun.reason = NoRun /\ ~NewRun.force /\ ~NewRun.killed /\ NewRun.exit = 0
        /\ NewRun.child = "none"
    BY DEF NewRun
  <2>2. /\ Session.init = NoRun /\ Session.started = {} /\ Session.completed = {}
        /\ Session.proto = ""
    BY DEF Session
  <2>3. \A k \in 1..Len(<<>>) : FALSE
    OBVIOUS
  <2>4. WellTold(<<>>) /\ Remembered(h, Session, <<>>)
    BY <2>2, <2>3 DEF WellTold, Remembered
  <2>5. StopsRecorded(NewRun)
    BY <2>1, <2>2, StopReasonFacts DEF StopsRecorded, Early, Talking, Reasons
  <2>6. NewRun.pc \in Early /\ NewRun.pc \notin Talking
    BY <2>1 DEF Early, Talking
  <2> QED
    BY <2>1, <2>4, <2>5, <2>6, EarlyOK
<1>3. hrun \in [HostRuns -> HostRecords] /\ \A r \in HostRuns : hrun[r] = NewRun
  BY <1>1 DEF HostInit
<1>4. active \in [Hosts -> [RunIds -> HostRuns \cup {NoRun}]]
  BY DEF HostInit, Hosts, RunIds
<1>5. \A r \in HostRuns : ~Registered(r)
  <2>1. \A r \in HostRuns : r # NoRun /\ HostOf[r] \in Hosts /\ RunIdOf[r] \in RunIds
    BY HostsAssumption DEF Hosts, RunIds
  <2> QED
    BY <2>1 DEF HostInit, Registered, Hosts, RunIds
<1> QED
  BY <1>2, <1>3, <1>4, <1>5 DEF HostInv

\* What the invariant says of a run that has ended.
LEMMA HostInvSound ==
  ASSUME HostInv
  PROVE  HostRunSound
<1>1. ASSUME NEW r \in HostRuns
      PROVE  /\ hrun[r] \in HostRecords /\ HostRunOK(HostOf[r], hrun[r])
             /\ hrun[r].pc \in {"idle", "emit", "done"} => ~Registered(r)
  BY HostRunFacts
<1>2. StreamAccepted
  <2> SUFFICES ASSUME NEW r \in HostRuns, hrun[r].pc = "done", hrun[r].code # "abandoned"
               PROVE  LET out == hrun[r].out IN
                      /\ ClassifyStream(out) = "accept"
                      /\ \A k \in DOMAIN out :
                           /\ out[k].type # "run.failed" => out[1].type = "run.started"
                           /\ out[k].type = "tool.completed" =>
                                \E j \in 1..(k-1) : out[j] = Event("tool.started", out[k].id)
                           /\ \A j \in 1..(k-1) : out[j] # out[k]
    BY DEF StreamAccepted
  <2> DEFINE out == hrun[r].out
  <2>1. FinalStream(out) /\ out \in Seq(HostEvents)
    BY <1>1 DEF HostRunOK, HostRecords
  <2> HIDE DEF out
  <2>2. DOMAIN out = 1..Len(out)
    BY <2>1
  <2>3. ClassifyStream(out) = "accept"
    BY <2>1 DEF ClassifyStream, FinalStream, RunEnds
  <2> QED
    BY <2>1, <2>2, <2>3 DEF FinalStream, out
<1>3. TerminalMeansClean
  BY <1>1 DEF TerminalMeansClean, HostRunOK, Cleaned
<1>4. CompletedIsEarned
  BY <1>1 DEF CompletedIsEarned, HostRunOK, Earned
<1> QED
  BY <1>2, <1>3, <1>4 DEF HostRunSound

\* In every adapter of the CLI (apps/cli/qoder-agent-host.ts and its codebuddy, qwen and
\* claude siblings), and for whatever the child writes, whoever stops the run and whatever
\* of the cleanup fails: a consumer that reads run() to the end sees a stream the contract
\* accepts, a terminal other than cleanup_failed comes after the process tree, the payload
\* and the run root are gone and the run id is free, and run.completed is earned.
THEOREM HostRunsSound == HostSpec => []HostRunSound
<1>1. HostInit => HostInv
  BY HostBegins
<1>2. HostInv /\ [HostNext]_hostVars => HostInv'
  BY HostStepKeeps
<1>3. HostInv => HostRunSound
  BY HostInvSound
<1> QED
  BY <1>1, <1>2, <1>3, PTL DEF HostSpec

-----------------------------------------------------------------------------
(* The model ports of a turn. *)

Ports == {NoAnswer, "refused", "deterministic", "claude-local", "qoder"}
LineDetails == {l.detail : l \in PortLines} \cup {NoAnswer}
LineIds == {l.id : l \in PortLines}
StreamStates == [init : BOOLEAN, result : LineDetails, ids : SUBSET LineIds, refused : BOOLEAN]

CompletionRecords ==
  [pc : {"idle", "prepared", "running", "adapter", "cleanup", "returned"}, scratch : BOOLEAN,
   stream : StreamStates, answer : {NoAnswer, "text", "error"}]
VendorRecords ==
  [life : {"none", "up", "exited"}, version : {NoAnswer, "supported", "other"},
   exit : {NoAnswer, "zero", "other"}, wrote : Seq(PortLines), read : Nat,
   termed : BOOLEAN, timer : BOOLEAN]

\* What the normalizer lets through between the first line and the result.
QuietLine(l) ==
  \/ l.type = "blank"
  \/ /\ l.mine
     /\ \/ l.type = "notice"
        \/ l.type \in {"stream_event", "assistant"} /\ l.detail # "tool" /\ ~l.parent

\* The child opened with a conforming announcement at line f.
OpensAt(w, f) ==
  /\ w[f].type = "init" /\ InitConforms(w[f])
  /\ \A k \in 1..(f - 1) : w[k].type = "blank"

\* What the normalizer n knows of the first r lines of w, none of which it refused.
Heard(n, w, r) ==
  \/ ~n.init /\ n.result = NoAnswer /\ \A k \in 1..r : w[k].type = "blank"
  \/ /\ n.init /\ n.result = NoAnswer
     /\ \E f \in 1..r : OpensAt(w, f) /\ \A k \in 1..r : k = f \/ QuietLine(w[k])
  \/ /\ n.init /\ n.result # NoAnswer
     /\ \E f, t \in 1..r :
          /\ f < t /\ OpensAt(w, f)
          /\ w[t].type = "result" /\ w[t].detail = n.result /\ w[t].mine
          /\ \A k \in 1..r : k \in {f, t} \/ QuietLine(w[k])
          /\ \A k \in (t + 1)..r : w[k].type = "blank"

\* Only a supported child announces itself as one.
SupportedOnly(v) ==
  \A k \in DOMAIN v.wrote :
    v.wrote[k].type = "init" /\ v.wrote[k].conforms => v.version = "supported"

\* A call r of the port p and its child v.
CallOK(p, r, v) ==
  /\ p = NoAnswer => r.pc = "idle"
  /\ p # "claude-local" => v = NewVendor
  /\ v.read <= Len(v.wrote)
  /\ r.pc = "idle" => r = NewCompletion
  /\ r.pc \in {"idle", "prepared", "adapter"} =>
       v = NewVendor /\ r.stream = NoStream /\ r.answer = NoAnswer
  /\ r.pc = "running" =>
       /\ p = "claude-local" /\ r.answer = NoAnswer /\ ~v.termed
       /\ SupportedOnly(v) /\ Heard(r.stream, v.wrote, v.read)
  /\ r.pc \in {"cleanup", "returned"} =>
       /\ r.answer # NoAnswer
       /\ Alive(v) => v.termed /\ v.timer
       /\ r.answer = "text" => ~Alive(v) /\ (p = "claude-local" => GenuineText(v))
  /\ r.pc = "returned" => ~r.scratch

\* What came before a call that has begun is over.
InOrder ==
  \A c, d \in Completions :
    c < d /\ completion[d].pc # "idle" => completion[c].pc = "returned" /\ ~Alive(vendor[c])

PortInv ==
  /\ setting \in [engine : Engines, script : BOOLEAN, binary : {"supported", "other"},
                  windows : BOOLEAN, token : BOOLEAN]
  /\ aborted \in BOOLEAN /\ port \in Ports
  /\ completion \in [Completions -> CompletionRecords]
  /\ vendor \in [Completions -> VendorRecords]
  /\ \A c \in Completions : CallOK(port, completion[c], vendor[c])
  /\ InOrder

LEMMA PortConstants ==
  /\ \A c \in Completions : c \in Nat /\ c >= 1 /\ (c > 1 => c - 1 \in Completions)
  /\ \A x \in {"none", "deterministic", "claude-local", "qoder", "refused", "supported",
               "other", "zero", "success", "text", "error"} : x # NoAnswer
  /\ NoAnswer \in LineDetails
BY CompletionsAssumption DEF Engines, LineDetails

LEMMA NewFacts ==
  /\ NewCompletion \in CompletionRecords /\ NewVendor \in VendorRecords
  /\ NoStream \in StreamStates
  /\ ~Alive(NewVendor) /\ ~NewVendor.termed
  /\ SupportedOnly(NewVendor) /\ Heard(NoStream, <<>>, 0)
  /\ NewVendor.wrote = <<>> /\ NewVendor.read = 0 /\ NewVendor.read <= Len(NewVendor.wrote)
<1>1. NoStream \in StreamStates
  BY PortConstants DEF NoStream, StreamStates
<1> QED
  BY <1>1 DEF NewCompletion, NewVendor, CompletionRecords, VendorRecords, Alive, SupportedOnly,
              Heard, NoStream

LEMMA PortBegins == PortInit => PortInv
<1> SUFFICES ASSUME PortInit PROVE PortInv
  OBVIOUS
<1>1. \A c \in Completions : completion[c] = NewCompletion /\ vendor[c] = NewVendor
  BY DEF PortInit
<1>2. CallOK(NoAnswer, NewCompletion, NewVendor)
  BY NewFacts DEF CallOK, NewCompletion, NewVendor
<1>3. InOrder
  BY <1>1 DEF InOrder, NewCompletion
<1> QED
  BY <1>1, <1>2, <1>3, NewFacts, CompletionsAssumption DEF PortInit, PortInv, Ports

\* One call moves: one that has begun and is not over, or the next one.
LEMMA OneCallMoves ==
  ASSUME PortInv, NEW c \in Completions,
         NEW r \in CompletionRecords, NEW v \in VendorRecords, CallOK(port, r, v),
         completion' = [completion EXCEPT ![c] = r], vendor' = [vendor EXCEPT ![c] = v],
         UNCHANGED <<port, setting, aborted>>,
         \/ completion[c].pc # "idle" /\ (completion[c].pc # "returned" \/ Alive(vendor[c]))
         \/ MayCall(c)
  PROVE  PortInv'
<1>1. /\ completion'[c] = r /\ vendor'[c] = v
      /\ \A d \in Completions \ {c} : completion'[d] = completion[d] /\ vendor'[d] = vendor[d]
      /\ completion' \in [Completions -> CompletionRecords]
      /\ vendor' \in [Completions -> VendorRecords]
  BY DEF PortInv
<1>2. ASSUME NEW d \in Completions
      PROVE  CallOK(port', completion'[d], vendor'[d])
  BY <1>1 DEF PortInv
<1>3. ASSUME NEW a \in Completions, NEW d \in Completions, a < d, completion'[d].pc # "idle"
      PROVE  completion'[a].pc = "returned" /\ ~Alive(vendor'[a])
  <2>1. a # d /\ a \in Nat /\ d \in Nat
    BY <1>3, PortConstants
  <2>2. CASE completion[d].pc # "idle"
    <3>1. completion[a].pc = "returned" /\ ~Alive(vendor[a])
      BY <1>3, <2>2 DEF PortInv, InOrder
    <3>2. a # c
      BY <3>1, <1>3 DEF MayCall
    <3> QED
      BY <3>1, <3>2, <1>1
  <2>3. CASE completion[d].pc = "idle"
    <3>1. d = c /\ MayCall(c)
      BY <2>3, <1>1, <1>3
    <3>2. /\ c > 1 /\ c - 1 \in Completions /\ c - 1 \in Nat
          /\ completion[c - 1].pc = "returned" /\ completion[c - 1].answer # "error"
      BY <3>1, <2>1, <1>3, PortConstants DEF MayCall
    <3>3. /\ CallOK(port, completion[c - 1], vendor[c - 1])
          /\ completion[c - 1] \in CompletionRecords
      BY <3>2 DEF PortInv
    <3>4. ~Alive(vendor[c - 1])
      BY <3>2, <3>3 DEF CallOK, CompletionRecords
    <3>5. a = c - 1 \/ a < c - 1
      BY <3>1, <2>1, <1>3
    <3>6. completion[a].pc = "returned" /\ ~Alive(vendor[a])
      BY <3>2, <3>4, <3>5 DEF PortInv, InOrder
    <3> QED
      BY <3>1, <3>6, <2>1, <1>1
  <2> QED
    BY <2>2, <2>3
<1> QED
  BY <1>1, <1>2, <1>3 DEF PortInv, InOrder

\* The same when the child does not change.
LEMMA CallMovesAlone ==
  ASSUME PortInv, NEW c \in Completions,
         NEW r \in CompletionRecords, CallOK(port, r, vendor[c]), Update(c, r),
         UNCHANGED <<port, setting, aborted, vendor>>,
         \/ completion[c].pc \notin {"idle", "returned"}
         \/ MayCall(c)
  PROVE  PortInv'
<1>1. vendor' = [vendor EXCEPT ![c] = vendor[c]] /\ vendor[c] \in VendorRecords
  BY DEF PortInv
<1> QED
  BY <1>1, OneCallMoves DEF Update

\* ... and when only the child does.
LEMMA ChildMovesAlone ==
  ASSUME PortInv, NEW c \in Completions,
         NEW v \in VendorRecords, CallOK(port, completion[c], v),
         vendor' = [vendor EXCEPT ![c] = v],
         UNCHANGED <<port, setting, aborted, completion>>, Alive(vendor[c])
  PROVE  PortInv'
<1>1. /\ completion' = [completion EXCEPT ![c] = completion[c]]
      /\ completion[c] \in CompletionRecords
  BY DEF PortInv
<1>2. completion[c].pc # "idle"
  BY NewFacts DEF PortInv, CallOK
<1> QED
  BY <1>1, <1>2, OneCallMoves

LEMMA PortFacts ==
  ASSUME PortInv, NEW c \in Completions
  PROVE  /\ completion[c] \in CompletionRecords /\ vendor[c] \in VendorRecords
         /\ CallOK(port, completion[c], vendor[c])
BY DEF PortInv

LEMMA CallFails ==
  ASSUME NEW p \in Ports, NEW r \in CompletionRecords, NEW v \in VendorRecords,
         CallOK(p, r, v), r.pc \notin {"idle", "returned"}
  PROVE  /\ FailedCall(r) \in CompletionRecords /\ Dropped(v) \in VendorRecords
         /\ CallOK(p, FailedCall(r), Dropped(v))
<1>1. /\ FailedCall(r) \in CompletionRecords
      /\ FailedCall(r).pc = "cleanup" /\ FailedCall(r).answer = "error"
  BY NewFacts DEF CompletionRecords, FailedCall
<1>2. /\ Dropped(v) \in VendorRecords /\ Dropped(v).wrote = <<>> /\ Dropped(v).read = 0
      /\ Alive(Dropped(v)) => Dropped(v).termed /\ Dropped(v).timer
  <2> DEFINE k == KillTree(v)
  <2>1. k \in VendorRecords /\ (Alive(k) => k.termed /\ k.timer)
    BY DEF VendorRecords, KillTree, Alive
  <2>2. Dropped(v) = [k EXCEPT !.wrote = <<>>, !.read = 0]
    BY DEF Dropped
  <2> HIDE DEF k
  <2>4. <<>> \in Seq(PortLines)
    BY EmptySeq
  <2>5. Dropped(v) = [life |-> k.life, version |-> k.version, exit |-> k.exit,
                      wrote |-> <<>>, read |-> 0, termed |-> k.termed, timer |-> k.timer]
    BY <2>1, <2>2 DEF VendorRecords
  <2> HIDE DEF Dropped
  <2>6. /\ k.life \in {"none", "up", "exited"} /\ k.version \in {NoAnswer, "supported", "other"}
        /\ k.exit \in {NoAnswer, "zero", "other"} /\ k.termed \in BOOLEAN
        /\ k.timer \in BOOLEAN
    BY <2>1 DEF VendorRecords
  <2>7. Dropped(v) \in VendorRecords
    BY <2>4, <2>5, <2>6 DEF VendorRecords
  <2>8. /\ Dropped(v).wrote = <<>> /\ Dropped(v).read = 0 /\ Dropped(v).life = k.life
        /\ Dropped(v).termed = k.termed /\ Dropped(v).timer = k.timer
    BY <2>5
  <2>9. ASSUME Alive(Dropped(v)) PROVE Dropped(v).termed /\ Dropped(v).timer
    <3>1. k.termed /\ k.timer
      BY <2>1, <2>8, <2>9 DEF Alive
    <3> QED
      BY <3>1, <2>8
  <2> QED
    BY <2>7, <2>8, <2>9
<1>3. v = NewVendor => Dropped(v) = NewVendor
  <2>1. KillTree(NewVendor) = NewVendor
    BY NewFacts DEF KillTree
  <2>2. [NewVendor EXCEPT !.wrote = <<>>, !.read = 0] = NewVendor
    <3>1. /\ NewVendor.wrote = <<>> /\ NewVendor.read = 0
          /\ NewVendor = [x \in DOMAIN NewVendor |-> NewVendor[x]]
      BY DEF NewVendor
    <3>2. [NewVendor EXCEPT !.wrote = NewVendor.wrote, !.read = NewVendor.read] = NewVendor
      BY <3>1
    <3> QED
      BY <3>1, <3>2
  <2> QED
    BY <2>1, <2>2 DEF Dropped
<1>4. p # NoAnswer
  BY DEF CallOK
<1> QED
  BY <1>1, <1>2, <1>3, <1>4, PortConstants DEF CallOK

LEMMA FailsKeeps ==
  ASSUME PortInv, NEW c \in Completions, Fails(c), UNCHANGED <<port, setting, aborted>>,
         completion[c].pc \notin {"idle", "returned"}
  PROVE  PortInv'
<1>1. /\ FailedCall(completion[c]) \in CompletionRecords
      /\ Dropped(vendor[c]) \in VendorRecords
      /\ CallOK(port, FailedCall(completion[c]), Dropped(vendor[c]))
  BY PortFacts, CallFails DEF PortInv
<1>2. vendor' = [vendor EXCEPT ![c] = Dropped(vendor[c])]
  BY DEF Fails
<1> QED
  BY <1>1, <1>2, OneCallMoves DEF Fails, Update

LEMMA AnswersKeeps ==
  ASSUME PortInv, NEW c \in Completions, Answers(c), UNCHANGED <<port, setting, aborted>>,
         completion[c].pc \notin {"idle", "returned"}, ~Alive(vendor[c]),
         port = "claude-local" => GenuineText(vendor[c])
  PROVE  PortInv'
<1> DEFINE r == [completion[c] EXCEPT !.pc = "cleanup", !.answer = "text"]
<1>1. /\ completion[c] \in CompletionRecords /\ vendor[c] \in VendorRecords
      /\ CallOK(port, completion[c], vendor[c])
  BY PortFacts
<1>2. r \in CompletionRecords /\ r.pc = "cleanup" /\ r.answer = "text"
  BY <1>1 DEF CompletionRecords
<1>3. completion' = [completion EXCEPT ![c] = r] /\ vendor' = [vendor EXCEPT ![c] = vendor[c]]
  BY DEF Answers, Update, KillTree
<1> HIDE DEF r
<1>4. CallOK(port, r, vendor[c])
  BY <1>1, <1>2, PortConstants DEF CallOK
<1> QED
  BY <1>1, <1>2, <1>3, <1>4, OneCallMoves

LEMMA MayCallFacts ==
  ASSUME PortInv, NEW c \in Completions, MayCall(c)
  PROVE  /\ completion[c] = NewCompletion /\ vendor[c] = NewVendor
         /\ port \in {"deterministic", "claude-local", "qoder"}
BY DEF PortInv, MayCall, CallOK, Ports

LEMMA ResolveKeeps == ASSUME PortInv, ResolveModelPort PROVE PortInv'
<1>1. \A c \in Completions : completion[c] = NewCompletion /\ vendor[c] = NewVendor
  BY DEF PortInv, CallOK, ResolveModelPort
<1>2. port' \in Ports /\ port' # NoAnswer
  <2>1. CASE PortResolves(setting)
    BY <2>1, PortConstants DEF ResolveModelPort, PortResolves, Ports
  <2>2. CASE ~PortResolves(setting)
    BY <2>2, PortConstants DEF ResolveModelPort, Ports
  <2> QED
    BY <2>1, <2>2
<1>3. CallOK(port', NewCompletion, NewVendor)
  BY <1>2, NewFacts DEF CallOK, NewCompletion, NewVendor
<1> QED
  BY <1>1, <1>2, <1>3 DEF PortInv, InOrder, ResolveModelPort

LEMMA ReplacedKeeps == ASSUME PortInv, BinaryReplaced PROVE PortInv'
BY DEF PortInv, BinaryReplaced, InOrder

LEMMA BeforeChildKeeps ==
  ASSUME PortInv, NEW c \in Completions, CompleteRefuses(c) \/ MakesScratch(c) \/ Replays(c)
  PROVE  PortInv'
<1>1. /\ completion[c] = NewCompletion /\ vendor[c] = NewVendor /\ MayCall(c)
      /\ port \in {"deterministic", "claude-local", "qoder"}
  BY MayCallFacts DEF CompleteRefuses, MakesScratch, Replays
<1>2. PICK r : /\ Update(c, r)
               /\ \/ r = [NewCompletion EXCEPT !.pc = "returned", !.answer = "error"]
                  \/ r = [NewCompletion EXCEPT !.pc = "returned", !.answer = "text"]
                     /\ port # "claude-local"
                  \/ r = [NewCompletion EXCEPT !.pc = "prepared", !.scratch = TRUE]
  <2>1. CASE CompleteRefuses(c)
    BY <1>1, <2>1 DEF CompleteRefuses
  <2>2. CASE MakesScratch(c)
    BY <1>1, <2>2 DEF MakesScratch
  <2>3. CASE Replays(c)
    <3>1. \E a \in {"text", "error"} :
            Update(c, [completion[c] EXCEPT !.pc = "returned", !.answer = a])
      BY <2>3 DEF Replays
    <3> QED
      BY <1>1, <2>3, <3>1 DEF Replays
  <2> QED
    BY <2>1, <2>2, <2>3
<1>3. r \in CompletionRecords /\ CallOK(port, r, vendor[c])
  <2>1. r \in CompletionRecords
    BY <1>2, NewFacts DEF CompletionRecords
  <2>2. /\ NewCompletion.answer = NoAnswer /\ NewCompletion.stream = NoStream
        /\ NewCompletion.scratch = FALSE
    BY DEF NewCompletion
  <2>3. CASE r = [NewCompletion EXCEPT !.pc = "prepared", !.scratch = TRUE]
    <3>1. r.pc = "prepared" /\ r.answer = NoAnswer /\ r.stream = NoStream
      BY <2>3, <2>2, NewFacts DEF CompletionRecords
    <3> QED
      BY <1>1, <2>1, <3>1, NewFacts, PortConstants DEF CallOK
  <2>4. CASE r.pc = "returned" /\ r.answer \in {"error", "text"} /\ r.scratch = FALSE
             /\ (r.answer = "text" => port # "claude-local")
    BY <1>1, <2>1, <2>4, NewFacts, PortConstants DEF CallOK
  <2>5. ASSUME NEW a \in {"error", "text"},
               r = [NewCompletion EXCEPT !.pc = "returned", !.answer = a]
        PROVE  r.pc = "returned" /\ r.answer = a /\ r.scratch = FALSE
    BY <2>2, <2>5, NewFacts DEF CompletionRecords
  <2>6. CASE r = [NewCompletion EXCEPT !.pc = "returned", !.answer = "error"]
    BY <2>4, <2>5, <2>6
  <2>7. CASE /\ r = [NewCompletion EXCEPT !.pc = "returned", !.answer = "text"]
             /\ port # "claude-local"
    BY <2>4, <2>5, <2>7
  <2> QED
    BY <1>2, <2>3, <2>6, <2>7
<1> QED
  BY <1>1, <1>2, <1>3, CallMovesAlone DEF CompleteRefuses, MakesScratch, Replays

LEMMA SpawnsKeeps ==
  ASSUME PortInv, NEW c \in Completions, SpawnsClaude(c)
  PROVE  PortInv'
<1> DEFINE r == [completion[c] EXCEPT !.pc = "running"]
           v == [NewVendor EXCEPT !.life = "up", !.version = setting.binary]
<1>1. /\ completion[c] \in CompletionRecords /\ vendor[c] = NewVendor
      /\ completion[c].stream = NoStream /\ completion[c].answer = NoAnswer
      /\ port = "claude-local" /\ completion[c].pc = "prepared"
      /\ setting.binary \in {"supported", "other"}
  BY PortFacts DEF SpawnsClaude, CallOK, PortInv
<1>2. /\ r \in CompletionRecords /\ r.pc = "running" /\ r.stream = NoStream
      /\ r.answer = NoAnswer
  BY <1>1 DEF CompletionRecords
<1>3. /\ v \in VendorRecords /\ v.wrote = <<>> /\ v.read = 0 /\ ~v.termed
  <2>1. /\ v \in VendorRecords /\ v.wrote = NewVendor.wrote /\ v.read = NewVendor.read
        /\ v.termed = NewVendor.termed
    BY <1>1, NewFacts DEF VendorRecords
  <2> HIDE DEF v
  <2> QED
    BY <2>1, NewFacts
<1>4. /\ completion' = [completion EXCEPT ![c] = r] /\ vendor' = [vendor EXCEPT ![c] = v]
      /\ UNCHANGED <<port, setting, aborted>>
  BY <1>1 DEF SpawnsClaude, Update
<1> HIDE DEF r, v
<1>5. CallOK(port, r, v)
  BY <1>1, <1>2, <1>3, NewFacts, PortConstants DEF CallOK, SupportedOnly
<1> QED
  BY <1>1, <1>2, <1>3, <1>4, <1>5, OneCallMoves

LEMMA SomeFailureKeeps ==
  ASSUME PortInv, NEW c \in Completions,
         ClaudeSpawnFails(c) \/ PipeFails(c) \/ DeadlineFires(c)
  PROVE  PortInv'
BY FailsKeeps DEF ClaudeSpawnFails, PipeFails, DeadlineFires

LEMMA AbortKeeps == ASSUME PortInv, SignalAborts PROVE PortInv'
<1>1. ASSUME NEW c \in Completions
      PROVE  /\ completion'[c] \in CompletionRecords /\ vendor'[c] \in VendorRecords
             /\ CallOK(port, completion'[c], vendor'[c])
             /\ completion'[c].pc = "idle" <=> completion[c].pc = "idle"
             /\ completion[c].pc = "returned" =>
                  completion'[c] = completion[c] /\ vendor'[c] = vendor[c]
  <2>1. CASE Listening(c)
    <3>1. completion'[c] = FailedCall(completion[c]) /\ vendor'[c] = Dropped(vendor[c])
      BY <2>1 DEF SignalAborts
    <3>2. completion[c].pc = "running" /\ port \in Ports
      BY <2>1 DEF Listening, PortInv
    <3>3. completion'[c].pc = "cleanup"
      BY <3>1, PortFacts DEF FailedCall, CompletionRecords
    <3> QED
      BY <3>1, <3>2, <3>3, PortFacts, CallFails
  <2>2. CASE ~Listening(c)
    BY <2>2, PortFacts DEF SignalAborts
  <2> QED
    BY <2>1, <2>2
<1>2. /\ completion' \in [Completions -> CompletionRecords]
      /\ vendor' \in [Completions -> VendorRecords]
  BY <1>1 DEF SignalAborts
<1>3. InOrder'
  <2> SUFFICES ASSUME NEW c \in Completions, NEW d \in Completions, c < d,
                      completion'[d].pc # "idle"
               PROVE  completion'[c].pc = "returned" /\ ~Alive(vendor'[c])
    BY DEF InOrder
  <2> QED
    BY <1>1 DEF PortInv, InOrder
<1> QED
  BY <1>1, <1>2, <1>3 DEF PortInv, SignalAborts

\* What the normalizer lets pass.
LEMMA AcceptsFacts ==
  ASSUME NEW n \in StreamStates, NEW l \in PortLines, ~LineFails(n, l), l.type # "blank"
  PROVE  /\ StreamAccepts(n, l) \in StreamStates /\ n.result = NoAnswer
         /\ \/ /\ ~n.init /\ l.type = "init" /\ InitConforms(l)
               /\ StreamAccepts(n, l).init /\ StreamAccepts(n, l).result = NoAnswer
            \/ /\ n.init /\ QuietLine(l)
               /\ StreamAccepts(n, l).init /\ StreamAccepts(n, l).result = NoAnswer
            \/ /\ n.init /\ l.mine /\ l.type = "result" /\ l.detail # NoAnswer
               /\ StreamAccepts(n, l).init /\ StreamAccepts(n, l).result = l.detail
<1>1. ~StreamAccepts(n, l).refused
  BY DEF LineFails
<1>2. RefusedStream(n).refused
  BY DEF RefusedStream, StreamStates
<1>3. /\ l.detail \in LineDetails /\ l.id \in LineIds /\ l.detail # NoAnswer
      /\ l.mine \in BOOLEAN /\ l.parent \in BOOLEAN
  BY CompletionsAssumption DEF LineDetails, LineIds
<1>4. n.result = NoAnswer
  BY <1>1, <1>2 DEF StreamAccepts
<1>5. CASE l.type = "init"
  <2>1. StreamAccepts(n, l) = StreamInit(n, l)
    BY <1>4, <1>5 DEF StreamAccepts
  <2>2. ~n.init /\ InitConforms(l) /\ StreamAccepts(n, l) = [n EXCEPT !.init = TRUE]
    BY <2>1, <1>1, <1>2 DEF StreamInit
  <2> QED
    BY <2>2, <1>4, <1>5 DEF StreamStates
<1>6. CASE l.type # "init"
  <2>1. n.init /\ l.mine
    BY <1>1, <1>2, <1>4, <1>6 DEF StreamAccepts
  <2>2. CASE l.type = "stream_event"
    <3>1. StreamAccepts(n, l) = StreamEvent(n, l)
      BY <2>1, <2>2, <1>4 DEF StreamAccepts
    <3>2. StreamAccepts(n, l) = n /\ ~l.parent /\ l.detail # "tool"
      BY <3>1, <1>1, <1>2 DEF StreamEvent, QuietParts
    <3> QED
      BY <3>2, <2>1, <2>2, <1>4 DEF QuietLine
  <2>3. CASE l.type = "assistant"
    <3>1. StreamAccepts(n, l) = StreamAssistant(n, l)
      BY <2>1, <2>3, <1>4 DEF StreamAccepts
    <3>2. ~l.parent /\ l.detail # "tool"
      BY <3>1, <1>1, <1>2 DEF StreamAssistant
    <3>3. \E ids \in SUBSET LineIds : StreamAccepts(n, l) = [n EXCEPT !.ids = ids]
      <4>1. CASE l.id = NoAnswer
        BY <3>1, <4>1, <1>1, <1>2 DEF StreamAssistant, StreamStates
      <4>2. CASE l.id # NoAnswer
        <5>1. StreamAccepts(n, l) = [n EXCEPT !.ids = n.ids \cup {l.id}]
          BY <3>1, <4>2, <1>1, <1>2 DEF StreamAssistant, StreamStates
        <5>2. n.ids \cup {l.id} \in SUBSET LineIds
          BY <1>3 DEF StreamStates
        <5> QED
          BY <5>1, <5>2
      <4> QED
        BY <4>1, <4>2
    <3>4. /\ StreamAccepts(n, l) \in StreamStates /\ StreamAccepts(n, l).init
          /\ StreamAccepts(n, l).result = NoAnswer
      BY <3>3, <2>1, <1>4 DEF StreamStates
    <3> QED
      BY <3>2, <3>4, <2>1, <2>3, <1>4 DEF QuietLine
  <2>4. CASE l.type = "result"
    <3>1. StreamAccepts(n, l) = [n EXCEPT !.result = l.detail]
      BY <2>1, <2>4, <1>4 DEF StreamAccepts
    <3> QED
      BY <3>1, <2>1, <2>4, <1>3, <1>4 DEF StreamStates
  <2>5. CASE l.type = "notice"
    <3>1. StreamAccepts(n, l) = n
      BY <2>1, <2>5, <1>4 DEF StreamAccepts
    <3> QED
      BY <3>1, <2>1, <2>5, <1>4 DEF QuietLine
  <2>6. CASE l.type \notin {"stream_event", "assistant", "result", "notice"}
    <3>1. StreamAccepts(n, l) = RefusedStream(n)
      BY <2>1, <2>6, <1>4, <1>6 DEF StreamAccepts
    <3> QED
      BY <3>1, <1>1, <1>2
  <2> QED
    BY <2>2, <2>3, <2>4, <2>5, <2>6
<1> QED
  BY <1>5, <1>6

\* Reading one more line keeps what is known of the lines read.
LEMMA HeardOneMore ==
  ASSUME NEW n \in StreamStates, NEW w \in Seq(PortLines), NEW r \in Nat, r < Len(w),
         Heard(n, w, r), ~LineFails(n, w[r + 1]),
         NEW m, m = IF w[r + 1].type = "blank" THEN n ELSE StreamAccepts(n, w[r + 1])
  PROVE  m \in StreamStates /\ Heard(m, w, r + 1)
<1> DEFINE l == w[r + 1]
<1>1. l \in PortLines
  OBVIOUS
<1>2. \A k \in 1..(r + 1) : k \in 1..r \/ k = r + 1
  OBVIOUS
<1>3. \A k \in 1..r : k \in 1..(r + 1)
  OBVIOUS
<1>4. CASE l.type = "blank"
  <2>1. m = n
    BY <1>4
  <2>2. QuietLine(l)
    BY <1>4 DEF QuietLine
  <2>3. CASE ~n.init /\ n.result = NoAnswer /\ \A k \in 1..r : w[k].type = "blank"
    BY <2>1, <2>3, <1>2, <1>4 DEF Heard
  <2>4. CASE /\ n.init /\ n.result = NoAnswer
             /\ \E f \in 1..r : OpensAt(w, f) /\ \A k \in 1..r : k = f \/ QuietLine(w[k])
    <3>1. PICK f \in 1..r : OpensAt(w, f) /\ \A k \in 1..r : k = f \/ QuietLine(w[k])
      BY <2>4
    <3>2. \A k \in 1..(r + 1) : k = f \/ QuietLine(w[k])
      BY <3>1, <1>2, <2>2
    <3> QED
      BY <3>1, <3>2, <2>1, <2>4, <1>3 DEF Heard
  <2>5. CASE /\ n.init /\ n.result # NoAnswer
             /\ \E f, t \in 1..r :
                  /\ f < t /\ OpensAt(w, f)
                  /\ w[t].type = "result" /\ w[t].detail = n.result /\ w[t].mine
                  /\ \A k \in 1..r : k \in {f, t} \/ QuietLine(w[k])
                  /\ \A k \in (t + 1)..r : w[k].type = "blank"
    <3>1. PICK f \in 1..r, t \in 1..r :
             /\ f < t /\ OpensAt(w, f)
             /\ w[t].type = "result" /\ w[t].detail = n.result /\ w[t].mine
             /\ \A k \in 1..r : k \in {f, t} \/ QuietLine(w[k])
             /\ \A k \in (t + 1)..r : w[k].type = "blank"
      BY <2>5
    <3>2. \A k \in 1..(r + 1) : k \in {f, t} \/ QuietLine(w[k])
      BY <3>1, <1>2, <2>2
    <3>3. \A k \in (t + 1)..(r + 1) : w[k].type = "blank"
      <4>1. \A k \in (t + 1)..(r + 1) : k \in (t + 1)..r \/ k = r + 1
        OBVIOUS
      <4> QED
        BY <3>1, <4>1, <1>4
    <3> QED
      BY <3>1, <3>2, <3>3, <2>1, <2>5, <1>3 DEF Heard
  <2> QED
    BY <2>1, <2>3, <2>4, <2>5 DEF Heard
<1>5. CASE l.type # "blank"
  <2>1. m = StreamAccepts(n, l)
    BY <1>5
  <2> HIDE DEF l
  <2>2. /\ m \in StreamStates /\ n.result = NoAnswer
        /\ \/ /\ ~n.init /\ l.type = "init" /\ InitConforms(l)
              /\ m.init /\ m.result = NoAnswer
           \/ /\ n.init /\ QuietLine(l) /\ m.init /\ m.result = NoAnswer
           \/ /\ n.init /\ l.mine /\ l.type = "result" /\ l.detail # NoAnswer
              /\ m.init /\ m.result = l.detail
    <3>1. ~LineFails(n, l)
      BY DEF l
    <3> QED
      BY <2>1, <3>1, <1>1, <1>5, AcceptsFacts
  <2>3. CASE ~n.init /\ l.type = "init" /\ InitConforms(l) /\ m.init /\ m.result = NoAnswer
    <3>1. \A k \in 1..r : w[k].type = "blank" /\ QuietLine(w[k])
      BY <2>3 DEF Heard, QuietLine
    <3>2. OpensAt(w, r + 1)
      BY <3>1, <2>3 DEF OpensAt, l
    <3>3. \A k \in 1..(r + 1) : k = r + 1 \/ QuietLine(w[k])
      BY <3>1, <1>2
    <3>4. r + 1 \in 1..(r + 1)
      OBVIOUS
    <3> QED
      BY <3>2, <3>3, <3>4, <2>2, <2>3 DEF Heard
  <2>4. ASSUME n.init
        PROVE  \E f \in 1..r : OpensAt(w, f) /\ \A k \in 1..r : k = f \/ QuietLine(w[k])
    BY <2>2, <2>4 DEF Heard
  <2>5. CASE n.init /\ QuietLine(l) /\ m.init /\ m.result = NoAnswer
    <3>1. PICK f \in 1..r : OpensAt(w, f) /\ \A k \in 1..r : k = f \/ QuietLine(w[k])
      BY <2>4, <2>5
    <3>2. \A k \in 1..(r + 1) : k = f \/ QuietLine(w[k])
      BY <3>1, <1>2, <2>5 DEF l
    <3> QED
      BY <3>1, <3>2, <2>2, <2>5, <1>3 DEF Heard
  <2>6. CASE /\ n.init /\ l.mine /\ l.type = "result" /\ l.detail # NoAnswer
             /\ m.init /\ m.result = l.detail
    <3>1. PICK f \in 1..r : OpensAt(w, f) /\ \A k \in 1..r : k = f \/ QuietLine(w[k])
      BY <2>4, <2>6
    <3>2. \A k \in 1..(r + 1) : k \in {f, r + 1} \/ QuietLine(w[k])
      BY <3>1, <1>2
    <3>3. /\ f < r + 1 /\ r + 1 \in 1..(r + 1) /\ f \in 1..(r + 1)
          /\ \A k \in (r + 1 + 1)..(r + 1) : w[k].type = "blank"
      OBVIOUS
    <3>4. w[r + 1].type = "result" /\ w[r + 1].detail = m.result /\ w[r + 1].mine
      BY <2>6 DEF l
    <3> QED
      BY <3>1, <3>2, <3>3, <3>4, <2>2, <2>6 DEF Heard
  <2> QED
    BY <2>2, <2>3, <2>5, <2>6
<1> QED
  BY <1>4, <1>5

\* What a child writes later does not change what was heard.
LEMMA HeardSame ==
  ASSUME NEW n, NEW w, NEW u, NEW r \in Nat, Heard(n, w, r), \A k \in 1..r : u[k] = w[k]
  PROVE  Heard(n, u, r)
<1>1. \A f \in 1..r : OpensAt(w, f) => OpensAt(u, f)
  <2>1. \A f \in 1..r : \A k \in 1..(f - 1) : k \in 1..r
    OBVIOUS
  <2> QED
    BY <2>1 DEF OpensAt
<1>2. \A t \in 1..r : \A k \in (t + 1)..r : k \in 1..r
  OBVIOUS
<1>3. CASE ~n.init /\ n.result = NoAnswer /\ \A k \in 1..r : w[k].type = "blank"
  BY <1>3 DEF Heard
<1>4. CASE /\ n.init /\ n.result = NoAnswer
           /\ \E f \in 1..r : OpensAt(w, f) /\ \A k \in 1..r : k = f \/ QuietLine(w[k])
  BY <1>1, <1>4 DEF Heard
<1>5. CASE /\ n.init /\ n.result # NoAnswer
           /\ \E f, t \in 1..r :
                /\ f < t /\ OpensAt(w, f)
                /\ w[t].type = "result" /\ w[t].detail = n.result /\ w[t].mine
                /\ \A k \in 1..r : k \in {f, t} \/ QuietLine(w[k])
                /\ \A k \in (t + 1)..r : w[k].type = "blank"
  <2>1. PICK f \in 1..r, t \in 1..r :
           /\ f < t /\ OpensAt(w, f)
           /\ w[t].type = "result" /\ w[t].detail = n.result /\ w[t].mine
           /\ \A k \in 1..r : k \in {f, t} \/ QuietLine(w[k])
           /\ \A k \in (t + 1)..r : w[k].type = "blank"
    BY <1>5
  <2>2. /\ OpensAt(u, f)
        /\ u[t].type = "result" /\ u[t].detail = n.result /\ u[t].mine
        /\ \A k \in 1..r : k \in {f, t} \/ QuietLine(u[k])
        /\ \A k \in (t + 1)..r : u[k].type = "blank"
    BY <2>1, <1>1, <1>2
  <2> QED
    BY <2>1, <2>2, <1>5 DEF Heard
<1> QED
  BY <1>3, <1>4, <1>5 DEF Heard

\* A text is taken when everything was read, from a child nobody signalled.
LEMMA HeardGenuine ==
  ASSUME NEW n \in StreamStates, NEW v \in VendorRecords, Heard(n, v.wrote, v.read),
         v.read = Len(v.wrote), StreamFinishes(n), v.exit = "zero", ~v.termed, SupportedOnly(v)
  PROVE  GenuineText(v)
<1> DEFINE w == v.wrote
           r == v.read
           said == {k \in DOMAIN w : w[k].type # "blank"}
<1>1. w \in Seq(PortLines) /\ r \in Nat /\ r = Len(w) /\ DOMAIN w = 1..r
  BY LenProperties DEF VendorRecords
<1>2. n.init /\ n.result = "success" /\ n.result # NoAnswer
  BY PortConstants DEF StreamFinishes
<1>3. PICK f \in 1..r, t \in 1..r :
         /\ f < t /\ OpensAt(w, f)
         /\ w[t].type = "result" /\ w[t].detail = n.result /\ w[t].mine
         /\ \A k \in 1..r : k \in {f, t} \/ QuietLine(w[k])
         /\ \A k \in (t + 1)..r : w[k].type = "blank"
  BY <1>2 DEF Heard
<1>4. w[f].type = "init" /\ InitConforms(w[f]) /\ \A k \in 1..(f - 1) : w[k].type = "blank"
  BY <1>3 DEF OpensAt
<1>5. f \in said /\ t \in said
  BY <1>1, <1>3, <1>4
<1>6. \A k \in said : f <= k /\ k <= t
  <2>1. \A k \in 1..r : k < f => k \in 1..(f - 1)
    OBVIOUS
  <2>2. \A k \in 1..r : k > t => k \in (t + 1)..r
    OBVIOUS
  <2>3. \A k \in said : k \in 1..r /\ ~(k < f) /\ ~(k > t)
    BY <2>1, <2>2, <1>1, <1>3, <1>4
  <2> HIDE DEF said
  <2> QED
    BY <2>3
<1>7. v.version = "supported"
  BY <1>1, <1>4 DEF SupportedOnly, InitConforms
<1>8. \A k \in said \ {f} : w[k].mine
  BY <1>1, <1>3 DEF QuietLine
<1>9. \A k \in said \ {f, t} :
         \/ w[k].type = "notice"
         \/ w[k].type \in {"stream_event", "assistant"} /\ w[k].detail # "tool" /\ ~w[k].parent
  BY <1>1, <1>3 DEF QuietLine
<1>10. /\ f < t /\ w[t].type = "result" /\ w[t].detail = "success"
  BY <1>2, <1>3
<1> QED
  BY <1>4, <1>5, <1>6, <1>7, <1>8, <1>9, <1>10 DEF GenuineText

LEMMA ChildWritesKeeps ==
  ASSUME PortInv, NEW c \in Completions, ChildWrites(c)
  PROVE  PortInv'
<1> DEFINE v == vendor[c]
<1>1. PICK l \in PortLines :
         /\ l.type = "init" /\ l.conforms => v.version = "supported"
         /\ vendor' = [vendor EXCEPT ![c].wrote = Append(@, l)]
  BY DEF ChildWrites
<1> DEFINE u == [v EXCEPT !.wrote = Append(v.wrote, l)]
<1>2. /\ completion[c] \in CompletionRecords /\ v \in VendorRecords
      /\ CallOK(port, completion[c], v) /\ completion[c].pc = "running" /\ Alive(v)
  BY PortFacts DEF ChildWrites
<1>3. /\ v.wrote \in Seq(PortLines) /\ v.read \in Nat /\ v.read <= Len(v.wrote)
      /\ DOMAIN v.wrote = 1..Len(v.wrote) /\ Len(v.wrote) \in Nat
  BY <1>2, LenProperties DEF VendorRecords, CallOK
<1>4. /\ Append(v.wrote, l) \in Seq(PortLines) /\ Len(Append(v.wrote, l)) = Len(v.wrote) + 1
      /\ \A k \in 1..Len(v.wrote) : Append(v.wrote, l)[k] = v.wrote[k]
      /\ Append(v.wrote, l)[Len(v.wrote) + 1] = l
      /\ DOMAIN Append(v.wrote, l) = 1..(Len(v.wrote) + 1)
  BY <1>3
<1>5. /\ u \in VendorRecords /\ u.wrote = Append(v.wrote, l) /\ u.read = v.read
      /\ u.version = v.version /\ u.termed = v.termed
  BY <1>2, <1>4 DEF VendorRecords
<1>6. vendor' = [vendor EXCEPT ![c] = u]
  BY <1>1 DEF PortInv
<1> HIDE DEF u
<1>7. SupportedOnly(u)
  <2>1. SupportedOnly(v)
    BY <1>2 DEF CallOK
  <2>2. \A k \in 1..(Len(v.wrote) + 1) : k \in 1..Len(v.wrote) \/ k = Len(v.wrote) + 1
    BY <1>3
  <2> QED
    BY <2>1, <2>2, <1>1, <1>3, <1>4, <1>5 DEF SupportedOnly
<1>8. Heard(completion[c].stream, u.wrote, u.read)
  <2>1. Heard(completion[c].stream, v.wrote, v.read)
    BY <1>2 DEF CallOK
  <2>2. \A k \in 1..v.read : u.wrote[k] = v.wrote[k]
    BY <1>3, <1>4, <1>5
  <2> QED
    BY <2>1, <2>2, <1>3, <1>5, HeardSame
<1>9. CallOK(port, completion[c], u)
  BY <1>2, <1>3, <1>4, <1>5, <1>7, <1>8 DEF CallOK
<1> QED
  BY <1>2, <1>5, <1>6, <1>9, ChildMovesAlone DEF ChildWrites

LEMMA ReadsKeeps ==
  ASSUME PortInv, NEW c \in Completions, PortReadsLine(c)
  PROVE  PortInv'
<1> DEFINE v == vendor[c]
           n == completion[c].stream
           l == v.wrote[v.read + 1]
<1>1. /\ completion[c] \in CompletionRecords /\ v \in VendorRecords
      /\ CallOK(port, completion[c], v) /\ completion[c].pc = "running"
      /\ UNCHANGED <<port, setting, aborted>>
  BY PortFacts DEF PortReadsLine
<1>2. CASE LineFails(n, l)
  <2>1. Fails(c)
    BY <1>2 DEF PortReadsLine
  <2> QED
    BY <2>1, <1>1, FailsKeeps
<1>3. CASE ~LineFails(n, l)
  <2> DEFINE m == IF l.type = "blank" THEN n ELSE StreamAccepts(n, l)
             r == [completion[c] EXCEPT !.stream = m]
             u == [v EXCEPT !.read = v.read + 1]
  <2>1. /\ completion' = [completion EXCEPT ![c] = r]
        /\ vendor' = [vendor EXCEPT ![c].read = @ + 1]
    BY <1>3 DEF PortReadsLine, Update
  <2>2. vendor' = [vendor EXCEPT ![c] = u]
    BY <2>1 DEF PortInv
  <2>3. /\ n \in StreamStates /\ v.wrote \in Seq(PortLines) /\ v.read \in Nat
        /\ v.read < Len(v.wrote) /\ Len(v.wrote) \in Nat /\ Heard(n, v.wrote, v.read)
    <3>1. n \in StreamStates /\ v.wrote \in Seq(PortLines) /\ v.read \in Nat
      BY <1>1 DEF CompletionRecords, VendorRecords
    <3> QED
      BY <3>1, <1>1, LenProperties DEF PortReadsLine, Unread, CallOK
  <2>4. m \in StreamStates /\ Heard(m, v.wrote, v.read + 1)
    <3> HIDE DEF n, v
    <3> QED
      BY <2>3, <1>3, HeardOneMore
  <2> HIDE DEF m
  <2>5. /\ r \in CompletionRecords /\ r.stream = m /\ r.pc = "running"
        /\ r.answer = completion[c].answer
    BY <1>1, <2>4 DEF CompletionRecords
  <2>6. /\ u \in VendorRecords /\ u.wrote = v.wrote /\ u.read = v.read + 1
        /\ u.termed = v.termed /\ u.version = v.version
    BY <1>1, <2>3 DEF VendorRecords
  <2> HIDE DEF r, u
  <2>7. CallOK(port, r, u)
    BY <1>1, <2>3, <2>4, <2>5, <2>6 DEF CallOK, SupportedOnly
  <2> QED
    BY <1>1, <2>1, <2>2, <2>5, <2>6, <2>7, OneCallMoves
<1> QED
  BY <1>2, <1>3

LEMMA ExitKeeps ==
  ASSUME PortInv, NEW c \in Completions, VendorExits(c) \/ GraceOver(c)
  PROVE  PortInv'
<1> DEFINE v == vendor[c]
<1>1. /\ v \in VendorRecords /\ CallOK(port, completion[c], v) /\ Alive(v)
      /\ UNCHANGED <<port, setting, aborted, completion>>
  BY PortFacts DEF VendorExits, GraceOver
<1>2. PICK code \in {"zero", "other"} :
         vendor' = [vendor EXCEPT ![c].life = "exited", ![c].exit = code, ![c].timer = FALSE]
  BY DEF VendorExits, GraceOver
<1> DEFINE u == [v EXCEPT !.life = "exited", !.exit = code, !.timer = FALSE]
<1>3. vendor' = [vendor EXCEPT ![c] = u]
  BY <1>2 DEF PortInv
<1>4. /\ u \in VendorRecords /\ ~Alive(u) /\ u.wrote = v.wrote /\ u.read = v.read
      /\ u.termed = v.termed /\ u.version = v.version
  BY <1>1 DEF VendorRecords, Alive
<1> HIDE DEF u
<1>5. v # NewVendor
  BY <1>1, NewFacts
<1>6. CallOK(port, completion[c], u)
  BY <1>1, <1>4, <1>5 DEF CallOK, SupportedOnly
<1> QED
  BY <1>1, <1>3, <1>4, <1>6, ChildMovesAlone

LEMMA ClosesKeeps ==
  ASSUME PortInv, NEW c \in Completions, ChildCloses(c)
  PROVE  PortInv'
<1>1. /\ completion[c] \in CompletionRecords /\ vendor[c] \in VendorRecords
      /\ CallOK(port, completion[c], vendor[c]) /\ completion[c].pc = "running"
      /\ ~Alive(vendor[c]) /\ ~Unread(c) /\ UNCHANGED <<port, setting, aborted>>
  BY PortFacts DEF ChildCloses, Alive
<1>2. CASE CloseGivesText(c)
  <2>1. vendor[c].read = Len(vendor[c].wrote)
    <3>1. /\ vendor[c].wrote \in Seq(PortLines) /\ vendor[c].read \in Nat
          /\ vendor[c].read <= Len(vendor[c].wrote)
      BY <1>1 DEF VendorRecords, CallOK
    <3> QED
      BY <3>1, <1>1, LenProperties DEF Unread
  <2>2. completion[c].stream \in StreamStates
    BY <1>1 DEF CompletionRecords
  <2>3. GenuineText(vendor[c])
    BY <1>1, <1>2, <2>1, <2>2, HeardGenuine DEF CallOK, CloseGivesText
  <2> QED
    BY <1>1, <1>2, <2>3, AnswersKeeps DEF ChildCloses
<1>3. CASE ~CloseGivesText(c)
  BY <1>1, <1>3, FailsKeeps DEF ChildCloses
<1> QED
  BY <1>2, <1>3

LEMMA ReturnsKeeps ==
  ASSUME PortInv, NEW c \in Completions, PortReturns(c)
  PROVE  PortInv'
<1> DEFINE r == [completion[c] EXCEPT !.pc = "returned", !.scratch = FALSE]
<1>1. /\ completion[c] \in CompletionRecords /\ CallOK(port, completion[c], vendor[c])
      /\ completion[c].pc = "cleanup" /\ Update(c, r)
      /\ UNCHANGED <<port, setting, aborted, vendor>>
  BY PortFacts DEF PortReturns
<1>2. /\ r \in CompletionRecords /\ r.pc = "returned" /\ ~r.scratch
      /\ r.answer = completion[c].answer
  BY <1>1 DEF CompletionRecords
<1> HIDE DEF r
<1>3. CallOK(port, r, vendor[c])
  BY <1>1, <1>2 DEF CallOK
<1> QED
  BY <1>1, <1>2, <1>3, CallMovesAlone

LEMMA StartsAdapterKeeps ==
  ASSUME PortInv, NEW c \in Completions, StartsAdapter(c)
  PROVE  PortInv'
<1> DEFINE r == [completion[c] EXCEPT !.pc = "adapter"]
<1>1. /\ completion[c] \in CompletionRecords /\ CallOK(port, completion[c], vendor[c])
      /\ completion[c].pc = "prepared" /\ Update(c, r)
      /\ UNCHANGED <<port, setting, aborted, vendor>>
  BY PortFacts DEF StartsAdapter
<1>2. /\ r \in CompletionRecords /\ r.pc = "adapter" /\ r.stream = completion[c].stream
      /\ r.answer = completion[c].answer
  BY <1>1 DEF CompletionRecords
<1> HIDE DEF r
<1>3. CallOK(port, r, vendor[c])
  BY <1>1, <1>2 DEF CallOK
<1> QED
  BY <1>1, <1>2, <1>3, CallMovesAlone

LEMMA AdapterEndsKeeps ==
  ASSUME PortInv, NEW c \in Completions, AdapterEnds(c)
  PROVE  PortInv'
<1>1. /\ completion[c].pc = "adapter" /\ port = "qoder" /\ ~Alive(vendor[c])
      /\ UNCHANGED <<port, setting, aborted>>
  BY PortFacts, NewFacts DEF AdapterEnds, CallOK
<1> QED
  BY <1>1, AnswersKeeps, FailsKeeps DEF AdapterEnds

LEMMA PortStepKeeps == PortInv /\ [PortNext]_modelPortVars => PortInv'
<1> SUFFICES ASSUME PortInv, [PortNext]_modelPortVars
             PROVE  PortInv'
  OBVIOUS
<1>1. CASE UNCHANGED modelPortVars
  BY <1>1 DEF modelPortVars, PortInv, InOrder
<1>2. CASE ResolveModelPort
  BY <1>2, ResolveKeeps
<1>3. CASE BinaryReplaced
  BY <1>3, ReplacedKeeps
<1>4. CASE SignalAborts
  BY <1>4, AbortKeeps
<1>5. ASSUME NEW c \in Completions, CompletionStep(c)
      PROVE  PortInv'
  BY <1>5, SpawnsKeeps, SomeFailureKeeps, ReadsKeeps, ClosesKeeps, ReturnsKeeps,
     StartsAdapterKeeps, AdapterEndsKeeps DEF CompletionStep
<1>6. ASSUME NEW c \in Completions, CompleteRefuses(c) \/ MakesScratch(c) \/ Replays(c)
      PROVE  PortInv'
  BY <1>6, BeforeChildKeeps
<1>7. ASSUME NEW c \in Completions,
             ChildWrites(c) \/ PipeFails(c) \/ VendorExits(c) \/ GraceOver(c)
      PROVE  PortInv'
  BY <1>7, ChildWritesKeeps, SomeFailureKeeps, ExitKeeps
<1> QED
  BY <1>1, <1>2, <1>3, <1>4, <1>5, <1>6, <1>7 DEF PortNext

LEMMA PortInvSound == PortInv => PortsSound
<1> SUFFICES ASSUME PortInv PROVE PortsSound
  OBVIOUS
<1>1. PortTypeOK
  <2>1. \A c \in Completions : vendor[c].read \in 0..Len(vendor[c].wrote)
    <3> SUFFICES ASSUME NEW c \in Completions
                 PROVE  vendor[c].read \in 0..Len(vendor[c].wrote)
      OBVIOUS
    <3>1. /\ vendor[c].wrote \in Seq(PortLines) /\ vendor[c].read \in Nat
          /\ vendor[c].read <= Len(vendor[c].wrote)
      BY PortFacts DEF VendorRecords, CallOK
    <3> QED
      BY <3>1, LenProperties
  <2> QED
    BY <2>1, PortFacts DEF PortTypeOK, CompletionRecords, PortInv, Ports
<1>2. PortTextGenuine
  <2> SUFFICES ASSUME NEW c \in Completions, port = "claude-local",
                      completion[c].answer = "text"
               PROVE  GenuineText(vendor[c])
    BY DEF PortTextGenuine
  <2> QED
    BY PortFacts, PortConstants DEF CallOK, CompletionRecords
<1>3. OneVendorAtATime
  <2>1. \A c \in Completions : completion[c].pc = "returned" =>
          /\ ~completion[c].scratch
          /\ Alive(vendor[c]) => vendor[c].termed /\ vendor[c].timer
    BY PortFacts DEF CallOK
  <2> QED
    BY <2>1 DEF OneVendorAtATime, PortInv, InOrder
<1> QED
  BY <1>1, <1>2, <1>3 DEF PortsSound

\* In the model ports of `turn run` (apps/cli/turn/claude-local-model-port.ts and its
\* siblings), for any calls, settings, lines of a child and script, whoever settles a call
\* first: a text of claude-local is the one successful result of a child that announced the
\* login, an empty tool set and a supported version, said nothing but text and notices and
\* exited with zero unsignalled; no call starts while an earlier child lives; and what a
\* returned call leaves is neither a scratch directory nor a child without a kill timer.
THEOREM ModelPortsSound == PortSpec => []PortsSound
<1>1. PortInit => PortInv
  BY PortBegins
<1>2. PortInv /\ [PortNext]_modelPortVars => PortInv'
  BY PortStepKeeps
<1>3. PortInv => PortsSound
  BY PortInvSound
<1> QED
  BY <1>1, <1>2, <1>3, PTL DEF PortSpec
=============================================================================
