---------------------------- MODULE Organisation ----------------------------
(***************************************************************************)
(* The organisation of a workspace and the commands that read it.          *)
(*                                                                         *)
(* An operator edits the directory tree positions/ (a directory is a       *)
(* position, its parent directory the superior).  `org apply` loads the    *)
(* current model, scans the tree, reads every declaration, validates, and  *)
(* then writes three files one after the other: org.json, the audit log    *)
(* and permissions.json (apps/cli/org).  Nothing locks the workspace, so   *)
(* two applies interleave with each other, with the operator and with the  *)
(* commands that read the files: `turn run` (org.json, the package, then   *)
(* permissions.json) and `task delegate` (org.json, then permissions.json, *)
(* then one child run).  An apply may fail or die between two writes: then *)
(* org.json, the log and permissions.json need not be of one apply.        *)
(*                                                                         *)
(* Paths are sequences of segments; a digest, a package or a budget cap is *)
(* a small value.  The digest of a document is the document itself.        *)
(***************************************************************************)
EXTENDS Naturals, FiniteSets, Sequences, SequencesExt

CONSTANTS Positions,    \* position ids
          Owner,        \* the owner position of the bootstrap document
          Root,         \* reportTo = null
          Digests,      \* package contents
          Budgets,      \* budget.json declarations the operator writes
          Bootstrap,    \* roles of organization.v1alpha1.json
          Appliers,     \* `org apply` processes
          Tasks, Children,   \* task ids and child turn ids of delegations
          MaxEdits, MaxAttempt, BudgetLimitMax,
          None          \* absent file, nothing read yet

\* A memory scope is a path, the empty one when the role declares none.
PathSegments == UNION {Range(Bootstrap[p].memoryScope) : p \in DOMAIN Bootstrap}

ASSUME OrgAssumption ==
  /\ IsFiniteSet(Positions)
  /\ DOMAIN Bootstrap \subseteq Positions
  /\ \A p \in DOMAIN Bootstrap : Bootstrap[p].memoryScope \in Seq(PathSegments)

ReadTools == {"Read", "Grep", "Glob"}
Scopes == {"perTask", "perDay"}

VARIABLES tree,        \* position -> node, for the directories that exist
          orgFile,     \* .digital-employee/org.json
          auditLog,    \* .digital-employee/org-audit.jsonl
          permFile,    \* .digital-employee/permissions.json
          published,   \* every content org.json has had (history variable)
          applies,     \* the org apply processes
          turn,        \* one `turn run` reading the workspace
          deleg,       \* one `task delegate` process
          history,     \* delegations of the parent turn, kept by the Workbench
          edits,       \* operator edits so far (bounded by MaxEdits)
          torn         \* the last writers of the files overlapped or broke off
                       \* between their writes (history variable)

orgVars == <<tree, orgFile, auditLog, permFile, published, applies, turn,
             deleg, history, edits, torn>>

-----------------------------------------------------------------------------
(* Pure parts: validation, derivation, evaluation. *)

(* Both scopes present, each with caps, every cap in 1..BUDGET_LIMIT_MAX. *)
Allocated(b) ==
  /\ b # None
  /\ DOMAIN b = Scopes
  /\ \A s \in Scopes : b[s] # {} /\ b[s] \subseteq 1..BudgetLimitMax

Superiors(m, p) ==
  LET up[n \in 0..Cardinality(Positions)] ==
        IF n = 0 THEN {p}
        ELSE up[n-1] \cup ({m[q].reportTo : q \in up[n-1] \cap DOMAIN m} \ {Root})
  IN up[Cardinality(Positions)]

(* Of the fields of a role the shape checks leave only the budget to fail. *)
ValidRole(role) == Allocated(role.budget)

(* What JSON Schema cannot say: the owner is a root role, reporting lines  *)
(* resolve and no chain of superiors comes back to where it started.       *)
ReportingLinesSound(m) ==
  /\ Owner \in DOMAIN m
  /\ m[Owner].reportTo = Root
  /\ \A p \in DOMAIN m : m[p].reportTo \in DOMAIN m \cup {Root}
  /\ \A p \in DOMAIN m : m[p].reportTo # Root => p \notin Superiors(m, m[p].reportTo)

ValidOrganization(m) ==
  (\A p \in DOMAIN m : ValidRole(m[p])) /\ ReportingLinesSound(m)

(* Ancestors first, the position itself last. *)
DirectorySegments(m, p) ==
  LET up[n \in 0..Cardinality(Positions)] ==
        IF n = 0 THEN <<p>>
        ELSE LET s == up[n-1] IN
             IF Head(s) \in DOMAIN m /\ m[Head(s)].reportTo # Root
             THEN <<m[Head(s)].reportTo>> \o s ELSE s
  IN up[Cardinality(Positions)]

ContextScope(m, p) ==
  IF p = Owner THEN {<<>>}
  ELSE {<<"positions">> \o DirectorySegments(m, p), <<"context">>}
       \cup (IF m[p].memoryScope = <<>> THEN {} ELSE {m[p].memoryScope})

AllowedTools(role) ==
  ((IF role.toolAllow = {} THEN ReadTools ELSE role.toolAllow) \cap ReadTools)
    \ role.toolDeny

Delegation(m, p) ==
  IF p = Owner
  THEN [allow |-> TRUE, targets |-> {q \in DOMAIN m : m[q].reportTo = p},
        escalateTo |-> Root]
  ELSE [allow |-> FALSE, targets |-> {}, escalateTo |-> m[p].reportTo]

DerivePermissions(m) ==
  [p \in DOMAIN m |->
     [read |-> ContextScope(m, p), allow |-> AllowedTools(m[p]),
      deny |-> m[p].toolDeny, delegation |-> Delegation(m, p)]]

ScopeContains(container, path) == IsPrefix(container, path)

(* evaluateContextAccess; a position outside the artifact is denied. *)
ContextAllowed(perm, p, path) ==
  p \in DOMAIN perm /\ \E s \in perm[p].read : ScopeContains(s, path)

IntersectContextScopes(left, right) ==
  LET both == {b \in right : \E a \in left : ScopeContains(a, b)}
              \cup {a \in left : \E b \in right : ScopeContains(b, a)}
  IN {s \in both : ~\E o \in both : o # s /\ ScopeContains(o, s)}

\* The variant starts the worker with the tools it has of its own.
EffectiveScopeOfWorker(parent, worker) ==
  [read  |-> IntersectContextScopes(parent.read, worker.read),
   allow |-> worker.allow \ worker.deny]

EffectiveScope(parent, worker) ==
  [read  |-> IntersectContextScopes(parent.read, worker.read),
   allow |-> (parent.allow \cap worker.allow) \ (parent.deny \cup worker.deny)]

-----------------------------------------------------------------------------
(* Delegation admission. *)

WellFormed(e) ==
  /\ e.attempt >= 1
  /\ (e.attempt = 1) <=> (e.retryOf = None)
  /\ e.retryOf # e.task

(* One contiguous linear retry chain, attempts 1, 2, ... in order. *)
ValidHistory(h) ==
  /\ \A i, j \in DOMAIN h : i # j => h[i].task # h[j].task /\ h[i].child # h[j].child
  /\ \A i \in DOMAIN h :
        /\ h[i].attempt = i
        /\ h[i].retryOf = IF i = 1 THEN None ELSE h[i-1].task

Admissible(e, h) ==
  /\ ValidHistory(h)
  /\ \A i \in DOMAIN h : h[i].task # e.task /\ h[i].child # e.child
  /\ IF h = <<>>
     THEN e.attempt = 1 /\ e.retryOf = None
     ELSE /\ e.retryOf # None
          /\ e.retryOf = Last(h).task
          /\ e.attempt = Last(h).attempt + 1

RouteAllowed(e, org, perm) ==
  /\ e.org = org /\ e.perm = perm
  /\ e.worker # Owner
  /\ e.worker \in DOMAIN org /\ org[e.worker].reportTo = Owner
  /\ {Owner, e.worker} \subseteq DOMAIN perm
  /\ perm[Owner].delegation.allow
  /\ e.worker \in perm[Owner].delegation.targets
  /\ ~perm[e.worker].delegation.allow
  /\ EffectiveScope(perm[Owner], perm[e.worker]).read # {}

-----------------------------------------------------------------------------
Idle == [pc |-> "idle", current |-> None, scan |-> None, next |-> None]
\* calm (history): the files were settled when the turn read org.json, and no
\* apply has replaced it since.
NoTurn == [pc |-> "idle", pos |-> None, org |-> None, perm |-> None, calm |-> FALSE]
NoDeleg == [pc |-> "idle", env |-> None, org |-> None, scope |-> None, policy |-> None,
            terminal |-> FALSE]

OrgInit ==
  /\ tree = [p \in DOMAIN Bootstrap |->
               [reportTo |-> Bootstrap[p].reportTo, digest |-> Bootstrap[p].digest,
                budget |-> Bootstrap[p].budget]]
  /\ orgFile = None /\ permFile = None /\ auditLog = <<>> /\ published = {}
  /\ applies = [a \in Appliers |-> Idle]
  /\ turn = NoTurn /\ deleg = NoDeleg /\ history = <<>> /\ edits = 0
  /\ torn = FALSE

(* The operator: add, move, rebudget, repackage or delete a directory. *)
Descendants(p) == {q \in DOMAIN tree : p \in Superiors(tree, q)}

EditTree ==
  /\ edits < MaxEdits
  /\ edits' = edits + 1
  /\ \/ \E p \in Positions \ DOMAIN tree, up \in DOMAIN tree \cup {Root},
          d \in Digests, b \in Budgets :
          tree' = [q \in DOMAIN tree \cup {p} |->
                     IF q = p THEN [reportTo |-> up, digest |-> d, budget |-> b]
                     ELSE tree[q]]
     \/ \E p \in DOMAIN tree : \E up \in (DOMAIN tree \ Descendants(p)) \cup {Root} :
          tree' = [tree EXCEPT ![p].reportTo = up]
     \/ \E p \in DOMAIN tree, d \in Digests : tree' = [tree EXCEPT ![p].digest = d]
     \/ \E p \in DOMAIN tree, b \in Budgets : tree' = [tree EXCEPT ![p].budget = b]
     \/ \E p \in DOMAIN tree :
          tree' = [q \in DOMAIN tree \ Descendants(p) |-> tree[q]]
  /\ UNCHANGED <<orgFile, auditLog, permFile, published, applies, turn, deleg, history, torn>>

(* applyOrganization: loadOrgModel, org.json or the bootstrap document. *)
ApplyLoad(a) ==
  /\ applies[a].pc = "idle"
  /\ applies' = [applies EXCEPT ![a] =
       [Idle EXCEPT !.pc = "scan",
                    !.current = IF orgFile = None THEN Bootstrap ELSE orgFile]]
  /\ UNCHANGED <<tree, orgFile, auditLog, permFile, published, turn, deleg, history, edits, torn>>

(* scanPositionsTree: ids and reporting lines, no contents yet. *)
ApplyScan(a) ==
  /\ applies[a].pc = "scan"
  /\ applies' = [applies EXCEPT ![a].pc = "declare",
                   ![a].scan = [p \in DOMAIN tree |-> [reportTo |-> tree[p].reportTo]]]
  /\ UNCHANGED <<tree, orgFile, auditLog, permFile, published, turn, deleg, history, edits, torn>>

(* A new hire sees its own slice and its work territory, no tools granted; *)
(* an existing role keeps its identity and takes reporting line, package   *)
(* and budget from the tree.                                               *)
AppliedRole(cur, p, up) ==
  [reportTo |-> up, digest |-> tree[p].digest, budget |-> tree[p].budget,
   memoryScope |-> IF p \in DOMAIN cur THEN cur[p].memoryScope ELSE <<"work", p>>,
   toolAllow |-> IF p \in DOMAIN cur THEN cur[p].toolAllow ELSE {},
   toolDeny |-> IF p \in DOMAIN cur THEN cur[p].toolDeny ELSE {}]

\* The variant trusts the scan and does not validate what it is to write.
ApplyDeclareUnvalidated(a) ==
  LET s == applies[a].scan
      next == [p \in DOMAIN s \cap DOMAIN tree |->
                 AppliedRole(applies[a].current, p, s[p].reportTo)]
  IN /\ applies[a].pc = "declare"
     /\ applies' = [applies EXCEPT ![a] = [@ EXCEPT !.pc = "write", !.next = next, !.scan = None]]
     /\ UNCHANGED <<tree, orgFile, auditLog, permFile, published, turn, deleg, history, edits, torn>>

(* readPositionDeclaration at every scanned directory, then the full        *)
(* validation of the document to be written: all before the first write.   *)
ApplyDeclare(a) ==
  LET s == applies[a].scan
      cur == applies[a].current
      gone == \E p \in DOMAIN s :
                 p \notin DOMAIN tree \/ DirectorySegments(tree, p) # DirectorySegments(s, p)
      next == [p \in DOMAIN s |-> AppliedRole(cur, p, s[p].reportTo)]
  IN /\ applies[a].pc = "declare"
     /\ applies' = [applies EXCEPT ![a] =
          IF gone \/ ~ValidOrganization(next)
          THEN [Idle EXCEPT !.pc = "failed"]
          ELSE [@ EXCEPT !.pc = "write", !.next = next, !.scan = None]]
     /\ UNCHANGED <<tree, orgFile, auditLog, permFile, published, turn, deleg, history, edits, torn>>

(* diffOrganization, as the audit entry records it. *)
Changes(cur, next) ==
  [hired     |-> DOMAIN next \ DOMAIN cur,
   dismissed |-> DOMAIN cur \ DOMAIN next,
   moved     |-> {p \in DOMAIN cur \cap DOMAIN next : cur[p].reportTo # next[p].reportTo},
   budget    |-> {p \in DOMAIN cur \cap DOMAIN next : cur[p].budget # next[p].budget}]

\* An apply between its first write and its last.
Writing(a) == applies[a].pc \in {"audit", "permissions"}

Settled == ~torn /\ \A a \in Appliers : ~Writing(a)

ApplyWriteModel(a) ==
  /\ applies[a].pc = "write"
  /\ orgFile' = applies[a].next
  /\ published' = published \cup {applies[a].next}
  /\ applies' = [applies EXCEPT ![a].pc = "audit"]
  /\ torn' = \E b \in Appliers : Writing(b)
  /\ turn' = [turn EXCEPT !.calm = turn.calm /\ turn.pc = "running"]
  /\ UNCHANGED <<tree, auditLog, permFile, deleg, history, edits>>

ApplyAudit(a) ==
  /\ applies[a].pc = "audit"
  /\ auditLog' = Append(auditLog, Changes(applies[a].current, applies[a].next))
  /\ applies' = [applies EXCEPT ![a].pc = "permissions"]
  /\ UNCHANGED <<tree, orgFile, permFile, published, turn, deleg, history, edits, torn>>

ApplyWritePermissions(a) ==
  /\ applies[a].pc = "permissions"
  /\ permFile' = DerivePermissions(applies[a].next)
  /\ applies' = [applies EXCEPT ![a] = [Idle EXCEPT !.pc = "done"]]
  /\ UNCHANGED <<tree, orgFile, auditLog, published, turn, deleg, history, edits, torn>>

(* A write fails (workspace_org_write_failed) or the process dies.  Of an  *)
(* apply that breaks off before its entry is appended the record is kept,  *)
(* for what the log does not tell.                                         *)
ApplyAborts(a) ==
  /\ applies[a].pc = "write" \/ Writing(a)
  /\ applies' = [applies EXCEPT ![a] =
       IF applies[a].pc = "audit" THEN [@ EXCEPT !.pc = "unlogged"] ELSE [Idle EXCEPT !.pc = "failed"]]
  /\ torn' = (torn \/ Writing(a))
  /\ UNCHANGED <<tree, orgFile, auditLog, permFile, published, turn, deleg, history, edits>>

-----------------------------------------------------------------------------
(* `turn run` up to the engine: three reads of a workspace that may change *)
(* between them.                                                           *)

TurnLoadsModel(p) ==
  LET m == IF orgFile = None THEN Bootstrap ELSE orgFile IN
  /\ turn.pc = "idle"
  /\ turn' = IF p \in DOMAIN m
             THEN [NoTurn EXCEPT !.pc = "package", !.pos = p, !.org = m,
                                 !.calm = Settled /\ orgFile # None]
             ELSE [NoTurn EXCEPT !.pc = "failed"]
  /\ UNCHANGED <<tree, orgFile, auditLog, permFile, published, applies, deleg, history, edits, torn>>

(* An absent package directory is the compatibility fallback; a present    *)
(* one must have the digest of the model just read.                        *)
TurnLoadsPackage ==
  LET p == turn.pos
      missing == p \notin DOMAIN tree
                 \/ DirectorySegments(tree, p) # DirectorySegments(turn.org, p)
  IN /\ turn.pc = "package"
     /\ turn' = IF missing \/ tree[p].digest = turn.org[p].digest
                THEN [turn EXCEPT !.pc = "permissions"]
                ELSE [turn EXCEPT !.pc = "failed"]
     /\ UNCHANGED <<tree, orgFile, auditLog, permFile, published, applies, deleg, history, edits, torn>>

(* loadPermissionsArtifact, then the engine's position check. *)
TurnLoadsPermissions ==
  /\ turn.pc = "permissions"
  /\ turn' = IF permFile # None /\ turn.pos \in DOMAIN permFile
             THEN [turn EXCEPT !.pc = "running", !.perm = permFile]
             ELSE [turn EXCEPT !.pc = "failed"]
  /\ UNCHANGED <<tree, orgFile, auditLog, permFile, published, applies, deleg, history, edits, torn>>

-----------------------------------------------------------------------------
(* `task delegate`. *)

(* The Workbench seals an envelope over the applied files as they are now; *)
(* it runs the delegations of one parent turn one after the other.         *)
SealEnvelope ==
  /\ deleg.pc \in {"idle", "exit"} /\ orgFile # None /\ permFile # None
  /\ \E t \in Tasks, c \in Children, n \in 1..MaxAttempt, r \in Tasks \cup {None},
       w \in Positions :
       deleg' = [NoDeleg EXCEPT !.pc = "parse",
                   !.env = [task |-> t, child |-> c, attempt |-> n, retryOf |-> r,
                            worker |-> w, org |-> orgFile, perm |-> permFile]]
  /\ UNCHANGED <<tree, orgFile, auditLog, permFile, published, applies, turn, history, edits, torn>>

DelegateExit == [NoDeleg EXCEPT !.pc = "exit"]

(* parseDelegationEnvelope, then the first file of loadAppliedState. *)
DelegateReadsModel ==
  /\ deleg.pc = "parse"
  /\ deleg' = IF WellFormed(deleg.env) /\ orgFile # None
              THEN [deleg EXCEPT !.pc = "permissions", !.org = orgFile]
              ELSE DelegateExit
  /\ UNCHANGED <<tree, orgFile, auditLog, permFile, published, applies, turn, history, edits, torn>>

(* loadAppliedState: the permissions must be what the organisation derives. *)
AppliedStateSound(org, perm) ==
  ValidOrganization(org) /\ perm = DerivePermissions(org)

DelegateAdmits ==
  LET e == deleg.env
      ok == /\ permFile # None
            /\ AppliedStateSound(deleg.org, permFile)
            /\ Admissible(e, history)
            /\ RouteAllowed(e, deleg.org, permFile)
  IN /\ deleg.pc = "permissions"
     /\ deleg' = IF ok
                 THEN [deleg EXCEPT !.pc = "child",
                         !.scope = EffectiveScope(permFile[Owner], permFile[e.worker])]
                 ELSE DelegateExit
     /\ history' = IF ok THEN Append(history, [task |-> e.task, child |-> e.child,
                                attempt |-> e.attempt, retryOf |-> e.retryOf])
                   ELSE history
     /\ UNCHANGED <<tree, orgFile, auditLog, permFile, published, applies, turn, edits, torn>>

(* What the Host of a child may do: tools as Host capabilities, and no     *)
(* files at all unless one of them reads.                                  *)
HostPolicy(scope) ==
  LET allow == (IF "Read" \in scope.allow THEN {"filesystem.read"} ELSE {})
               \cup (IF scope.allow \cap {"Grep", "Glob"} # {} THEN {"filesystem.search"} ELSE {})
  IN [allow |-> allow, read |-> IF allow = {} THEN {} ELSE scope.read]

(* The package of the model that was read must be where that model says,   *)
(* with the digest it says.                                                *)
PackageBound(m, p) ==
  /\ p \in DOMAIN tree /\ tree[p].digest = m[p].digest
  /\ DirectorySegments(tree, p) = DirectorySegments(m, p)

(* The child executor: a package that is not bound, a tool the Host cannot *)
(* express and a Host that never says run.started end without a terminal.  *)
DelegateStartsChild ==
  LET l == deleg IN
  /\ l.pc = "child"
  /\ \/ deleg' = DelegateExit
     \/ /\ PackageBound(l.org, l.env.worker) /\ l.scope.allow \subseteq ReadTools
        /\ deleg' = [l EXCEPT !.pc = "hosted", !.policy = HostPolicy(l.scope)]
  /\ UNCHANGED <<tree, orgFile, auditLog, permFile, published, applies, turn, history, edits, torn>>

(* The started child ends with a terminal of its own, or with an           *)
(* infrastructure error that leaves it indeterminate.                      *)
DelegateChildSettles ==
  /\ deleg.pc = "hosted"
  /\ \/ deleg' = DelegateExit
     \/ deleg' = [deleg EXCEPT !.pc = "exit", !.terminal = TRUE]
  /\ UNCHANGED <<tree, orgFile, auditLog, permFile, published, applies, turn, history, edits, torn>>

OrgNext ==
  \/ EditTree
  \/ \E a \in Appliers : \/ ApplyLoad(a) \/ ApplyScan(a) \/ ApplyDeclare(a)
                         \/ ApplyWriteModel(a) \/ ApplyAudit(a)
                         \/ ApplyWritePermissions(a) \/ ApplyAborts(a)
  \/ \E p \in Positions : TurnLoadsModel(p)
  \/ TurnLoadsPackage \/ TurnLoadsPermissions
  \/ SealEnvelope \/ DelegateReadsModel
  \/ DelegateAdmits \/ DelegateStartsChild \/ DelegateChildSettles

OrgSpec == OrgInit /\ [][OrgNext]_orgVars

-----------------------------------------------------------------------------
(* Whatever the operator moved or deleted, and however two applies         *)
(* interleave, org.json is a valid organisation: the owner stays a root    *)
(* position, every reporting line resolves and none is a cycle.            *)
OrgFileValid == orgFile # None => ValidOrganization(orgFile)

(* permissions.json is never ahead of org.json: its content is derived     *)
(* from a model that was published, even when applies overlap or die       *)
(* between their writes.                                                   *)
PermissionsFollowModel ==
  permFile # None => \E m \in published : permFile = DerivePermissions(m)

(* The two files are of one apply when the last apply that wrote org.json  *)
(* neither overlapped another nor broke off.  Otherwise they may disagree  *)
(* until a later apply writes alone (model.ts:643-662), although           *)
(* permissions.ts:20-21 says that "`org apply` recomputes this artifact    *)
(* after every validated change".                                          *)
FilesAgree == Settled /\ orgFile # None => permFile = DerivePermissions(orgFile)

(* `turn run` compares the two files with nothing (turn-run.ts:459-467).   *)
(* It runs with the permissions of the organisation it read if the files   *)
(* were settled when it began and org.json was not replaced in between;    *)
(* otherwise with those of some organisation that was published, which may *)
(* grant what the one it read takes away.                                  *)
TurnReadsOneApply ==
  turn.pc = "running" =>
    /\ turn.calm => turn.perm = DerivePermissions(turn.org)
    /\ \E m \in published : turn.perm = DerivePermissions(m)

(* A child run starts only from one coherent apply: its scope is the one   *)
(* derived from the organisation that was read, for a direct report of the *)
(* owner, never wider than either side's permissions, although the two     *)
(* files were read at different moments and an apply may have died between *)
(* writing them.  Its Host opens only files both sides may read, and none  *)
(* for a child without a reading tool.                                     *)
ChildScopeCoherent ==
  deleg.pc \in {"child", "hosted"} =>
    LET perm == DerivePermissions(deleg.org)
        w == deleg.env.worker
        paths == UNION {perm[p].read : p \in DOMAIN perm}
        both(path) == ContextAllowed(perm, Owner, path) /\ ContextAllowed(perm, w, path)
    IN /\ deleg.org[w].reportTo = Owner
       /\ deleg.scope.allow = perm[Owner].allow \cap perm[w].allow
       /\ \A path \in paths :
            (\E s \in deleg.scope.read : ScopeContains(s, path)) <=> both(path)
       /\ deleg.pc = "hosted" =>
            \A path \in paths :
              (\E s \in deleg.policy.read : ScopeContains(s, path))
                <=> both(path) /\ deleg.policy.allow # {}

(* The delegations of a parent turn are one linear retry chain: no task or *)
(* child turn is used twice and every attempt retries the one before it.   *)
RetryChainLinear == ValidHistory(history)

(* The audit log tells every hire, also when applies overlap and each      *)
(* compares with the organisation it read: every position of org.json that *)
(* the bootstrap document does not have is a hire of the log, or of an     *)
(* apply whose entry is about to be written or that broke off before it.   *)
(* What such an apply hired no later one logs, although model.ts:17-18     *)
(* says that "every applied change is appended" to the log.                *)
HiresLogged ==
  orgFile # None =>
    \A p \in (DOMAIN orgFile \ DOMAIN Bootstrap) :
      \/ \E i \in DOMAIN auditLog : p \in auditLog[i].hired
      \/ \E a \in Appliers : /\ applies[a].pc \in {"audit", "unlogged"}
                             /\ p \in Changes(applies[a].current, applies[a].next).hired

(* What org apply leaves to later commands, overlapping and broken off     *)
(* applies included: a valid organisation whose hires the log tells, with  *)
(* the permissions of that organisation wherever the last apply wrote      *)
(* alone and to the end, and of an earlier or later one only elsewhere     *)
(* (model.ts).                                                             *)
PermissionsSound ==
  OrgFileValid /\ PermissionsFollowModel /\ HiresLogged /\ FilesAgree /\ TurnReadsOneApply

(* A delegation runs inside the permissions of both sides and inside its   *)
(* retry chain (delegation-run.ts, engine/delegation.ts).                  *)
DelegationSound == ChildScopeCoherent /\ RetryChainLinear
=============================================================================
