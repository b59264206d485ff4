----------------------------- MODULE MCPackages -----------------------------
(***************************************************************************)
(* Signed tasks and signed packages: the one-shot executor under its lease *)
(* and replay guards, and the inspection, the creation and the archive of  *)
(* an employee package.  They share no state, so one run checks them one   *)
(* at a time: `part` says whose turn it is and never changes.              *)
(*                                                                         *)
(* Executions of three signed tasks: two attempts of one task, the second  *)
(* of them the leased one, and another task that reuses a nonce.  A        *)
(* package of a manifest and two declared files, written three times while *)
(* it is inspected.  Two commands create the same package of two files,    *)
(* with two intrusions and a fault.  Archives over seven manifests, from   *)
(* valid ones to one with a write tool that asks for no approval, and      *)
(* seven lists of files, three archives at a time.                         *)
(***************************************************************************)
EXTENDS RunnerExecution, PackageInspect, PackageInit, PackageArchive, TLC

MCEnvelopes ==
  {[id |-> "short", own |-> TRUE, expiry |-> 2], [id |-> "long", own |-> TRUE, expiry |-> 3]}

Signed(id, nonce, fencing, issuedAt, expiresAt, leaseExpiry, own) ==
  [id |-> id, nonce |-> nonce, fencing |-> fencing, issuedAt |-> issuedAt,
   expiresAt |-> expiresAt, leaseExpiry |-> leaseExpiry, own |-> own]
MCTasks ==
  {Signed("A", "n1", 1, 0, 2, 2, FALSE), Signed("A", "n2", 2, 1, 3, 2, TRUE),
   Signed("B", "n1", 1, 0, 3, 3, FALSE)}
MCGuards == {[durable |-> FALSE, capacity |-> 1], [durable |-> TRUE, capacity |-> 1]}

---------------------------------------------------------------------------
MCDeclared == <<"skill", "asset">>
MCFiles == <<"manifest", "skill">>

---------------------------------------------------------------------------
ReadOnly ==
  [name |-> "e", version |-> "1", schema |-> "v1alpha1", mode |-> "read_only",
   network |-> "deny", hosts |-> FALSE, read |-> TRUE, write |-> FALSE, tools |-> <<>>,
   mcp |-> NoValue, entrypoints |-> {"skill"}, assets |-> <<>>, avatar |-> NoValue,
   skills |-> <<"u1">>]
WriteTool == <<[name |-> "t", mode |-> "write"]>>
MCManifestOf ==
  ("readonly" :> ReadOnly)
  @@ ("writer" :> [ReadOnly EXCEPT !.version = "2", !.mode = "approval_required", !.write = TRUE,
                     !.tools = WriteTool, !.mcp = "asset", !.assets = <<"asset">>,
                     !.avatar = "asset"])
  @@ ("secret" :> [ReadOnly EXCEPT !.assets = <<".env">>])
  @@ ("long" :> [ReadOnly EXCEPT !.assets = <<"long">>, !.network = "allowlist", !.hosts = TRUE])
  @@ ("unapproved" :> [ReadOnly EXCEPT !.tools = WriteTool, !.mcp = "asset"])
  @@ ("newer" :> [ReadOnly EXCEPT !.schema = "v2"])
  @@ ("dangling" :> [ReadOnly EXCEPT !.avatar = "asset"])
A(p) == File(p, "a")
MCFileLists ==
  {<<A("skill")>>, <<A("skill"), A("asset")>>, <<File("skill", "b"), A(ManifestPath)>>,
   <<A("skill"), A(".env")>>, <<A("skill"), A("long")>>, <<A("skill"), A("skill")>>,
   <<A("skill"), A("../up")>>}

---------------------------------------------------------------------------
VARIABLE part

allVars == <<part, vars, inspectVars, initVars, archiveVars>>

MCInit ==
  /\ ExecInit /\ InspectInit /\ PackageInitInit /\ ArchiveInit
  /\ part \in {"execution", "inspect", "init", "archive"}
  /\ envelope.id = "short"   \* a heartbeat may bring the long one
  /\ part # "execution" => guard.durable /\ wall = 0

MCNext ==
  \/ part = "execution" /\ ExecNext /\ UNCHANGED <<part, inspectVars, initVars, archiveVars>>
  \/ part = "inspect" /\ InspectNext /\ UNCHANGED <<part, vars, initVars, archiveVars>>
  \/ part = "init" /\ PackageInitNext /\ UNCHANGED <<part, vars, inspectVars, archiveVars>>
  \/ part = "archive" /\ ArchiveNext /\ UNCHANGED <<part, vars, inspectVars, initVars>>

MCSpec == MCInit /\ [][MCNext]_allVars

\* Bound: an execution that is not followed past its claim has no lease.
OnlyFollowedLeased == \A e \in Executions \ Followed : ~run[e].leased
=============================================================================
