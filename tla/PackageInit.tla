---------------------------- MODULE PackageInit ----------------------------
(***************************************************************************)
(* `digital-employee init` publishes a new package directory               *)
(* (cli/employee-package: createEmployeePackage and its cleanup).          *)
(*                                                                         *)
(* A creator prepares the package in a directory of its own, claims the    *)
(* target with mkdir and a marker, writes the files one by one and         *)
(* remembers the inode of each, inspects the result and removes the        *)
(* marker.  When anything fails it takes back what it can prove to be its  *)
(* own.  Creators compete for one target, and another process may put      *)
(* files into it, replace entries or the directory itself, between any two *)
(* steps.  Paths are resolved anew in every step.                          *)
(***************************************************************************)
EXTENDS Naturals, Sequences, SequencesExt, FiniteSets

CONSTANTS Creators,
          PackageFiles,   \* the files of a package, in order of writing
          MaxIntrusions,  \* bound: changes by the other process
          MaxFaults,      \* bound: failed file operations
          Nothing

VARIABLES target,      \* the directory: its inode and its entries, or Nothing
          creator,     \* the creators
          nodes,       \* inodes given out so far
          intrusions, faults,
          broken,      \* history: a write broke off after creating its file
          lost         \* history: entries of others that a creator removed

initVars == <<target, creator, nodes, intrusions, faults, broken, lost>>

(* A creator's marker has a random name: the creator itself stands for it. *)
Written(c) == <<c>> \o PackageFiles
Names == Creators \cup Range(PackageFiles) \cup {"notes"}

\* The files are a list, and no directory is taken for the absence of one.
ASSUME InitAssumption ==
  /\ PackageFiles \in Seq(Range(PackageFiles))
  /\ Nothing \notin [node : Nat,
                     entries : UNION {[D -> [node : Nat, by : Creators \cup {"other"},
                                             raced : BOOLEAN]] : D \in SUBSET Names}]

With(d, name, e) ==
  [d EXCEPT !.entries = [m \in DOMAIN @ \cup {name} |-> IF m = name THEN e ELSE @[m]]]
Without(d, name) == [d EXCEPT !.entries = [m \in DOMAIN @ \ {name} |-> @[m]]]
EntryNames == IF target = Nothing THEN {} ELSE DOMAIN target.entries

New == [pc |-> "idle", root |-> Nothing, owned |-> <<>>, at |-> 1, temp |-> FALSE]

PackageInitInit ==
  /\ target = Nothing /\ creator = [c \in Creators |-> New]
  /\ nodes = 0 /\ intrusions = 0 /\ faults = 0 /\ broken = FALSE /\ lost = {}

Set(c, r) == creator' = [creator EXCEPT ![c] = r]
At(c, pc) == creator[c].pc = pc
To(c, pc) == Set(c, [creator[c] EXCEPT !.pc = pc])
Quiet == UNCHANGED <<intrusions, faults, broken, lost>>

-----------------------------------------------------------------------------
(* assertNewDirectoryTarget, and the package in a temporary directory. *)
Prepare(c) ==
  /\ At(c, "idle")
  /\ IF target # Nothing THEN To(c, "exists")
     ELSE Set(c, [creator[c] EXCEPT !.pc = "claim", !.temp = TRUE])
  /\ UNCHANGED <<target, nodes>> /\ Quiet

(* mkdir decides between creators; the loser removes its own copy. *)
ClaimTarget(c) ==
  /\ At(c, "claim")
  /\ IF target # Nothing
       THEN /\ Set(c, [creator[c] EXCEPT !.pc = "exists", !.temp = FALSE])
            /\ UNCHANGED <<target, nodes>>
       ELSE /\ target' = [node |-> nodes + 1, entries |-> <<>>] /\ nodes' = nodes + 1
            /\ To(c, "stat")
  /\ Quiet

(* lstat of the directory just made, whichever is there now. *)
StatTarget(c) ==
  /\ At(c, "stat")
  /\ IF target = Nothing THEN To(c, "abandon")
     ELSE Set(c, [creator[c] EXCEPT !.pc = "write", !.root = target.node])
  /\ UNCHANGED <<target, nodes>> /\ Quiet

Name(c) == Written(c)[creator[c].at]
Broken(c) == IF creator[c].owned = <<>> THEN "abandon" ELSE "cleanup"

(* Some creator is between writing and recording, or checking and removing.*)
Window(name) ==
  \E c \in Creators : \/ At(c, "record") /\ Name(c) = name
                      \/ At(c, "remove") /\ creator[c].owned[creator[c].at].name = name

PutEntry(name, who) ==
  With(target, name, [node |-> nodes + 1, by |-> who, raced |-> Window(name)])

(* writeFile with wx: fails when the name is taken. *)
WriteEntry(c) ==
  /\ At(c, "write")
  /\ IF target = Nothing \/ Name(c) \in EntryNames
       THEN To(c, Broken(c)) /\ UNCHANGED <<target, nodes>>
       ELSE /\ target' = PutEntry(Name(c), c) /\ nodes' = nodes + 1
            /\ To(c, "record")
  /\ Quiet

(* recordOwnedPackagePath: lstat of what was just written. *)
RecordEntry(c) ==
  LET r == creator[c] IN
  /\ At(c, "record")
  /\ IF Name(c) \in EntryNames
       THEN Set(c, [r EXCEPT
              !.owned = Append(@, [name |-> Name(c), node |-> target.entries[Name(c)].node]),
              !.at = @ + 1,
              !.pc = IF r.at = Len(Written(c)) THEN "inspect" ELSE "write"])
       ELSE To(c, Broken(c))
  /\ UNCHANGED <<target, nodes>> /\ Quiet

(* An operation of the file system fails, a write perhaps half-way. *)
Fault(c) ==
  /\ faults < MaxFaults /\ faults' = faults + 1
  /\ creator[c].pc \in {"stat", "write", "record", "inspect", "unmark"}
  /\ To(c, Broken(c))
  /\ \/ At(c, "write") /\ target # Nothing /\ Name(c) \notin EntryNames
        /\ target' = PutEntry(Name(c), c) /\ nodes' = nodes + 1
        /\ broken' = TRUE
     \/ UNCHANGED <<target, nodes>> /\ broken' = (broken \/ At(c, "record"))
  /\ UNCHANGED <<intrusions, lost>>

(* inspectEmployeePackage of the target: complete, and no foreign file in  *)
(* it that does not validate.                                              *)
InspectTarget(c) ==
  /\ At(c, "inspect")
  /\ \/ To(c, "unmark") /\ \A k \in DOMAIN PackageFiles : PackageFiles[k] \in EntryNames
     \/ To(c, "cleanup") /\ \E k \in DOMAIN PackageFiles :
          PackageFiles[k] \in EntryNames => target.entries[PackageFiles[k]].by # c
  /\ UNCHANGED <<target, nodes>> /\ Quiet

(* unlink of the marker publishes the package. *)
RemoveMarker(c) ==
  /\ At(c, "unmark")
  /\ IF c \in EntryNames
       THEN /\ target' = Without(target, c)
            /\ Set(c, [creator[c] EXCEPT !.pc = "created", !.temp = FALSE])
       ELSE To(c, "cleanup") /\ UNCHANGED target
  /\ UNCHANGED nodes /\ Quiet

-----------------------------------------------------------------------------
(* cleanupOwnedPackageTarget. *)

\* The variant takes the name alone for ownership.
SameNameOwned(o) == o.name \in EntryNames

SameOwned(o) == o.name \in EntryNames /\ target.entries[o.name].node = o.node

Failed(c) == Set(c, [creator[c] EXCEPT !.pc = "failed", !.temp = FALSE])

(* The directory and the marker are still the creator's, or nothing is     *)
(* touched.                                                                *)
CleanupBegins(c) ==
  LET r == creator[c] IN
  /\ At(c, "cleanup")
  /\ IF target # Nothing /\ target.node = r.root /\ SameOwned(r.owned[1])
       THEN Set(c, [r EXCEPT !.pc = "check", !.at = Len(r.owned)])
       ELSE Failed(c)
  /\ UNCHANGED <<target, nodes>> /\ Quiet

(* One entry after the other, the last one first: lstat, *)
CleanupChecks(c) ==
  LET r == creator[c] IN
  /\ At(c, "check")
  /\ Set(c, IF r.at = 0 THEN [r EXCEPT !.pc = "rmdir"]
            ELSE IF SameOwned(r.owned[r.at]) THEN [r EXCEPT !.pc = "remove"]
            ELSE [r EXCEPT !.at = @ - 1])
  /\ UNCHANGED <<target, nodes>> /\ Quiet

(* ... and unlink, by name. *)
CleanupRemoves(c) ==
  LET name == creator[c].owned[creator[c].at].name IN
  /\ At(c, "remove")
  /\ IF name \in EntryNames
       THEN /\ target' = Without(target, name)
            /\ lost' = lost \cup {e \in {target.entries[name]} : e.by # c}
       ELSE UNCHANGED <<target, lost>>
  /\ Set(c, [creator[c] EXCEPT !.pc = "check", !.at = @ - 1])
  /\ UNCHANGED <<nodes, intrusions, faults, broken>>

(* rmdir takes an empty directory only. *)
CleanupRmdir(c) ==
  /\ At(c, "rmdir")
  /\ target' = IF target # Nothing /\ target.node = creator[c].root /\ EntryNames = {}
                 THEN Nothing ELSE target
  /\ Failed(c) /\ UNCHANGED nodes /\ Quiet

(* Before the claim is recorded: rmdir of whatever is there. *)
Abandon(c) ==
  /\ At(c, "abandon")
  /\ target' = IF target # Nothing /\ EntryNames = {} THEN Nothing ELSE target
  /\ Failed(c) /\ UNCHANGED nodes /\ Quiet

-----------------------------------------------------------------------------
(* The other process. *)

Intrude ==
  /\ intrusions < MaxIntrusions /\ intrusions' = intrusions + 1
  /\ nodes' = nodes + 1
  /\ \/ /\ target # Nothing
        /\ \E name \in Names :
             target' = PutEntry(name, "other")
     \/ target # Nothing /\ target' = Nothing
     \/ \E name \in Names \ Range(PackageFiles) :
          target' = [node |-> nodes + 1,
                     entries |-> [m \in {name} |-> [node |-> nodes + 1, by |-> "other",
                                                    raced |-> Window(name)]]]
  /\ UNCHANGED <<creator, faults, broken, lost>>

PackageInitNext ==
  \/ \E c \in Creators :
       \/ Prepare(c) \/ ClaimTarget(c) \/ StatTarget(c) \/ WriteEntry(c) \/ RecordEntry(c)
       \/ Fault(c) \/ InspectTarget(c) \/ RemoveMarker(c) \/ CleanupBegins(c)
       \/ CleanupChecks(c) \/ CleanupRemoves(c) \/ CleanupRmdir(c) \/ Abandon(c)
  \/ Intrude

PackageInitSpec == PackageInitInit /\ [][PackageInitNext]_initVars

-----------------------------------------------------------------------------
(* "Unknown or concurrently changed content is never removed": what        *)
(* another process put into the target survives every cleanup, unless it   *)
(* took a path over in the instant between two system calls on that path.  *)
OthersSurviveCleanup == \A e \in lost : e.raced

(* An init that failed leaves the name free, so that it can be repeated:   *)
(* unless others put something there, or a write broke off half-way.       *)
FailedInitCanBeRepeated ==
  (\A c \in Creators : creator[c].pc \in {"failed", "exists", "idle", "created"})
     /\ (\A c \in Creators : creator[c].pc # "created")
     /\ intrusions = 0 /\ ~broken
  => target = Nothing

(* The cleanup of an init that failed (employee-package.ts) takes away its *)
(* own work, all of it and nothing else.                                   *)
InitSound == OthersSurviveCleanup /\ FailedInitCanBeRepeated
=============================================================================
