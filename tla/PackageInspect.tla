--------------------------- MODULE PackageInspect ---------------------------
(***************************************************************************)
(* Reading an employee package from disk while somebody may be writing it  *)
(* (cli/employee-package: inspectEmployeePackage and the sealed snapshot   *)
(* the runner executes).                                                   *)
(*                                                                         *)
(* The inspector reads the manifest, then captures the identity of every   *)
(* declared file, and only then reads them one by one, checking before and *)
(* after each that nothing on the path has changed.  An identity is the    *)
(* inode, its change time and the change time of the directory; every      *)
(* write moves the change time it must move (the code compares             *)
(* milliseconds).  Bytes are numbers.  All files are in one directory.     *)
(***************************************************************************)
EXTENDS Naturals, Sequences, FiniteSets

CONSTANTS Manifest,    \* the manifest's path
          Declared,    \* the files it declares, in order
          MaxWrites,   \* bound: changes made by the writer
          NoIdentity

\* The inspector's set of declared files lists each once; an identity says something.
ASSUME InspectAssumption ==
  /\ Declared \in Seq({Declared[k] : k \in DOMAIN Declared})
  /\ \A j, k \in DOMAIN Declared : Declared[j] = Declared[k] => j = k
  /\ NoIdentity \notin [node : Nat, time : Nat, dir : Nat]

Files == {Manifest} \cup {Declared[k] : k \in DOMAIN Declared}

VARIABLES disk,      \* file -> inode, change time, kind, bytes
          dirTime,   \* change time of the directory
          insp,      \* the inspection: its step, identities and bytes so far
          sealed,    \* the snapshot: "none", "copying", "ready", "removed"
          moments,   \* history: every content the directory has had
          writes,    \* the writer's changes so far
          rewrote    \* history: the manifest was overwritten in place after its read

inspectVars == <<disk, dirTime, insp, sealed, moments, writes, rewrote>>

Contents(d) == [f \in Files |-> d[f].bytes]

-----------------------------------------------------------------------------
(* The order of the inspection. *)

ReadOf(f) == <<<<"open", f>>, <<"read", f>>, <<"verify", f>>>>

(* The n steps of each declared file, file by file. *)
InTurn(n, StepsOf(_)) ==
  [i \in 1 .. n * Len(Declared) |-> StepsOf(Declared[1 + ((i - 1) \div n)])[1 + ((i - 1) % n)]]

\* The variant captures each file only when its turn has come.
CaptureAndRead(f) == <<<<"capture", f>>>> \o ReadOf(f)
CaptureWhenRead == CaptureAndRead(Manifest) \o InTurn(4, CaptureAndRead)

InspectSteps ==
  <<<<"capture", Manifest>>>> \o ReadOf(Manifest)
  \o [k \in DOMAIN Declared |-> <<"capture", Declared[k]>>] \o InTurn(3, ReadOf)

Identity(f) == [node |-> disk[f].node, time |-> disk[f].time, dir |-> dirTime]

(* samePathIdentity over the components of a path. *)
Unchanged(f) == disk[f].kind = "file" /\ Identity(f) = insp.captured[f]

-----------------------------------------------------------------------------
InspectInit ==
  /\ disk = [f \in Files |-> [node |-> 0, time |-> 0, kind |-> "file", bytes |-> 0]]
  /\ dirTime = 0
  /\ insp = [st |-> "running", at |-> 1, captured |-> [f \in Files |-> NoIdentity],
             bytes |-> [f \in Files |-> 0]]
  /\ sealed = "none"
  /\ moments = {[f \in Files |-> 0]} /\ writes = 0 /\ rewrote = FALSE

Step(op, f) == insp.st = "running" /\ InspectSteps[insp.at] = <<op, f>>

Advance(i) ==
  /\ insp' = [i EXCEPT !.at = @ + 1, !.st = IF i.at = Len(InspectSteps) THEN "validate" ELSE @]
  /\ UNCHANGED <<disk, dirTime, sealed, moments, writes, rewrote>>

FailInspection ==
  insp' = [insp EXCEPT !.st = "failed"]
  /\ UNCHANGED <<disk, dirTime, sealed, moments, writes, rewrote>>

(* capturePackagePath, a regular file behind no symbolic link, and         *)
(* freezeSharedPackageComponents: the directory is still the one captured  *)
(* with the manifest.                                                      *)
CapturePath(f) ==
  /\ Step("capture", f)
  /\ IF disk[f].kind = "file"
        /\ (insp.captured[Manifest] = NoIdentity \/ insp.captured[Manifest].dir = dirTime)
       THEN Advance([insp EXCEPT !.captured[f] = Identity(f)])
       ELSE FailInspection

(* assertPackagePathUnchanged, then open() and the comparison with the     *)
(* handle's own stat.                                                      *)
OpenFile(f) ==
  /\ Step("open", f)
  /\ IF Unchanged(f) THEN Advance(insp) ELSE FailInspection

(* The bytes, up to the size the handle reported. *)
ReadFile(f) ==
  /\ Step("read", f)
  /\ IF disk[f].kind = "file" THEN Advance([insp EXCEPT !.bytes[f] = disk[f].bytes])
     ELSE FailInspection

(* The handle's final stat and assertPackagePathUnchanged again. *)
VerifyFile(f) ==
  /\ Step("verify", f)
  /\ IF Unchanged(f) THEN Advance(insp) ELSE FailInspection

(* Skill, schemas and MCP manifest parse and agree with the manifest, or   *)
(* the package is refused.                                                 *)
ValidateContents ==
  /\ insp.st = "validate"
  /\ \/ FailInspection
     \/ insp' = [insp EXCEPT !.st = "done"]
        /\ UNCHANGED <<disk, dirTime, sealed, moments, writes, rewrote>>

(* createSealedEmployeePackageSnapshot copies the bytes that were read to  *)
(* a private directory, inspects and digests the copy, and takes away the  *)
(* right to write; or removes what it has copied.                          *)
SealCopies ==
  /\ insp.st = "done" /\ sealed \in {"none", "copying"}
  /\ \/ sealed = "none" /\ sealed' = "copying"
     \/ sealed = "copying" /\ sealed' \in {"ready", "removed"}
  /\ UNCHANGED <<disk, dirTime, insp, moments, writes, rewrote>>

SealCleanup ==
  /\ sealed = "ready" /\ sealed' = "removed"
  /\ UNCHANGED <<disk, dirTime, insp, moments, writes, rewrote>>

-----------------------------------------------------------------------------
(* The writer: overwrites in place, renames a new file or a link over the  *)
(* old one, removes it.                                                    *)
WriterChanges(f) ==
  /\ writes < MaxWrites /\ writes' = writes + 1
  /\ \/ /\ disk[f].kind = "file"
        /\ disk' = [disk EXCEPT ![f].time = writes', ![f].bytes = writes']
        /\ rewrote' = (rewrote \/ (f = Manifest /\ insp.at > 4))
        /\ UNCHANGED dirTime
     \/ /\ \E k \in {"file", "link", "gone"} :
             disk' = [disk EXCEPT ![f] = [node |-> writes', time |-> writes',
                                          kind |-> k, bytes |-> writes']]
        /\ dirTime' = writes'
        /\ UNCHANGED rewrote
  /\ moments' = moments \cup {Contents(disk')}
  /\ UNCHANGED <<insp, sealed>>

InspectNext ==
  \/ \E f \in Files :
       CapturePath(f) \/ OpenFile(f) \/ ReadFile(f) \/ VerifyFile(f) \/ WriterChanges(f)
  \/ ValidateContents \/ SealCopies \/ SealCleanup

InspectSpec == InspectInit /\ [][InspectNext]_inspectVars

-----------------------------------------------------------------------------
(* An inspection that succeeds has seen the package as it was at one       *)
(* moment, although it read the files one after the other while they were  *)
(* being replaced; only a manifest that was overwritten in place after it  *)
(* had been read may belong to another moment than the files.              *)
InspectedAtOneMoment ==
  insp.st \in {"validate", "done"} =>
    \E c \in moments : /\ \A k \in DOMAIN Declared : insp.bytes[Declared[k]] = c[Declared[k]]
                       /\ insp.bytes[Manifest] = c[Manifest] \/ rewrote
=============================================================================
