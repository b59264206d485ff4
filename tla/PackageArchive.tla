--------------------------- MODULE PackageArchive ---------------------------
(***************************************************************************)
(* Employee package archives (core/employee-package-archive) and the store *)
(* of installed versions, with the manifest rules and the policy that is   *)
(* derived from a manifest (core/employee-package).                        *)
(*                                                                         *)
(* Archives are packed here or by other tools, change on the way, and are  *)
(* installed, upgraded to and rolled back to in any order.  A file is a    *)
(* path and a name for its bytes; ManifestOf gives the manifest a text     *)
(* parses to.  A SHA-256 digest is the set of files it was computed from.  *)
(***************************************************************************)
EXTENDS Naturals, Sequences, SequencesExt, FiniteSets, TLC

CONSTANTS ManifestOf,     \* text -> manifest
          FileLists,      \* what callers hand to packArchive
          Garbled,        \* a text that is no JSON
          EscapingPaths,  \* ./.. and the like
          SecretPaths,    \* .env, credentials, keys, ...
          LongPaths,      \* at most 1024 characters, but more bytes in UTF-8
          MaxArchives,    \* bound: archives in circulation
          NoValue

VARIABLES archives,   \* archives in circulation
          packed,     \* history: those packArchive returned
          records,    \* InMemoryInstallStore: <<name, version>> -> record
          current     \* ... name -> version

archiveVars == <<archives, packed, records, current>>

ManifestPath == "manifest"

\* The manifest's own name, ./employee.json, is a short, portable and public one.
ManifestPathAssumption == ManifestPath \notin EscapingPaths \cup SecretPaths \cup LongPaths
ASSUME ManifestPathAssumption

FileListsAssumption ==
  \A l \in FileLists :
    l \in Seq([path : {f.path : f \in Range(l)}, bytes : {f.bytes : f \in Range(l)}])
ASSUME FileListsAssumption

SchemaVersions == <<"v1alpha1">>
FormatVersion == "employee-archive.v1"

-----------------------------------------------------------------------------
(* validateEmployeePackageManifest and its helpers. *)

Distinct(s) == IsInjective(s)

ToolsValid(m) ==
  /\ Distinct([k \in DOMAIN m.tools |-> m.tools[k].name])
  /\ m.mode = "read_only" => \A k \in DOMAIN m.tools : m.tools[k].mode = "read"
  /\ m.tools # <<>> => m.mcp # NoValue

SkillUnitsValid(m) == Distinct(m.skills)

IdentityValid(m) == m.avatar # NoValue => m.avatar \in Range(m.assets)

PathsValid(m) ==
  /\ Distinct(m.assets)
  /\ (m.entrypoints \cup {m.mcp} \cup Range(m.assets)) \cap EscapingPaths = {}

ManifestValid(m) ==
  /\ m.schema = SchemaVersions[Len(SchemaVersions)]
  /\ m.mode \in {"read_only", "approval_required"}
  /\ m.hosts => m.network = "allowlist"
  /\ m.mode = "read_only" => ~m.write
  /\ ToolsValid(m) /\ PathsValid(m) /\ SkillUnitsValid(m) /\ IdentityValid(m)

(* classifySchemaCompatibility: an older known version would be migrated.  *)
SchemaCompatible(m) == m.schema \in Range(SchemaVersions)

RequiredPaths(m) == m.entrypoints \cup ({m.mcp} \ {NoValue}) \cup Range(m.assets)

(* deriveEmployeeHostRequirements *)
RequiredCapabilities(m) ==
  {"tool_allowlist", "network_policy"}
  \cup (IF m.read \/ m.write THEN {"filesystem_scope"} ELSE {})
  \cup (IF m.mcp # NoValue \/ m.tools # <<>> THEN {"mcp"} ELSE {})
  \cup (IF m.mode = "approval_required" THEN {"approval_callback"} ELSE {})

(* deriveEffectiveAgentHostPolicy: the granted tools with their modes, and *)
(* whether calls need approval.                                            *)
EffectivePolicy(m) ==
  [allow |-> (IF m.read THEN {[name |-> "filesystem.read", mode |-> "read"],
                              [name |-> "filesystem.search", mode |-> "read"]} ELSE {})
             \cup (IF m.write THEN {[name |-> "filesystem.write", mode |-> "write"]} ELSE {})
             \cup Range(m.tools),
   approval |-> IF m.mode = "approval_required" THEN "required" ELSE "never"]

-----------------------------------------------------------------------------
(* An archive is its framing (intact or not), its meta entry (NoValue when *)
(* it is not the first entry, or no JSON) and the other entries in order.  *)

File(p, b) == [path |-> p, bytes |-> b]
PathsOf(files) == {f.path : f \in Range(files)}

(* validatePortablePath and detectSecrets *)
PathPortable(p) == p \notin EscapingPaths
SecretPath(p) == p \in SecretPaths

FilesHandedIn == UNION {Range(l) : l \in FileLists}
Paths == {f.path : f \in FilesHandedIn} \cup {ManifestPath}
Texts == {f.bytes : f \in FilesHandedIn} \cup DOMAIN ManifestOf \cup {Garbled}
PackageFile == [path : Paths, bytes : Texts]
Metas == [format : {FormatVersion}, packageDigest : SUBSET PackageFile,
          archiveDigest : SUBSET PackageFile]
Archives == [intact : BOOLEAN, files : Seq(PackageFile), meta : Metas \cup {NoValue}]

NoValueAssumption == NoValue \notin DOMAIN ManifestOf /\ NoValue \notin Metas
ASSUME NoValueAssumption

ArchiveDigest(files) == Range(files)

(* computeEmployeePackageDigest: every path safe and only once, or an error. *)
PackageDigestComputable(files) ==
  /\ files # <<>> /\ \A p \in PathsOf(files) : PathPortable(p)
  /\ Distinct([k \in DOMAIN files |-> files[k].path])
PackageDigest(files) == Range(files)

(* deserialiseArchive: a path of more than 1024 bytes counts as truncated. *)
Deserialisable(a) == a.intact /\ PathsOf(a.files) \cap LongPaths = {}

\* The variant leaves the look for secrets to the verification.
PackAcceptsSecrets(t, files) ==
  LET m == ManifestOf[t] IN
  /\ ManifestValid(m) /\ SchemaCompatible(m)
  /\ \A p \in PathsOf(files) : PathPortable(p)
  /\ Distinct([k \in DOMAIN files |-> files[k].path])
  /\ RequiredPaths(m) \ {ManifestPath} = PathsOf(files) \ {ManifestPath}

PackAccepts(t, files) ==
  LET m == ManifestOf[t] IN
  /\ ManifestValid(m) /\ SchemaCompatible(m)
  /\ \A p \in PathsOf(files) : PathPortable(p) /\ ~SecretPath(p)
  /\ Distinct([k \in DOMAIN files |-> files[k].path])
  /\ RequiredPaths(m) \ {ManifestPath} = PathsOf(files) \ {ManifestPath}

\* entries.find, like fileMap.set, takes the first entry of that path.
ManifestAt(files) ==
  CHOOSE k \in DOMAIN files : /\ files[k].path = ManifestPath
                              /\ \A i \in 1..(k - 1) : files[i].path # ManifestPath

(* packArchive: the manifest replaces a file of its name.  The entries are *)
(* then sorted, which nothing here depends on.                             *)
Content(t, files) ==
  IF ManifestPath \in PathsOf(files)
  THEN ReplaceAt(files, ManifestAt(files), File(ManifestPath, t))
  ELSE Append(files, File(ManifestPath, t))

Packed(t, files) ==
  LET content == Content(t, files)
  IN [intact |-> TRUE, files |-> content,
      meta |-> [format |-> FormatVersion, packageDigest |-> PackageDigest(content),
                archiveDigest |-> ArchiveDigest(content)]]

PackArchive(t, files) ==
  /\ Cardinality(archives) < MaxArchives
  /\ PackAccepts(t, files)
  /\ archives' = archives \cup {Packed(t, files)} /\ packed' = packed \cup {Packed(t, files)}
  /\ UNCHANGED <<records, current>>

-----------------------------------------------------------------------------
(* verifyArchive: the errors found. *)

ManifestText(files) ==
  IF ManifestPath \notin PathsOf(files) THEN NoValue ELSE files[ManifestAt(files)].bytes

ErrorUnless(test, code) == IF test THEN {} ELSE {code}

ContentErrors(files) ==
  LET t == ManifestText(files) IN
  IF t = NoValue THEN {"archive_missing_manifest"}
  ELSE IF t \notin DOMAIN ManifestOf THEN {"archive_manifest_parse_error"}
  ELSE IF ~ManifestValid(ManifestOf[t]) THEN {"archive_manifest_invalid"}
  ELSE LET required == RequiredPaths(ManifestOf[t]) IN
       ErrorUnless(SchemaCompatible(ManifestOf[t]), "archive_incompatible_schema")
       \cup ErrorUnless(required \subseteq PathsOf(files), "archive_missing_declared_file")
       \cup ErrorUnless(PathsOf(files) \subseteq required \cup {ManifestPath},
                        "archive_undeclared_file")

PathErrors(files) ==
  ErrorUnless(\A p \in PathsOf(files) : PathPortable(p), "archive_path_escape")
  \cup ErrorUnless(\A p \in PathsOf(files) : ~SecretPath(p), "archive_secret_detected")

VerifyArchive(a) ==
  IF ~Deserialisable(a) THEN {"archive_corrupt"}
  ELSE IF a.meta = NoValue THEN {"archive_missing_meta"}
  ELSE ErrorUnless(a.meta.format = FormatVersion, "archive_unsupported_format")
       \cup ErrorUnless(a.meta.archiveDigest = ArchiveDigest(a.files), "archive_digest_mismatch")
       \cup IF ~PackageDigestComputable(a.files)
              THEN {"archive_package_digest_computation_failed"}
              ELSE ErrorUnless(a.meta.packageDigest = PackageDigest(a.files),
                               "archive_package_digest_mismatch")
                   \cup ContentErrors(a.files) \cup PathErrors(a.files)

-----------------------------------------------------------------------------
(* InMemoryInstallStore.  inspectArchive of a verified archive supplies    *)
(* the name, the version and the file list.                                *)

Installed(a) == ManifestOf[ManifestText(a.files)]
RecordKey(m) == <<m.name, m.version>>
Put(map, key, value) ==
  [k \in DOMAIN map \cup {key} |-> IF k = key THEN value ELSE map[k]]
CurrentOf(name) == records[<<name, current[name]>>]

PutCurrent(a) ==
  LET m == Installed(a)
      r == [packageDigest |-> PackageDigest(a.files), archiveDigest |-> ArchiveDigest(a.files),
            files |-> PathsOf(a.files), manifest |-> ManifestText(a.files)]
  IN /\ records' = Put(records, RecordKey(m), r)
     /\ current' = Put(current, m.name, m.version)
     /\ UNCHANGED <<archives, packed>>

InstallArchive(a) == VerifyArchive(a) = {} /\ PutCurrent(a)

(* Only the current version's digest is compared. *)
UpgradeArchive(a) ==
  /\ VerifyArchive(a) = {}
  /\ Installed(a).name \in DOMAIN current =>
       CurrentOf(Installed(a).name).packageDigest # PackageDigest(a.files)
  /\ PutCurrent(a)

RollbackArchive(name, version) ==
  /\ <<name, version>> \in DOMAIN records
  /\ current[name] # version
  /\ current' = [current EXCEPT ![name] = version]
  /\ UNCHANGED <<archives, packed, records>>

-----------------------------------------------------------------------------
(* Archives change on the way, or come from tools that do not check.       *)

ReplaceFile(a, k, f) == [a EXCEPT !.files = ReplaceAt(@, k, f)]

ChangedArchives(a) ==
  {[a EXCEPT !.intact = FALSE], [a EXCEPT !.meta = NoValue]}
  \cup {[a EXCEPT !.files = RemoveAt(@, k)] : k \in DOMAIN a.files}
  \cup {ReplaceFile(a, k, File(a.files[k].path, b)) :
          k \in DOMAIN a.files, b \in {Garbled} \cup DOMAIN ManifestOf}
  \cup {[a EXCEPT !.files = Append(@, f)] : f \in UNION {Range(l) : l \in FileLists}}

(* The other tool writes the digests of what it packs. *)
Resealed(a) ==
  IF a.meta = NoValue THEN a
  ELSE [a EXCEPT !.meta.packageDigest = PackageDigest(a.files),
                 !.meta.archiveDigest = ArchiveDigest(a.files)]

ArchiveChanges ==
  /\ Cardinality(archives) < MaxArchives
  /\ \E a \in archives : \E b \in ChangedArchives(a) : \E c \in {b, Resealed(b)} :
       c \notin archives /\ archives' = archives \cup {c}
  /\ UNCHANGED <<packed, records, current>>

ArchiveInit ==
  /\ archives = {} /\ packed = {} /\ records = <<>> /\ current = <<>>

ArchiveNext ==
  \/ \E t \in DOMAIN ManifestOf, files \in FileLists : PackArchive(t, files)
  \/ ArchiveChanges
  \/ \E a \in archives : InstallArchive(a) \/ UpgradeArchive(a)
  \/ \E k \in DOMAIN records : RollbackArchive(k[1], k[2])

ArchiveSpec == ArchiveInit /\ [][ArchiveNext]_archiveVars

-----------------------------------------------------------------------------
(* Whatever happened to an archive before, every version in the store is a *)
(* complete package: exactly the manifest and the declared files, none     *)
(* outside the package and none that looks like a secret, under the name   *)
(* and version its manifest states.                                        *)
InstalledIsWhole ==
  /\ \A k \in DOMAIN records :
       LET r == records[k]
           m == ManifestOf[r.manifest]
       IN /\ RecordKey(m) = k /\ ManifestValid(m)
          /\ {f.path : f \in r.packageDigest} = {ManifestPath} \cup RequiredPaths(m)
          /\ Cardinality(r.packageDigest) = Cardinality(r.files)
          /\ r.files \cap (EscapingPaths \cup SecretPaths) = {}
  /\ \A n \in DOMAIN current : <<n, current[n]>> \in DOMAIN records

(* An installed employee is granted a write tool only if every call of it  *)
(* needs an approval and hosts without an approval callback are refused.   *)
WritesNeedApproval ==
  \A k \in DOMAIN records :
    LET m == ManifestOf[records[k].manifest] IN
    (\E g \in EffectivePolicy(m).allow : g.mode = "write") =>
       EffectivePolicy(m).approval = "required" /\ "approval_callback" \in RequiredCapabilities(m)

(* What packArchive returns can be installed, unless a path has more bytes *)
(* than characters: packing counts characters, reading counts bytes.       *)
PackedVerifies ==
  \A a \in packed : VerifyArchive(a) = {} \/ PathsOf(a.files) \cap LongPaths # {}

(* Between packing and the policy an installed employee runs under         *)
(* (employee-package-archive.ts) nothing gets in, gets lost or is widened. *)
ArchiveSound == PackedVerifies /\ InstalledIsWhole /\ WritesNeedApproval
=============================================================================
