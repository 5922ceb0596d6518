-------------------------- MODULE SchemaMigration --------------------------
(***************************************************************************)
(* Opening the library's database: internal/db/db.go (Open, Migrate),      *)
(* migrate_version.go (migrateVersioned, the snapshot before the first     *)
(* migration), migrations.go (ExtendedMigrate), and the two secrets every  *)
(* process takes from it (local_secrets.go, cmd/media_links.go).           *)
(*                                                                         *)
(* Every Fotoro process opens the same file: the server, `fotoro login`,   *)
(* `fotoro scheduler`.  Each statement commits by itself, so a process     *)
(* that dies leaves the schema between two versions.  The statements of    *)
(* one part of the schema are one step.                                    *)
(***************************************************************************)
EXTENDS Integers, FiniteSets

CONSTANTS
    Procs,       \* processes that open the database
    Pictures,    \* rows of images
    Secrets,     \* the media link key, the endpoint key
    MaxTrouble,  \* bound: deaths of processes and failing statements
    Nil

ASSUME BoundsAssumption == MaxTrouble \in Nat
ASSUME NamesAssumption == Nil \notin Procs

Parts == {"images", "media", "metrics", "linkkey", "secrets"}
CurrentVersion == 4

VARIABLES
    version,   \* PRAGMA user_version
    schema,    \* the parts of the schema that are there
    images,    \* pictures of the legacy table
    assets,    \* pictures of media_assets
    original,  \* history: schema and pictures as the first process found them
    snapshot,  \* <library>.pre-v1.snapshot: missing, empty, torn or a copy
    cut,       \* history: a process died while it wrote the snapshot
    proc,      \* each process: where it is in Open, the version it read, and the
               \* read transaction of its VACUUM INTO
    secret,    \* the stored secrets
    held,      \* each process: how far it is with each secret, and its value
    trouble

library == <<version, schema, images, assets>>
vars == <<version, schema, images, assets, original, snapshot, cut, proc, secret, held, trouble>>

Closed   == [pc |-> "closed", existing |-> FALSE, from |-> 0, view |-> Nil]
Unread   == [pc |-> "unread", value |-> Nil]
Missing  == [state |-> "missing"]
Empty    == [state |-> "empty"]
Torn     == [state |-> "torn"]
Copy(v)  == [state |-> "copy", of |-> v]
Contents == [version |-> version, schema |-> schema, images |-> images]

\* A new library, one older than versions, or one of each later version, with uploads in
\* the catalogue and pictures that were analysed without an entry there.
SchemaOf == [v \in 1..5 |->
    CASE v = 1 -> {"images", "media"}
      [] v = 2 -> {"images", "media", "metrics"}
      [] v = 3 -> {"images", "media", "metrics", "linkkey"}
      [] OTHER -> Parts]

Init ==
    /\ version \in 0..5
    /\ IF version = 0 THEN schema \in {{}, {"images"}, {"images", "media"}} ELSE schema = SchemaOf[version]
    /\ images \in IF schema = {} THEN {{}} ELSE SUBSET Pictures
    /\ assets \in IF "media" \in schema THEN SUBSET Pictures ELSE {{}}
    /\ original = Contents /\ snapshot = Missing /\ cut = FALSE
    /\ proc = [p \in Procs |-> Closed]
    /\ secret = [k \in Secrets |-> Nil] /\ held = [p \in Procs |-> [k \in Secrets |-> Unread]]
    /\ trouble = 0

Trouble == trouble < MaxTrouble /\ trouble' = trouble + 1
NoTrouble == UNCHANGED trouble
Goto(p, s) == proc' = [proc EXCEPT ![p].pc = s]
Fail(p) == proc' = [proc EXCEPT ![p] = Closed]

(***************************************************************************)
(* Open and migrateVersioned.                                              *)
(***************************************************************************)
Open(p) ==
    /\ proc[p].pc = "closed"
    /\ proc' = [proc EXCEPT ![p].pc = "version", ![p].existing = schema # {}]
    /\ UNCHANGED <<library, original, snapshot, cut, secret, held, trouble>>

\* Mutant: a library of version 1 never gets the metrics table.
EntryPastMetrics(p, v) ==
    CASE v = 4 -> "open"
      [] v = 3 -> "secrets"
      [] v \in {1, 2} -> "linkkey"
      [] OTHER -> IF proc[p].existing THEN "snapshot" ELSE "images"

\* Where a library of version v enters the migration.
Entry(p, v) ==
    CASE v = 4 -> "open"
      [] v = 3 -> "secrets"
      [] v = 2 -> "linkkey"
      [] v = 1 -> "metrics"
      [] OTHER -> IF proc[p].existing THEN "snapshot" ELSE "images"

ReadVersion(p) ==
    /\ proc[p].pc = "version"
    /\ \/ /\ version <= CurrentVersion /\ NoTrouble
          /\ proc' = [proc EXCEPT ![p].pc = Entry(p, version), ![p].from = version]
       \/ version > CurrentVersion /\ Fail(p) /\ NoTrouble
       \/ Fail(p) /\ Trouble
    /\ UNCHANGED <<library, original, snapshot, cut, secret, held>>

\* os.Stat: only the first attempt takes the snapshot.
SnapshotDue == snapshot = Missing

\* Mutant: an earlier snapshot is removed, so that a torn one cannot stay.
SnapshotAfresh(p) ==
    /\ proc[p].pc = "snapshot"
    /\ Goto(p, "vacuum") /\ snapshot' = Missing
    /\ UNCHANGED <<library, original, cut, secret, held, trouble>>

SnapshotBeforeMigration(p) ==
    /\ proc[p].pc = "snapshot"
    /\ Goto(p, IF SnapshotDue THEN "vacuum" ELSE "verify")
    /\ UNCHANGED <<library, original, snapshot, cut, secret, held, trouble>>

\* VACUUM INTO refuses a file that has something in it or is being written; it copies
\* what its read transaction sees, or fails half way.
Writing(p) == proc[p].pc = "write"
StartVacuum(p) ==
    /\ proc[p].pc = "vacuum"
    /\ \/ /\ \/ snapshot = Missing
             \/ snapshot = Empty /\ \A q \in Procs : ~Writing(q)
          /\ snapshot' = Empty
          /\ proc' = [proc EXCEPT ![p].pc = "write", ![p].view = Contents]
       \/ snapshot # Missing /\ Fail(p) /\ UNCHANGED snapshot
    /\ UNCHANGED <<library, original, cut, secret, held, trouble>>

FinishVacuum(p) ==
    /\ Writing(p)
    /\ \/ /\ snapshot' = Copy(proc[p].view) /\ NoTrouble /\ UNCHANGED cut
          /\ proc' = [proc EXCEPT ![p].pc = "verify", ![p].view = Nil]
       \/ snapshot' \in {Empty, Torn} /\ Fail(p) /\ cut' = TRUE /\ Trouble
    /\ UNCHANGED <<library, original, secret, held>>

\* integrity_check of the snapshot: an empty file passes.  A file that is still being
\* written may be taken for either.
VerifySnapshot(p) ==
    /\ proc[p].pc = "verify"
    /\ \/ snapshot # Torn /\ Goto(p, "images") /\ NoTrouble
       \/ (snapshot = Torn \/ (\E q \in Procs : Writing(q))) /\ Fail(p) /\ NoTrouble
       \/ Fail(p) /\ Trouble
    /\ UNCHANGED <<library, original, snapshot, cut, secret, held>>

\* Mutant: a part that is there already is an error.
Created(parts) == parts \cap schema = {} /\ schema' = schema \cup parts

\* CREATE ... IF NOT EXISTS, and errors that say a column is there are tolerated.
Added(parts) == schema' = schema \cup parts

AddParts(p, here, parts, next) ==
    /\ proc[p].pc = here
    /\ \/ Added(parts) /\ Goto(p, next) /\ NoTrouble
       \/ Fail(p) /\ Trouble /\ UNCHANGED schema
    /\ UNCHANGED <<version, images, assets, original, snapshot, cut, secret, held>>

Migrate(p)                 == AddParts(p, "images", {"images"}, "media")
ExtendedMigrate(p)         == AddParts(p, "media", {"media", "linkkey"}, "backfill")
migrateDashboardMetrics(p) == AddParts(p, "metrics", {"metrics"}, IF proc[p].from = 0 THEN "secrets" ELSE "linkkey")
migrateMediaLinkKey(p)     == AddParts(p, "linkkey", {"linkkey"}, "secrets")
migrateLocalSecrets(p)     == AddParts(p, "secrets", {"secrets"}, IF proc[p].from = 0 THEN "check" ELSE "record")

\* The end of ExtendedMigrate: INSERT OR IGNORE INTO media_assets ... FROM images.
BackfillAssets(p) ==
    /\ proc[p].pc = "backfill"
    /\ \/ assets' = assets \cup images /\ Goto(p, "metrics") /\ NoTrouble
       \/ Fail(p) /\ Trouble /\ UNCHANGED assets
    /\ UNCHANGED <<version, schema, images, original, snapshot, cut, secret, held>>

CheckMatched(p) ==
    /\ proc[p].pc = "check"
    /\ \/ images \subseteq assets /\ Goto(p, "record") /\ NoTrouble
       \/ ~(images \subseteq assets) /\ Fail(p) /\ NoTrouble
       \/ Fail(p) /\ Trouble
    /\ UNCHANGED <<library, original, snapshot, cut, secret, held>>

recordSchemaVersion(p) ==
    /\ proc[p].pc = "record"
    /\ \/ version' = CurrentVersion /\ Goto(p, "open") /\ NoTrouble
       \/ Fail(p) /\ Trouble /\ UNCHANGED version
    /\ UNCHANGED <<schema, images, assets, original, snapshot, cut, secret, held>>

(***************************************************************************)
(* What an open process does with the database.                            *)
(***************************************************************************)
\* The analysis of pictures writes the legacy table only.
SaveImage(p) ==
    /\ proc[p].pc = "open"
    /\ \E c \in Pictures \ images : images' = images \cup {c}
    /\ UNCHANGED <<version, schema, assets, original, snapshot, cut, proc, secret, held, trouble>>

HeldAs(p, k, s, v) == held' = [held EXCEPT ![p][k] = [pc |-> s, value |-> v]]

\* loadMediaSigningKey, GetOrCreateEndpointKey: the stored secret, or a new one.
ReadSecret(p, k) ==
    /\ proc[p].pc = "open" /\ held[p][k].pc \in {"unread", "reread"}
    /\ \/ secret[k] # Nil /\ HeldAs(p, k, "have", secret[k])
       \/ secret[k] = Nil /\ held[p][k].pc = "unread" /\ HeldAs(p, k, "make", Nil)
    /\ UNCHANGED <<library, original, snapshot, cut, proc, secret, trouble>>

\* Mutant: the candidate is used at once, whoever was first.
KeepCandidate(p, k) ==
    /\ proc[p].pc = "open" /\ held[p][k].pc = "make"
    /\ secret' = IF secret[k] = Nil THEN [secret EXCEPT ![k] = p] ELSE secret
    /\ HeldAs(p, k, "have", p)
    /\ UNCHANGED <<library, original, snapshot, cut, proc, trouble>>

\* The guarded UPDATE, or INSERT OR IGNORE; then the winner is read.
StoreSecret(p, k) ==
    /\ proc[p].pc = "open" /\ held[p][k].pc = "make"
    /\ secret' = IF secret[k] = Nil THEN [secret EXCEPT ![k] = p] ELSE secret
    /\ HeldAs(p, k, "reread", Nil)
    /\ UNCHANGED <<library, original, snapshot, cut, proc, trouble>>

\* A process dies at any time.
Die(p) ==
    /\ proc[p].pc # "closed" /\ Trouble
    /\ Fail(p) /\ held' = [held EXCEPT ![p] = [k \in Secrets |-> Unread]]
    /\ IF Writing(p) THEN snapshot' \in {Empty, Torn} /\ cut' = TRUE
       ELSE UNCHANGED <<snapshot, cut>>
    /\ UNCHANGED <<library, original, secret>>

OpenStep(p) ==
    \/ Open(p) \/ ReadVersion(p) \/ SnapshotBeforeMigration(p) \/ StartVacuum(p)
    \/ FinishVacuum(p) \/ VerifySnapshot(p)
    \/ Migrate(p) \/ ExtendedMigrate(p) \/ BackfillAssets(p) \/ migrateDashboardMetrics(p)
    \/ migrateMediaLinkKey(p) \/ migrateLocalSecrets(p) \/ CheckMatched(p) \/ recordSchemaVersion(p)

Next ==
    \E p \in Procs :
        \/ OpenStep(p) \/ SaveImage(p) \/ Die(p)
        \/ \E k \in Secrets : ReadSecret(p, k) \/ StoreSecret(p, k)

Spec == Init /\ [][Next]_vars

\* A process that fails to open the database is started again (the service unit, or
\* the user).
FairSpec == Spec /\ \A p \in Procs : WF_vars(OpenStep(p))

-----------------------------------------------------------------------------
Library == [version : 0..5, schema : SUBSET Parts, images : SUBSET Pictures]
TypeOK ==
    /\ version \in 0..5 /\ schema \subseteq Parts
    /\ images \subseteq Pictures /\ assets \subseteq Pictures
    /\ original \in Library /\ cut \in BOOLEAN
    /\ snapshot \in {Missing, Empty, Torn} \cup {Copy(v) : v \in Library}
    /\ proc \in [Procs ->
        [pc : {"closed", "version", "snapshot", "vacuum", "write", "verify", "images", "media", "backfill",
               "metrics", "linkkey", "secrets", "check", "record", "open"},
         existing : BOOLEAN, from : 0..4, view : Library \cup {Nil}]]
    /\ secret \in [Secrets -> Procs \cup {Nil}]
    /\ held \in [Procs -> [Secrets ->
        [pc : {"unread", "make", "reread", "have"}, value : Procs \cup {Nil}]]]
    /\ trouble \in 0..MaxTrouble

(***************************************************************************)
(* A recorded version is a promise: the schema is complete, and every      *)
(* picture of a library from before versions is in the catalogue,          *)
(* whichever process died where, and however two of them migrated at the   *)
(* same time.  (The later versions enter no picture: one that was analysed *)
(* under version 1, 2 or 3 may be missing in the catalogue for good.)      *)
(***************************************************************************)
OldPicturesListed == original.version = 0 => original.images \subseteq assets
VersionIsComplete == version = CurrentVersion => schema = Parts /\ OldPicturesListed

(***************************************************************************)
(* "An interrupted migration keeps its first pre-migration snapshot        *)
(* intact" (migrate_version.go:122): from the first change of an old       *)
(* library on, there is a file of that name, and it shows the library as   *)
(* it was, or a process is about to write just that.  The exception is a   *)
(* process that died in its VACUUM INTO: the empty file it left passes the *)
(* integrity check, so that the migration goes on without a copy, or a     *)
(* second process copies the library half migrated (`cut`).                *)
(***************************************************************************)
OldLibrary == original.version = 0 /\ original.schema # {}
SnapshotIsOriginal ==
    OldLibrary /\ (snapshot.state = "copy" \/ Contents # original) =>
        /\ snapshot # Missing
        /\ \/ cut \/ snapshot = Copy(original)
           \/ \E p \in Procs : Writing(p) /\ proc[p].view = original

(***************************************************************************)
(* All processes use the same secrets: the stored ones.                    *)
(***************************************************************************)
OneSecret ==
    \A p \in Procs, k \in Secrets : held[p][k].pc = "have" => held[p][k].value = secret[k]

(***************************************************************************)
(* A migration that was cut off is finished by the processes that come     *)
(* after, unless it was cut off in the snapshot: a torn one is never taken *)
(* again, and every attempt fails on it.                                   *)
(***************************************************************************)
MigrationFinishes == <>(version >= CurrentVersion \/ cut)

=============================================================================
