---------------------------- MODULE ServerProofs ----------------------------
(***************************************************************************)
(* The server process: it opens its library (SchemaMigration), and lives   *)
(* until it is idle (ServerLifecycle).  The two specifications share no    *)
(* variable.                                                               *)
(*                                                                         *)
(* For any number of processes, pictures, secrets and failures: the state  *)
(* of the library is well typed, a recorded version is kept, the snapshot  *)
(* shows the library from before the first migration, and all processes    *)
(* use one secret.  For any number of requests and any amount of work: the *)
(* counters of the server count what they stand for, the idle check cuts   *)
(* off no work that it could have seen, and every request is followed by   *)
(* the idle time.                                                          *)
(***************************************************************************)
EXTENDS SchemaMigration, ServerLifecycle, FiniteSetTheorems, TLAPS

-----------------------------------------------------------------------------
(* Opening the library.                                                    *)

(***************************************************************************)
(* What a process may count on where it is in the migration.  Parts and    *)
(* pictures are only added, so no other process takes it away.             *)
(***************************************************************************)
Has(p) ==
    /\ proc[p].pc = "write" => proc[p].view \in Library
    /\ proc[p].pc = "media" => "images" \in schema
    /\ proc[p].pc = "backfill" => {"images", "media", "linkkey"} \subseteq schema
    /\ proc[p].pc = "metrics" =>
           {"images", "media"} \subseteq schema /\ (proc[p].from = 0 => "linkkey" \in schema)
    /\ proc[p].pc = "linkkey" => {"images", "media", "metrics"} \subseteq schema
    /\ proc[p].pc = "secrets" => {"images", "media", "metrics", "linkkey"} \subseteq schema
    /\ proc[p].pc \in {"check", "record"} => schema = Parts
    /\ proc[p].pc \in {"metrics", "linkkey", "secrets", "check", "record"} => (original.version = 0 => original.images \subseteq assets)

\* A recorded version is complete, whichever it is.
VersionHas ==
    /\ version # 0 => SchemaOf[version] \subseteq schema /\ (original.version = 0 => original.images \subseteq assets)
    /\ original.images \subseteq images

\* A secret that a process uses is stored, and a stored secret stays.
HeldStored(p, k) == held[p][k].pc = "have" => held[p][k].value = secret[k] /\ secret[k] # Nil

LibInv ==
    /\ TypeOK /\ VersionHas
    /\ \A p \in Procs : Has(p)
    /\ \A p \in Procs, k \in Secrets : HeldStored(p, k)

Process == [pc : {"closed", "version", "snapshot", "vacuum", "write", "verify", "images", "media", "backfill",
                  "metrics", "linkkey", "secrets", "check", "record", "open"},
            existing : BOOLEAN, from : 0..4, view : Library \cup {Nil}]
Holding == [pc : {"unread", "make", "reread", "have"}, value : Procs \cup {Nil}]

LEMMA InitLibrary == Init => LibInv
<1> SUFFICES ASSUME Init PROVE LibInv
  OBVIOUS
<1> USE BoundsAssumption, NamesAssumption DEF Init
<1>1. schema \subseteq Parts /\ version \in 0..5 /\ images \subseteq Pictures /\ assets \subseteq Pictures
  <2>1. CASE version = 0
    BY <2>1 DEF Parts
  <2>2. CASE version # 0
    BY <2>2 DEF SchemaOf, Parts
  <2> QED BY <2>1, <2>2
<1>2. original \in Library /\ original.images = images /\ original.version = version
  BY <1>1 DEF Library, Contents
<1>3. proc \in [Procs -> Process] /\ \A p \in Procs : proc[p].pc = "closed"
  BY DEF Closed, Process
<1>4. held \in [Procs -> [Secrets -> Holding]]
  BY DEF Unread, Holding
<1>5. TypeOK
  <2>1. secret \in [Secrets -> Procs \cup {Nil}]
    OBVIOUS
  <2>3. trouble \in 0..MaxTrouble
    OBVIOUS
  <2>4. cut \in BOOLEAN
    OBVIOUS
  <2>2. snapshot \in {Missing, Empty, Torn} \cup {Copy(v) : v \in Library}
    OBVIOUS
  <2> QED BY ONLY <1>1, <1>2, <1>3, <1>4, <2>1, <2>2, <2>3, <2>4 DEF TypeOK, Process, Holding
<1>6. VersionHas
  BY <1>1, <1>2 DEF VersionHas
<1>7. \A p \in Procs : Has(p)
  BY <1>3 DEF Has
<1>8. \A p \in Procs, k \in Secrets : HeldStored(p, k)
  BY DEF HeldStored, Unread
<1> QED BY <1>5, <1>6, <1>7, <1>8 DEF LibInv

LEMMA TroubleType == ASSUME TypeOK, Trouble \/ NoTrouble PROVE trouble' \in 0..MaxTrouble
BY BoundsAssumption DEF TypeOK, Trouble, NoTrouble

\* Whatever process p does: the library grows, and p alone changes its place.
Grows(p) ==
    /\ original' = original /\ schema \subseteq schema' /\ assets \subseteq assets'
    /\ proc' = [proc EXCEPT ![p] = proc'[p]]

LEMMA HasKept ==
    ASSUME LibInv, NEW p \in Procs, Grows(p), schema' \subseteq Parts, Has(p)'
    PROVE  \A q \in Procs : Has(q)'
<1> SUFFICES ASSUME NEW q \in Procs, q # p PROVE Has(q)'
  OBVIOUS
<1>1. proc'[q] = proc[q]
  BY DEF Grows, LibInv, TypeOK
<1> QED BY <1>1 DEF Grows, LibInv, Has

(***************************************************************************)
(* Opening the library.                                                    *)
(***************************************************************************)
LEMMA Failing ==
    ASSUME LibInv, NEW p \in Procs, Fail(p)
    PROVE  /\ proc' = [proc EXCEPT ![p] = proc'[p]]
           /\ proc'[p] \in Process /\ Has(p)'
<1>1. proc'[p] = Closed /\ proc' = [proc EXCEPT ![p] = proc'[p]]
  BY DEF Fail, LibInv, TypeOK
<1> QED BY <1>1 DEF Closed, Process, Has

LEMMA Entering ==
    ASSUME LibInv, NEW p \in Procs, ReadVersion(p) \/ Open(p)
    PROVE  /\ proc' = [proc EXCEPT ![p] = proc'[p]]
           /\ proc'[p] \in Process /\ Has(p)'
<1>0. proc \in [Procs -> Process] /\ proc[p] \in Process /\ version \in 0..5
  BY DEF LibInv, TypeOK, Process
<1>1. CASE Open(p)
  <2>1. proc'[p] = [proc[p] EXCEPT !.pc = "version", !.existing = (schema # {})]
    BY <1>0, <1>1 DEF Open
  <2>2. proc' = [proc EXCEPT ![p] = proc'[p]]
    BY <1>0, <1>1, <2>1 DEF Open
  <2>3. proc'[p] \in Process /\ proc'[p].pc = "version"
    BY <1>0, <2>1 DEF Process
  <2> QED BY <2>2, <2>3 DEF Has
<1>2. CASE ReadVersion(p) /\ Fail(p)
  BY <1>2, Failing
<1>3. CASE ReadVersion(p) /\ ~Fail(p)
  <2>1. /\ version \in 0..4
        /\ proc' = [proc EXCEPT ![p].pc = Entry(p, version), ![p].from = version]
        /\ UNCHANGED <<schema, original, assets>>
    BY <1>0, <1>3 DEF ReadVersion, CurrentVersion, library
  <2>2. /\ Entry(p, version) \in {"open", "secrets", "linkkey", "metrics", "snapshot", "images"}
        /\ Entry(p, version) = "secrets" => version = 3
        /\ Entry(p, version) = "linkkey" => version = 2
        /\ Entry(p, version) = "metrics" => version = 1
    BY <2>1 DEF Entry
  <2>3. proc'[p] = [proc[p] EXCEPT !.pc = Entry(p, version), !.from = version]
    BY <1>0, <2>1
  <2>4. proc' = [proc EXCEPT ![p] = proc'[p]]
    BY <1>0, <2>1, <2>3
  <2>5. proc'[p] \in Process /\ proc'[p].pc = Entry(p, version) /\ proc'[p].from = version
    BY <1>0, <2>1, <2>2, <2>3 DEF Process
  <2>6. /\ SchemaOf[1] = {"images", "media"}
        /\ SchemaOf[2] = {"images", "media", "metrics"}
        /\ SchemaOf[3] = {"images", "media", "metrics", "linkkey"}
    BY DEF SchemaOf
  <2>7. Has(p)'
    BY <2>1, <2>2, <2>5, <2>6 DEF Has, LibInv, VersionHas
  <2> QED BY <2>4, <2>5, <2>7
<1> QED BY <1>1, <1>2, <1>3

LEMMA GoesTo ==
    ASSUME LibInv, NEW p \in Procs, NEW s, Goto(p, s),
           s \in {"vacuum", "verify", "images", "media", "backfill", "metrics", "linkkey", "secrets",
                  "check", "record", "open"}
    PROVE  /\ proc' = [proc EXCEPT ![p] = proc'[p]] /\ proc'[p] \in Process
           /\ proc'[p].pc = s /\ proc'[p].from = proc[p].from
<1>0. proc \in [Procs -> Process] /\ proc[p] \in Process
  BY DEF LibInv, TypeOK, Process
<1>1. proc'[p] = [proc[p] EXCEPT !.pc = s] /\ proc' = [proc EXCEPT ![p] = proc'[p]]
  BY <1>0 DEF Goto
<1> QED BY <1>0, <1>1 DEF Process

SnapshotStep(p) == SnapshotBeforeMigration(p) \/ StartVacuum(p) \/ FinishVacuum(p) \/ VerifySnapshot(p)

LEMMA SnapshotKeeps ==
    ASSUME LibInv, NEW p \in Procs, SnapshotStep(p)
    PROVE  /\ proc' = [proc EXCEPT ![p] = proc'[p]]
           /\ proc'[p] \in Process /\ Has(p)'
           /\ snapshot' \in {Missing, Empty, Torn} \cup {Copy(v) : v \in Library}
<1>0. proc \in [Procs -> Process] /\ proc[p] \in Process
  BY DEF LibInv, TypeOK, Process
<1>1. Contents \in Library
  BY DEF LibInv, TypeOK, Contents, Library
<1>2. snapshot' \in {Missing, Empty, Torn} \cup {Copy(v) : v \in Library}
  <2>1. CASE FinishVacuum(p)
    BY <2>1 DEF FinishVacuum, Writing, LibInv, Has
  <2>2. CASE ~FinishVacuum(p)
    BY <2>2 DEF SnapshotStep, SnapshotBeforeMigration, StartVacuum, VerifySnapshot, LibInv, TypeOK
  <2> QED BY <2>1, <2>2
<1>3. CASE Fail(p)
  BY <1>2, <1>3, Failing
<1>4. ASSUME NEW s \in {"vacuum", "verify", "images"}, Goto(p, s)
      PROVE  proc' = [proc EXCEPT ![p] = proc'[p]] /\ proc'[p] \in Process /\ Has(p)'
  BY <1>4, GoesTo DEF Has
<1>5. CASE StartVacuum(p) /\ ~Fail(p)
  <2>1. proc'[p] = [proc[p] EXCEPT !.pc = "write", !.view = Contents] /\ proc' = [proc EXCEPT ![p] = proc'[p]]
    BY <1>0, <1>5 DEF StartVacuum
  <2>2. proc'[p] \in Process /\ proc'[p].pc = "write" /\ proc'[p].view = Contents
    BY <1>0, <1>1, <2>1 DEF Process
  <2>3. Library' = Library
    BY DEF Library
  <2> QED BY <1>1, <1>2, <2>1, <2>2, <2>3 DEF Has
<1>6. CASE FinishVacuum(p) /\ ~Fail(p)
  <2>1. proc'[p] = [proc[p] EXCEPT !.pc = "verify", !.view = Nil] /\ proc' = [proc EXCEPT ![p] = proc'[p]]
    BY <1>0, <1>6 DEF FinishVacuum
  <2>2. proc'[p] \in Process /\ proc'[p].pc = "verify"
    BY <1>0, <2>1 DEF Process
  <2> QED BY <1>2, <2>1, <2>2 DEF Has
<1>7. CASE SnapshotBeforeMigration(p) \/ (VerifySnapshot(p) /\ ~Fail(p))
  <2>1. \E s \in {"vacuum", "verify", "images"} : Goto(p, s)
    BY <1>7 DEF SnapshotBeforeMigration, VerifySnapshot
  <2> QED BY <1>2, <1>4, <2>1
<1> QED BY <1>3, <1>5, <1>6, <1>7 DEF SnapshotStep

MigrateStep(p) ==
    \/ Migrate(p) \/ ExtendedMigrate(p) \/ BackfillAssets(p) \/ migrateDashboardMetrics(p)
    \/ migrateMediaLinkKey(p) \/ migrateLocalSecrets(p) \/ CheckMatched(p) \/ recordSchemaVersion(p)

LEMMA MigrateKeeps ==
    ASSUME LibInv, NEW p \in Procs, MigrateStep(p)
    PROVE  /\ Grows(p) /\ proc'[p] \in Process /\ Has(p)'
           /\ schema' \subseteq Parts /\ assets' \subseteq Pictures /\ images' = images
           /\ \/ version' = version
              \/ /\ version' = 4 /\ schema' = Parts
                 /\ original.version = 0 => original.images \subseteq assets'
<1> USE DEF Added, AddParts
<1>0. /\ schema \subseteq Parts /\ assets \subseteq Pictures /\ images \subseteq Pictures
      /\ original.images \subseteq images /\ Has(p)
  BY DEF LibInv, TypeOK, VersionHas
<1>1. /\ original' = original /\ images' = images /\ schema \subseteq schema' /\ assets \subseteq assets'
      /\ schema' \subseteq Parts /\ assets' \subseteq Pictures
  BY <1>0 DEF MigrateStep, Migrate, ExtendedMigrate, BackfillAssets, migrateDashboardMetrics,
     migrateMediaLinkKey, migrateLocalSecrets, CheckMatched, recordSchemaVersion, library, Parts
<1>2. CASE Fail(p)
  <2>1. version' = version \/ recordSchemaVersion(p)
    BY DEF MigrateStep, Migrate, ExtendedMigrate, BackfillAssets, migrateDashboardMetrics,
       migrateMediaLinkKey, migrateLocalSecrets, CheckMatched, library
  <2>2. recordSchemaVersion(p) => /\ schema' = Parts /\ version' \in {version, 4}
                                  /\ original.version = 0 => original.images \subseteq assets'
    BY <1>0 DEF recordSchemaVersion, Has, CurrentVersion
  <2> QED BY <1>1, <1>2, <2>1, <2>2, Failing DEF Grows
<1>3. ASSUME NEW s \in {"media", "backfill", "metrics", "linkkey", "secrets", "check", "record", "open"},
             Goto(p, s)
      PROVE  /\ Grows(p) /\ proc'[p] \in Process /\ proc'[p].pc = s /\ proc'[p].from = proc[p].from
  BY <1>1, <1>3, GoesTo DEF Grows
<1>4. CASE Migrate(p) /\ ~Fail(p)
  <2>1. Goto(p, "media") /\ "images" \in schema' /\ version' = version
    BY <1>4 DEF Migrate
  <2>2. Grows(p) /\ proc'[p] \in Process /\ proc'[p].pc = "media"
    BY <1>3, <2>1
  <2> QED BY <1>1, <2>1, <2>2 DEF Has
<1>5. CASE ExtendedMigrate(p) /\ ~Fail(p)
  <2>1. Goto(p, "backfill") /\ {"images", "media", "linkkey"} \subseteq schema' /\ version' = version
    BY <1>0, <1>5 DEF ExtendedMigrate, Has
  <2>2. Grows(p) /\ proc'[p] \in Process /\ proc'[p].pc = "backfill"
    BY <1>3, <2>1
  <2> QED BY <1>1, <2>1, <2>2 DEF Has
<1>6. CASE BackfillAssets(p) /\ ~Fail(p)
  <2>1. /\ Goto(p, "metrics") /\ {"images", "media", "linkkey"} \subseteq schema' /\ version' = version
        /\ original.version = 0 => original.images \subseteq assets'
    BY <1>0, <1>6 DEF BackfillAssets, Has
  <2>2. Grows(p) /\ proc'[p] \in Process /\ proc'[p].pc = "metrics"
    BY <1>3, <2>1
  <2> QED BY <1>1, <2>1, <2>2 DEF Has
<1>7. CASE migrateDashboardMetrics(p) /\ ~Fail(p)
  <2> DEFINE s == IF proc[p].from = 0 THEN "secrets" ELSE "linkkey"
  <2>1. /\ Goto(p, s) /\ {"images", "media", "metrics"} \subseteq schema' /\ version' = version
        /\ proc[p].from = 0 => "linkkey" \in schema'
        /\ original.version = 0 => original.images \subseteq assets'
    BY <1>0, <1>7 DEF migrateDashboardMetrics, Has
  <2>2. s \in {"secrets", "linkkey"}
    OBVIOUS
  <2>3. Grows(p) /\ proc'[p] \in Process /\ proc'[p].pc = s
    BY <1>3, <2>1, <2>2
  <2> QED BY <1>1, <2>1, <2>3 DEF Has
<1>8. CASE migrateMediaLinkKey(p) /\ ~Fail(p)
  <2>1. /\ Goto(p, "secrets") /\ {"images", "media", "metrics", "linkkey"} \subseteq schema'
        /\ version' = version /\ (original.version = 0 => original.images \subseteq assets')
    BY <1>0, <1>8 DEF migrateMediaLinkKey, Has
  <2>2. Grows(p) /\ proc'[p] \in Process /\ proc'[p].pc = "secrets"
    BY <1>3, <2>1
  <2> QED BY <1>1, <2>1, <2>2 DEF Has
<1>9. CASE migrateLocalSecrets(p) /\ ~Fail(p)
  <2> DEFINE s == IF proc[p].from = 0 THEN "check" ELSE "record"
  <2>1. /\ Goto(p, s) /\ schema' = Parts
        /\ version' = version /\ (original.version = 0 => original.images \subseteq assets')
    BY <1>0, <1>9 DEF migrateLocalSecrets, Has, Parts
  <2>2. s \in {"check", "record"}
    OBVIOUS
  <2>3. Grows(p) /\ proc'[p] \in Process /\ proc'[p].pc = s
    BY <1>3, <2>1, <2>2
  <2> QED BY <1>1, <2>1, <2>3 DEF Has
<1>10. CASE CheckMatched(p) /\ ~Fail(p)
  <2>1. /\ Goto(p, "record") /\ schema' = Parts
        /\ version' = version /\ (original.version = 0 => original.images \subseteq assets')
    BY <1>0, <1>10 DEF CheckMatched, Has, library
  <2>2. Grows(p) /\ proc'[p] \in Process /\ proc'[p].pc = "record"
    BY <1>3, <2>1
  <2> QED BY <1>1, <2>1, <2>2 DEF Has
<1>11. CASE recordSchemaVersion(p) /\ ~Fail(p)
  <2>1. /\ Goto(p, "open") /\ schema' = Parts
        /\ version' = 4 /\ (original.version = 0 => original.images \subseteq assets')
    BY <1>0, <1>11 DEF recordSchemaVersion, Has, CurrentVersion
  <2>2. Grows(p) /\ proc'[p] \in Process /\ proc'[p].pc = "open"
    BY <1>3, <2>1
  <2> QED BY <1>1, <2>1, <2>2 DEF Has
<1> QED BY <1>2, <1>4, <1>5, <1>6, <1>7, <1>8, <1>9, <1>10, <1>11 DEF MigrateStep

LEMMA OpenKeeps == ASSUME LibInv, NEW p \in Procs, OpenStep(p) PROVE LibInv'
<1>1. /\ UNCHANGED <<original, images, secret, held>>
      /\ cut' \in BOOLEAN /\ trouble' \in 0..MaxTrouble
  <2>1. Trouble \/ NoTrouble
    BY DEF OpenStep, Open, ReadVersion, SnapshotBeforeMigration, StartVacuum, FinishVacuum, VerifySnapshot,
       Migrate, ExtendedMigrate, BackfillAssets, migrateDashboardMetrics, migrateMediaLinkKey,
       migrateLocalSecrets, CheckMatched, recordSchemaVersion, AddParts, NoTrouble
  <2>2. UNCHANGED <<original, images, secret, held>> /\ cut' \in {cut, TRUE}
    BY DEF OpenStep, Open, ReadVersion, SnapshotBeforeMigration, StartVacuum, FinishVacuum, VerifySnapshot,
       Migrate, ExtendedMigrate, BackfillAssets, migrateDashboardMetrics, migrateMediaLinkKey,
       migrateLocalSecrets, CheckMatched, recordSchemaVersion, AddParts, library
  <2> QED BY <2>1, <2>2, TroubleType DEF LibInv, TypeOK
<1>2. CASE Open(p) \/ ReadVersion(p) \/ SnapshotStep(p)
  <2>1. UNCHANGED <<version, schema, assets>>
    BY <1>2 DEF Open, ReadVersion, SnapshotStep, SnapshotBeforeMigration, StartVacuum, FinishVacuum,
                VerifySnapshot, library
  <2>2. /\ proc' = [proc EXCEPT ![p] = proc'[p]]
        /\ proc'[p] \in Process /\ Has(p)'
    BY <1>2, Entering, SnapshotKeeps
  <2>3. Grows(p) /\ schema' \subseteq Parts
    BY <1>1, <2>1, <2>2 DEF Grows, LibInv, TypeOK
  <2>4. snapshot' \in {Missing, Empty, Torn} \cup {Copy(v) : v \in Library}
    <3>1. CASE SnapshotStep(p)
      BY <3>1, SnapshotKeeps
    <3>2. CASE Open(p) \/ ReadVersion(p)
      BY <3>2 DEF Open, ReadVersion, LibInv, TypeOK
    <3> QED BY <1>2, <3>1, <3>2
  <2>5. proc' \in [Procs -> Process]
    BY <2>2 DEF LibInv, TypeOK, Process
  <2>6. TypeOK'
    BY <1>1, <2>1, <2>4, <2>5 DEF LibInv, TypeOK, Library, Process
  <2>7. VersionHas'
    BY <1>1, <2>1 DEF LibInv, VersionHas
  <2>8. \A q \in Procs, k \in Secrets : HeldStored(q, k)'
    BY <1>1 DEF LibInv, HeldStored
  <2> QED BY <2>2, <2>3, <2>6, <2>7, <2>8, HasKept DEF LibInv
<1>3. CASE MigrateStep(p)
  <2>1. /\ Grows(p) /\ proc'[p] \in Process /\ Has(p)'
        /\ schema' \subseteq Parts /\ assets' \subseteq Pictures
        /\ \/ version' = version
              \/ /\ version' = 4 /\ schema' = Parts
                 /\ original.version = 0 => original.images \subseteq assets'
    BY <1>3, MigrateKeeps
  <2>2. snapshot' = snapshot
    BY <1>3 DEF MigrateStep, Migrate, ExtendedMigrate, BackfillAssets, migrateDashboardMetrics,
       migrateMediaLinkKey, migrateLocalSecrets, CheckMatched, recordSchemaVersion, AddParts
  <2>3. proc' \in [Procs -> Process] /\ version' \in 0..5
    <3>1. proc \in [Procs -> Process] /\ version \in 0..5
      BY DEF LibInv, TypeOK, Process
    <3>2. proc' = [proc EXCEPT ![p] = proc'[p]]
      BY <2>1 DEF Grows
    <3> QED BY <2>1, <3>1, <3>2
  <2>4. TypeOK'
    BY <1>1, <2>1, <2>2, <2>3 DEF LibInv, TypeOK, Library, Process
  <2>5. VersionHas'
    <3>1. SchemaOf[4] = Parts
      BY DEF SchemaOf
    <3> QED BY <1>1, <2>1, <3>1 DEF LibInv, VersionHas, Grows
  <2>6. \A q \in Procs, k \in Secrets : HeldStored(q, k)'
    BY <1>1 DEF LibInv, HeldStored
  <2> QED BY <2>1, <2>4, <2>5, <2>6, HasKept DEF LibInv
<1> QED BY <1>2, <1>3 DEF OpenStep, SnapshotStep, MigrateStep

(***************************************************************************)
(* The secrets.                                                            *)
(***************************************************************************)
LEMMA SecretKeeps ==
    ASSUME LibInv, NEW p \in Procs, NEW k \in Secrets, ReadSecret(p, k) \/ StoreSecret(p, k)
    PROVE  LibInv'
<1>0. held \in [Procs -> [Secrets -> Holding]] /\ secret \in [Secrets -> Procs \cup {Nil}]
  BY DEF LibInv, TypeOK, Holding
<1>1. /\ UNCHANGED <<library, original, snapshot, cut, proc, trouble>>
      /\ secret' \in [Secrets -> Procs \cup {Nil}]
      /\ \A j \in Secrets : secret[j] # Nil => secret'[j] = secret[j]
  BY <1>0 DEF ReadSecret, StoreSecret
<1>2. PICK s \in {"make", "reread", "have"}, v \in Procs \cup {Nil} :
         /\ HeldAs(p, k, s, v)
         /\ s = "have" => v = secret'[k] /\ v # Nil
  BY <1>0 DEF ReadSecret, StoreSecret
<1>3. /\ held' = [held EXCEPT ![p] = [held[p] EXCEPT ![k] = [pc |-> s, value |-> v]]]
      /\ [pc |-> s, value |-> v] \in Holding
  BY <1>0, <1>2 DEF HeldAs, Holding
<1>4. held' \in [Procs -> [Secrets -> Holding]]
  BY <1>0, <1>3
<1>5. \A q \in Procs, j \in Secrets : HeldStored(q, j)'
  <2> SUFFICES ASSUME NEW q \in Procs, NEW j \in Secrets PROVE HeldStored(q, j)'
    OBVIOUS
  <2>1. CASE q = p /\ j = k
    <3>1. held'[q][j] = [pc |-> s, value |-> v]
      BY <1>0, <1>3, <2>1
    <3> QED BY <1>2, <2>1, <3>1 DEF HeldStored
  <2>2. CASE ~(q = p /\ j = k)
    <3>1. held'[q][j] = held[q][j]
      BY <1>0, <1>3, <2>2
    <3> QED BY <1>1, <3>1 DEF HeldStored, LibInv
  <2> QED BY <2>1, <2>2
<1>6. TypeOK'
  BY <1>1, <1>4 DEF LibInv, TypeOK, library, Holding
<1>7. VersionHas' /\ \A q \in Procs : Has(q)'
  BY <1>1 DEF LibInv, VersionHas, Has, library
<1> QED BY <1>5, <1>6, <1>7 DEF LibInv

LEMMA LibraryStep == LibInv /\ [Next]_vars => LibInv'
<1> SUFFICES ASSUME LibInv, [Next]_vars PROVE LibInv'
  OBVIOUS
<1>1. ASSUME NEW p \in Procs, OpenStep(p) PROVE LibInv'
  BY <1>1, OpenKeeps
<1>2. ASSUME NEW p \in Procs, SaveImage(p) PROVE LibInv'
  <2>1. /\ images \subseteq images' /\ images' \subseteq Pictures
        /\ UNCHANGED <<version, schema, assets, original, snapshot, cut, proc, secret, held, trouble>>
    BY <1>2 DEF SaveImage, LibInv, TypeOK
  <2>2. TypeOK'
    BY <2>1 DEF LibInv, TypeOK
  <2> QED BY <2>1, <2>2 DEF LibInv, VersionHas, Has, HeldStored
<1>3. ASSUME NEW p \in Procs, Die(p) PROVE LibInv'
  <2>1. /\ UNCHANGED <<library, original, secret>> /\ cut' \in {cut, TRUE}
        /\ snapshot' \in {snapshot, Empty, Torn} /\ trouble' \in 0..MaxTrouble
        /\ held' = [held EXCEPT ![p] = [k \in Secrets |-> Unread]] /\ Fail(p)
    BY <1>3, TroubleType DEF Die, LibInv
  <2>2. proc' = [proc EXCEPT ![p] = proc'[p]] /\ proc'[p] \in Process /\ Has(p)'
    BY <2>1, Failing
  <2>3. held' \in [Procs -> [Secrets -> Holding]]
    BY <2>1 DEF LibInv, TypeOK, Holding, Unread
  <2>4. TypeOK'
    BY <2>1, <2>2, <2>3 DEF LibInv, TypeOK, library, Library, Process, Holding
  <2>5. \A q \in Procs : Has(q)'
    BY <2>1, <2>2, HasKept DEF Grows, library, LibInv, TypeOK
  <2>6. \A q \in Procs, k \in Secrets : HeldStored(q, k)'
    <3> SUFFICES ASSUME NEW q \in Procs, NEW k \in Secrets PROVE HeldStored(q, k)'
      OBVIOUS
    <3>1. held'[q] \in {held[q], [j \in Secrets |-> Unread]}
      BY <2>1 DEF LibInv, TypeOK
    <3> QED BY <2>1, <3>1 DEF LibInv, HeldStored, Unread
  <2>7. VersionHas'
    BY <2>1 DEF LibInv, VersionHas, library
  <2> QED BY <2>4, <2>5, <2>6, <2>7 DEF LibInv
<1>4. ASSUME NEW p \in Procs, NEW k \in Secrets, ReadSecret(p, k) \/ StoreSecret(p, k) PROVE LibInv'
  BY <1>4, SecretKeeps
<1>5. CASE UNCHANGED vars
  BY <1>5 DEF vars, LibInv, TypeOK, VersionHas, Has, HeldStored
<1> QED BY <1>1, <1>2, <1>3, <1>4, <1>5 DEF Next

(***************************************************************************)
(* The state of the library and of the processes that open it is well      *)
(* typed; in particular a snapshot is a copy of some state of the library. *)
(***************************************************************************)
THEOREM LibraryTypeCorrect == Spec => []TypeOK
<1>1. LibInv => TypeOK
  BY DEF LibInv
<1> QED BY <1>1, InitLibrary, LibraryStep, PTL DEF Spec

(***************************************************************************)
(* Whoever reads the current version finds the whole schema, and the       *)
(* pictures of the old library in the catalogue: however many processes    *)
(* migrate together and wherever they die.                                 *)
(***************************************************************************)
THEOREM VersionKept == Spec => []VersionIsComplete
<1>1. LibInv => VersionIsComplete
  <2>1. SchemaOf[4] = Parts
    BY DEF SchemaOf
  <2> SUFFICES ASSUME LibInv, version = 4 PROVE schema = Parts /\ OldPicturesListed
    BY DEF VersionIsComplete, CurrentVersion, OldPicturesListed
  <2>2. schema \subseteq Parts
    BY DEF LibInv, TypeOK
  <2>3. SchemaOf[version] \subseteq schema /\ OldPicturesListed
    BY DEF LibInv, VersionHas, OldPicturesListed
  <2> QED BY <2>1, <2>2, <2>3
<1> QED BY <1>1, InitLibrary, LibraryStep, PTL DEF Spec

(***************************************************************************)
(* No two processes ever use different secrets.                            *)
(***************************************************************************)
THEOREM SecretAgreed == Spec => []OneSecret
<1>1. LibInv => OneSecret
  BY DEF LibInv, HeldStored, OneSecret
<1> QED BY <1>1, InitLibrary, LibraryStep, PTL DEF Spec

(***************************************************************************)
(* The snapshot of an old library.  Nobody changes the library while there *)
(* is none; the one who starts to write it holds a read transaction of the *)
(* library as it was, and nobody else can start.                           *)
(***************************************************************************)
Before == {"closed", "version", "snapshot", "vacuum"}

SnapshotWatched ==
    /\ schema # {} /\ \A p \in Procs : proc[p].pc = "version" => proc[p].existing
    /\ snapshot = Missing => Contents = original /\ \A p \in Procs : proc[p].pc \in Before
    /\ \A p \in Procs : proc[p].pc = "write" => proc[p].view = original
    /\ snapshot \in {Missing, Empty, Copy(original)}
    /\ snapshot = Empty => \E p \in Procs : proc[p].pc = "write"

\* A process that died while it wrote left a file.
CutLeaves == cut => snapshot # Missing

SnapInv == LibInv /\ CutLeaves /\ (OldLibrary /\ ~cut => SnapshotWatched)

LEMMA SnapshotStates == \A v : Missing # Empty /\ Missing # Copy(v) /\ Empty # Copy(v) /\ Torn # Copy(v)
<1> TAKE v
<1>1. Missing.state = "missing" /\ Empty.state = "empty" /\ Torn.state = "torn" /\ Copy(v).state = "copy"
  BY DEF Missing, Empty, Torn, Copy
<1> QED BY <1>1

LEMMA InitSnapshot == Init => SnapInv
<1> SUFFICES ASSUME Init PROVE SnapInv
  OBVIOUS
<1>1. /\ original = Contents /\ snapshot = Missing
      /\ \A p \in Procs : proc[p].pc = "closed"
  BY DEF Init, Closed
<1>2. OldLibrary => schema # {}
  BY <1>1 DEF OldLibrary, Contents
<1> QED BY <1>1, <1>2, InitLibrary, SnapshotStates DEF Init, SnapInv, CutLeaves, SnapshotWatched, Before

LEMMA Moved ==
    ASSUME LibInv, NEW p \in Procs
    PROVE  /\ proc[p] \in Process
           /\ Fail(p) => proc'[p].pc = "closed"
           /\ \A s : Goto(p, s) => proc'[p].pc = s
<1>1. proc \in [Procs -> Process] /\ proc[p] \in Process
  BY DEF LibInv, TypeOK, Process
<1>2. Fail(p) => proc'[p].pc = "closed"
  BY <1>1 DEF Fail, Closed
<1>3. ASSUME NEW s, Goto(p, s) PROVE proc'[p].pc = s
  <2>1. proc'[p] = [proc[p] EXCEPT !.pc = s]
    BY <1>1, <1>3 DEF Goto
  <2> QED BY <1>1, <2>1 DEF Process
<1> QED BY <1>1, <1>2, <1>3

LEMMA OpenWatched ==
    ASSUME LibInv, OldLibrary, ~cut', SnapshotWatched, NEW p \in Procs, OpenStep(p)
    PROVE  SnapshotWatched'
<1>0. /\ proc \in [Procs -> Process] /\ version \in 0..5
      /\ original.version = 0 /\ original' = original
      /\ \A q \in Procs \ {p} : proc'[q] = proc[q]
  <2>1. proc \in [Procs -> Process] /\ version \in 0..5 /\ original.version = 0
    BY DEF LibInv, TypeOK, Process, OldLibrary
  <2>2. original' = original
    BY DEF OpenStep, Open, ReadVersion, SnapshotBeforeMigration, StartVacuum, FinishVacuum, VerifySnapshot,
       Migrate, ExtendedMigrate, BackfillAssets, migrateDashboardMetrics, migrateMediaLinkKey,
       migrateLocalSecrets, CheckMatched, recordSchemaVersion, AddParts
  <2>3. \A q \in Procs \ {p} : proc'[q] = proc[q]
    BY <2>1 DEF OpenStep, Open, ReadVersion, SnapshotBeforeMigration, StartVacuum, FinishVacuum, VerifySnapshot,
       Migrate, ExtendedMigrate, BackfillAssets, migrateDashboardMetrics, migrateMediaLinkKey,
       migrateLocalSecrets, CheckMatched, recordSchemaVersion, AddParts, Goto, Fail
  <2> QED BY <2>1, <2>2, <2>3
<1>1. CASE Open(p) \/ ReadVersion(p)
  <2>1. UNCHANGED <<library, snapshot>>
    BY <1>1 DEF Open, ReadVersion
  <2>2. \/ proc'[p].pc = "closed"
        \/ Open(p) /\ proc'[p].pc = "version" /\ proc'[p].existing = (schema # {})
        \/ ReadVersion(p) /\ proc'[p].pc = Entry(p, version)
    <3>1. CASE Open(p)
      <4>1. proc'[p] = [proc[p] EXCEPT !.pc = "version", !.existing = (schema # {})]
        BY <1>0, <3>1 DEF Open
      <4> QED BY <3>1, <4>1, Moved DEF Process
    <3>2. CASE ReadVersion(p) /\ ~Fail(p)
      <4>1. proc'[p] = [proc[p] EXCEPT !.pc = Entry(p, version), !.from = version]
        BY <1>0, <3>2 DEF ReadVersion
      <4> QED BY <3>2, <4>1, Moved DEF Process
    <3> QED BY <1>1, <3>1, <3>2, Moved
  <2>3. /\ proc[p].pc # "write" /\ proc'[p].pc # "write"
        /\ proc'[p].pc = "version" => proc'[p].existing
    <3>1. Entry(p, version) \notin {"version", "write"}
      BY DEF Entry
    <3>2. proc[p].pc # "write" /\ schema # {}
      BY <1>1 DEF Open, ReadVersion, SnapshotWatched
    <3> QED BY <2>2, <3>1, <3>2
  <2>4. snapshot = Missing => proc'[p].pc \in Before
    <3> SUFFICES ASSUME snapshot = Missing PROVE proc'[p].pc \in Before
      OBVIOUS
    <3>1. version = 0
      BY <1>0 DEF SnapshotWatched, Contents
    <3>2. proc[p].pc = "version" => proc[p].existing
      BY DEF SnapshotWatched
    <3>3. ReadVersion(p) => Entry(p, version) = "snapshot"
      BY <3>1, <3>2 DEF ReadVersion, Entry
    <3> QED BY <2>2, <3>3 DEF Before
  <2> QED BY <1>0, <2>1, <2>2, <2>3, <2>4 DEF library, Contents, SnapshotWatched
<1>2. CASE SnapshotBeforeMigration(p) \/ VerifySnapshot(p)
  <2>1. UNCHANGED <<library, snapshot>> /\ proc[p].pc \in {"snapshot", "verify"}
    BY <1>2 DEF SnapshotBeforeMigration, VerifySnapshot
  <2>2. proc'[p].pc \in {"vacuum", "verify", "images", "closed"}
    BY <1>2, Moved DEF SnapshotBeforeMigration, VerifySnapshot
  <2>3. snapshot = Missing => proc'[p].pc \in Before
    <3>1. snapshot = Missing => SnapshotBeforeMigration(p)
      BY <1>2 DEF VerifySnapshot, SnapshotWatched, Before
    <3> QED BY <3>1, Moved DEF SnapshotBeforeMigration, SnapshotDue, Before
  <2> QED BY <1>0, <2>1, <2>2, <2>3 DEF library, Contents, SnapshotWatched
<1>3. CASE StartVacuum(p)
  <2>1. UNCHANGED library /\ proc[p].pc = "vacuum"
    BY <1>3 DEF StartVacuum
  <2>2. CASE snapshot = Missing
    <3>1. Contents = original /\ snapshot' = Empty
      BY <1>3, <2>2 DEF StartVacuum, SnapshotWatched
    <3>2. proc'[p].pc = "write" /\ proc'[p].view = original
      <4>1. proc'[p] = [proc[p] EXCEPT !.pc = "write", !.view = Contents]
        BY <1>0, <1>3, <2>2 DEF StartVacuum
      <4> QED BY <3>1, <4>1, Moved DEF Process
    <3> QED BY <1>0, <2>1, <3>1, <3>2, SnapshotStates DEF library, SnapshotWatched
  <2>3. CASE snapshot # Missing
    <3>1. snapshot' = snapshot /\ proc'[p].pc = "closed"
      BY <1>3, <2>3, Moved DEF StartVacuum, Writing, SnapshotWatched
    <3> QED BY <1>0, <2>1, <2>3, <3>1 DEF library, SnapshotWatched
  <2> QED BY <2>2, <2>3
<1>4. CASE FinishVacuum(p)
  <2>1. /\ UNCHANGED library /\ proc[p].view = original
        /\ snapshot' = Copy(proc[p].view) /\ proc' = [proc EXCEPT ![p].pc = "verify", ![p].view = Nil]
    BY <1>4 DEF FinishVacuum, Writing, SnapshotWatched
  <2>2. proc'[p].pc = "verify" /\ snapshot' = Copy(original)
    <3>1. proc'[p] = [proc[p] EXCEPT !.pc = "verify", !.view = Nil]
      BY <1>0, <2>1
    <3>2. proc'[p].pc = "verify"
      BY <3>1, Moved DEF Process
    <3>3. snapshot' = Copy(original)
      BY <2>1 DEF Copy
    <3> QED BY <3>2, <3>3
  <2> QED BY <1>0, <2>1, <2>2, SnapshotStates DEF library, SnapshotWatched
<1>5. CASE MigrateStep(p)
  <2>1. /\ proc[p].pc \notin Before /\ proc[p].pc # "write"
        /\ proc'[p].pc \notin {"version", "write"} /\ snapshot' = snapshot
    <3>1. /\ proc[p].pc \in {"images", "media", "backfill", "metrics", "linkkey", "secrets", "check", "record"}
          /\ snapshot' = snapshot
      BY <1>5 DEF MigrateStep, Migrate, ExtendedMigrate, BackfillAssets, migrateDashboardMetrics,
         migrateMediaLinkKey, migrateLocalSecrets, CheckMatched, recordSchemaVersion, AddParts
    <3>2. \/ Fail(p)
          \/ \E s \in {"media", "backfill", "metrics", "linkkey", "secrets", "check", "record", "open"} :
                 Goto(p, s)
      BY <1>5 DEF MigrateStep, Migrate, ExtendedMigrate, BackfillAssets, migrateDashboardMetrics,
         migrateMediaLinkKey, migrateLocalSecrets, CheckMatched, recordSchemaVersion, AddParts
    <3> QED BY <3>1, <3>2, Moved DEF Before
  <2>2. schema \subseteq schema'
    BY <1>5, MigrateKeeps DEF Grows
  <2>3. snapshot # Missing
    BY <2>1 DEF SnapshotWatched
  <2> QED BY <1>0, <2>1, <2>2, <2>3 DEF SnapshotWatched
<1> QED BY <1>1, <1>2, <1>3, <1>4, <1>5 DEF OpenStep, MigrateStep

LEMMA CutStep == CutLeaves /\ [Next]_vars => CutLeaves'
<1> SUFFICES ASSUME CutLeaves, [Next]_vars PROVE CutLeaves'
  OBVIOUS
<1>0. Missing # Empty /\ Missing # Torn /\ \A v : Missing # Copy(v)
  <2>1. Missing.state = "missing" /\ Empty.state = "empty" /\ Torn.state = "torn"
    BY DEF Missing, Empty, Torn
  <2>2. \A v : Copy(v).state = "copy"
    BY DEF Copy
  <2> QED BY <2>1, <2>2
<1> USE <1>0 DEF CutLeaves
<1>1. ASSUME NEW p \in Procs, OpenStep(p) PROVE CutLeaves'
  <2>1. CASE FinishVacuum(p)
    BY <2>1 DEF FinishVacuum
  <2>2. CASE StartVacuum(p)
    BY <2>2 DEF StartVacuum
  <2>3. CASE ~FinishVacuum(p) /\ ~StartVacuum(p)
    <3>1. UNCHANGED <<snapshot, cut>>
      BY <1>1, <2>3 DEF OpenStep, Open, ReadVersion, SnapshotBeforeMigration, VerifySnapshot,
         Migrate, ExtendedMigrate, BackfillAssets, migrateDashboardMetrics, migrateMediaLinkKey,
         migrateLocalSecrets, CheckMatched, recordSchemaVersion, AddParts
    <3> QED BY <3>1
  <2> QED BY <2>1, <2>2, <2>3
<1>2. ASSUME NEW p \in Procs, SaveImage(p) \/ Die(p) PROVE CutLeaves'
  BY <1>2 DEF SaveImage, Die
<1>3. ASSUME NEW p \in Procs, NEW k \in Secrets, ReadSecret(p, k) \/ StoreSecret(p, k) PROVE CutLeaves'
  BY <1>3 DEF ReadSecret, StoreSecret
<1>4. CASE UNCHANGED vars
  BY <1>4 DEF vars
<1> QED BY <1>1, <1>2, <1>3, <1>4 DEF Next

LEMMA SnapshotInvStep == SnapInv /\ [Next]_vars => SnapInv'
<1> SUFFICES ASSUME SnapInv, [Next]_vars PROVE SnapInv'
  OBVIOUS
<1>0. LibInv' /\ CutLeaves'
  BY LibraryStep, CutStep DEF SnapInv
<1>1. ASSUME NEW p \in Procs, OpenStep(p), OldLibrary', ~cut' PROVE SnapshotWatched'
  <2>1. original' = original /\ ~cut
    BY <1>1 DEF OpenStep, Open, ReadVersion, SnapshotBeforeMigration, StartVacuum, FinishVacuum, VerifySnapshot,
       Migrate, ExtendedMigrate, BackfillAssets, migrateDashboardMetrics, migrateMediaLinkKey,
       migrateLocalSecrets, CheckMatched, recordSchemaVersion, AddParts
  <2> QED BY <1>1, <2>1, OpenWatched DEF SnapInv, OldLibrary
<1>2. ASSUME NEW p \in Procs, SaveImage(p), OldLibrary', ~cut' PROVE SnapshotWatched'
  <2>1. UNCHANGED <<schema, original, snapshot, cut, proc>> /\ proc[p].pc = "open"
    BY <1>2 DEF SaveImage
  <2>2. SnapshotWatched
    BY <1>2, <2>1 DEF SnapInv, OldLibrary
  <2>3. snapshot # Missing
    BY <2>1, <2>2 DEF SnapshotWatched, Before
  <2> QED BY <2>1, <2>2, <2>3 DEF SnapshotWatched
<1>3. ASSUME NEW p \in Procs, Die(p), OldLibrary', ~cut' PROVE SnapshotWatched'
  <2>1. UNCHANGED <<library, original, snapshot, cut>> /\ proc[p].pc # "write"
    BY <1>3 DEF Die, Writing
  <2>2. SnapshotWatched /\ proc \in [Procs -> Process]
    BY <1>3, <2>1 DEF SnapInv, LibInv, TypeOK, Process, OldLibrary
  <2>3. proc'[p].pc = "closed" /\ \A q \in Procs \ {p} : proc'[q] = proc[q]
    BY <1>3, <2>2 DEF Die, Fail, Closed
  <2> QED BY <2>1, <2>2, <2>3 DEF SnapshotWatched, library, Contents, Before
<1>4. ASSUME NEW p \in Procs, NEW k \in Secrets, ReadSecret(p, k) \/ StoreSecret(p, k), OldLibrary', ~cut'
      PROVE  SnapshotWatched'
  BY <1>4 DEF ReadSecret, StoreSecret, library, SnapInv, OldLibrary, SnapshotWatched, Contents
<1>5. ASSUME UNCHANGED vars, OldLibrary', ~cut' PROVE SnapshotWatched'
  BY <1>5 DEF vars, SnapInv, OldLibrary, SnapshotWatched, Contents
<1> QED BY <1>0, <1>1, <1>2, <1>3, <1>4, <1>5 DEF SnapInv, Next

(***************************************************************************)
(* The snapshot shows the library as the first process found it, however   *)
(* often and by how many processes its migration was begun.  A process     *)
(* that died while it wrote the snapshot leaves a file of the name, and no *)
(* more is promised.                                                       *)
(***************************************************************************)
THEOREM SnapshotKept == Spec => []SnapshotIsOriginal
<1>1. SnapInv => SnapshotIsOriginal
  <2> SUFFICES ASSUME SnapInv, OldLibrary, snapshot.state = "copy" \/ Contents # original
               PROVE  /\ snapshot # Missing
                      /\ \/ cut \/ snapshot = Copy(original)
                         \/ \E p \in Procs : Writing(p) /\ proc[p].view = original
    BY DEF SnapshotIsOriginal
  <2>1. CASE cut
    BY <2>1 DEF SnapInv, CutLeaves
  <2>2. CASE ~cut
    <3>1. SnapshotWatched
      BY <2>2 DEF SnapInv
    <3>2. snapshot # Missing
      BY <3>1 DEF SnapshotWatched, Missing
    <3> QED BY <3>1, <3>2 DEF SnapshotWatched, Writing
  <2> QED BY <2>1, <2>2
<1> QED BY <1>1, InitSnapshot, SnapshotInvStep, PTL DEF Spec

-----------------------------------------------------------------------------
(* The server between two sleeps.                                          *)

Served == {r \in Requests : request[r] \in {"served", "noted"}}

(***************************************************************************)
(* What the check has passed is quiet, or began after it looked.           *)
(***************************************************************************)
Looked ==
    up \in {"awake", "closing"} =>
        /\ Passed("requests") => Served \subseteq late
        /\ Passed("queue") /\ Processing => "run" \in late
        /\ Passed("workers") => pass \subseteq late
        /\ Passed("activity") => ends \subseteq late

\* The end of a request is noted before the request is taken off the counter.
Noted ==
    /\ (\E r \in Requests : request[r] = "noted") => fresh
    /\ ~fresh => ends = {}

Places == (up = "closing" => check = "close") /\ (up \in {"off", "asleep"} => check = "wait")

IdleInv == ServerTypeOK /\ Looked /\ Noted /\ Places

\* The check takes the kinds of work in this order.
LEMMA PassedKinds ==
    ASSUME check \in {"wait", "requests", "activity", "queue", "workers", "copies", "close"}
    PROVE  /\ Passed("requests") <=> check \in {"activity", "queue", "workers", "copies", "close"}
           /\ Passed("activity") <=> check \in {"queue", "workers", "copies", "close"}
           /\ Passed("queue") <=> check \in {"workers", "copies", "close"}
           /\ Passed("workers") <=> check \in {"copies", "close"}
BY DEF Passed, Order

LEMMA ServedFinite == IsFiniteSet(Served) /\ (Cardinality(Served) = 0 <=> Served = {})
<1>1. IsFiniteSet(Served)
  BY RequestsAssumption, FS_Subset DEF Served
<1> QED BY <1>1, FS_EmptySet

LEMMA PassFinite ==
    ASSUME pass \subseteq Workers
    PROVE  IsFiniteSet(pass) /\ (Cardinality(pass) = 0 <=> pass = {})
<1>1. IsFiniteSet(Workers)
  <2>1. IsFiniteSet({}) /\ IsFiniteSet({} \cup {"derivatives"})
    BY FS_EmptySet, FS_AddElement
  <2>2. IsFiniteSet(({} \cup {"derivatives"}) \cup {"backup"})
    BY <2>1, FS_AddElement
  <2>3. Workers = ({} \cup {"derivatives"}) \cup {"backup"}
    BY DEF Workers
  <2> QED BY <2>2, <2>3
<1>2. IsFiniteSet(pass)
  BY <1>1, FS_Subset
<1> QED BY <1>2, FS_EmptySet

LEMMA InitIdle == ServerInit => IdleInv
<1> SUFFICES ASSUME ServerInit PROVE IdleInv
  OBVIOUS
<1> USE DEF ServerInit
<1>1. {r \in Requests : request[r] \in {"served", "noted"}} = {}
  OBVIOUS
<1>2. Cardinality({}) = 0
  BY FS_EmptySet
<1>3. ServerTypeOK
  <2>1. request \in [Requests -> {"new", "refused", "sent", "served", "noted", "done", "cut"}]
    OBVIOUS
  <2>2. 0 \in 0..MaxWork
    BY RequestsAssumption
  <2>3. uploads \in 0..MaxWork /\ copies \in 0..MaxWork /\ days \in 0..MaxWork /\ stops \in 0..MaxWork
    BY <2>2
  <2>5. active = Cardinality({r \in Requests : request[r] \in {"served", "noted"}})
    <3>1. active = 0
      OBVIOUS
    <3> HIDE DEF ServerInit
    <3> QED BY <1>1, <1>2, <3>1
  <2>6. background = Cardinality(pass)
    BY <1>2
  <2>7. /\ up \in {"off", "asleep", "awake", "closing", "stopping"}
        /\ fresh \in BOOLEAN /\ target \in {"absent", "good", "bad"} /\ due \in BOOLEAN
        /\ pass \subseteq Workers /\ run \in {"none", "started", "manual", "scheduled"}
        /\ check \in {"wait", "requests", "activity", "queue", "workers", "copies", "close"}
        /\ late \subseteq Requests \cup Workers \cup {"run"} /\ ends \subseteq Requests
    OBVIOUS
  <2> HIDE DEF ServerInit
  <2> QED BY <2>1, <2>3, <2>5, <2>6, <2>7 DEF ServerTypeOK
<1>4. Looked /\ Noted /\ Places
  BY DEF Looked, Noted, Places
<1> QED BY <1>3, <1>4 DEF IdleInv

\* What begins now is noted as late if the check has passed its kind.
LEMMA Begins ==
    ASSUME NEW kind, NEW w, Begin(kind, w)
    PROVE  /\ late' \subseteq late \cup {w}
           /\ Passed(kind) => w \in late' /\ late \subseteq late'
           /\ \A x \in late : x # w => x \in late'
BY DEF Begin

(***************************************************************************)
(* Requests.                                                               *)
(***************************************************************************)
LEMMA RequestKeeps ==
    ASSUME IdleInv, NEW r \in Requests, Send(r) \/ Serving(r) PROVE IdleInv'
<1> USE WorkNamesAssumption, PassedKinds DEF IdleInv
<1>0. /\ request \in [Requests -> {"new", "refused", "sent", "served", "noted", "done", "cut"}]
      /\ active = Cardinality(Served) /\ IsFiniteSet(Served) /\ active \in Nat
      /\ check \in {"wait", "requests", "activity", "queue", "workers", "copies", "close"}
      /\ pass \subseteq Workers /\ ends \subseteq Requests
      /\ late \subseteq Requests \cup Workers \cup {"run"}
  BY ServedFinite, FS_CardinalityType DEF ServerTypeOK, Served
<1>1. CASE Send(r)
  <2>1. Served' = Served /\ request' \in [Requests -> {"new", "refused", "sent", "served", "noted", "done", "cut"}]
    BY <1>0, <1>1 DEF Send, SetRequest, Served
  <2>2. ServerTypeOK'
    BY <1>1, <2>1 DEF Send, counters, work, clock, history, ServerTypeOK, Served
  <2>3. Noted'
    BY <1>0, <1>1 DEF Send, SetRequest, Noted, counters, history
  <2>4. Looked' /\ Places'
    BY <1>1, <2>1 DEF Send, counters, work, clock, history, Looked, Places, Passed, Processing
  <2> QED BY <2>2, <2>3, <2>4
<1>2. CASE Accept(r)
  <2>1. /\ Served' = Served \cup {r} /\ r \notin Served
        /\ request' \in [Requests -> {"new", "refused", "sent", "served", "noted", "done", "cut"}]
        /\ \A q \in Requests : request'[q] = "noted" => request[q] = "noted"
    BY <1>0, <1>2 DEF Accept, SetRequest, Served
  <2>2. active' = Cardinality(Served')
    BY <1>0, <1>2, <2>1, FS_AddElement DEF Accept
  <2>3. /\ late' \subseteq late \cup {r}
        /\ Passed("requests") => r \in late' /\ late \subseteq late'
        /\ \A x \in late : x # r => x \in late'
    BY <1>2, Begins DEF Accept
  <2>4. UNCHANGED <<up, fresh, background, pass, run, uploads, copies, target, due, days, check, ends, stops>>
    BY <1>2 DEF Accept, work, clock
  <2>5. ServerTypeOK'
    BY <1>0, <2>1, <2>2, <2>3, <2>4 DEF ServerTypeOK, Served
  <2>6. Looked'
    BY <1>0, <2>1, <2>3, <2>4 DEF Looked, Passed, Processing
  <2>7. Noted' /\ Places'
    BY <2>1, <2>4 DEF Noted, Places
  <2> QED BY <2>5, <2>6, <2>7
<1>3. CASE Handle(r)
  <2>1. /\ Served' = Served
        /\ request' \in [Requests -> {"new", "refused", "sent", "served", "noted", "done", "cut"}]
    BY <1>0, <1>3 DEF Handle, SetRequest, Served
  <2>2. /\ UNCHANGED <<up, active, background, pass, target, due, days, check, late, ends, stops>>
        /\ fresh' = TRUE
    BY <1>3 DEF Handle, clock, history
  <2>3. /\ uploads' \in 0..MaxWork /\ copies' \in 0..MaxWork
        /\ run' \in {"none", "started", "manual", "scheduled"}
        /\ Processing' <=> Processing
    <3>1. uploads \in 0..MaxWork /\ copies \in 0..MaxWork
          /\ run \in {"none", "started", "manual", "scheduled"}
      BY DEF ServerTypeOK
    <3> QED BY <1>3, <3>1, RequestsAssumption DEF Handle, Leave, Processing
  <2>4. ServerTypeOK'
    BY <2>1, <2>2, <2>3 DEF ServerTypeOK, Served
  <2>5. Looked' /\ Noted' /\ Places'
    BY <2>1, <2>2, <2>3 DEF Looked, Noted, Places, Passed
  <2> QED BY <2>4, <2>5
<1>4. CASE Finish(r)
  <2>1. /\ Served' = Served \ {r} /\ r \in Served
        /\ request' \in [Requests -> {"new", "refused", "sent", "served", "noted", "done", "cut"}]
        /\ \A q \in Requests : request'[q] = "noted" => request[q] = "noted"
        /\ request[r] = "noted"
    BY <1>0, <1>4 DEF Finish, SetRequest, Served
  <2>2. active' = Cardinality(Served')
    BY <1>0, <1>4, <2>1, FS_RemoveElement DEF Finish
  <2>3. /\ UNCHANGED <<up, fresh, background, pass, run, uploads, copies, target, due, days, check,
                       late, stops>>
        /\ ends' = ends \cup {r}
    BY <1>4 DEF Finish, work, clock
  <2>4. ServerTypeOK'
    BY <1>0, <2>1, <2>2, <2>3 DEF ServerTypeOK, Served
  <2>5. Looked'
    BY <1>0, <2>1, <2>3 DEF Looked, Passed, Processing
  <2>6. Noted' /\ Places'
    BY <2>1, <2>3 DEF Noted, Places
  <2> QED BY <2>4, <2>5, <2>6
<1> QED BY <1>1, <1>2, <1>3, <1>4 DEF Serving

(***************************************************************************)
(* Background work.                                                        *)
(***************************************************************************)
LEMMA PassKeeps ==
    ASSUME IdleInv, NEW w \in Workers, StartPass(w) \/ EndPass(w) PROVE IdleInv'
<1> USE WorkNamesAssumption, PassedKinds DEF IdleInv
<1>0. /\ check \in {"wait", "requests", "activity", "queue", "workers", "copies", "close"}
      /\ pass \subseteq Workers /\ ends \subseteq Requests /\ Served \subseteq Requests
      /\ IsFiniteSet(pass) /\ background = Cardinality(pass)
      /\ late \subseteq Requests \cup Workers \cup {"run"}
      /\ w \notin Requests /\ w # "run"
  BY PassFinite DEF ServerTypeOK, Workers, Served
<1>1. CASE StartPass(w)
  <2>1. /\ UNCHANGED <<up, request, active, fresh, run, uploads, copies, target, due, days, check, ends, stops>>
        /\ pass' = pass \cup {w} /\ w \notin pass /\ background' = background + 1
    BY <1>1 DEF StartPass, clock
  <2>2. background' = Cardinality(pass')
    BY <1>0, <2>1, FS_AddElement
  <2>3. /\ late' \subseteq late \cup {w}
        /\ Passed("workers") => w \in late' /\ late \subseteq late'
        /\ \A x \in late : x # w => x \in late'
    BY <1>1, Begins DEF StartPass
  <2>4. ServerTypeOK'
    BY <1>0, <2>1, <2>2, <2>3 DEF ServerTypeOK
  <2>5. Looked'
    BY <1>0, <2>1, <2>3 DEF Looked, Passed, Processing, Served
  <2>6. Noted' /\ Places'
    BY <2>1 DEF Noted, Places
  <2> QED BY <2>4, <2>5, <2>6
<1>2. CASE EndPass(w)
  <2>1. /\ UNCHANGED <<up, request, active, fresh, run, uploads, target, due, days, check, ends, stops>>
        /\ late' = late \ {w} /\ pass' = pass \ {w} /\ w \in pass /\ background' = background - 1
    BY <1>2 DEF EndPass, clock, history
  <2>2. background' = Cardinality(pass')
    BY <1>0, <2>1, FS_RemoveElement
  <2>3. copies' \in 0..MaxWork
    BY <1>2, RequestsAssumption DEF EndPass, Made, ServerTypeOK
  <2>4. ServerTypeOK'
    BY <1>0, <2>1, <2>2, <2>3 DEF ServerTypeOK
  <2>5. Looked' /\ Noted' /\ Places'
    BY <1>0, <2>1 DEF Looked, Passed, Processing, Served, Noted, Places
  <2> QED BY <2>4, <2>5
<1> QED BY <1>1, <1>2

LEMMA RunKeeps == ASSUME IdleInv, StartRun \/ SkipRun \/ EndRun \/ NextDay \/ IdleTime PROVE IdleInv'
<1> USE WorkNamesAssumption, PassedKinds DEF IdleInv
<1>0. /\ check \in {"wait", "requests", "activity", "queue", "workers", "copies", "close"}
      /\ pass \subseteq Workers /\ ends \subseteq Requests /\ Served \subseteq Requests
      /\ late \subseteq Requests \cup Workers \cup {"run"}
      /\ "run" \notin Requests /\ "run" \notin Workers
  BY DEF ServerTypeOK, Workers, Served
<1>1. CASE StartRun
  <2>1. UNCHANGED <<up, request, active, fresh, background, pass, uploads, copies, target, due, days,
                    check, ends, stops>>
    BY <1>1 DEF StartRun, counters, clock
  <2>2. run' \in {"manual", "scheduled"}
    BY <1>1 DEF StartRun
  <2>3. /\ late' \subseteq late \cup {"run"}
        /\ Passed("queue") => "run" \in late' /\ late \subseteq late'
        /\ \A x \in late : x # "run" => x \in late'
    BY <1>1, Begins DEF StartRun
  <2>4. ServerTypeOK'
    BY <1>0, <2>1, <2>2, <2>3 DEF ServerTypeOK
  <2>5. Looked'
    BY <1>0, <2>1, <2>3 DEF Looked, Passed, Served
  <2>6. Noted' /\ Places'
    BY <2>1 DEF Noted, Places
  <2> QED BY <2>4, <2>5, <2>6
<1>2. CASE SkipRun \/ NextDay
  <2>1. /\ UNCHANGED <<up, request, counters, work, check, history>>
        /\ due' \in BOOLEAN /\ days' \in 0..MaxWork
    <3>1. days \in 0..MaxWork
      BY DEF ServerTypeOK
    <3>2. CASE SkipRun
      BY <3>1, <3>2 DEF SkipRun
    <3>3. CASE NextDay
      BY <3>1, <3>3, RequestsAssumption DEF NextDay
    <3> QED BY <1>2, <3>2, <3>3
  <2>2. ServerTypeOK'
    BY <2>1 DEF counters, work, history, ServerTypeOK
  <2>3. Looked' /\ Noted' /\ Places'
    BY <2>1 DEF counters, work, history, Looked, Passed, Processing, Served, Noted, Places
  <2> QED BY <2>2, <2>3
<1>3. CASE EndRun
  <2>1. /\ UNCHANGED <<up, request, counters, pass, copies, target, days, check, ends, stops>>
        /\ late' = late \ {"run"} /\ run' = "none" /\ uploads' \in 0..MaxWork /\ due' \in BOOLEAN
    <3>1. uploads \in 0..MaxWork /\ 0 \in 0..MaxWork /\ due \in BOOLEAN
      BY RequestsAssumption DEF ServerTypeOK
    <3>2. UNCHANGED <<up, request, counters, pass, copies, target, days, check, ends, stops>> /\ late' = late \ {"run"}
      BY <1>3 DEF EndRun
    <3>3. run' = "none" /\ uploads' \in 0..MaxWork
      BY <1>3, <3>1 DEF EndRun
    <3>4. due' \in BOOLEAN
      BY <1>3, <3>1 DEF EndRun
    <3> QED BY <3>2, <3>3, <3>4
  <2>2. ServerTypeOK'
    BY <2>1 DEF counters, ServerTypeOK
  <2>3. Looked' /\ Noted' /\ Places'
    BY <1>0, <2>1 DEF counters, Looked, Passed, Processing, Served, Noted, Places
  <2> QED BY <2>2, <2>3
<1>4. CASE IdleTime
  <2>1. /\ UNCHANGED <<up, request, active, background, work, clock, check, late, stops>>
        /\ fresh' = FALSE /\ ends' = {} /\ \A r \in Requests : request[r] # "noted"
    BY <1>4 DEF IdleTime
  <2>2. ServerTypeOK'
    BY <2>1 DEF work, clock, ServerTypeOK
  <2>3. Looked' /\ Noted' /\ Places'
    BY <2>1 DEF work, clock, Looked, Passed, Processing, Served, Noted, Places
  <2> QED BY <2>2, <2>3
<1> QED BY <1>1, <1>2, <1>3, <1>4

(***************************************************************************)
(* The idle check, and the process.                                        *)
(***************************************************************************)
LEMMA CheckKeeps == ASSUME IdleInv, Idle PROVE IdleInv'
<1> USE PassedKinds DEF IdleInv
<1>0. /\ check \in {"wait", "requests", "activity", "queue", "workers", "copies", "close"}
      /\ active = Cardinality(Served) /\ background = Cardinality(pass) /\ pass \subseteq Workers
      /\ up = "awake"
  BY DEF ServerTypeOK, Served, Idle, Tick, LookRequests, LookActivity, LookQueue, LookWorkers, LookCopies,
         Look, Close, Awake
<1>1. CASE Tick
  BY <1>0, <1>1 DEF Tick, counters, work, clock, history, ServerTypeOK, Looked, Passed, Processing, Served, Noted, Places, Order
<1>2. CASE Close
  BY <1>0, <1>2 DEF Close, counters, work, clock, history, ServerTypeOK, Looked, Passed, Processing, Served, Noted, Places
<1>3. CASE LookRequests \/ LookActivity \/ LookQueue \/ LookWorkers \/ LookCopies
  <2>1. /\ UNCHANGED <<up, request, counters, work, clock, ends, stops>>
        /\ check' # "wait" => late' = late
        /\ late' = late \/ late' = {}
        /\ check' \in {"wait", "activity", "queue", "workers", "copies", "close"}
        /\ check' = "activity" => Served = {}
        /\ check' = "queue" => check = "activity" /\ ~fresh
        /\ check' = "workers" => check = "queue" /\ ~Processing
        /\ check' = "copies" => check = "workers" /\ pass = {}
        /\ check' = "close" => check = "copies"
    <3>1. CASE LookRequests
      BY <1>0, <3>1, ServedFinite DEF LookRequests, Look
    <3>2. CASE LookActivity
      BY <1>0, <3>2 DEF LookActivity, Look
    <3>3. CASE LookQueue
      BY <1>0, <3>3 DEF LookQueue, Look
    <3>4. CASE LookWorkers
      BY <1>0, <3>4, PassFinite DEF LookWorkers, Look
    <3>5. CASE LookCopies
      BY <1>0, <3>5 DEF LookCopies, Look
    <3> QED BY <1>3, <3>1, <3>2, <3>3, <3>4, <3>5
  <2>2. /\ Passed("requests")' <=> check' \in {"activity", "queue", "workers", "copies", "close"}
        /\ Passed("activity")' <=> check' \in {"queue", "workers", "copies", "close"}
        /\ Passed("queue")' <=> check' \in {"workers", "copies", "close"}
        /\ Passed("workers")' <=> check' \in {"copies", "close"}
    BY <2>1 DEF Passed, Order
  <2>3. ServerTypeOK'
    BY <2>1 DEF counters, work, clock, ServerTypeOK
  <2>4. Noted' /\ Places'
    BY <1>0, <2>1 DEF counters, Noted, Places
  <2>5. Served' = Served /\ pass' = pass /\ ends' = ends /\ (Processing' <=> Processing)
    BY <2>1 DEF work, Served, Processing
  <2>6. Looked'
    <3>1. CASE check' = "wait"
      BY <2>2, <3>1 DEF Looked
    <3>2. CASE check' # "wait"
      <4>1. late' = late /\ Looked /\ Noted /\ up = "awake"
        BY <1>0, <2>1, <3>2
      <4> QED BY <1>0, <2>1, <2>2, <2>5, <4>1 DEF Looked, Noted
    <3> QED BY <3>1, <3>2
  <2> QED BY <2>3, <2>4, <2>6
<1> QED BY <1>1, <1>2, <1>3 DEF Idle

LEMMA ProcessKeeps == ASSUME IdleInv, RunServer \/ Start \/ Stop \/ FallAsleep \/ TurnOff PROVE IdleInv'
<1> USE DEF IdleInv
<1>1. CASE RunServer \/ Start
  <2>1. check = "wait" /\ ~Passed("requests") /\ ~Passed("activity") /\ ~Passed("queue") /\ ~Passed("workers")
    BY <1>1 DEF RunServer, Start, Places, Passed
  <2> QED BY <1>1, <2>1
     DEF RunServer, Start, counters, work, clock, history, ServerTypeOK, Looked, Passed, Noted, Places
<1>2. CASE Stop
  BY <1>2, RequestsAssumption DEF Stop, counters, work, clock, ServerTypeOK, Looked, Noted, Places
<1>3. CASE FallAsleep \/ TurnOff
  <2>1. /\ \E sent \in {"sent", "refused"} : Leaving(sent)
        /\ up' \in {"off", "asleep"}
    BY <1>3 DEF FallAsleep, TurnOff
  <2>2. PICK sent \in {"sent", "refused"} : Leaving(sent)
    BY <2>1
  <2>3. /\ request' \in [Requests -> {"new", "refused", "sent", "served", "noted", "done", "cut"}]
        /\ \A r \in Requests : request'[r] \notin {"served", "noted"}
    BY <2>2 DEF Leaving, ServerTypeOK
  <2>4. {r \in Requests : request'[r] \in {"served", "noted"}} = {}
    BY <2>3
  <2>5. Cardinality({}) = 0
    BY FS_EmptySet
  <2>6. ServerTypeOK'
    BY <2>1, <2>2, <2>3, <2>4, <2>5 DEF Leaving, clock, ServerTypeOK
  <2>7. Looked' /\ Noted' /\ Places'
    BY <2>1, <2>2, <2>3 DEF Leaving, Looked, Noted, Places
  <2> QED BY <2>6, <2>7
<1> QED BY <1>1, <1>2, <1>3

LEMMA IdleStep == IdleInv /\ [ServerNext]_serverVars => IdleInv'
<1> SUFFICES ASSUME IdleInv, [ServerNext]_serverVars PROVE IdleInv'
  OBVIOUS
<1>1. ASSUME NEW r \in Requests, Send(r) \/ Serving(r) PROVE IdleInv'
  BY <1>1, RequestKeeps
<1>2. ASSUME NEW w \in Workers, StartPass(w) \/ EndPass(w) PROVE IdleInv'
  BY <1>2, PassKeeps
<1>3. CASE StartRun \/ SkipRun \/ EndRun \/ NextDay \/ IdleTime
  BY <1>3, RunKeeps
<1>4. CASE Idle
  BY <1>4, CheckKeeps
<1>5. CASE RunServer \/ Start \/ Stop \/ FallAsleep \/ TurnOff
  BY <1>5, ProcessKeeps
<1>6. CASE UNCHANGED serverVars
  BY <1>6 DEF serverVars, counters, work, clock, history, IdleInv, ServerTypeOK, Looked, Passed, Processing, Served, Noted, Places
<1> QED BY <1>1, <1>2, <1>3, <1>4, <1>5, <1>6 DEF ServerNext

(***************************************************************************)
(* The state of the server is well typed: the two counters that keep it    *)
(* awake count the requests and the passes under way.                      *)
(***************************************************************************)
THEOREM CountersRight == ServerSpec => []ServerTypeOK
<1>1. IdleInv => ServerTypeOK
  BY DEF IdleInv
<1> QED BY <1>1, InitIdle, IdleStep, PTL DEF ServerSpec

(***************************************************************************)
(* What the idle check cuts off began after the check had looked at work   *)
(* of that kind.                                                           *)
(***************************************************************************)
THEOREM NothingSeenIsCut == ServerSpec => []CutOnlyLate
<1>1. IdleInv => CutOnlyLate
  BY DEF IdleInv, Looked, Places, Passed, CutOnlyLate, UnderWay, Served
<1> QED BY <1>1, InitIdle, IdleStep, PTL DEF ServerSpec

(***************************************************************************)
(* The server goes to sleep only when the idle time has passed since every *)
(* request that the check could have seen.                                 *)
(***************************************************************************)
THEOREM QuietBeforeExit == ServerSpec => []ExitAfterQuiet
<1>1. IdleInv => ExitAfterQuiet
  BY DEF IdleInv, Looked, Places, Passed, ExitAfterQuiet
<1> QED BY <1>1, InitIdle, IdleStep, PTL DEF ServerSpec

=============================================================================
