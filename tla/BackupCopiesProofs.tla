------------------------- MODULE BackupCopiesProofs -------------------------
(***************************************************************************)
(* For any number of assets, batch sizes and failures: the state of the    *)
(* backup worker is well typed, and an asset is reported safe to delete    *)
(* only when both its files were hashed and found good, and have not       *)
(* decayed since (unless the backup disk goes away between the check of    *)
(* the disks and the creation of the directory of a copy). A pass keeps    *)
(* backupMu for a bounded number of steps only.                            *)
(***************************************************************************)
EXTENDS BackupCopies, FiniteSetTheorems, TLAPS

(***************************************************************************)
(* Type correctness.                                                       *)
(***************************************************************************)
LEMMA InitType == Init => TypeOK
BY BoundsAssumption, SMT
   DEF Init, TypeOK, Assets, Disks, Kinds, File, Temp, Places

LEMMA SelectedType == ASSUME TypeOK, NEW k \in Kinds PROVE Selected(k) \subseteq Assets
BY DEF Selected, Candidates, Kinds, TypeOK

LEMMA TouchType ==
    ASSUME NEW a \in Assets, TypeOK
    PROVE  /\ Touch(a) \in [Assets -> Assets]
           /\ \A b, c \in Assets : Touch(a)[b] = Touch(a)[c] => b = c
<1> DEFINE moved(b) == IF b = a THEN N ELSE IF age[b] > age[a] THEN age[b] - 1 ELSE age[b]
<1>1. \A b \in Assets : age[b] \in Int /\ 1 <= age[b] /\ age[b] <= N
  BY BoundsAssumption DEF TypeOK, Assets
<1>2. \A b, c \in Assets : age[b] = age[c] => b = c
  BY DEF TypeOK
<1>3. Touch(a) = [b \in Assets |-> moved(b)]
  BY DEF Touch
<1>4. ASSUME NEW b \in Assets PROVE moved(b) \in Assets
  BY <1>1, BoundsAssumption DEF Assets
<1>5. ASSUME NEW b \in Assets, NEW c \in Assets, moved(b) = moved(c) PROVE b = c
  <2>1. age[b] = age[a] => b = a
    BY <1>2
  <2>2. age[c] = age[a] => c = a
    BY <1>2
  <2>3. CASE b = a \/ c = a
    BY <2>1, <2>2, <2>3, <1>1, <1>5, BoundsAssumption
  <2>4. CASE b # a /\ c # a
    <3>1. age[b] = age[c]
      BY <2>1, <2>2, <2>4, <1>1, <1>5, BoundsAssumption
    <3> QED BY <3>1, <1>2
  <2> QED BY <2>3, <2>4
<1> QED BY <1>3, <1>4, <1>5

LEMMA TroubleType == ASSUME TypeOK, Trouble PROVE trouble' \in 0..MaxTrouble
BY BoundsAssumption DEF TypeOK, Trouble

LEMMA RowStepType == ASSUME TypeOK, NEW a \in Assets, RowStep(a) PROVE TypeOK'
<1> USE BoundsAssumption, TroubleType DEF TypeOK, At, GoOn, Done, Unlock, NoTrouble,
        catalogue, files, pass, File, Kinds
<1>t. /\ Touch(a) \in [Assets -> Assets]
      /\ \A b, c \in Assets : Touch(a)[b] = Touch(a)[c] => b = c
  BY TouchType
<1>1. CASE HashPrimary(a)
  BY <1>1 DEF HashPrimary, OriginalAt
<1>2. CASE RecordPrimary(a)
  <2>1. Verdict(found) \in {"verified", "missing", "corrupt"}
    BY DEF Verdict
  <2> QED BY <1>2, <2>1 DEF RecordPrimary, Temp
<1>3. CASE StartCopy(a)
  BY <1>3 DEF StartCopy
<1>4. CASE HashSource(a)
  BY <1>4 DEF HashSource, Place, Places
<1>5. CASE ProbeCopy(a)
  BY <1>5 DEF ProbeCopy
<1>6. CASE CopyTemp(a)
  BY <1>6 DEF CopyTemp, CanCopy, OriginalAt, Place, Places, Temp
<1>7. CASE InstallCopy(a)
  <2>1. TempFound /\ temp[2] = "good" => bfile' \in [Assets -> File] /\ shadow' \in [Assets -> File]
                                         /\ rotten' \subseteq Disks \X Assets
    BY <1>7 DEF InstallCopy, Installed
  <2> QED BY <1>7, <2>1 DEF InstallCopy
<1>8. CASE MarkBackup(a)
  <2>1. backup' \in [Assets -> {"none", "verified", "failed"}]
    BY <1>8 DEF MarkBackup
  <2>2. age' \in [Assets -> Assets] /\ \A b, c \in Assets : age'[b] = age'[c] => b = c
    BY <1>8, <1>t DEF MarkBackup
  <2> QED BY <1>8, <2>1, <2>2 DEF MarkBackup, Temp
<1>9. CASE RecordFailure(a)
  BY <1>9 DEF RecordFailure, Temp
<1>10. CASE HashCopy(a)
  BY <1>10 DEF HashCopy, CopyAt
<1>11. CASE RecordCheck(a)
  <2>1. backup' \in [Assets -> {"none", "verified", "failed"}]
    BY <1>11 DEF RecordCheck
  <2>2. age' \in [Assets -> Assets] /\ \A b, c \in Assets : age'[b] = age'[c] => b = c
    BY <1>11, <1>t DEF RecordCheck
  <2> QED BY <1>11, <2>1, <2>2 DEF RecordCheck, Temp
<1> QED BY <1>1, <1>2, <1>3, <1>4, <1>5, <1>6, <1>7, <1>8, <1>9, <1>10, <1>11 DEF RowStep

LEMMA StepType == TypeOK /\ [Next]_vars => TypeOK'
<1> SUFFICES ASSUME TypeOK, [Next]_vars PROVE TypeOK'
  OBVIOUS
<1> USE BoundsAssumption, TroubleType DEF TypeOK, catalogue, files, pass, File, Kinds
<1>1. CASE Step
  <2>1. CASE Finish
    BY <2>1 DEF Finish, Unlock, Temp
  <2> QED BY <1>1, <2>1, RowStepType DEF Step
<1>2. CASE GiveUp
  BY <1>2 DEF GiveUp, Unlock, Temp
<1>3. CASE Crash
  BY <1>3 DEF Crash, Unlock, Temp
<1>4. ASSUME NEW k \in Kinds, Call(k) PROVE TypeOK'
  BY <1>4 DEF Call
<1>5. ASSUME NEW k \in Kinds, Acquire(k) PROVE TypeOK'
  BY <1>5, SelectedType DEF Acquire
<1>6. ASSUME NEW a \in Assets, Import(a) PROVE TypeOK'
  BY <1>6 DEF Import
<1>7. ASSUME NEW a \in Assets, Reupload(a) PROVE TypeOK'
  BY <1>7 DEF Reupload
<1>8. ASSUME NEW a \in Assets, Damage(a) PROVE TypeOK'
  BY <1>8 DEF Damage, Disks
<1>9. ASSUME NEW d \in Disks, Unmount(d) \/ Mount(d) PROVE TypeOK'
  BY <1>9 DEF Unmount, Mount
<1>10. CASE UNCHANGED vars
  BY <1>10 DEF vars
<1> QED BY <1>1, <1>2, <1>3, <1>4, <1>5, <1>6, <1>7, <1>8, <1>9, <1>10 DEF Next

(***************************************************************************)
(* The state of the passes, the catalogue and the disks is always well     *)
(* typed: no two backup rows ever share their place in the order of        *)
(* verified_at, and media_assets never takes a status that the queries do  *)
(* not know.                                                               *)
(***************************************************************************)
THEOREM BackupTypeCorrect == Spec => []TypeOK
BY InitType, StepType, PTL DEF Spec

(***************************************************************************)
(* The inductive invariant behind SafeCopiesVerified.  A row says verified *)
(* of a file that was hashed; between the hash and the row, the program    *)
(* counter of the pass carries that fact (Hashed, Marking).  The bare      *)
(* mount point stays empty (OnDisk): a directory is made only while the    *)
(* backup disk is there, and without one no copy can be written, whenever  *)
(* the disk goes away afterwards.                                          *)
(***************************************************************************)
GoodOnce(d, f, a) == f[a] = "good" \/ <<d, a>> \in rotten

PrimariesHashed == \A a \in primary : GoodOnce("primary", pfile, a)
BackupsHashed   == \A a \in Assets : backup[a] = "verified" => GoodOnce("backup", bfile, a)
Hashed  == \A a \in Assets :
    At("primary", "record", a) /\ found = "good" => GoodOnce("primary", pfile, a)
Marking == \A a \in Assets : At("backup", "mark", a) => GoodOnce("backup", bfile, a)
OnDisk  == /\ Starting => "backup" \in mounted
           /\ dirs \subseteq {"disk"} \X Assets
           /\ pc = "install" => temp \in {"disk"} \X {"good", "bad"}
           /\ shadow = [a \in Assets |-> "gone"]

Idle    == turn = "none" => pc = "next"

CopyInv == TypeOK /\ PrimariesHashed /\ BackupsHashed /\ Hashed /\ Marking /\ OnDisk /\ Idle

LEMMA InitCopies == Init => CopyInv
<1> SUFFICES ASSUME Init PROVE CopyInv
  OBVIOUS
<1>1. TypeOK
  BY InitType
<1>2. PrimariesHashed /\ BackupsHashed
  BY DEF Init, PrimariesHashed, BackupsHashed
<1>3. Hashed /\ Marking
  BY DEF Init, Hashed, Marking, At
<1>4. OnDisk /\ Idle
  BY DEF Init, OnDisk, Starting, Idle
<1> QED BY <1>1, <1>2, <1>3, <1>4 DEF CopyInv

\* Two rows of a pass never come first together.
LEMMA NextRowUnique ==
    ASSUME TypeOK, NEW k \in {"primary", "backup"}, NEW p, NEW a \in Assets, NEW b \in Assets,
           At(k, p, a), At(k, p, b)
    PROVE  a = b
<1>1. a \in 1..N /\ b \in 1..N /\ N \in Nat
  BY BoundsAssumption DEF Assets
<1>2. Rank(k, a) <= Rank(k, b) /\ Rank(k, b) <= Rank(k, a)
  BY DEF At
<1>3. CASE k = "primary"
  BY <1>1, <1>2, <1>3 DEF Rank
<1>4. CASE k = "backup"
  BY <1>1, <1>2, <1>4 DEF Rank
<1> QED BY <1>3, <1>4

\* No step of a pass touches an original, or the history of its decay.
LEMMA RowKeepsOriginals ==
    ASSUME NEW a \in Assets, RowStep(a)
    PROVE  /\ pfile' = pfile /\ mounted' = mounted
           /\ \A b : <<"primary", b>> \in rotten => <<"primary", b>> \in rotten'
BY DEF RowStep, HashPrimary, RecordPrimary, StartCopy, HashSource, ProbeCopy, CopyTemp, InstallCopy,
       Installed, MarkBackup, RecordFailure, HashCopy, RecordCheck, files

\* A copy that was hashed and has not decayed since stays so.
LEMMA RowKeepsCopies ==
    ASSUME CopyInv, NEW a \in Assets, RowStep(a), NEW b \in Assets, GoodOnce("backup", bfile, b)
    PROVE  GoodOnce("backup", bfile, b)'
<1> USE DEF GoodOnce, files
<1>1. shadow[a] = "gone" /\ bfile \in [Assets -> File]
  BY DEF CopyInv, OnDisk, TypeOK
<1>2. CASE ProbeCopy(a)
  <2>1. CopyAt(a) = "good" => bfile[a] = "good"
    BY <1>1 DEF CopyAt
  <2> QED BY <1>2, <2>1 DEF ProbeCopy
<1>3. CASE InstallCopy(a)
  BY <1>1, <1>3 DEF InstallCopy, Installed, At, CopyInv, OnDisk
<1>4. CASE HashCopy(a)
  <2>1. CopyAt(a) = "good" => bfile[a] = "good"
    BY <1>1 DEF CopyAt
  <2> QED BY <1>4, <2>1 DEF HashCopy
<1>5. CASE HashPrimary(a) \/ RecordPrimary(a) \/ StartCopy(a) \/ HashSource(a)
  BY <1>5 DEF HashPrimary, RecordPrimary, StartCopy, HashSource
<1>6. CASE CopyTemp(a) \/ MarkBackup(a) \/ RecordFailure(a) \/ RecordCheck(a)
  BY <1>6 DEF CopyTemp, MarkBackup, RecordFailure, RecordCheck
<1> QED BY <1>2, <1>3, <1>4, <1>5, <1>6 DEF RowStep

LEMMA RowPrimaries == ASSUME CopyInv, NEW a \in Assets, RowStep(a) PROVE PrimariesHashed'
<1>1. \A b \in primary : GoodOnce("primary", pfile, b)'
  BY RowKeepsOriginals DEF CopyInv, PrimariesHashed, GoodOnce
<1>2. CASE RecordPrimary(a)
  <2>1. a \in primary' /\ a \notin primary => found = "good"
    BY <1>2 DEF RecordPrimary
  <2>2. found = "good" => GoodOnce("primary", pfile, a)'
    BY <1>2, RowKeepsOriginals DEF RecordPrimary, CopyInv, Hashed, GoodOnce
  <2>3. primary' \subseteq primary \cup {a}
    BY <1>2 DEF RecordPrimary
  <2> QED BY <1>1, <2>1, <2>2, <2>3 DEF PrimariesHashed
<1>3. CASE ~RecordPrimary(a)
  <2>1. primary' = primary
    BY <1>3 DEF RowStep, HashPrimary, StartCopy, HashSource, ProbeCopy, CopyTemp, InstallCopy,
                MarkBackup, RecordFailure, HashCopy, RecordCheck, catalogue
  <2> QED BY <1>1, <2>1 DEF PrimariesHashed
<1> QED BY <1>2, <1>3

LEMMA RowBackups == ASSUME CopyInv, NEW a \in Assets, RowStep(a) PROVE BackupsHashed'
<1>1. \A b \in Assets : GoodOnce("backup", bfile, b) => GoodOnce("backup", bfile, b)'
  BY RowKeepsCopies
<1>2. backup \in [Assets -> {"none", "verified", "failed"}]
  BY DEF CopyInv, TypeOK
<1>3. CASE MarkBackup(a)
  <2>1. GoodOnce("backup", bfile, a)
    BY <1>3 DEF MarkBackup, CopyInv, Marking
  <2>2. \A b \in Assets : b # a => backup'[b] = backup[b]
    BY <1>2, <1>3 DEF MarkBackup
  <2> QED BY <1>1, <2>1, <2>2 DEF CopyInv, BackupsHashed
<1>4. CASE ~MarkBackup(a)
  <2>1. \A b \in Assets : backup'[b] = "verified" => backup[b] = "verified"
    BY <1>2, <1>4
       DEF RowStep, HashPrimary, RecordPrimary, StartCopy, HashSource, ProbeCopy, CopyTemp,
           InstallCopy, RecordFailure, HashCopy, RecordCheck, catalogue
  <2> QED BY <1>1, <2>1 DEF CopyInv, BackupsHashed
<1> QED BY <1>3, <1>4

LEMMA RowHashed == ASSUME CopyInv, NEW a \in Assets, RowStep(a) PROVE Hashed'
<1> SUFFICES ASSUME NEW b \in Assets, At("primary", "record", b)', found' = "good"
             PROVE  GoodOnce("primary", pfile, b)'
  BY DEF Hashed
<1>1. HashPrimary(a)
  BY DEF RowStep, HashPrimary, RecordPrimary, StartCopy, HashSource, ProbeCopy, CopyTemp, InstallCopy,
         MarkBackup, RecordFailure, HashCopy, RecordCheck, At, GoOn, Done, Unlock
<1>2. At("primary", "next", b) /\ At("primary", "next", a)
  BY <1>1 DEF HashPrimary, At, GoOn, Rank, catalogue
<1>3. a = b
  BY <1>2, NextRowUnique DEF CopyInv
<1>4. pfile[a] = "good"
  BY <1>1 DEF HashPrimary, OriginalAt
<1> QED BY <1>3, <1>4, RowKeepsOriginals DEF GoodOnce

LEMMA RowMarking == ASSUME CopyInv, NEW a \in Assets, RowStep(a) PROVE Marking'
<1> SUFFICES ASSUME NEW b \in Assets, At("backup", "mark", b)'
             PROVE  GoodOnce("backup", bfile, b)'
  BY DEF Marking
<1>1. ProbeCopy(a) \/ InstallCopy(a)
  BY DEF RowStep, HashPrimary, RecordPrimary, StartCopy, HashSource, ProbeCopy, CopyTemp, InstallCopy,
         MarkBackup, RecordFailure, HashCopy, RecordCheck, At, GoOn, Done, Unlock
<1>2. At("backup", pc, b) /\ At("backup", pc, a)
  BY <1>1 DEF ProbeCopy, InstallCopy, At, GoOn, Rank, catalogue
<1>3. a = b
  BY <1>2, NextRowUnique DEF CopyInv
<1>4. shadow[a] = "gone" /\ bfile \in [Assets -> File]
  BY DEF CopyInv, OnDisk, TypeOK
<1>5. pc' = "mark"
  BY DEF At
<1>6. CASE ProbeCopy(a)
  <2>1. CopyAt(a) = "good" /\ bfile' = bfile
    BY <1>5, <1>6 DEF ProbeCopy, GoOn
  <2> QED BY <1>3, <1>4, <2>1 DEF CopyAt, GoodOnce
<1>7. CASE InstallCopy(a)
  <2>1. temp[1] = "disk"
    BY <1>7 DEF InstallCopy, At, CopyInv, OnDisk
  <2>2. temp[2] = "good" /\ Installed(a)
    BY <1>5, <1>7 DEF InstallCopy, GoOn
  <2>3. bfile'[a] = "good"
    BY <1>4, <2>1, <2>2 DEF Installed
  <2> QED BY <1>3, <2>3 DEF GoodOnce
<1> QED BY <1>1, <1>6, <1>7

LEMMA RowIdle == ASSUME Idle, NEW a \in Assets, RowStep(a) PROVE Idle'
BY DEF RowStep, HashPrimary, RecordPrimary, StartCopy, HashSource, ProbeCopy, CopyTemp, InstallCopy,
       MarkBackup, RecordFailure, HashCopy, RecordCheck, At, GoOn, Done, Unlock, Idle

LEMMA RowOnDisk == ASSUME CopyInv, NEW a \in Assets, RowStep(a) PROVE OnDisk' /\ Idle'
<1> USE DEF At, GoOn, Done, Unlock
<1>1. Starting' => "backup" \in mounted'
  <2>1. Starting' => BackupUp
    BY DEF RowStep, HashPrimary, RecordPrimary, StartCopy, HashSource, ProbeCopy, CopyTemp,
           InstallCopy, MarkBackup, RecordFailure, HashCopy, RecordCheck, Starting
  <2> QED BY <2>1, RowKeepsOriginals DEF BackupUp, Disks
<1>d. dirs' \subseteq {"disk"} \X Assets
  <2>1. CASE HashSource(a)
    <3>1. Place = "disk"
      BY <2>1 DEF HashSource, CopyInv, OnDisk, Starting, Place
    <3> QED BY <2>1, <3>1 DEF HashSource, CopyInv, OnDisk
  <2>2. CASE ~HashSource(a)
    <3>1. dirs' = dirs
      BY <2>2 DEF RowStep, HashPrimary, RecordPrimary, StartCopy, ProbeCopy, CopyTemp, InstallCopy,
                  MarkBackup, RecordFailure, HashCopy, RecordCheck, files
    <3> QED BY <3>1 DEF CopyInv, OnDisk
  <2> QED BY <2>1, <2>2
<1>2. pc' = "install" => temp' \in {"disk"} \X {"good", "bad"}
  <2> SUFFICES ASSUME pc' = "install" PROVE temp' \in {"disk"} \X {"good", "bad"}
    OBVIOUS
  <2>1. CopyTemp(a)
    BY DEF RowStep, HashPrimary, RecordPrimary, StartCopy, HashSource, ProbeCopy, CopyTemp,
           InstallCopy, MarkBackup, RecordFailure, HashCopy, RecordCheck
  <2>2. CanCopy(a)
    BY <2>1 DEF CopyTemp
  <2>3. Place = "disk" /\ OriginalAt(a) \in {"good", "bad"}
    BY <2>2 DEF CanCopy, OriginalAt, CopyInv, TypeOK, File, OnDisk
  <2> QED BY <2>1, <2>3 DEF CopyTemp
<1>3. shadow' = shadow
  <2>1. CASE InstallCopy(a)
    BY <2>1 DEF InstallCopy, Installed, CopyInv, OnDisk
  <2>2. CASE ~InstallCopy(a)
    BY <2>2 DEF RowStep, HashPrimary, RecordPrimary, StartCopy, HashSource, ProbeCopy, CopyTemp,
                MarkBackup, RecordFailure, HashCopy, RecordCheck, files
  <2> QED BY <2>1, <2>2
<1>4. Idle'
  BY RowIdle DEF CopyInv
<1> QED BY <1>1, <1>d, <1>2, <1>3, <1>4 DEF CopyInv, OnDisk

\* What goes on outside of the rows of a pass.
LEMMA OtherSteps ==
    ASSUME CopyInv, Next, SteadyDisks, ~\E a \in Assets : RowStep(a) PROVE CopyInv'
<1> USE DEF CopyInv, catalogue, files, pass
<1>1. TypeOK'
  BY StepType
<1>2. CASE Finish \/ GiveUp \/ Crash
  BY <1>1, <1>2 DEF Finish, GiveUp, Crash, Unlock, PrimariesHashed, BackupsHashed, Hashed, Marking,
     OnDisk, Idle, GoodOnce, At, Starting
<1>3. ASSUME NEW k \in Kinds, Call(k) PROVE CopyInv'
  BY <1>1, <1>3 DEF Call, PrimariesHashed, BackupsHashed, Hashed, Marking,
     OnDisk, Idle, GoodOnce, At, Rank, Starting
<1>4. ASSUME NEW k \in Kinds, Acquire(k) PROVE CopyInv'
  BY <1>1, <1>4 DEF Acquire, PrimariesHashed, BackupsHashed, Hashed, Marking,
     OnDisk, Idle, GoodOnce, At, Starting
<1>5. ASSUME NEW d \in Disks, Unmount(d) \/ Mount(d) PROVE CopyInv'
  <2>1. Starting' => "backup" \in mounted'
    BY <1>5 DEF Unmount, Mount, SteadyDisks, Starting
  <2>2. PrimariesHashed' /\ BackupsHashed' /\ Idle'
    BY <1>5 DEF Unmount, Mount, PrimariesHashed, BackupsHashed, Idle, GoodOnce
  <2>3. Hashed' /\ Marking'
    BY <1>5 DEF Unmount, Mount, Hashed, Marking, GoodOnce, At, Rank
  <2>4. shadow' = shadow /\ temp' = temp /\ pc' = pc /\ dirs' = dirs
    BY <1>5 DEF Unmount, Mount
  <2> QED BY <1>1, <2>1, <2>2, <2>3, <2>4 DEF OnDisk
<1>6. ASSUME NEW a \in Assets, Import(a) \/ Reupload(a) PROVE CopyInv'
  <2>1. \A b \in Assets : GoodOnce("primary", pfile, b) => GoodOnce("primary", pfile, b)'
    BY <1>6 DEF Import, Reupload, GoodOnce, TypeOK
  <2>2. GoodOnce("primary", pfile, a)' /\ primary' = primary \cup {a} /\ primary \subseteq Assets
    BY <1>6 DEF Import, Reupload, GoodOnce, TypeOK, OriginalAt
  <2>3. \A b \in Assets : /\ Rank("primary", b)' = Rank("primary", b)
                          /\ Rank("backup", b)' = Rank("backup", b)
    <3>1. status \in [Assets -> {"absent", "verified", "missing", "corrupt"}]
      BY DEF TypeOK
    <3>2. CASE Import(a)
      BY <3>1, <3>2 DEF Import, Rank
    <3>3. CASE Reupload(a)
      BY <3>3 DEF Reupload, Rank
    <3> QED BY <1>6, <3>2, <3>3
  <2>4. todo \subseteq Assets /\ todo' = todo /\ pc' = pc /\ turn' = turn /\ found' = found
    BY <1>6 DEF Import, Reupload, TypeOK
  <2>5. PrimariesHashed'
    BY <2>1, <2>2 DEF PrimariesHashed
  <2>6. \A b \in Assets : /\ At("primary", "record", b)' => At("primary", "record", b)
                          /\ At("backup", "mark", b)' => At("backup", "mark", b)
    BY <2>3, <2>4 DEF At
  <2>7. Hashed'
    <3>1. \A b \in Assets : At("primary", "record", b)' /\ found = "good" => GoodOnce("primary", pfile, b)'
      BY <2>1, <2>6 DEF Hashed
    <3> QED BY <3>1, <2>4 DEF Hashed
  <2>8. BackupsHashed' /\ Marking'
    BY <1>6, <2>6 DEF Import, Reupload, BackupsHashed, Marking, GoodOnce, At
  <2>9. OnDisk' /\ Idle'
    BY <1>6 DEF Import, Reupload, OnDisk, Idle, Starting
  <2> QED BY <1>1, <2>5, <2>7, <2>8, <2>9
<1>7. ASSUME NEW a \in Assets, Damage(a) PROVE CopyInv'
  <2>1. \A b \in Assets : /\ GoodOnce("primary", pfile, b) => GoodOnce("primary", pfile, b)'
                          /\ GoodOnce("backup", bfile, b) => GoodOnce("backup", bfile, b)'
    BY <1>7 DEF Damage, GoodOnce, TypeOK
  <2>2. primary \subseteq Assets
    BY DEF TypeOK
  <2>u. /\ UNCHANGED <<mounted, catalogue, shadow, dirs, waiting, pass>>
        /\ primary' = primary /\ backup' = backup /\ found' = found
    BY <1>7 DEF Damage
  <2>3. PrimariesHashed' /\ BackupsHashed'
    <3>1. \A b \in primary : GoodOnce("primary", pfile, b)'
      BY <2>1, <2>2 DEF PrimariesHashed
    <3>2. \A b \in Assets : backup[b] = "verified" => GoodOnce("backup", bfile, b)'
      BY <2>1 DEF BackupsHashed
    <3> QED BY <3>1, <3>2, <2>u DEF PrimariesHashed, BackupsHashed
  <2>4. \A b \in Assets : /\ At("primary", "record", b)' => At("primary", "record", b)
                          /\ At("backup", "mark", b)' => At("backup", "mark", b)
    BY <2>u DEF At, Rank
  <2>6. Hashed' /\ Marking'
    <3>1. \A b \in Assets : At("primary", "record", b)' /\ found = "good" => GoodOnce("primary", pfile, b)'
      BY <2>1, <2>4 DEF Hashed
    <3>2. \A b \in Assets : At("backup", "mark", b)' => GoodOnce("backup", bfile, b)'
      BY <2>1, <2>4 DEF Marking
    <3> QED BY <3>1, <3>2, <2>u DEF Hashed, Marking
  <2>7. OnDisk' /\ Idle'
    BY <2>u DEF OnDisk, Idle, Starting
  <2> QED BY <1>1, <2>3, <2>6, <2>7
<1> QED BY <1>2, <1>3, <1>4, <1>5, <1>6, <1>7 DEF Next, Step

LEMMA CopiesStep == CopyInv /\ [Next /\ SteadyDisks]_vars => CopyInv'
<1> SUFFICES ASSUME CopyInv, [Next /\ SteadyDisks]_vars PROVE CopyInv'
  OBVIOUS
<1>1. ASSUME NEW a \in Assets, RowStep(a) PROVE CopyInv'
  <2>1. TypeOK'
    BY <1>1, RowStepType DEF CopyInv
  <2> QED BY <1>1, <2>1, RowPrimaries, RowBackups, RowHashed, RowMarking, RowOnDisk DEF CopyInv
<1>2. CASE Next /\ SteadyDisks /\ ~\E a \in Assets : RowStep(a)
  BY <1>2, OtherSteps
<1>3. CASE UNCHANGED vars
  BY <1>3 DEF vars, catalogue, files, pass, CopyInv, TypeOK, PrimariesHashed, BackupsHashed, Hashed,
     Marking, OnDisk, Idle, GoodOnce, At, Rank, Starting
<1> QED BY <1>1, <1>2, <1>3

(***************************************************************************)
(* What Fotoro reports as safe to delete has two files that were hashed    *)
(* and found good, and that have not decayed since: whatever passes, up-   *)
(* loads, failing calls, crashes and disks that come and go do meanwhile,  *)
(* as long as the backup disk does not go away between the check of the    *)
(* disks and the creation of the directory of a copy.                      *)
(***************************************************************************)
THEOREM SafeCopies == SteadySpec => []SafeCopiesVerified
<1>1. CopyInv => SafeCopiesVerified
  BY DEF CopyInv, PrimariesHashed, BackupsHashed, SafeCopiesVerified, SafeToDelete, GoodOnce
<1> QED BY <1>1, InitCopies, CopiesStep, PTL DEF SteadySpec

(***************************************************************************)
(* The status corrupt.  What a pass has read and not yet recorded is not   *)
(* overtaken: an original becomes good only with the import of its asset,  *)
(* and a pass never selects an asset that is not there yet.                *)
(***************************************************************************)
Chosen  == turn = "primary" => \A a \in todo : status[a] # "absent"
BadRead == \A a \in Assets :
    At("primary", "record", a) /\ found = "bad" => pfile[a] \in {"bad", "gone"}

CorruptInv == TypeOK /\ CorruptIsReal /\ Chosen /\ BadRead /\ Idle

LEMMA InitCorrupt == Init => CorruptInv
BY InitType DEF Init, CorruptInv, CorruptIsReal, Chosen, BadRead, Idle, At

LEMMA RowCorrupt == ASSUME CorruptInv, NEW a \in Assets, RowStep(a) PROVE CorruptInv'
<1> USE DEF CorruptInv
<1>1. TypeOK' /\ pfile' = pfile /\ Idle'
  BY RowStepType, RowKeepsOriginals, RowIdle
<1>2. BadRead'
  <2> SUFFICES ASSUME NEW b \in Assets, At("primary", "record", b)', found' = "bad"
               PROVE  pfile'[b] \in {"bad", "gone"}
    BY DEF BadRead
  <2>1. HashPrimary(a)
    BY DEF RowStep, HashPrimary, RecordPrimary, StartCopy, HashSource, ProbeCopy, CopyTemp, InstallCopy,
           MarkBackup, RecordFailure, HashCopy, RecordCheck, At, GoOn, Done, Unlock
  <2>2. At("primary", "next", b) /\ At("primary", "next", a)
    BY <2>1 DEF HashPrimary, At, GoOn, Rank, catalogue
  <2>3. a = b
    BY <2>2, NextRowUnique
  <2>4. pfile[a] = "bad"
    BY <2>1 DEF HashPrimary, OriginalAt
  <2> QED BY <1>1, <2>3, <2>4
<1>3. CASE RecordPrimary(a)
  <2>1. \A b \in Assets : status'[b] = "corrupt" => status[b] = "corrupt" \/ (b = a /\ found = "bad")
    <3>1. Verdict(found) = "corrupt" => found = "bad"
      BY DEF Verdict, TypeOK, File
    <3>2. status \in [Assets -> {"absent", "verified", "missing", "corrupt"}]
      BY DEF TypeOK
    <3> QED BY <1>3, <3>1, <3>2 DEF RecordPrimary
  <2>2. At("primary", "record", a)
    BY <1>3 DEF RecordPrimary
  <2>3. CorruptIsReal'
    BY <1>1, <2>1, <2>2 DEF CorruptIsReal, BadRead
  <2>4. /\ \A b \in Assets : status'[b] = "absent" => status[b] = "absent" /\ b # a
        /\ todo' \subseteq todo /\ turn = "primary"
    <3>1. turn = "primary" /\ a \in todo /\ status[a] # "absent"
      BY <2>2 DEF At, Chosen
    <3>2. Verdict(found) # "absent"
      BY DEF Verdict, TypeOK, File
    <3>3. status \in [Assets -> {"absent", "verified", "missing", "corrupt"}]
      BY DEF TypeOK
    <3>4. \A b \in Assets : status'[b] = "absent" => status[b] = "absent" /\ b # a
      BY <1>3, <3>1, <3>2, <3>3 DEF RecordPrimary
    <3>5. todo' \subseteq todo
      BY <1>3 DEF RecordPrimary, Done, Unlock
    <3> QED BY <3>1, <3>4, <3>5
  <2>5. Chosen'
    BY <1>1, <2>4 DEF Chosen, TypeOK
  <2> QED BY <1>1, <1>2, <2>3, <2>5
<1>4. CASE ~RecordPrimary(a)
  <2>1. status' = status
    BY <1>4 DEF RowStep, HashPrimary, StartCopy, HashSource, ProbeCopy, CopyTemp, InstallCopy,
                MarkBackup, RecordFailure, HashCopy, RecordCheck, catalogue
  <2>2. todo' \subseteq todo /\ turn' \in {turn, "none"}
    BY <1>4 DEF RowStep, HashPrimary, StartCopy, HashSource, ProbeCopy, CopyTemp, InstallCopy,
                MarkBackup, RecordFailure, HashCopy, RecordCheck, GoOn, Done, Unlock
  <2> QED BY <1>1, <1>2, <2>1, <2>2 DEF CorruptIsReal, Chosen
<1> QED BY <1>3, <1>4

LEMMA CorruptStep == CorruptInv /\ [Next]_vars => CorruptInv'
<1> SUFFICES ASSUME CorruptInv, [Next]_vars PROVE CorruptInv'
  OBVIOUS
<1> USE DEF CorruptInv, catalogue, files, pass
<1>0. TypeOK'
  BY StepType
<1>1. ASSUME NEW a \in Assets, RowStep(a) PROVE CorruptInv'
  BY <1>1, RowCorrupt
<1>2. CASE Finish \/ GiveUp \/ Crash
  BY <1>0, <1>2 DEF Finish, GiveUp, Crash, Unlock, CorruptIsReal, Chosen, BadRead, Idle, At
<1>3. ASSUME NEW k \in Kinds, Call(k) PROVE CorruptInv'
  BY <1>0, <1>3 DEF Call, CorruptIsReal, Chosen, BadRead, Idle, At, Rank
<1>4. ASSUME NEW k \in Kinds, Acquire(k) PROVE CorruptInv'
  <2>1. k = "primary" => \A a \in Selected(k) : status[a] # "absent"
    BY DEF Selected, Candidates
  <2>2. pc' = pc /\ status' = status /\ pfile' = pfile /\ found' = found
    BY <1>4 DEF Acquire
  <2>3. Chosen'
    BY <1>4, <2>1 DEF Acquire, Chosen
  <2>4. found # "bad" \/ pc # "record"
    BY <1>4 DEF Acquire, Idle
  <2>5. Idle'
    BY <1>4, <2>2 DEF Acquire, Idle, Kinds
  <2> QED BY <1>0, <2>2, <2>3, <2>4, <2>5 DEF CorruptIsReal, BadRead, At
<1>5. ASSUME NEW d \in Disks, Unmount(d) \/ Mount(d) PROVE CorruptInv'
  BY <1>0, <1>5 DEF Unmount, Mount, CorruptIsReal, Chosen, BadRead, Idle, At, Rank
<1>6. ASSUME NEW a \in Assets, Import(a) \/ Reupload(a) PROVE CorruptInv'
  <2>1. /\ \A b \in Assets : status'[b] = "corrupt" => status[b] = "corrupt" /\ pfile'[b] = pfile[b]
        /\ \A b \in Assets : status[b] # "absent" => pfile'[b] = pfile[b] /\ status'[b] = status[b]
    BY <1>6 DEF Import, Reupload, TypeOK
  <2>2. todo \subseteq Assets /\ todo' = todo /\ pc' = pc /\ turn' = turn /\ found' = found
    BY <1>6 DEF Import, Reupload, TypeOK
  <2>3. Chosen'
    BY <2>1, <2>2 DEF Chosen
  <2>4. CorruptIsReal'
    BY <2>1 DEF CorruptIsReal
  <2>5. BadRead'
    <3> SUFFICES ASSUME NEW b \in Assets, At("primary", "record", b)', found' = "bad"
                 PROVE  pfile'[b] \in {"bad", "gone"}
      BY DEF BadRead
    <3>1. \A c \in todo : Rank("primary", c)' = Rank("primary", c)
      BY <2>1, <2>2 DEF Rank, Chosen, At
    <3>2. At("primary", "record", b)
      BY <2>2, <3>1 DEF At
    <3> QED BY <2>1, <2>2, <3>2 DEF BadRead, Chosen, At
  <2> QED BY <1>0, <2>2, <2>3, <2>4, <2>5 DEF Idle
<1>7. ASSUME NEW a \in Assets, Damage(a) PROVE CorruptInv'
  <2>1. \A b \in Assets : pfile[b] \in {"bad", "gone"} => pfile'[b] \in {"bad", "gone"}
    BY <1>7 DEF Damage, TypeOK
  <2>2. UNCHANGED <<catalogue, pass>>
    BY <1>7 DEF Damage
  <2>3. \A b \in Assets : At("primary", "record", b)' => At("primary", "record", b)
    BY <2>2 DEF At, Rank
  <2> QED BY <1>0, <2>1, <2>2, <2>3 DEF CorruptIsReal, Chosen, BadRead, Idle
<1>8. CASE UNCHANGED vars
  BY <1>0, <1>8 DEF vars, CorruptIsReal, Chosen, BadRead, Idle, At, Rank
<1> QED BY <1>1, <1>2, <1>3, <1>4, <1>5, <1>6, <1>7, <1>8 DEF Next, Step

(***************************************************************************)
(* An original is recorded as corrupt only when it is damaged or gone: a   *)
(* disk that was away while it was read leaves "missing", which a later    *)
(* pass reconsiders.                                                       *)
(***************************************************************************)
THEOREM CorruptReal == Spec => []CorruptIsReal
<1>1. CorruptInv => CorruptIsReal
  BY DEF CorruptInv
<1> QED BY <1>1, InitCorrupt, CorruptStep, PTL DEF Spec

-----------------------------------------------------------------------------
(* The safety half of the hand-over of backupMu: a pass works on no more   *)
(* rows than its LIMIT, and takes at most seven steps for each.            *)

LEMMA RankInjective ==
    ASSUME TypeOK, NEW k \in Kinds, NEW a \in Assets, NEW b \in Assets
    PROVE  /\ Rank(k, a) \in Nat /\ Rank(k, b) \in Nat
           /\ Rank(k, a) = Rank(k, b) => a = b
<1>1. a \in 1..N /\ b \in 1..N /\ N \in Nat
  BY BoundsAssumption DEF Assets
<1>2. CASE k = "primary"
  BY <1>1, <1>2 DEF Rank
<1>3. CASE k = "backup"
  BY <1>1, <1>3 DEF Rank
<1>4. CASE k = "verify"
  <2>1. age[a] \in 1..N /\ age[b] \in 1..N /\ (age[a] = age[b] => a = b)
    BY DEF TypeOK, Assets
  <2>2. Rank(k, a) = age[a] /\ Rank(k, b) = age[b]
    BY <1>4 DEF Rank
  <2> QED BY <1>1, <2>1, <2>2
<1> QED BY <1>2, <1>3, <1>4 DEF Kinds

LEMMA AssetsFinite ==
    ASSUME NEW S, S \subseteq Assets
    PROVE  /\ IsFiniteSet(S) /\ Cardinality(S) \in Nat
           /\ Cardinality(S) = 0 <=> S = {}
<1>1. IsFiniteSet(Assets)
  BY FS_Interval, BoundsAssumption DEF Assets
<1>2. IsFiniteSet(S)
  BY <1>1, FS_Subset
<1> QED BY <1>2, FS_CardinalityType, FS_EmptySet

\* The query with its LIMIT.
LEMMA SelectedBounded ==
    ASSUME TypeOK, NEW k \in Kinds
    PROVE  Cardinality(Selected(k)) <= Limit(k)
<1> DEFINE S == Selected(k)
           L == Limit(k)
           Below(a) == {b \in Candidates(k) : Rank(k, b) < Rank(k, a)}
           f == [a \in S |-> Cardinality(Below(a))]
<1>1. L \in Nat \ {0}
  BY BoundsAssumption DEF Limit
<1>2. Candidates(k) \subseteq Assets
  BY DEF Candidates, Kinds, TypeOK
<1>3. \A a \in S : a \in Candidates(k) /\ Cardinality(Below(a)) < L
  BY DEF Selected
<1>4. \A a : Below(a) \subseteq Assets
  BY <1>2
<1>5. \A a : IsFiniteSet(Below(a)) /\ Cardinality(Below(a)) \in Nat
  BY <1>4, AssetsFinite
<1>6. f \in [S -> 0..(L - 1)]
  <2>1. \A a \in S : Cardinality(Below(a)) \in 0..(L - 1)
    BY <1>1, <1>3, <1>5
  <2> HIDE DEF S, L, Below
  <2> QED BY <2>1
<1>7. ASSUME NEW a \in S, NEW b \in S, Rank(k, a) < Rank(k, b) PROVE f[a] # f[b]
  <2>1. a \in Assets /\ b \in Assets /\ a \in Candidates(k)
    BY <1>2, <1>3
  <2>2. \A c \in Assets : Rank(k, c) \in Nat
    BY RankInjective
  <2>3. Below(a) \subseteq Below(b)
    BY <1>2, <1>7, <2>1, <2>2
  <2>4. a \in Below(b) /\ a \notin Below(a)
    BY <1>7, <2>1, <2>2
  <2>5. Cardinality(Below(a)) # Cardinality(Below(b))
    <3> HIDE DEF Below
    <3> QED BY <1>5, <2>3, <2>4, FS_Subset
  <2> QED BY <2>5
<1>8. ASSUME NEW a \in S, NEW b \in S, a # b PROVE f[a] # f[b]
  <2>1. a \in Assets /\ b \in Assets
    BY <1>2, <1>3
  <2>2. Rank(k, a) < Rank(k, b) \/ Rank(k, b) < Rank(k, a)
    BY <1>8, <2>1, RankInjective
  <2> QED BY <1>7, <2>2
<1>9. S \subseteq Assets
  BY <1>2, <1>3
<1> HIDE DEF S, L, f
<1>10. IsFiniteSet(S) /\ Cardinality(S) \in Nat
  BY <1>9, AssetsFinite
<1>11. IsFiniteSet(0..(L - 1)) /\ Cardinality(0..(L - 1)) = L
  BY <1>1, FS_Interval
<1>12. ~(L < Cardinality(S))
  BY <1>6, <1>8, <1>10, <1>11, FS_PigeonHole
<1> QED BY <1>1, <1>10, <1>12 DEF S, L

\* How far a pass is with its row.
Stage(p) ==
    CASE p = "next" -> 0
      [] p \in {"hash", "record"} -> 1
      [] p = "probe" -> 2
      [] p = "copy" -> 3
      [] p = "install" -> 4
      [] p = "mark" -> 5
      [] p = "fail" -> 6

\* Steps a pass has left, its unlock included, at most.
PassLeft ==
    CASE turn = "none" -> 0
      [] turn # "none" /\ todo = {} -> 1
      [] turn # "none" /\ todo # {} -> 1 + 7 * Cardinality(todo) - Stage(pc)

LimitKept == turn # "none" => Cardinality(todo) <= Limit(turn)

LEMMA StageBounds == ASSUME TypeOK PROVE Stage(pc) \in 0..6
BY DEF TypeOK, Stage

LEMMA PassLeftBounds ==
    ASSUME TypeOK, LimitKept, turn # "none"
    PROVE  PassLeft \in 1..(1 + 7 * Limit(turn))
<1>1. todo \subseteq Assets /\ turn \in Kinds
  BY DEF TypeOK
<1>2. Limit(turn) \in Nat \ {0}
  BY BoundsAssumption DEF Limit
<1>3. Cardinality(todo) \in Nat /\ (Cardinality(todo) = 0 <=> todo = {})
  BY <1>1, AssetsFinite
<1>4. Stage(pc) \in 0..6
  BY StageBounds
<1>5. Cardinality(todo) <= Limit(turn)
  BY DEF LimitKept
<1>6. CASE todo = {}
  <2>1. PassLeft = 1
    BY <1>6 DEF PassLeft
  <2> QED BY <1>2, <2>1
<1>7. CASE todo # {}
  <2>1. PassLeft = 1 + 7 * Cardinality(todo) - Stage(pc)
    BY <1>7 DEF PassLeft
  <2> QED BY <1>2, <1>3, <1>4, <1>5, <1>7, <2>1
<1> QED BY <1>6, <1>7

\* A step for a row: unlock, take the next row, or come further with this one.
LEMMA RowMoves ==
    ASSUME TypeOK, NEW a \in Assets, RowStep(a)
    PROVE  /\ turn # "none" /\ a \in todo
           /\ \/ turn' = "none" /\ todo' = {}
              \/ turn' = turn /\ todo' = todo \ {a} /\ pc' = "next" /\ Stage(pc) <= 5
              \/ turn' = turn /\ todo' = todo /\ pc' \in {"record", "hash", "probe", "copy", "install", "mark", "fail"}
                 /\ Stage(pc) < Stage(pc')
<1> USE DEF At, GoOn, Done, Unlock
<1>1. CASE HashPrimary(a) \/ StartCopy(a) \/ HashCopy(a)
  BY <1>1 DEF HashPrimary, StartCopy, HashCopy, Stage
<1>2. CASE RecordPrimary(a) \/ RecordCheck(a)
  BY <1>2 DEF RecordPrimary, RecordCheck, Stage
<1>3. CASE HashSource(a) \/ ProbeCopy(a)
  BY <1>3 DEF HashSource, ProbeCopy, Stage
<1>4. CASE CopyTemp(a) \/ InstallCopy(a)
  BY <1>4 DEF CopyTemp, InstallCopy, Stage
<1>5. CASE MarkBackup(a) \/ RecordFailure(a)
  BY <1>5 DEF MarkBackup, RecordFailure, Stage
<1> QED BY <1>1, <1>2, <1>3, <1>4, <1>5 DEF RowStep

LEMMA StepShrinks == ASSUME TypeOK, TypeOK', Step PROVE turn # "none" /\ PassLeft' < PassLeft
<1>1. todo \subseteq Assets /\ Stage(pc) \in 0..6
  BY StageBounds DEF TypeOK
<1>2. CASE Finish
  BY <1>2 DEF Finish, Unlock, PassLeft
<1>3. ASSUME NEW a \in Assets, RowStep(a) PROVE turn # "none" /\ PassLeft' < PassLeft
  <2>1. turn # "none" /\ a \in todo
    BY <1>3, RowMoves
  <2>2. IsFiniteSet(todo) /\ Cardinality(todo) \in Nat \ {0}
    BY <1>1, <2>1, AssetsFinite
  <2>3. PassLeft = 1 + 7 * Cardinality(todo) - Stage(pc)
    BY <2>1 DEF PassLeft
  <2>4. CASE turn' = "none"
    <3>1. PassLeft' = 0
      BY <2>4 DEF PassLeft
    <3> QED BY <1>1, <2>1, <2>2, <2>3, <3>1
  <2>5. CASE turn' = turn /\ todo' = todo \ {a} /\ pc' = "next" /\ Stage(pc) <= 5
    <3>1. Cardinality(todo \ {a}) = Cardinality(todo) - 1
      BY <2>1, <2>2, FS_RemoveElement
    <3>2. Stage(pc') = 0
      BY <2>5 DEF Stage
    <3>3. PassLeft' = IF todo' = {} THEN 1 ELSE 1 + 7 * Cardinality(todo') - Stage(pc')
      BY <2>1, <2>5 DEF PassLeft
    <3>4. Cardinality(todo') = Cardinality(todo) - 1
      BY <2>5, <3>1
    <3>5. CASE todo' = {}
      BY <1>1, <2>1, <2>2, <2>3, <2>5, <3>3, <3>5
    <3>6. CASE todo' # {}
      <4>1. PassLeft' = 1 + 7 * (Cardinality(todo) - 1)
        BY <2>2, <3>2, <3>3, <3>4, <3>6
      <4> QED BY <1>1, <2>1, <2>2, <2>3, <2>5, <4>1
    <3> QED BY <3>5, <3>6
  <2>6. CASE /\ turn' = turn /\ todo' = todo /\ Stage(pc) < Stage(pc')
             /\ pc' \in {"record", "hash", "probe", "copy", "install", "mark", "fail"}
    <3>1. Stage(pc') \in 0..6
      BY <2>6 DEF Stage
    <3>2. PassLeft' = 1 + 7 * Cardinality(todo) - Stage(pc')
      BY <2>1, <2>6 DEF PassLeft
    <3> QED BY <1>1, <2>1, <2>2, <2>3, <2>6, <3>1, <3>2
  <2> QED BY <1>3, <2>4, <2>5, <2>6, RowMoves
<1> QED BY <1>2, <1>3 DEF Step

\* Nobody else touches the pass that holds the lock, but to end it.
LEMMA OthersLeavePass ==
    ASSUME Next, ~Step, turn # "none"
    PROVE  turn' = "none" \/ (turn' = turn /\ todo' = todo /\ pc' = pc)
BY DEF Next, GiveUp, Crash, Unlock, Call, Acquire, Import, Reupload, Damage, Unmount, Mount, pass

LEMMA LimitStep == TypeOK /\ LimitKept /\ [Next]_vars => LimitKept'
<1> SUFFICES ASSUME TypeOK, LimitKept, [Next]_vars, turn' # "none"
             PROVE  Cardinality(todo') <= Limit(turn')
  BY DEF LimitKept
<1>1. todo \subseteq Assets /\ Limit(turn) \in Nat
  BY BoundsAssumption DEF TypeOK, Limit
<1>2. CASE UNCHANGED vars
  BY <1>2 DEF vars, pass, LimitKept
<1>3. ASSUME NEW a \in Assets, RowStep(a) PROVE Cardinality(todo') <= Limit(turn')
  <2>1. turn # "none" /\ turn' = turn /\ todo' \subseteq todo
    BY <1>3, RowMoves
  <2>2. IsFiniteSet(todo) /\ Cardinality(todo) <= Limit(turn) /\ Cardinality(todo) \in Nat
    BY <1>1, <2>1, AssetsFinite DEF LimitKept
  <2>3. Cardinality(todo') <= Cardinality(todo) /\ Cardinality(todo') \in Nat
    BY <1>1, <2>1, <2>2, FS_Subset, AssetsFinite
  <2> QED BY <1>1, <2>1, <2>2, <2>3
<1>4. CASE Finish
  BY <1>4 DEF Finish, Unlock
<1>5. ASSUME NEW k \in Kinds, Acquire(k) PROVE Cardinality(todo') <= Limit(turn')
  BY <1>5, SelectedBounded DEF Acquire, Limit
<1>6. CASE Next /\ ~Step /\ turn # "none"
  BY <1>6, OthersLeavePass DEF LimitKept
<1>7. CASE Next /\ ~Step /\ turn = "none" /\ ~\E k \in Kinds : Acquire(k)
  BY <1>7 DEF Next, GiveUp, Crash, Unlock, Call, Import, Reupload, Damage, Unmount, Mount, pass
<1> QED BY <1>2, <1>3, <1>4, <1>5, <1>6, <1>7 DEF Step

(***************************************************************************)
(* The pass that holds backupMu has a bounded number of steps left, at     *)
(* most seven for each of Batch (VerifyBatch) rows and one to unlock, and  *)
(* every step it takes is one less; imports, other calls, damages and      *)
(* disks that come and go give it no more (backup.go, the LIMITs and loops *)
(* of the three passes).                                                   *)
(***************************************************************************)
THEOREM PassesEnd ==
    Spec => /\ [](turn # "none" => PassLeft \in 1..(1 + 7 * Limit(turn)))
            /\ [][turn # "none" => PassLeft' <= PassLeft /\ (Step => PassLeft' < PassLeft)]_vars
<1> DEFINE Bounded == turn # "none" => PassLeft \in 1..(1 + 7 * Limit(turn))
           Shrink == turn # "none" => PassLeft' <= PassLeft /\ (Step => PassLeft' < PassLeft)
<1>1. Init => TypeOK /\ LimitKept
  BY InitType DEF Init, LimitKept
<1>2. TypeOK /\ LimitKept /\ [Next]_vars => TypeOK' /\ LimitKept'
  BY StepType, LimitStep
<1>3. TypeOK /\ LimitKept => Bounded
  BY PassLeftBounds
<1>4. TypeOK /\ LimitKept /\ TypeOK' /\ LimitKept' /\ [Next]_vars => [Shrink]_vars
  <2> SUFFICES ASSUME TypeOK, LimitKept, TypeOK', LimitKept', Next, turn # "none"
               PROVE  PassLeft' <= PassLeft /\ (Step => PassLeft' < PassLeft)
    OBVIOUS
  <2>1. PassLeft \in Nat /\ Limit(turn) \in Nat
    BY PassLeftBounds, BoundsAssumption DEF Limit
  <2>2. turn' # "none" => PassLeft' \in Nat
    <3> SUFFICES ASSUME turn' # "none" PROVE PassLeft' \in Nat
      OBVIOUS
    <3>1. /\ todo' \subseteq Assets /\ Cardinality(todo') \in Nat
          /\ todo' # {} => Cardinality(todo') # 0
      BY AssetsFinite DEF TypeOK
    <3>2. Stage(pc') \in 0..6
      BY DEF TypeOK, Stage
    <3> QED BY <3>1, <3>2 DEF PassLeft
  <2>3. CASE Step
    <3>1. PassLeft' < PassLeft
      BY <2>3, StepShrinks
    <3>2. PassLeft' \in Nat
      BY <2>2 DEF PassLeft
    <3> QED BY <2>1, <3>1, <3>2
  <2>4. CASE ~Step
    <3>1. CASE turn' = "none"
      BY <2>1, <2>4, <3>1 DEF PassLeft
    <3>2. CASE turn' = turn /\ todo' = todo /\ pc' = pc
      <4>1. PassLeft' = PassLeft
        BY <3>2 DEF PassLeft
      <4> QED BY <2>1, <2>4, <4>1
    <3> QED BY <2>4, <3>1, <3>2, OthersLeavePass
  <2> QED BY <2>3, <2>4
<1> HIDE DEF Bounded, Shrink
<1>5. Spec => []Bounded /\ [][Shrink]_vars
  BY <1>1, <1>2, <1>3, <1>4, PTL DEF Spec
<1> QED BY <1>5 DEF Bounded, Shrink

=============================================================================
