---------------------------- MODULE BackupCopies ----------------------------
(***************************************************************************)
(* The second copy of every original: internal/media/backup.go             *)
(* (VerifyPrimaryPending, BackupPending, VerifyBackupCopies, backupOne)    *)
(* with its callers, the background worker and the storage API             *)
(* (cmd/storage_api.go), and safe_to_delete as decorateAsset reports it.   *)
(*                                                                         *)
(* A pass checks that the disks are mounted, waits for backupMu, selects a *)
(* batch of rows and works through it; uploads, the loss of a disk and the *)
(* decay of files go on meanwhile.  A file is "good" if its bytes have the *)
(* hash in media_assets.                                                   *)
(***************************************************************************)
EXTENDS Integers, FiniteSets

CONSTANTS
    N,            \* number of assets, numbered in the order of imported_at
    Batch,        \* rows per pass of VerifyPrimaryPending and BackupPending
    VerifyBatch,  \* rows per pass of VerifyBackupCopies
    MaxTrouble    \* bound: damages, unmounts, failing calls, crashes

Assets == 1..N
Disks  == {"primary", "backup"}
Kinds  == {"primary", "backup", "verify"}      \* the three passes
File   == {"good", "bad", "gone"}
Places == {"disk", "point"}      \* where the path of a copy may lead
Temp   == {<<>>} \cup Places \X {"good", "bad"}

ASSUME BoundsAssumption ==
    N \in Nat /\ Batch \in Nat \ {0} /\ VerifyBatch \in Nat \ {0} /\ MaxTrouble \in Nat

VARIABLES
    mounted,   \* the disks that are mounted
    status,    \* media_assets.status
    primary,   \* assets with a verified primary row in storage_copies
    backup,    \* the status of the backup row in storage_copies
    age,       \* rank of the assets by verified_at of their backup row, oldest first
    pfile,     \* originals on the primary disk
    bfile,     \* copies on the backup disk
    shadow,    \* files at the paths of copies under the bare mount point
    dirs,      \* the directories of the copies that exist, and where
    waiting,   \* passes that found the disks mounted and wait for backupMu
    turn,      \* the pass that holds backupMu
    todo,      \* the rows it selected and has not finished
    pc,        \* its program counter
    found,     \* what it last read
    temp,      \* its .part file: where it is, and its bytes
    rotten,    \* history: copies damaged since they were last hashed
    trouble

catalogue == <<status, primary, backup, age>>
files     == <<pfile, bfile, shadow, dirs, rotten>>
pass      == <<turn, todo, pc, found, temp>>
vars      == <<mounted, catalogue, files, waiting, pass, trouble>>

\* Legacy rows claim to be verified, without a copy row; the others are to come.
Init ==
    /\ mounted = Disks
    /\ \E n \in 0..N :
        /\ status = [a \in Assets |-> IF a <= n THEN "verified" ELSE "absent"]
        /\ pfile \in [Assets -> File]
        /\ \A a \in Assets : a > n => pfile[a] = "gone"
    /\ primary = {}
    /\ backup = [a \in Assets |-> "none"]
    /\ age = [a \in Assets |-> a]
    /\ bfile = [a \in Assets |-> "gone"]
    /\ shadow = [a \in Assets |-> "gone"]
    /\ dirs = {}
    /\ waiting = {} /\ turn = "none" /\ todo = {}
    /\ pc = "next" /\ found = "gone" /\ temp = <<>>
    /\ rotten = {} /\ trouble = 0

Trouble == trouble < MaxTrouble /\ trouble' = trouble + 1
NoTrouble == UNCHANGED trouble

PrimaryUp == "primary" \in mounted     \* primaryAvailable
BackupUp  == mounted = Disks           \* backupAvailable

Place == IF "backup" \in mounted THEN "disk" ELSE "point"

\* What a read of the path of a's original, or of its copy, finds.
OriginalAt(a) == IF PrimaryUp THEN pfile[a] ELSE "gone"
CopyAt(a)     == IF Place = "disk" THEN bfile[a] ELSE shadow[a]

(***************************************************************************)
(* The three queries.                                                      *)
(***************************************************************************)
\* Mutant: files once missing are given up.
CandidatesNeverMissing(k) ==
    CASE k = "primary" -> {a \in Assets : status[a] = "verified" /\ a \notin primary}
      [] k = "backup"  -> {a \in primary : backup[a] # "verified"}
      [] k = "verify"  -> {a \in Assets : backup[a] = "verified"}

\* Mutant: a failed copy is not pending again.
CandidatesNeverFailed(k) ==
    CASE k = "primary" -> {a \in Assets : status[a] \notin {"absent", "corrupt"} /\ a \notin primary}
      [] k = "backup"  -> {a \in primary : backup[a] = "none"}
      [] k = "verify"  -> {a \in Assets : backup[a] = "verified"}

Candidates(k) ==
    CASE k = "primary" -> {a \in Assets : status[a] \notin {"absent", "corrupt"} /\ a \notin primary}
      [] k = "backup"  -> {a \in primary : backup[a] # "verified"}
      [] k = "verify"  -> {a \in Assets : backup[a] = "verified"}

\* Mutant: copies are verified in the order of their ids.
RankById(k, a) == a

\* ORDER BY: missing originals last; the copy that was verified longest ago first.
Rank(k, a) ==
    CASE k = "primary" -> IF status[a] = "missing" THEN N + a ELSE a
      [] k = "backup"  -> a
      [] k = "verify"  -> age[a]

Limit(k) == IF k = "verify" THEN VerifyBatch ELSE Batch
Selected(k) ==
    {a \in Candidates(k) :
        Cardinality({b \in Candidates(k) : Rank(k, b) < Rank(k, a)}) < Limit(k)}

\* verified_at = now: a becomes the youngest.
Touch(a) ==
    [b \in Assets |-> IF b = a THEN N ELSE IF age[b] > age[a] THEN age[b] - 1 ELSE age[b]]

(***************************************************************************)
(* A pass is called: by the worker's tickers, or through the storage API.  *)
(***************************************************************************)
Call(k) ==
    /\ k \notin waiting
    /\ IF k = "primary" THEN PrimaryUp ELSE BackupUp
    /\ waiting' = waiting \cup {k}
    /\ UNCHANGED <<mounted, catalogue, files, pass, trouble>>

\* backupMu.Lock, and the query.
Acquire(k) ==
    /\ k \in waiting /\ turn = "none"
    /\ waiting' = waiting \ {k}
    /\ turn' = k /\ todo' = Selected(k)
    /\ UNCHANGED <<mounted, catalogue, files, pc, found, temp, trouble>>

\* The pass k is about to do p with the next row, a.
At(k, p, a) ==
    /\ turn = k /\ pc = p /\ a \in todo
    /\ \A b \in todo : Rank(k, a) <= Rank(k, b)
Unlock ==
    /\ turn' = "none" /\ todo' = {} /\ pc' = "next"
    /\ found' = "gone" /\ temp' = <<>>
GoOn(p) == pc' = p /\ UNCHANGED <<turn, todo>>
Done(a) == todo' = todo \ {a} /\ pc' = "next" /\ found' = "gone" /\ temp' = <<>> /\ UNCHANGED turn

Finish ==
    /\ turn # "none" /\ todo = {} /\ Unlock
    /\ UNCHANGED <<mounted, catalogue, files, waiting, trouble>>

\* The context of the pass expires between two rows.
GiveUp ==
    /\ turn # "none" /\ pc = "next" /\ todo # {}
    /\ Trouble /\ Unlock
    /\ UNCHANGED <<mounted, catalogue, files, waiting>>

(***************************************************************************)
(* VerifyPrimaryPending.                                                   *)
(***************************************************************************)
HashPrimary(a) ==
    /\ At("primary", "next", a)
    /\ found' = OriginalAt(a) /\ GoOn("record")
    /\ UNCHANGED <<mounted, catalogue, files, waiting, temp, trouble>>

\* Mutant: an original that cannot be read is corrupt.
VerdictHarsh(f) == IF f = "good" THEN "verified" ELSE "corrupt"

Verdict(f) == CASE f = "good" -> "verified" [] f = "bad" -> "corrupt" [] f = "gone" -> "missing"

RecordPrimary(a) ==
    /\ At("primary", "record", a)
    /\ \/ /\ status' = [status EXCEPT ![a] = Verdict(found)]
          /\ primary' = IF found = "good" THEN primary \cup {a} ELSE primary
          /\ Done(a) /\ NoTrouble
       \/ /\ found = "good"              \* the transaction fails, the pass ends
          /\ Trouble /\ Unlock /\ UNCHANGED <<status, primary>>
       \/ /\ Trouble /\ Done(a)          \* the UPDATE or os.Stat fails: continue
          /\ UNCHANGED <<status, primary>>
    /\ UNCHANGED <<mounted, backup, age, files, waiting>>

(***************************************************************************)
(* BackupPending and backupOne.  The first row that fails ends the pass.   *)
(***************************************************************************)
\* The disks are checked again.
StartCopy(a) ==
    /\ At("backup", "next", a)
    /\ GoOn(IF BackupUp THEN "hash" ELSE "fail")
    /\ UNCHANGED <<mounted, catalogue, files, waiting, found, temp, trouble>>

\* The original is hashed; the directory is made wherever the path leads by now.
HashSource(a) ==
    /\ At("backup", "hash", a)
    /\ \/ /\ OriginalAt(a) = "good"
          /\ dirs' = dirs \cup {<<Place, a>>}
          /\ GoOn("probe") /\ NoTrouble
       \/ OriginalAt(a) # "good" /\ GoOn("fail") /\ NoTrouble /\ UNCHANGED dirs
       \/ GoOn("fail") /\ Trouble /\ UNCHANGED dirs
    /\ UNCHANGED <<mounted, catalogue, pfile, bfile, shadow, rotten, waiting, found, temp>>

\* A copy with the right hash may be there already.
ProbeCopy(a) ==
    /\ At("backup", "probe", a)
    /\ \/ /\ CopyAt(a) = "good"
          /\ rotten' = rotten \ {<<"backup", a>>}
          /\ GoOn("mark") /\ NoTrouble
       \/ CopyAt(a) # "good" /\ GoOn("copy") /\ NoTrouble /\ UNCHANGED rotten
       \/ GoOn("fail") /\ Trouble /\ UNCHANGED rotten
    /\ UNCHANGED <<mounted, catalogue, pfile, bfile, shadow, dirs, waiting, found, temp>>

\* Opening the .part file needs the directory.
CanCopy(a) == OriginalAt(a) # "gone" /\ <<Place, a>> \in dirs
CopyTemp(a) ==
    /\ At("backup", "copy", a)
    /\ \/ /\ CanCopy(a)
          /\ temp' = <<Place, OriginalAt(a)>>
          /\ GoOn("install") /\ NoTrouble
       \/ ~CanCopy(a) /\ GoOn("fail") /\ NoTrouble /\ UNCHANGED temp
       \/ GoOn("fail") /\ Trouble /\ UNCHANGED temp
    /\ UNCHANGED <<mounted, catalogue, files, waiting, found>>

TempFound == temp[1] = Place

Installed(a) ==
    /\ bfile' = IF temp[1] = "disk" THEN [bfile EXCEPT ![a] = temp[2]] ELSE bfile
    /\ shadow' = IF temp[1] = "point" THEN [shadow EXCEPT ![a] = temp[2]] ELSE shadow
    /\ rotten' = rotten \ {<<"backup", a>>}

\* Mutant: the copy is renamed without hashing it.
InstallUnchecked(a) ==
    /\ At("backup", "install", a)
    /\ Installed(a) /\ GoOn("mark")
    /\ UNCHANGED <<mounted, catalogue, pfile, dirs, waiting, found, temp, trouble>>

\* Hash the .part file, rename it and sync the directory.
InstallCopy(a) ==
    /\ At("backup", "install", a)
    /\ \/ /\ TempFound /\ temp[2] = "good" /\ Installed(a)
          /\ \/ GoOn("mark") /\ NoTrouble
             \/ GoOn("fail") /\ Trouble
       \/ /\ ~(TempFound /\ temp[2] = "good")
          /\ GoOn("fail") /\ NoTrouble /\ UNCHANGED <<bfile, shadow, rotten>>
       \/ GoOn("fail") /\ Trouble /\ UNCHANGED <<bfile, shadow, rotten>>
    /\ UNCHANGED <<mounted, catalogue, pfile, dirs, waiting, found, temp>>

MarkBackup(a) ==
    /\ At("backup", "mark", a)
    /\ \/ /\ backup' = [backup EXCEPT ![a] = "verified"]
          /\ age' = Touch(a)
          /\ Done(a) /\ NoTrouble
       \/ /\ GoOn("fail") /\ Trouble
          /\ UNCHANGED <<backup, age, found, temp>>
    /\ UNCHANGED <<mounted, status, primary, files, waiting>>

RecordFailure(a) ==
    /\ At("backup", "fail", a) /\ Unlock
    /\ \/ backup' = [backup EXCEPT ![a] = "failed"] /\ NoTrouble
       \/ Trouble /\ UNCHANGED backup
    /\ UNCHANGED <<mounted, status, primary, age, files, waiting>>

(***************************************************************************)
(* VerifyBackupCopies.  The disks are not checked again after the wait.    *)
(***************************************************************************)
HashCopy(a) ==
    /\ At("verify", "next", a)
    /\ found' = CopyAt(a) /\ GoOn("record")
    /\ rotten' = IF CopyAt(a) = "good" THEN rotten \ {<<"backup", a>>} ELSE rotten
    /\ UNCHANGED <<mounted, catalogue, pfile, bfile, shadow, dirs, waiting, temp, trouble>>

RecordCheck(a) ==
    /\ At("verify", "record", a)
    /\ \/ /\ found = "good"
          /\ age' = Touch(a)
          /\ Done(a) /\ NoTrouble /\ UNCHANGED backup
       \/ /\ found # "good"
          /\ backup' = [backup EXCEPT ![a] = "failed"]
          /\ Done(a) /\ NoTrouble /\ UNCHANGED age
       \/ Trouble /\ Unlock /\ UNCHANGED <<backup, age>>
    /\ UNCHANGED <<mounted, status, primary, files, waiting>>

(***************************************************************************)
(* Meanwhile.                                                              *)
(***************************************************************************)
\* MediaUpload!CommitAsset.
Import(a) ==
    /\ status[a] = "absent" /\ \A b \in Assets : b < a => status[b] # "absent"
    /\ PrimaryUp
    /\ status' = [status EXCEPT ![a] = "verified"]
    /\ primary' = primary \cup {a}
    /\ pfile' = [pfile EXCEPT ![a] = "good"]
    /\ UNCHANGED <<mounted, backup, age, bfile, shadow, dirs, rotten, waiting, pass, trouble>>

\* MediaUpload!RecheckOriginal: the bytes of a are uploaded again.
Reupload(a) ==
    /\ status[a] # "absent" /\ a \notin primary
    /\ OriginalAt(a) = "good"
    /\ primary' = primary \cup {a}
    /\ UNCHANGED <<mounted, status, backup, age, files, waiting, pass, trouble>>

Damage(a) ==
    /\ Trouble
    /\ \/ /\ pfile[a] = "good"
          /\ \E f \in {"bad", "gone"} : pfile' = [pfile EXCEPT ![a] = f]
          /\ rotten' = rotten \cup {<<"primary", a>>} /\ UNCHANGED bfile
       \/ /\ bfile[a] = "good"
          /\ \E f \in {"bad", "gone"} : bfile' = [bfile EXCEPT ![a] = f]
          /\ rotten' = rotten \cup {<<"backup", a>>} /\ UNCHANGED pfile
    /\ UNCHANGED <<mounted, catalogue, shadow, dirs, waiting, pass>>

Unmount(d) ==
    /\ d \in mounted /\ Trouble
    /\ mounted' = mounted \ {d}
    /\ UNCHANGED <<catalogue, files, waiting, pass>>

Mount(d) ==
    /\ d \notin mounted
    /\ mounted' = mounted \cup {d}
    /\ UNCHANGED <<catalogue, files, waiting, pass, trouble>>

\* The process dies and starts again.
Crash ==
    /\ Trouble /\ Unlock
    /\ waiting' = {}
    /\ UNCHANGED <<mounted, catalogue, files>>

RowStep(a) ==
    \/ HashPrimary(a) \/ RecordPrimary(a)
    \/ StartCopy(a) \/ HashSource(a) \/ ProbeCopy(a) \/ CopyTemp(a) \/ InstallCopy(a)
    \/ MarkBackup(a) \/ RecordFailure(a)
    \/ HashCopy(a) \/ RecordCheck(a)

Step == Finish \/ \E a \in Assets : RowStep(a)

Next ==
    \/ Step \/ GiveUp \/ Crash
    \/ \E k \in Kinds : Call(k) \/ Acquire(k)
    \/ \E a \in Assets : Import(a) \/ Reupload(a) \/ Damage(a)
    \/ \E d \in Disks : Unmount(d) \/ Mount(d)

Spec == Init /\ [][Next]_vars

(***************************************************************************)
(* Assumption on the owner: the backup disk does not go away between the   *)
(* check of the disks at the start of a copy and the creation of the       *)
(* directory of the copy, while the original is hashed.  Later it may: with*)
(* no directory under the bare mount point, nothing can be written there.  *)
(***************************************************************************)
Starting == turn = "backup" /\ pc = "hash"
SteadyDisks == Starting => "backup" \in mounted'
SteadySpec == Init /\ [][Next /\ SteadyDisks]_vars

\* The ticker of 30 seconds calls the first two passes again and again: copies that are
\* pending keep the server awake, and for originals that are still to be verified it is
\* woken again and ticks for ten minutes at least.  A pass runs to its end, a sync.Mutex
\* starves nobody, a disk that went away is mounted again.  Nothing is assumed of the
\* third pass: its ticker of 24 hours starts anew with every process.
Fairness ==
    /\ WF_vars(Step)
    /\ \A k \in {"primary", "backup"} : WF_vars(Call(k))
    /\ \A k \in Kinds : SF_vars(Acquire(k))
    /\ \A d \in Disks : WF_vars(Mount(d))
FairSpec == SteadySpec /\ Fairness

-----------------------------------------------------------------------------
TypeOK ==
    /\ mounted \subseteq Disks
    /\ status \in [Assets -> {"absent", "verified", "missing", "corrupt"}]
    /\ primary \subseteq Assets
    /\ backup \in [Assets -> {"none", "verified", "failed"}]
    /\ age \in [Assets -> Assets] /\ \A a, b \in Assets : age[a] = age[b] => a = b
    /\ pfile \in [Assets -> File] /\ bfile \in [Assets -> File] /\ shadow \in [Assets -> File]
    /\ dirs \subseteq Places \X Assets
    /\ waiting \subseteq Kinds
    /\ turn \in Kinds \cup {"none"}
    /\ todo \subseteq (IF turn = "none" THEN {} ELSE Assets)
    /\ pc \in {"next", "record", "hash", "probe", "copy", "install", "mark", "fail"}
    /\ found \in File
    /\ temp \in Temp
    /\ rotten \subseteq Disks \X Assets
    /\ trouble \in 0..MaxTrouble

\* decorateAsset: two verified rows, both disks there, and both files too.
SafeToDelete(a) ==
    /\ a \in primary /\ backup[a] = "verified"
    /\ BackupUp
    /\ pfile[a] # "gone" /\ bfile[a] # "gone"

(***************************************************************************)
(* "A phone asset is backed_up only after both copies are verified": what  *)
(* is reported safe to delete has two files with the right bytes, except   *)
(* for decay after they were last hashed.                                  *)
(***************************************************************************)
SafeCopiesVerified ==
    \A a \in Assets : SafeToDelete(a) =>
        /\ pfile[a] = "good" \/ <<"primary", a>> \in rotten
        /\ bfile[a] = "good" \/ <<"backup", a>> \in rotten

(***************************************************************************)
(* "corrupt" is final for VerifyPrimaryPending, so an original that could  *)
(* only not be reached (no disk, no file) is never given that status.      *)
(***************************************************************************)
CorruptIsReal == \A a \in Assets : status[a] = "corrupt" => pfile[a] \in {"bad", "gone"}

(***************************************************************************)
(* Every readable original gets its second copy, again after that copy was *)
(* found damaged, unless an older original that was once verified cannot   *)
(* be read: BackupPending stops there.                                     *)
(***************************************************************************)
Unreadable(a) == a \in primary /\ pfile[a] # "good"
BackupsComplete ==
    \A a \in Assets : (a \in primary /\ backup[a] # "verified") ~>
        (backup[a] = "verified" \/ \E b \in Assets : b <= a /\ Unreadable(b))

(***************************************************************************)
(* A legacy original that is there enters the backup queue, also after its *)
(* disk was away for a while, unless Batch older originals stay missing.   *)
(***************************************************************************)
StillMissing(a) == {b \in Assets : b < a /\ status[b] = "missing" /\ b \notin primary}
LegacyVerified ==
    \A a \in Assets : (status[a] \in {"verified", "missing"} /\ pfile[a] = "good") ~>
        (a \in primary \/ pfile[a] # "good" \/ Cardinality(StillMissing(a)) >= Batch)

(***************************************************************************)
(* If verification passes keep coming, decay of a verified copy is found,  *)
(* however small the batches are: VerifyBackupCopies takes the copies in   *)
(* turn.  That they come is not the server's doing: an idle one exits long *)
(* before its ticker of 24 hours has run, and then only POST               *)
(* /api/v1/storage/verify calls them.                                      *)
(***************************************************************************)
VerificationComes == []<>("verify" \in waiting)
DecayFound ==
    VerificationComes => \A a \in Assets : (backup[a] = "verified" /\ bfile[a] # "good") ~>
        (backup[a] # "verified" \/ bfile[a] = "good")

=============================================================================
