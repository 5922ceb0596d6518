---------------------------- MODULE Derivatives ----------------------------
(***************************************************************************)
(* Display copies of imported pictures: the second half of ImportFile and  *)
(* generateImageDerivatives (internal/media/service.go), the job queue     *)
(* (jobs.go, cmd/derivative_worker.go), `fotoro backfill-detail`           *)
(* (large_preview.go) and the writers of internal/validate/image.go.       *)
(*                                                                         *)
(* The worker of the server, the analysis of pictures (of the server, or   *)
(* of another Fotoro process) and the backfill command write the same      *)
(* cache; any of them can be killed between two writes.                    *)
(***************************************************************************)
EXTENDS Integers, FiniteSets

CONSTANTS
    Pictures,   \* assets of kind image
    Videos,     \* other assets
    MaxTrouble, \* bound: kills, failing writes and damaged originals
    Nil

ASSUME BoundsAssumption == MaxTrouble \in Nat
ASSUME KindsAssumption == Pictures \cap Videos = {} /\ Nil \notin Pictures \cup Videos

Assets == Pictures \cup Videos

VARIABLES
    original,  \* the stored file: readable, opaque (no decoder for it), changed, missing
    preview,   \* media_assets.preview_status, none before the import commits
    job,       \* analysis_jobs of type thumbnail
    legacy,    \* assets with a row in images
    derived,   \* assets with a row for their large copy in derivatives
    file,      \* the small and the large copy in the cache: absent, torn, whole
    import,    \* what an import still has to do: nothing, link, queue
    worker,    \* derivative worker of the server: off, idle, or its step on an asset
    analysis,  \* another writer of the cache
    backfill,  \* `fotoro backfill-detail`
    spoiled,   \* history: assets that had a preview when a writer was killed on it or failed
    cut,       \* history: assets an import was cut off for
    lost,      \* history: assets whose preview or job a failing statement left as it was
    trouble

cache == <<derived, file>>
catalog == <<preview, job, legacy>>
history == <<spoiled, cut, lost>>
vars == <<original, catalog, cache, import, worker, analysis, backfill, history, trouble>>

Off == [pc |-> "off", of |-> Nil]
Idle == [pc |-> "idle", of |-> Nil]
At(s, a) == [pc |-> s, of |-> a]
Sizes == {"small", "large"}
EndOf(s) == IF s = "small" THEN "small end" ELSE "large end"

Init ==
    /\ original \in [Assets -> {"readable", "opaque"}]
    /\ preview = [a \in Assets |-> "none"] /\ job = [a \in Assets |-> "none"]
    /\ legacy = {} /\ derived = {}
    /\ file = [a \in Assets |-> [s \in Sizes |-> "absent"]]
    /\ import = [a \in Assets |-> "nothing"]
    /\ worker = Off /\ analysis = Idle /\ backfill = Idle
    /\ spoiled = {} /\ cut = {} /\ lost = {} /\ trouble = 0

Trouble == trouble < MaxTrouble /\ trouble' = trouble + 1
NoTrouble == UNCHANGED trouble
Luck == NoTrouble /\ UNCHANGED lost
Lost(a) == Trouble /\ lost' = lost \cup {a}
On == worker.pc # "off"
SetPreview(a, s) == preview' = [preview EXCEPT ![a] = s]
SetJob(a, s) == job' = [job EXCEPT ![a] = s]
SetFile(a, s, f) == file' = [file EXCEPT ![a][s] = f]

(***************************************************************************)
(* Import.  Each statement after the commit stands alone.                  *)
(***************************************************************************)
Commit(a) ==
    /\ On /\ preview[a] = "none"
    /\ SetPreview(a, "pending") /\ import' = [import EXCEPT ![a] = "link"]
    /\ UNCHANGED <<original, job, legacy, cache, worker, analysis, backfill, history, trouble>>

\* linkDeviceAsset, then syncLegacyImage for a picture; a video has no preview, and the
\* error of the statement that says so is not looked at.
Link(a) ==
    /\ import[a] = "link"
    /\ \/ /\ a \in Pictures /\ legacy' = legacy \cup {a} /\ Luck
          /\ import' = [import EXCEPT ![a] = "queue"] /\ UNCHANGED <<preview, cut>>
       \/ /\ a \in Videos /\ import' = [import EXCEPT ![a] = "nothing"] /\ UNCHANGED <<legacy, cut>>
          /\ \/ SetPreview(a, "unavailable") /\ Luck
             \/ Lost(a) /\ UNCHANGED preview
       \/ /\ Trouble /\ cut' = cut \cup {a} /\ import' = [import EXCEPT ![a] = "nothing"]
          /\ UNCHANGED <<preview, legacy, lost>>
    /\ UNCHANGED <<original, job, cache, worker, analysis, backfill, spoiled>>

\* INSERT OR IGNORE: an asset has one job of this type.
Queue(a) ==
    /\ import[a] = "queue"
    /\ \/ job[a] = "none" /\ SetJob(a, "pending") /\ NoTrouble /\ UNCHANGED cut
       \/ job[a] # "none" /\ NoTrouble /\ UNCHANGED <<job, cut>>
       \/ Trouble /\ cut' = cut \cup {a} /\ UNCHANGED job
    /\ import' = [import EXCEPT ![a] = "nothing"]
    /\ UNCHANGED <<original, preview, legacy, cache, worker, analysis, backfill, spoiled, lost>>

\* A repeated upload of the same content finds the asset and its original whole.
\* Mutant: it takes the asset for finished.
RepeatQuietly(a) == FALSE

Repeat(a) ==
    /\ On /\ preview[a] # "none" /\ import[a] = "nothing"
    /\ original[a] \in {"readable", "opaque"}
    /\ a \in Pictures /\ preview[a] = "pending"
    /\ import' = [import EXCEPT ![a] = "queue"]
    /\ UNCHANGED <<original, catalog, cache, worker, analysis, backfill, history, trouble>>

(***************************************************************************)
(* The derivative worker.                                                  *)
(***************************************************************************)
\* Mutant: the jobs are left as they are.
StartWithoutReset ==
    /\ worker = Off /\ worker' = Idle
    /\ UNCHANGED <<original, catalog, cache, import, analysis, backfill, history, trouble>>

\* ResetInterruptedDerivativeJobs; its error is not looked at.
Interrupted == {a \in Assets : job[a] = "processing"}
StartServer ==
    /\ worker = Off /\ worker' = Idle
    /\ \/ job' = [a \in Assets |-> IF a \in Interrupted THEN "pending" ELSE job[a]] /\ Luck
       \/ Interrupted # {} /\ Trouble /\ lost' = lost \cup Interrupted /\ UNCHANGED job
    /\ UNCHANGED <<original, preview, legacy, cache, import, analysis, backfill, spoiled, cut>>

\* ProcessDerivativeJobs takes the oldest pending job; any, here.
TakeJob(a) ==
    /\ worker = Idle /\ job[a] = "pending"
    /\ SetJob(a, "processing") /\ worker' = At("prepare", a)
    /\ UNCHANGED <<original, preview, legacy, cache, import, analysis, backfill, history, trouble>>

Reads(a) == original[a] \in {"readable", "changed"}

\* Mutant: ready before the copies are written.
PrepareReady(a) ==
    /\ worker = At("prepare", a)
    /\ \/ original[a] = "readable" /\ worker' = At("small", a) /\ SetPreview(a, "ready") /\ UNCHANGED legacy
       \/ /\ ~Reads(a) /\ SetPreview(a, "unavailable") /\ legacy' = legacy \cup {a}
          /\ worker' = At("fail", a)
       \/ /\ original[a] = "changed" /\ SetPreview(a, "failed") /\ worker' = At("fail", a)
          /\ UNCHANGED legacy
    /\ UNCHANGED <<original, job, cache, import, analysis, backfill, history, trouble>>

\* The preview is given up; the error of the statement is not looked at.
GiveUp(a, s) ==
    /\ worker' = At("fail", a)
    /\ \/ SetPreview(a, s) /\ Luck
       \/ Lost(a) /\ UNCHANGED preview

\* generateImageDerivatives up to SaveThumbnails.  The hash of an original is read
\* before it is decoded.
Prepare(a) ==
    /\ worker = At("prepare", a)
    /\ \/ original[a] = "readable" /\ worker' = At("small", a) /\ Luck /\ UNCHANGED <<preview, legacy>>
       \/ ~Reads(a) /\ GiveUp(a, "unavailable") /\ legacy' = legacy \cup {a}
       \/ original[a] = "changed" /\ GiveUp(a, "failed") /\ UNCHANGED legacy
    /\ UNCHANGED <<original, job, cache, import, analysis, backfill, spoiled, cut>>

HadPreview(a) == preview[a] = "ready" \/ a \in derived
Spoil(a) == spoiled' = IF HadPreview(a) THEN spoiled \cup {a} ELSE spoiled

\* SaveThumbnails: os.WriteFile truncates the copy and writes it anew, small before large.
\* The write of the file is one step, its end another.
StartWrite(a, s) ==
    /\ worker = At(s, a) /\ SetFile(a, s, "torn") /\ worker' = At(EndOf(s), a)
    /\ UNCHANGED <<original, catalog, derived, import, analysis, backfill, history, trouble>>

EndWrite(a, s) ==
    /\ worker = At(EndOf(s), a)
    /\ \/ /\ SetFile(a, s, "whole") /\ worker' = At(IF s = "small" THEN "large" ELSE "ready", a)
          /\ Luck /\ UNCHANGED <<preview, legacy, spoiled>>
       \/ /\ Trouble /\ worker' = At("fail", a) /\ legacy' = legacy \cup {a} /\ Spoil(a)
          /\ \/ SetPreview(a, "failed") /\ UNCHANGED lost
             \/ lost' = lost \cup {a} /\ UNCHANGED preview
          /\ UNCHANGED file
    /\ UNCHANGED <<original, job, derived, import, analysis, backfill, cut>>

\* The statement's error is not looked at.
MarkReady(a) ==
    /\ worker = At("ready", a) /\ worker' = At("rows", a)
    /\ \/ SetPreview(a, "ready") /\ Luck
       \/ Lost(a) /\ UNCHANGED preview
    /\ UNCHANGED <<original, job, legacy, cache, import, analysis, backfill, spoiled, cut>>

\* Rows for the copies that are there (errors are not looked at); syncLegacyImage.
MarkRows(a) ==
    /\ worker = At("rows", a) /\ worker' = At("done", a)
    /\ \/ derived' = (IF file[a]["large"] # "absent" THEN derived \cup {a} ELSE derived) /\ NoTrouble
       \/ Trouble /\ UNCHANGED derived
    /\ legacy' = legacy \cup {a}
    /\ UNCHANGED <<original, preview, job, file, import, analysis, backfill, history>>

\* A failing statement leaves the job in processing until the next start.
Finish(a) ==
    /\ worker \in {At("done", a), At("fail", a)} /\ worker' = Idle
    /\ \/ SetJob(a, IF worker.pc = "done" THEN "done" ELSE "failed") /\ Luck
       \/ Lost(a) /\ UNCHANGED job
    /\ UNCHANGED <<original, preview, legacy, cache, import, analysis, backfill, spoiled, cut>>

Kill ==
    /\ On /\ Trouble /\ worker' = Off
    /\ spoiled' = spoiled \cup {a \in Assets : worker.of = a /\ HadPreview(a)}
    /\ import' = [a \in Assets |-> "nothing"]
    /\ cut' = cut \cup {a \in Assets : import[a] # "nothing"}
    /\ UNCHANGED <<original, catalog, cache, analysis, backfill, lost>>

(***************************************************************************)
(* Other writers.                                                          *)
(***************************************************************************)
\* SaveThumbnails of an analysis, of the same content.
Analyse(a) ==
    /\ original[a] = "readable" /\ a \in Pictures
    /\ \/ analysis = Idle /\ analysis' = At("small", a) /\ SetFile(a, "small", "torn")
       \/ /\ analysis = At("small", a) /\ analysis' = At("large", a)
          /\ file' = [file EXCEPT ![a]["small"] = "whole", ![a]["large"] = "torn"]
       \/ analysis = At("large", a) /\ analysis' = Idle /\ SetFile(a, "large", "whole")
    /\ UNCHANGED <<original, catalog, derived, import, worker, backfill, history, trouble>>

KillAnalysis ==
    /\ analysis # Idle /\ Trouble /\ analysis' = Idle /\ spoiled' = spoiled \cup {analysis.of}
    /\ UNCHANGED <<original, catalog, cache, import, worker, backfill, cut, lost>>

\* BackfillLargePreviews: its list, then one asset after the other.
\* Mutant: previews that are not ready are listed too.
BackfillAny(a) == a \in Pictures /\ a \notin derived

BackfillDue(a) ==
    a \in Pictures /\ preview[a] = "ready" /\ a \notin derived

ListBackfill(a) ==
    /\ backfill = Idle /\ BackfillDue(a) /\ backfill' = At("check", a)
    /\ UNCHANGED <<original, catalog, cache, import, worker, analysis, history, trouble>>

\* SaveLargeThumbnail writes to a temporary file and renames it.  A file that is there
\* is taken as it is; one without a byte, just truncated, is not.
BuildLarge(a) ==
    /\ backfill = At("check", a)
    /\ \/ original[a] = "readable" /\ file[a]["large"] \in {"torn", "whole"}
          /\ backfill' = At("record", a) /\ UNCHANGED file
       \/ original[a] = "readable" /\ file[a]["large"] \in {"absent", "torn"}
          /\ backfill' = At("record", a) /\ SetFile(a, "large", "whole")
       \/ original[a] # "readable" /\ backfill' = Idle /\ UNCHANGED file
    /\ UNCHANGED <<original, catalog, derived, import, worker, analysis, history, trouble>>

RecordLarge(a) ==
    /\ backfill = At("record", a) /\ backfill' = Idle
    /\ derived' = derived \cup {a}
    /\ UNCHANGED <<original, catalog, file, import, worker, analysis, history, trouble>>

\* The disk loses or changes an original.
Damage(a) ==
    /\ preview[a] # "none" /\ original[a] \in {"readable", "opaque"} /\ Trouble
    /\ \E d \in {"changed", "missing"} : original' = [original EXCEPT ![a] = d]
    /\ UNCHANGED <<catalog, cache, import, worker, analysis, backfill, history>>

WorkerStep(a) ==
    \/ TakeJob(a) \/ Prepare(a) \/ MarkReady(a) \/ MarkRows(a) \/ Finish(a)
    \/ \E s \in Sizes : StartWrite(a, s) \/ EndWrite(a, s)

Next ==
    \/ StartServer \/ Kill \/ KillAnalysis
    \/ \E a \in Assets :
        \/ Commit(a) \/ Link(a) \/ Queue(a) \/ Repeat(a) \/ WorkerStep(a)
        \/ Analyse(a) \/ ListBackfill(a) \/ BuildLarge(a) \/ RecordLarge(a) \/ Damage(a)

Spec == Init /\ [][Next]_vars

\* The socket starts the server again, its worker ticks, an import that has begun goes
\* on, and a phone whose call was cut off calls again.
FairSpec ==
    /\ Spec /\ WF_vars(StartServer)
    /\ WF_vars(\E a \in Assets : WorkerStep(a))
    /\ \A a \in Assets : WF_vars(Link(a)) /\ WF_vars(Queue(a)) /\ WF_vars(Repeat(a))

-----------------------------------------------------------------------------
Steps == {"prepare", "small", "small end", "large", "large end", "ready", "rows", "done", "fail"}
TypeOK ==
    /\ original \in [Assets -> {"readable", "opaque", "changed", "missing"}]
    /\ preview \in [Assets -> {"none", "pending", "ready", "failed", "unavailable"}]
    /\ job \in [Assets -> {"none", "pending", "processing", "failed", "done"}]
    /\ legacy \subseteq Pictures /\ derived \subseteq Pictures
    /\ file \in [Assets -> [Sizes -> {"absent", "torn", "whole"}]]
    /\ import \in [Assets -> {"nothing", "link", "queue"}]
    /\ worker \in {Off, Idle} \cup [pc : Steps, of : Pictures]
    /\ analysis \in {Idle} \cup [pc : Sizes, of : Pictures]
    /\ backfill \in {Idle} \cup [pc : {"check", "record"}, of : Pictures]
    /\ spoiled \subseteq Pictures /\ cut \subseteq Assets /\ lost \subseteq Assets /\ trouble \in 0..MaxTrouble

(***************************************************************************)
(* A preview that is announced can be shown: both copies are whole, unless *)
(* a writer is just replacing one, or died or failed while it did.  What   *)
(* the worker leaves when it is killed is never announced.                 *)
(***************************************************************************)
Replaced(a) ==
    worker \in {At("small end", a), At("large end", a)} \/ analysis.of = a
ReadyIsWhole ==
    \A a \in Assets : preview[a] = "ready" =>
        (\A s \in Sizes : file[a][s] = "whole") \/ Replaced(a) \/ a \in spoiled

(***************************************************************************)
(* A large copy that derivatives lists is there and whole, with the same   *)
(* exceptions: backfill-detail takes a file that is there as it is, and    *)
(* lists none the worker is still to finish.                               *)
(***************************************************************************)
ListedIsWhole ==
    \A a \in derived : file[a]["large"] = "whole" \/ Replaced(a) \/ a \in spoiled

(***************************************************************************)
(* A picture that waits for its preview has a job that will be taken, or   *)
(* its import is under way, or was cut off before it queued one.  A job    *)
(* that was taken is in the worker's hands, or the next start resets it.   *)
(* The exception is a failing statement that the code does not look at:    *)
(* the reset, the preview, or the end of the job.                          *)
(***************************************************************************)
WaitingHasJob ==
    \A a \in Pictures : preview[a] = "pending" =>
        \/ job[a] = "pending" \/ import[a] # "nothing" \/ (job[a] = "none" /\ a \in cut)
        \/ job[a] = "processing" /\ (worker.of = a \/ ~On)
        \/ a \in lost

\* The original an import was cut off for is damaged, so that a repeated upload fails; or
\* a failing statement left a settled job without its preview, or, until the next start,
\* a job in processing that nobody works on.
Unlucky(a) ==
    \/ original[a] \in {"changed", "missing"} /\ a \in cut /\ job[a] = "none"
    \/ a \in lost /\ (job[a] \in {"done", "failed"} \/ (job[a] = "processing" /\ On /\ worker.of # a))

(***************************************************************************)
(* Every picture that is imported gets a preview, or is known to have      *)
(* none, also when the server is killed between the steps of its import    *)
(* or of its job, and when its import fails and is repeated.  Only a       *)
(* failing statement that the code does not look at, or a damaged          *)
(* original, can leave it waiting.                                         *)
(***************************************************************************)
PreviewSettles ==
    \A a \in Pictures : preview[a] = "pending" ~> (preview[a] # "pending" \/ Unlucky(a))

=============================================================================
