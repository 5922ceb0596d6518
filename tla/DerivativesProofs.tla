------------------------- MODULE DerivativesProofs -------------------------
(***************************************************************************)
(* For any pictures, videos and failures: the state of the display copies  *)
(* is well typed, a picture that waits for its preview is not forgotten,   *)
(* and a copy that is announced or listed is whole.                        *)
(***************************************************************************)
EXTENDS Derivatives, TLAPS

(***************************************************************************)
(* Only pictures have jobs; an asset that is not imported has none, and is *)
(* in nobody's hands.                                                      *)
(***************************************************************************)
Imported(a) ==
    /\ job[a] # "none" \/ import[a] = "queue" => a \in Pictures
    /\ preview[a] = "none" => job[a] = "none" /\ import[a] = "nothing" /\ worker.of # a

(***************************************************************************)
(* How a preview can still be pending: its job was not finished, or        *)
(* something went wrong on the way.                                        *)
(***************************************************************************)
Queued(a) ==
    preview[a] = "pending" /\ a \notin lost =>
        /\ job[a] = "none" => import[a] # "nothing" \/ a \in cut
        /\ job[a] \notin {"done", "failed"}
        /\ job[a] = "processing" => worker.of = a \/ ~On
        /\ worker.of = a => worker.pc \notin {"rows", "done", "fail"}

JobInv == TypeOK /\ \A a \in Assets : Imported(a) /\ Queued(a)

LEMMA InitJobs == Init => JobInv
<1> SUFFICES ASSUME Init PROVE JobInv
  OBVIOUS
<1> USE DEF Init
<1>1. trouble \in 0..MaxTrouble
  BY BoundsAssumption
<1>2. original \in [Assets -> {"readable", "opaque", "changed", "missing"}]
  OBVIOUS
<1>3. file \in [Assets -> [Sizes -> {"absent", "torn", "whole"}]]
  OBVIOUS
<1>4. TypeOK
  BY <1>1, <1>2, <1>3 DEF TypeOK
<1>5. ASSUME NEW a \in Assets PROVE Imported(a) /\ Queued(a)
  BY KindsAssumption DEF Imported, Queued, Off, Assets
<1> QED BY <1>4, <1>5 DEF JobInv

LEMMA TroubleType == ASSUME TypeOK, Trouble \/ NoTrouble PROVE trouble' \in 0..MaxTrouble
BY BoundsAssumption DEF TypeOK, Trouble, NoTrouble

LEMMA FileType ==
    ASSUME TypeOK, NEW a \in Assets, NEW s \in Sizes, NEW f \in {"absent", "torn", "whole"}, SetFile(a, s, f)
    PROVE  file' \in [Assets -> [Sizes -> {"absent", "torn", "whole"}]]
<1>1. file \in [Assets -> [Sizes -> {"absent", "torn", "whole"}]]
  BY DEF TypeOK
<1>2. file' = [file EXCEPT ![a] = [file[a] EXCEPT ![s] = f]]
  BY DEF SetFile
<1>3. [file[a] EXCEPT ![s] = f] \in [Sizes -> {"absent", "torn", "whole"}]
  BY <1>1
<1> QED BY <1>1, <1>2, <1>3

(***************************************************************************)
(* Import.                                                                 *)
(***************************************************************************)
ImportStep(a) == Commit(a) \/ Link(a) \/ Queue(a) \/ Repeat(a)

LEMMA ImportKeeps == ASSUME JobInv, NEW a \in Assets, ImportStep(a) PROVE JobInv'
<1> USE DEF JobInv
<1>0. /\ preview \in [Assets -> {"none", "pending", "ready", "failed", "unavailable"}]
      /\ job \in [Assets -> {"none", "pending", "processing", "failed", "done"}]
      /\ import \in [Assets -> {"nothing", "link", "queue"}]
      /\ Imported(a) /\ Queued(a)
      /\ a \in Pictures \/ a \in Videos
  BY DEF TypeOK, Assets
<1>1. /\ UNCHANGED <<original, cache, worker, analysis, backfill, spoiled>>
      /\ \A b \in Assets \ {a} : preview'[b] = preview[b] /\ job'[b] = job[b] /\ import'[b] = import[b]
      /\ cut \subseteq cut' /\ lost \subseteq lost' /\ cut' \subseteq cut \cup {a} /\ lost' \subseteq lost \cup {a}
      /\ Trouble \/ NoTrouble
  BY <1>0 DEF ImportStep, Commit, Link, Queue, Repeat, SetPreview, SetJob, catalog, history, Luck, Lost, NoTrouble
<1>2. TypeOK'
  <2>1. /\ preview' \in [Assets -> {"none", "pending", "ready", "failed", "unavailable"}]
        /\ job' \in [Assets -> {"none", "pending", "processing", "failed", "done"}]
        /\ import' \in [Assets -> {"nothing", "link", "queue"}]
    BY <1>0 DEF ImportStep, Commit, Link, Queue, Repeat, SetPreview, SetJob, catalog
  <2>2. legacy' \subseteq legacy \cup {a} /\ (a \in Pictures \/ legacy' = legacy)
    BY <1>0 DEF ImportStep, Commit, Link, Queue, Repeat, catalog
  <2>3. trouble' \in 0..MaxTrouble
    BY <1>1, TroubleType
  <2> QED BY <1>1, <2>1, <2>2, <2>3 DEF TypeOK, cache
<1>3. Imported(a)' /\ Queued(a)'
  <2>1. CASE Commit(a)
    BY <1>0, <1>1, <2>1 DEF Commit, SetPreview, Imported, Queued, On
  <2>2. CASE Link(a)
    BY <1>0, <1>1, <2>2 DEF Link, SetPreview, Imported, Queued, On, Lost
  <2>3. CASE Queue(a)
    BY <1>0, <1>1, <2>3 DEF Queue, SetJob, Imported, Queued, On
  <2>4. CASE Repeat(a)
    BY <1>0, <1>1, <2>4 DEF Repeat, catalog, Imported, Queued, On
  <2> QED BY <2>1, <2>2, <2>3, <2>4 DEF ImportStep
<1> QED BY <1>1, <1>2, <1>3 DEF Imported, Queued, On

(***************************************************************************)
(* The worker.                                                             *)
(***************************************************************************)
LEMMA WorkerType ==
    ASSUME JobInv, NEW a \in Assets, WorkerStep(a)
    PROVE  TypeOK' /\ a \in Pictures /\ (worker = Idle \/ (worker.of = a /\ worker.pc \in Steps))
<1> USE DEF JobInv
<1>0. worker \in {Off, Idle} \cup [pc : Steps, of : Pictures] /\ worker' \in {Idle} \cup {At(s, a) : s \in Steps}
  BY DEF TypeOK, WorkerStep, TakeJob, Prepare, MarkReady, MarkRows, Finish, StartWrite, EndWrite, GiveUp, EndOf, Sizes, Steps
<1>1. a \in Pictures /\ (worker = Idle \/ (worker.of = a /\ worker.pc \in Steps))
  <2>1. CASE TakeJob(a)
    BY <2>1 DEF TakeJob, Imported
  <2>2. CASE ~TakeJob(a)
    <3>1. \E s \in Steps : worker = At(s, a)
      BY <2>2 DEF WorkerStep, Prepare, MarkReady, MarkRows, Finish, StartWrite, EndWrite, GiveUp, EndOf, Sizes, Steps
    <3>2. PICK s \in Steps : worker = [pc |-> s, of |-> a]
      BY <3>1 DEF At
    <3>3. worker.pc = s /\ worker.of = a
      BY <3>2
    <3>4. s # "off" /\ s # "idle"
      BY DEF Steps
    <3>5. worker \in [pc : Steps, of : Pictures]
      BY <1>0, <3>3, <3>4 DEF Off, Idle
    <3> QED BY <3>3, <3>5
  <2> QED BY <2>1, <2>2
<1>2. worker' \in {Off, Idle} \cup [pc : Steps, of : Pictures]
  BY <1>0, <1>1 DEF At
<1>3. trouble' \in 0..MaxTrouble /\ lost' \subseteq lost \cup {a}
  <2>1. (Trouble \/ NoTrouble) /\ lost' \subseteq lost \cup {a}
    BY DEF WorkerStep, TakeJob, Prepare, MarkReady, MarkRows, Finish, StartWrite, EndWrite, GiveUp, Lost, Luck,
           NoTrouble, history
  <2> QED BY <2>1, TroubleType
<1>4. /\ UNCHANGED <<original, import, analysis, backfill, cut>> /\ spoiled' \subseteq spoiled \cup {a}
      /\ legacy' \subseteq legacy \cup {a} /\ derived' \subseteq derived \cup {a}
  BY DEF WorkerStep, TakeJob, Prepare, MarkReady, MarkRows, Finish, StartWrite, EndWrite, Spoil, cache, catalog,
         history
<1>5. preview' \in [Assets -> {"none", "pending", "ready", "failed", "unavailable"}]
  BY DEF TypeOK, WorkerStep, TakeJob, Prepare, MarkReady, MarkRows, Finish, StartWrite, EndWrite, GiveUp, catalog,
         SetPreview
<1>6. job' \in [Assets -> {"none", "pending", "processing", "failed", "done"}]
  BY DEF TypeOK, WorkerStep, TakeJob, Prepare, MarkReady, MarkRows, Finish, StartWrite, EndWrite, catalog, SetJob
<1>7. file' \in [Assets -> [Sizes -> {"absent", "torn", "whole"}]]
  <2>1. file' = file \/ \E s \in Sizes, f \in {"torn", "whole"} : SetFile(a, s, f)
    BY DEF WorkerStep, TakeJob, Prepare, MarkReady, MarkRows, Finish, StartWrite, EndWrite, cache
  <2> QED BY <2>1, FileType DEF TypeOK
<1> QED BY <1>1, <1>2, <1>3, <1>4, <1>5, <1>6, <1>7 DEF TypeOK

LEMMA WorkerKeeps == ASSUME JobInv, NEW a \in Assets, WorkerStep(a) PROVE JobInv'
<1>0. /\ preview \in [Assets -> {"none", "pending", "ready", "failed", "unavailable"}]
      /\ job \in [Assets -> {"none", "pending", "processing", "failed", "done"}]
      /\ a \in Pictures /\ Imported(a) /\ Queued(a)
      /\ worker = Idle \/ (worker.of = a /\ worker.pc \in Steps)
  BY WorkerType DEF JobInv, TypeOK
<1>1. /\ import' = import /\ cut' = cut /\ lost \subseteq lost'
      /\ \A b \in Assets \ {a} : preview'[b] = preview[b] /\ job'[b] = job[b]
  BY <1>0 DEF WorkerStep, TakeJob, Prepare, MarkReady, MarkRows, Finish, StartWrite, EndWrite, GiveUp, catalog,
              history, SetPreview, SetJob, Lost, Luck
<1>2. /\ worker' = Idle \/ (worker'.of = a /\ worker'.pc \in Steps)
      /\ On /\ On'
  <2>1. worker' \in {Idle} \cup {At(s, a) : s \in Steps}
    BY DEF WorkerStep, TakeJob, Prepare, MarkReady, MarkRows, Finish, StartWrite, EndWrite, GiveUp, EndOf, Sizes, Steps
  <2>2. worker' = Idle \/ (worker'.of = a /\ worker'.pc \in Steps)
    BY <2>1 DEF At
  <2>3. "off" \notin Steps /\ Idle.pc = "idle"
    BY DEF Steps, Idle
  <2> QED BY <1>0, <2>2, <2>3 DEF On
<1>3. ASSUME NEW b \in Assets, b # a PROVE Imported(b)' /\ Queued(b)'
  <2>1. Imported(b) /\ Queued(b) /\ b # Nil
    BY KindsAssumption DEF JobInv, Assets
  <2>2. worker.of # b /\ worker'.of # b
    BY <1>0, <1>2, <1>3, <2>1 DEF Idle
  <2> QED BY <1>1, <1>2, <1>3, <2>1, <2>2 DEF Imported, Queued
<1>4. Imported(a)'
  <2>1. preview'[a] # "none"
    <3>1. preview[a] # "none"
      BY <1>0 DEF Imported, WorkerStep, TakeJob, Prepare, MarkReady, MarkRows, Finish, StartWrite, EndWrite,
                  Idle, At
    <3> QED BY <1>0, <3>1 DEF WorkerStep, TakeJob, Prepare, MarkReady, MarkRows, Finish, StartWrite, EndWrite,
                              GiveUp, catalog, SetPreview
  <2> QED BY <1>0, <2>1 DEF Imported
<1>5. Queued(a)'
  <2> SUFFICES ASSUME preview'[a] = "pending", a \notin lost'
               PROVE  /\ job'[a] = "none" => import'[a] # "nothing" \/ a \in cut'
                      /\ job'[a] \notin {"done", "failed"}
                      /\ job'[a] = "processing" => worker'.of = a
                      /\ worker'.of = a => worker'.pc \notin {"rows", "done", "fail"}
    BY DEF Queued
  <2>1. preview[a] = "pending" /\ a \notin lost
    BY <1>0, <1>1 DEF WorkerStep, TakeJob, Prepare, MarkReady, MarkRows, Finish, StartWrite, EndWrite, GiveUp,
                      catalog, SetPreview, Imported, Idle, At
  <2>2. CASE TakeJob(a)
    BY <1>0, <1>1, <2>1, <2>2 DEF TakeJob, SetJob, At, Queued
  <2>3. CASE Prepare(a)
    BY <1>0, <1>1, <2>1, <2>3 DEF Prepare, GiveUp, Lost, SetPreview, At, Queued
  <2>4. CASE MarkReady(a)
    BY <1>0, <1>1, <2>1, <2>4 DEF MarkReady, SetPreview, Lost
  <2>5. CASE MarkRows(a)
    BY <1>0, <2>1, <2>5 DEF MarkRows, Queued, At
  <2>6. CASE Finish(a)
    BY <1>0, <2>1, <2>6 DEF Finish, Queued, At
  <2>7. CASE \E s \in Sizes : StartWrite(a, s) \/ EndWrite(a, s)
    <3> DEFINE Early == Steps \ {"rows", "done", "fail"}
    <3>0. PICK s \in Sizes : StartWrite(a, s) \/ EndWrite(a, s)
      BY <2>7
    <3>1. job' = job /\ worker.of = a /\ \E t \in Early : worker' = At(t, a)
      <4>1. CASE StartWrite(a, s)
        <5>1. worker.of = a /\ job' = job /\ worker' = At(EndOf(s), a)
          BY <4>1 DEF StartWrite, At, catalog
        <5>2. EndOf(s) \in Early
          BY DEF EndOf, Sizes, Steps
        <5> QED BY <5>1, <5>2
      <4>2. CASE EndWrite(a, s)
        <5>1. worker.of = a /\ job' = job
          BY <4>2 DEF EndWrite, At
        <5>2. ~(SetPreview(a, "failed") \/ lost' = lost \cup {a})
          BY <1>0 DEF SetPreview
        <5>3. worker' = At(IF s = "small" THEN "large" ELSE "ready", a)
          BY <4>2, <5>2 DEF EndWrite
        <5>4. (IF s = "small" THEN "large" ELSE "ready") \in Early
          BY DEF Steps
        <5> QED BY <5>1, <5>3, <5>4
      <4> QED BY <3>0, <4>1, <4>2
    <3>2. worker'.of = a /\ worker'.pc \notin {"rows", "done", "fail"}
      BY <3>1 DEF At
    <3> QED BY <1>0, <1>1, <2>1, <3>1, <3>2 DEF Queued
  <2> QED BY <2>2, <2>3, <2>4, <2>5, <2>6, <2>7 DEF WorkerStep
<1> QED BY <1>3, <1>4, <1>5, WorkerType DEF JobInv

(***************************************************************************)
(* The server, the other writers and the disk.                             *)
(***************************************************************************)
LEMMA ServerKeeps == ASSUME JobInv, StartServer \/ Kill PROVE JobInv'
<1>0. /\ job \in [Assets -> {"none", "pending", "processing", "failed", "done"}]
      /\ worker \in {Off, Idle} \cup [pc : Steps, of : Pictures]
      /\ \A a \in Assets : Imported(a) /\ Queued(a) /\ a # Nil
  BY KindsAssumption DEF JobInv, TypeOK, Assets
<1>1. CASE StartServer
  <2>1. job' \in [Assets -> {"none", "pending", "processing", "failed", "done"}]
    BY <1>0, <1>1 DEF StartServer
  <2>2. TypeOK'
    <3>1. trouble' \in 0..MaxTrouble
      BY <1>1, TroubleType DEF StartServer, JobInv, Luck
    <3>2. lost' \subseteq Assets
      BY <1>1 DEF StartServer, Interrupted, Luck, JobInv, TypeOK
    <3> QED BY <1>1, <2>1, <3>1, <3>2 DEF StartServer, JobInv, TypeOK, cache
  <2>3. ASSUME NEW a \in Assets PROVE Imported(a)' /\ Queued(a)'
    <3>1. /\ job'[a] = (IF job[a] = "processing" THEN "pending" ELSE job[a]) \/ (job' = job /\ Interrupted \subseteq lost')
          /\ lost \subseteq lost' /\ UNCHANGED <<preview, import, cut>>
      BY <1>1 DEF StartServer, Interrupted, Luck
    <3>2. worker'.of = Nil
      BY <1>1 DEF StartServer, Idle
    <3> QED BY <1>0, <3>1, <3>2 DEF Interrupted, Imported, Queued
  <2> QED BY <2>2, <2>3 DEF JobInv
<1>2. CASE Kill
  <2>1. /\ worker' = Off /\ UNCHANGED <<original, catalog, cache, analysis, backfill>>
        /\ import' = [a \in Assets |-> "nothing"] /\ trouble' \in 0..MaxTrouble
        /\ cut' = cut \cup {a \in Assets : import[a] # "nothing"} /\ lost' = lost
    BY <1>2, TroubleType DEF Kill, JobInv
  <2>2. spoiled' \subseteq Pictures
    <3>1. \A a \in Assets : worker.of = a => a \in Pictures
      BY <1>0 DEF Off, Idle
    <3> QED BY <1>2, <3>1 DEF Kill, JobInv, TypeOK
  <2>3. TypeOK'
    BY <2>1, <2>2 DEF JobInv, TypeOK, catalog, cache
  <2>4. ASSUME NEW a \in Assets PROVE Imported(a)' /\ Queued(a)'
    <3>1. worker'.of = Nil /\ ~On' /\ worker'.pc = "off"
      BY <2>1 DEF Off, On
    <3> QED BY <1>0, <2>1, <3>1 DEF Imported, Queued, catalog
  <2> QED BY <2>3, <2>4 DEF JobInv
<1> QED BY <1>1, <1>2

OtherStep ==
    \/ KillAnalysis
    \/ \E a \in Assets : Analyse(a) \/ ListBackfill(a) \/ BuildLarge(a) \/ RecordLarge(a) \/ Damage(a)

LEMMA OthersKeep == ASSUME JobInv, OtherStep PROVE JobInv'
<1>1. UNCHANGED <<catalog, import, worker, cut, lost>>
  BY DEF OtherStep, KillAnalysis, Analyse, ListBackfill, BuildLarge, RecordLarge, Damage, history, cache
<1>2. \A a \in Assets : Imported(a)' /\ Queued(a)'
  BY <1>1 DEF JobInv, Imported, Queued, catalog, On
<1>3. /\ TypeOK /\ worker' = worker /\ import' = import
      /\ preview' = preview /\ job' = job /\ legacy' = legacy
      /\ cut' = cut /\ lost' = lost
  BY <1>1 DEF JobInv, catalog
<1>4. CASE KillAnalysis
  <2>1. analysis.of \in Pictures
    BY <1>3, <1>4 DEF KillAnalysis, TypeOK
  <2>2. trouble' \in 0..MaxTrouble
    BY <1>3, <1>4, TroubleType DEF KillAnalysis
  <2> QED BY <1>2, <1>3, <1>4, <2>1, <2>2 DEF KillAnalysis, TypeOK, cache, JobInv
<1>5. ASSUME NEW a \in Assets, Analyse(a) PROVE JobInv'
  <2>1. file' \in [Assets -> [Sizes -> {"absent", "torn", "whole"}]]
    <3>1. CASE \E s \in Sizes, f \in {"torn", "whole"} : SetFile(a, s, f)
      BY <1>3, <3>1, FileType
    <3>2. CASE file' = [file EXCEPT ![a]["small"] = "whole", ![a]["large"] = "torn"]
      <4>1. file \in [Assets -> [Sizes -> {"absent", "torn", "whole"}]]
        BY <1>3 DEF TypeOK
      <4>2. [file[a] EXCEPT !["small"] = "whole", !["large"] = "torn"] \in [Sizes -> {"absent", "torn", "whole"}]
        BY <4>1 DEF Sizes
      <4>3. file' = [file EXCEPT ![a] = [file[a] EXCEPT !["small"] = "whole", !["large"] = "torn"]]
        BY <3>2, <4>1
      <4> QED BY <4>1, <4>2, <4>3
    <3> QED BY <1>5, <3>1, <3>2 DEF Analyse, Sizes
  <2>2. analysis' \in {Idle} \cup [pc : Sizes, of : Pictures]
    BY <1>5 DEF Analyse, At, Sizes
  <2> QED BY <1>2, <1>3, <1>5, <2>1, <2>2 DEF Analyse, TypeOK, JobInv, history
<1>6. ASSUME NEW a \in Assets, ListBackfill(a) \/ RecordLarge(a) PROVE JobInv'
  <2>1. backfill' \in {Idle} \cup [pc : {"check", "record"}, of : Pictures]
    BY <1>6 DEF ListBackfill, RecordLarge, BackfillDue, At
  <2>2. derived' \subseteq Pictures
    BY <1>3, <1>6 DEF ListBackfill, RecordLarge, TypeOK, At, Idle, cache
  <2> QED BY <1>2, <1>3, <1>6, <2>1, <2>2 DEF ListBackfill, RecordLarge, TypeOK, JobInv, cache, history
<1>7. ASSUME NEW a \in Assets, BuildLarge(a) PROVE JobInv'
  <2>1. file' \in [Assets -> [Sizes -> {"absent", "torn", "whole"}]]
    <3>1. file' = file \/ SetFile(a, "large", "whole")
      BY <1>7 DEF BuildLarge
    <3> QED BY <1>3, <3>1, FileType DEF TypeOK, Sizes
  <2>2. backfill' \in {Idle} \cup [pc : {"check", "record"}, of : Pictures]
    BY <1>3, <1>7 DEF BuildLarge, TypeOK, At, Idle
  <2> QED BY <1>2, <1>3, <1>7, <2>1, <2>2 DEF BuildLarge, TypeOK, JobInv, history
<1>8. ASSUME NEW a \in Assets, Damage(a) PROVE JobInv'
  <2>1. trouble' \in 0..MaxTrouble
    BY <1>3, <1>8, TroubleType DEF Damage
  <2> QED BY <1>2, <1>3, <1>8, <2>1 DEF Damage, TypeOK, JobInv, cache, history
<1> QED BY <1>4, <1>5, <1>6, <1>7, <1>8 DEF OtherStep

LEMMA JobStep == JobInv /\ [Next]_vars => JobInv'
<1> SUFFICES ASSUME JobInv, [Next]_vars PROVE JobInv'
  OBVIOUS
<1>1. ASSUME NEW a \in Assets, ImportStep(a) PROVE JobInv'
  BY <1>1, ImportKeeps
<1>2. ASSUME NEW a \in Assets, WorkerStep(a) PROVE JobInv'
  BY <1>2, WorkerKeeps
<1>3. CASE StartServer \/ Kill
  BY <1>3, ServerKeeps
<1>4. CASE OtherStep
  BY <1>4, OthersKeep
<1>5. CASE UNCHANGED vars
  BY <1>5 DEF vars, catalog, cache, history, JobInv, TypeOK, Imported, Queued, On
<1> QED BY <1>1, <1>2, <1>3, <1>4, <1>5 DEF Next, ImportStep, OtherStep

(***************************************************************************)
(* The state of the display copies is well typed; in particular only       *)
(* pictures get jobs, copies and rows for them.                            *)
(***************************************************************************)
THEOREM CopiesTypeCorrect == Spec => []TypeOK
<1>1. JobInv => TypeOK
  BY DEF JobInv
<1> QED BY <1>1, InitJobs, JobStep, PTL DEF Spec

(***************************************************************************)
(* A picture that waits for its preview has a job that will be taken, or   *)
(* something went wrong for it: whichever step of its import or of its job *)
(* the server is killed at.                                                *)
(***************************************************************************)
THEOREM NoneForgotten == Spec => []WaitingHasJob
<1>1. JobInv => WaitingHasJob
  <2> SUFFICES ASSUME JobInv, NEW a \in Pictures, preview[a] = "pending", a \notin lost
               PROVE  \/ job[a] = "pending" \/ import[a] # "nothing" \/ (job[a] = "none" /\ a \in cut)
                      \/ job[a] = "processing" /\ (worker.of = a \/ ~On)
    BY DEF WaitingHasJob
  <2>1. job[a] \in {"none", "pending", "processing", "failed", "done"} /\ Queued(a)
    BY DEF JobInv, TypeOK, Assets
  <2> QED BY <2>1 DEF Queued
<1> QED BY <1>1, InitJobs, JobStep, PTL DEF Spec

(***************************************************************************)
(* The two display copies.  A copy counts from where the worker has        *)
(* written it, and a large one as long as somebody lists it; from then on  *)
(* it is whole, or somebody is writing it, or was killed or failed writing *)
(* it.                                                                     *)
(***************************************************************************)
WrittenNow(a, s) == worker = At(EndOf(s), a) \/ analysis = At(s, a)
Whole(a, s) == file[a][s] = "whole" \/ a \in spoiled \/ WrittenNow(a, s)
Past(s) == IF s = "small" THEN {"large", "large end", "ready", "rows"} ELSE {"ready", "rows"}
Counts(a, s) ==
    \/ preview[a] = "ready" \/ (worker.of = a /\ worker.pc \in Past(s))
    \/ s = "large" /\ (a \in derived \/ backfill.of = a)

\* What backfill-detail has listed was announced.  If it no longer is, a write failed, or
\* its original cannot be read any more and the worker does not write.
Shown(a) ==
    backfill.of = a =>
        \/ preview[a] = "ready" \/ a \in spoiled
        \/ original[a] # "readable" /\ ~(worker.of = a /\ worker.pc \in Steps \ {"prepare", "done", "fail"})

Copies(a) == (\A s \in Sizes : Counts(a, s) => Whole(a, s)) /\ Shown(a)
CacheInv == JobInv /\ \A a \in Assets : Copies(a)

LEMMA Places ==
    /\ \A x, y : worker = At(x, y) => worker.pc = x /\ worker.of = y
    /\ \A x, y : analysis = At(x, y) => analysis.of = y
    /\ EndOf("small") = "small end" /\ EndOf("large") = "large end"
BY DEF At, EndOf

LEMMA InitCache == Init => CacheInv
<1> SUFFICES ASSUME Init PROVE CacheInv
  OBVIOUS
<1>1. ASSUME NEW a \in Assets PROVE Copies(a)
  <2>1. /\ preview[a] = "none" /\ derived = {} /\ a # Nil
        /\ worker.of = Nil /\ backfill.of = Nil
    BY KindsAssumption DEF Init, Assets, Off, Idle
  <2> QED BY <2>1 DEF Copies, Counts, Shown
<1> QED BY <1>1, InitJobs DEF CacheInv

LEMMA ImportCopies ==
    ASSUME CacheInv, NEW a \in Assets, ImportStep(a), NEW b \in Assets PROVE Copies(b)'
<1>1. /\ UNCHANGED <<original, cache, worker, analysis, backfill, spoiled>>
      /\ Copies(b) /\ b # Nil
  BY KindsAssumption DEF CacheInv, Assets, ImportStep, Commit, Link, Queue, Repeat, history, Luck, Lost
<1>2. CASE preview'[b] = preview[b]
  BY <1>1, <1>2 DEF cache, Copies, Counts, Whole, WrittenNow, Shown
<1>3. CASE preview'[b] # preview[b]
  <2>1. preview'[b] \in {"pending", "unavailable"}
    BY <1>3 DEF ImportStep, Commit, Link, Queue, Repeat, SetPreview, CacheInv, JobInv, TypeOK, catalog
  <2>2. preview[b] = "none" \/ b \in Videos
    BY <1>3 DEF ImportStep, Commit, Link, Queue, Repeat, SetPreview, CacheInv, JobInv, TypeOK, catalog
  <2>3. b \in Videos => backfill.of # b
    BY <1>1, KindsAssumption DEF CacheInv, JobInv, TypeOK, Idle
  <2> QED BY <1>1, <2>1, <2>2, <2>3 DEF cache, Copies, Counts, Whole, WrittenNow, Shown
<1> QED BY <1>2, <1>3

LEMMA WorkerCopies ==
    ASSUME CacheInv, NEW a \in Assets, WorkerStep(a), NEW b \in Assets PROVE Copies(b)'
<1>0. /\ worker = Idle \/ (worker.of = a /\ worker.pc \in Steps)
      /\ Copies(b) /\ b # Nil
      /\ preview \in [Assets -> {"none", "pending", "ready", "failed", "unavailable"}]
      /\ file \in [Assets -> [Sizes -> {"absent", "torn", "whole"}]]
  BY WorkerType, KindsAssumption DEF CacheInv, JobInv, TypeOK, Assets
<1>1. /\ UNCHANGED <<original, analysis, backfill>> /\ spoiled \subseteq spoiled'
      /\ derived \subseteq derived' /\ derived' \subseteq derived \cup {a}
  BY DEF WorkerStep, TakeJob, Prepare, MarkReady, MarkRows, Finish, StartWrite, EndWrite, GiveUp, Spoil, Luck,
         Lost, history, cache, catalog
<1>2. CASE b # a
  <2>1. preview'[b] = preview[b] /\ file'[b] = file[b]
    BY <1>0, <1>2 DEF WorkerStep, TakeJob, Prepare, MarkReady, MarkRows, Finish, StartWrite, EndWrite, GiveUp,
                      SetPreview, SetFile, cache, catalog
  <2>2. worker.of # b /\ worker'.of # b
    <3>1. worker' \in {Idle} \cup {At(s, a) : s \in Steps}
      BY DEF WorkerStep, TakeJob, Prepare, MarkReady, MarkRows, Finish, StartWrite, EndWrite, GiveUp, EndOf, Sizes,
             Steps
    <3> QED BY <1>0, <1>2, <3>1 DEF Idle, At
  <2>3. \A s \in Sizes : worker # At(EndOf(s), b)
    BY <2>2 DEF At
  <2>4. \A s \in Sizes : Counts(b, s)' => Whole(b, s)'
    BY <1>0, <1>1, <1>2, <2>1, <2>2, <2>3 DEF Copies, Counts, Whole, WrittenNow
  <2>5. Shown(b)'
    BY <1>0, <1>1, <2>1, <2>2 DEF Copies, Shown
  <2> QED BY <2>4, <2>5 DEF Copies
<1>3. CASE b = a
  <2>1. CASE TakeJob(a)
    <3>1. /\ worker'.of = a /\ worker'.pc = "prepare" /\ worker = Idle
          /\ UNCHANGED <<preview, cache, spoiled>>
      BY <2>1 DEF TakeJob, At, history
    <3>2. \A s \in Sizes : worker # At(EndOf(s), a)
      BY <1>0, <1>3, <3>1 DEF Idle, At
    <3> QED BY <1>0, <1>1, <1>3, <3>1, <3>2 DEF cache, Copies, Counts, Whole, WrittenNow, Past, Shown
  <2>2. CASE Prepare(a)
    <3>1. /\ worker = At("prepare", a) /\ UNCHANGED <<cache, spoiled>>
          /\ worker'.of = a /\ worker'.pc \in {"small", "fail"}
          /\ worker'.pc = "small" => original[a] = "readable" /\ preview' = preview
          /\ worker'.pc = "fail" => original[a] # "readable" /\ (preview' = preview \/ preview'[a] # "ready")
      BY <1>0, <2>2 DEF Prepare, GiveUp, Reads, SetPreview, At
    <3>2. \A s \in Sizes : worker # At(EndOf(s), a)
      BY <3>1 DEF At, EndOf
    <3> QED BY <1>0, <1>1, <1>3, <3>1, <3>2
            DEF cache, Copies, Counts, Whole, WrittenNow, Past, Shown, Steps
  <2>3. CASE MarkReady(a)
    <3>1. /\ worker.of = a /\ worker.pc = "ready" /\ worker'.of = a /\ worker'.pc = "rows"
          /\ UNCHANGED <<cache, spoiled>> /\ (\A s \in Sizes : worker # At(EndOf(s), a))
      BY <2>3 DEF MarkReady, At, EndOf
    <3>2. preview'[a] = "ready" \/ preview' = preview
      BY <1>0, <2>3 DEF MarkReady, SetPreview
    <3>3. \A s \in Sizes : Whole(a, s)'
      BY <1>0, <1>1, <1>3, <3>1 DEF cache, Copies, Counts, Whole, WrittenNow, Past
    <3> QED BY <1>0, <1>1, <1>3, <3>1, <3>2, <3>3 DEF cache, Copies, Shown, Steps
  <2>4. CASE MarkRows(a) \/ Finish(a)
    <3>1. /\ worker.of = a /\ preview' = preview /\ file' = file /\ spoiled' = spoiled
          /\ worker'.pc \in {"idle", "done"}
          /\ a \in derived' => a \in derived \/ worker.pc = "rows"
          /\ \A s \in Sizes : worker # At(EndOf(s), a)
      <4>1. CASE MarkRows(a)
        <5>1. /\ worker = At("rows", a) /\ worker' = At("done", a)
              /\ preview' = preview /\ file' = file /\ spoiled' = spoiled
          BY <4>1 DEF MarkRows, history
        <5>2. worker.of = a /\ worker.pc = "rows" /\ worker'.pc = "done"
          BY <5>1 DEF At
        <5>3. \A s \in Sizes : worker # At(EndOf(s), a)
          BY <5>2, Places DEF Sizes
        <5> QED BY <5>1, <5>2, <5>3
      <4>2. CASE Finish(a)
        <5>1. /\ worker \in {At("done", a), At("fail", a)} /\ worker' = Idle
              /\ preview' = preview /\ file' = file /\ derived' = derived /\ spoiled' = spoiled
          BY <4>2 DEF Finish, cache
        <5>2. worker.of = a /\ worker.pc \in {"done", "fail"} /\ worker'.pc = "idle"
          BY <5>1, Places DEF Idle
        <5>3. \A s \in Sizes : worker # At(EndOf(s), a)
          BY <5>2, Places DEF Sizes
        <5> QED BY <5>1, <5>2, <5>3
      <4> QED BY <2>4, <4>1, <4>2
    <3> QED BY <1>0, <1>1, <1>3, <3>1 DEF Copies, Counts, Whole, WrittenNow, Past, Shown, Steps
  <2>5. ASSUME NEW s \in Sizes, StartWrite(a, s) PROVE Copies(a)'
    <3>1. /\ worker = At(s, a) /\ worker' = At(EndOf(s), a) /\ UNCHANGED <<preview, derived, spoiled>>
          /\ \A t \in Sizes \ {s} : file'[a][t] = file[a][t]
      BY <1>0, <2>5 DEF StartWrite, SetFile, catalog, history
    <3>2. worker.of = a /\ worker.pc = s /\ worker'.of = a /\ worker'.pc = EndOf(s)
      BY <3>1 DEF At
    <3>3. ASSUME NEW t \in Sizes, Counts(a, t)' PROVE Whole(a, t)'
      <4>1. CASE t = s
        BY <3>1, <4>1 DEF Whole, WrittenNow
      <4>2. CASE t # s
        <5>1. Counts(a, t)
          BY <1>1, <3>1, <3>2, <3>3, <4>2 DEF Counts, Past, EndOf, Sizes
        <5>2. Whole(a, t)
          BY <1>0, <1>3, <5>1 DEF Copies
        <5>3. worker # At(EndOf(t), a)
          BY <3>2, Places DEF Sizes
        <5> QED BY <1>1, <3>1, <4>2, <5>2, <5>3 DEF Whole, WrittenNow
      <4> QED BY <4>1, <4>2
    <3>4. Shown(a)'
      BY <1>0, <1>1, <1>3, <3>1, <3>2 DEF Copies, Shown, EndOf, Sizes, Steps
    <3> QED BY <3>3, <3>4 DEF Copies
  <2>6. ASSUME NEW s \in Sizes, EndWrite(a, s) PROVE Copies(a)'
    <3>1. /\ worker = At(EndOf(s), a) /\ UNCHANGED derived
          /\ \/ /\ file'[a][s] = "whole" /\ worker' = At(IF s = "small" THEN "large" ELSE "ready", a)
                /\ preview' = preview /\ spoiled' = spoiled
                /\ \A t \in Sizes \ {s} : file'[a][t] = file[a][t]
             \/ /\ Spoil(a) /\ (preview' = preview \/ preview'[a] # "ready") /\ worker' = At("fail", a)
                /\ file' = file
      BY <1>0, <2>6 DEF EndWrite, SetFile, SetPreview
    <3>2. worker.of = a /\ worker.pc = EndOf(s) /\ worker'.of = a
      BY <3>1 DEF At
    <3>3. CASE /\ Spoil(a) /\ (preview' = preview \/ preview'[a] # "ready") /\ worker' = At("fail", a)
               /\ file' = file
      <4>1. worker'.pc = "fail" /\ worker.pc \in Steps \ {"prepare", "done", "fail"}
        BY <3>2, <3>3, Places DEF At, Sizes, Steps
      <4>2. CASE HadPreview(a) \/ a \in spoiled
        BY <3>3, <4>2 DEF Spoil, Copies, Whole, Shown
      <4>3. CASE ~HadPreview(a) /\ a \notin spoiled
        <5>1. preview'[a] # "ready" /\ a \notin derived
          BY <3>3, <4>3 DEF HadPreview
        <5>2. backfill.of # a
          BY <1>0, <1>3, <3>2, <4>1, <4>3 DEF Copies, Shown, HadPreview
        <5> QED BY <1>1, <3>1, <4>1, <5>1, <5>2 DEF Copies, Counts, Past, Shown
      <4> QED BY <4>2, <4>3
    <3>4. CASE /\ file'[a][s] = "whole" /\ worker' = At(IF s = "small" THEN "large" ELSE "ready", a)
               /\ preview' = preview /\ spoiled' = spoiled
               /\ \A t \in Sizes \ {s} : file'[a][t] = file[a][t]
      <4>1. worker'.pc = IF s = "small" THEN "large" ELSE "ready"
        BY <3>4 DEF At
      <4>2. ASSUME NEW t \in Sizes, t # s, Counts(a, t)' PROVE Whole(a, t)'
        <5>1. Counts(a, t)
          BY <1>1, <3>1, <3>2, <3>4, <4>1, <4>2 DEF Counts, Past, EndOf, Sizes
        <5>2. Whole(a, t)
          BY <1>0, <1>3, <5>1 DEF Copies
        <5>3. worker # At(EndOf(t), a)
          BY <3>2, <4>2, Places DEF Sizes
        <5> QED BY <1>1, <3>4, <4>2, <5>2, <5>3 DEF Whole, WrittenNow
      <4>3. Shown(a)'
        BY <1>0, <1>1, <1>3, <3>1, <3>2, <3>4, <4>1 DEF Copies, Shown, EndOf, Sizes, Steps
      <4> QED BY <3>4, <4>2, <4>3 DEF Copies, Whole
    <3> QED BY <3>1, <3>3, <3>4
  <2> QED BY <1>3, <2>1, <2>2, <2>3, <2>4, <2>5, <2>6 DEF WorkerStep
<1> QED BY <1>2, <1>3

LEMMA OtherCopies ==
    ASSUME CacheInv, StartServer \/ Kill \/ OtherStep, NEW b \in Assets PROVE Copies(b)'
<1>0. /\ Copies(b) /\ b # Nil
      /\ file \in [Assets -> [Sizes -> {"absent", "torn", "whole"}]]
  BY KindsAssumption DEF CacheInv, JobInv, TypeOK, Assets
<1>1. CASE StartServer
  <2>1. worker.of = Nil /\ worker'.of = Nil /\ UNCHANGED <<original, preview, cache, analysis, backfill, spoiled>>
    BY <1>1 DEF StartServer, Off, Idle
  <2>2. \A s \in Sizes : worker # At(EndOf(s), b)
    BY <1>0, <2>1 DEF At
  <2> QED BY <1>0, <2>1, <2>2 DEF cache, Copies, Counts, Whole, WrittenNow, Shown
<1>2. CASE Kill
  <2>1. /\ UNCHANGED <<original, catalog, cache, analysis, backfill>>
        /\ spoiled \subseteq spoiled'
        /\ worker.of = b /\ HadPreview(b) => b \in spoiled'
        /\ worker'.of = Nil
    BY <1>2 DEF Kill, Off
  <2>2. ASSUME NEW s \in Sizes, Counts(b, s)' PROVE Whole(b, s)'
    <3>1. Counts(b, s) /\ Whole(b, s)
      BY <1>0, <2>1, <2>2 DEF catalog, cache, Counts, Copies
    <3>2. CASE worker = At(EndOf(s), b) /\ b \notin spoiled'
      <4>1. worker.of = b /\ worker.pc \in Steps \ {"prepare", "done", "fail"}
        BY <3>2, Places DEF Sizes, Steps
      <4>2. ~HadPreview(b)
        BY <2>1, <3>2, <4>1
      <4>3. backfill.of = b
        BY <1>0, <2>1, <2>2, <4>2 DEF Counts, HadPreview, catalog, cache
      <4> QED BY <1>0, <2>1, <3>2, <4>1, <4>2, <4>3 DEF Copies, Shown, HadPreview
    <3> QED BY <2>1, <3>1, <3>2 DEF Whole, WrittenNow, cache
  <2>3. Shown(b)'
    BY <1>0, <2>1 DEF catalog, Copies, Shown
  <2> QED BY <2>2, <2>3 DEF Copies
<1>3. CASE KillAnalysis
  <2>1. /\ UNCHANGED <<original, catalog, cache, worker, backfill>>
        /\ spoiled' = spoiled \cup {analysis.of}
    BY <1>3 DEF KillAnalysis
  <2>2. \A s \in Sizes : analysis = At(s, b) => b \in spoiled'
    BY <2>1 DEF At
  <2> QED BY <1>0, <2>1, <2>2 DEF catalog, cache, Copies, Counts, Whole, WrittenNow, Shown
<1>4. ASSUME NEW a \in Assets, Analyse(a) PROVE Copies(b)'
  <2>1. UNCHANGED <<original, catalog, derived, worker, backfill, spoiled>>
    BY <1>4 DEF Analyse, history
  <2>2. ASSUME NEW s \in Sizes, Whole(b, s) PROVE Whole(b, s)'
    <3>1. CASE b # a
      <4>1. file'[b] = file[b] /\ analysis # At(s, b)
        BY <1>0, <1>4, <3>1, KindsAssumption DEF Analyse, SetFile, At, Idle, Assets
      <4> QED BY <2>1, <2>2, <4>1 DEF Whole, WrittenNow
    <3>2. CASE b = a
      BY <1>0, <1>4, <2>1, <2>2, <3>2 DEF Analyse, SetFile, At, Idle, Whole, WrittenNow, Sizes
    <3> QED BY <3>1, <3>2
  <2> QED BY <1>0, <2>1, <2>2 DEF catalog, Copies, Counts, Shown
<1>5. ASSUME NEW a \in Assets, ListBackfill(a) \/ BuildLarge(a) \/ RecordLarge(a) PROVE Copies(b)'
  <2>1. UNCHANGED <<original, catalog, worker, analysis, spoiled>>
    BY <1>5 DEF ListBackfill, BuildLarge, RecordLarge, history
  <2>2. \A s \in Sizes : file'[b][s] \in {file[b][s], "whole"}
    BY <1>0, <1>5 DEF ListBackfill, BuildLarge, RecordLarge, SetFile, cache
  <2>3. b \in derived' \/ backfill'.of = b => b \in derived \/ backfill.of = b \/ preview[b] = "ready"
    BY <1>0, <1>5 DEF ListBackfill, BuildLarge, RecordLarge, BackfillDue, At, Idle, cache
  <2>4. backfill'.of = b => backfill.of = b \/ preview[b] = "ready"
    BY <1>0, <1>5 DEF ListBackfill, BuildLarge, RecordLarge, BackfillDue, At, Idle
  <2>5. \A s \in Sizes : Counts(b, s)' => Counts(b, s)
    BY <2>1, <2>3 DEF catalog, Counts
  <2>6. \A s \in Sizes : Whole(b, s) => Whole(b, s)'
    BY <2>1, <2>2 DEF Whole, WrittenNow
  <2>7. Shown(b)'
    BY <1>0, <2>1, <2>4 DEF catalog, Copies, Shown
  <2> QED BY <1>0, <2>5, <2>6, <2>7 DEF Copies
<1>6. ASSUME NEW a \in Assets, Damage(a) PROVE Copies(b)'
  <2>1. /\ UNCHANGED <<catalog, cache, worker, analysis, backfill, spoiled>>
        /\ original'[b] = "readable" => original[b] = "readable"
    BY <1>6 DEF Damage, history, CacheInv, JobInv, TypeOK
  <2> QED BY <1>0, <2>1 DEF catalog, cache, Copies, Counts, Whole, WrittenNow, Shown
<1> QED BY <1>1, <1>2, <1>3, <1>4, <1>5, <1>6 DEF OtherStep

LEMMA CacheStep == CacheInv /\ [Next]_vars => CacheInv'
<1> SUFFICES ASSUME CacheInv, [Next]_vars PROVE CacheInv'
  OBVIOUS
<1>1. JobInv'
  BY JobStep DEF CacheInv
<1>2. ASSUME NEW b \in Assets PROVE Copies(b)'
  <2>1. ASSUME NEW a \in Assets, ImportStep(a) PROVE Copies(b)'
    BY <2>1, ImportCopies
  <2>2. ASSUME NEW a \in Assets, WorkerStep(a) PROVE Copies(b)'
    BY <2>2, WorkerCopies
  <2>3. CASE StartServer \/ Kill \/ OtherStep
    BY <2>3, OtherCopies
  <2>4. CASE UNCHANGED vars
    BY <2>4 DEF CacheInv, vars, catalog, cache, history, Copies, Counts, Whole, WrittenNow, Shown
  <2> QED BY <2>1, <2>2, <2>3, <2>4 DEF Next, ImportStep, OtherStep
<1> QED BY <1>1, <1>2 DEF CacheInv

(***************************************************************************)
(* A preview that is announced can be shown: both of its copies are whole, *)
(* or somebody is replacing one, or was killed or failed doing so.         *)
(***************************************************************************)
THEOREM ReadyShown == Spec => []ReadyIsWhole
<1>1. CacheInv => ReadyIsWhole
  <2> SUFFICES ASSUME CacheInv, NEW a \in Assets, preview[a] = "ready", ~Replaced(a), a \notin spoiled,
                      NEW s \in Sizes
               PROVE  file[a][s] = "whole"
    BY DEF ReadyIsWhole
  <2>1. Whole(a, s)
    BY DEF CacheInv, Copies, Counts
  <2>2. ~WrittenNow(a, s)
    <3>1. EndOf(s) \in {"small end", "large end"}
      BY Places DEF Sizes
    <3>2. worker # At(EndOf(s), a) /\ analysis.of # a
      BY <3>1 DEF Replaced
    <3> QED BY <3>2, Places DEF WrittenNow
  <2> QED BY <2>1, <2>2 DEF Whole
<1> QED BY <1>1, InitCache, CacheStep, PTL DEF Spec

(***************************************************************************)
(* A large copy that has a row is there and whole, with the same           *)
(* exceptions.                                                             *)
(***************************************************************************)
THEOREM ListedShown == Spec => []ListedIsWhole
<1>1. CacheInv => ListedIsWhole
  <2> SUFFICES ASSUME CacheInv, NEW a \in derived, ~Replaced(a), a \notin spoiled
               PROVE  file[a]["large"] = "whole"
    BY DEF ListedIsWhole
  <2>1. a \in Assets
    BY DEF CacheInv, JobInv, TypeOK, Assets
  <2>2. Whole(a, "large")
    BY <2>1 DEF CacheInv, Copies, Counts, Sizes
  <2>3. ~WrittenNow(a, "large")
    <3>1. EndOf("large") = "large end"
      BY Places
    <3>2. worker # At(EndOf("large"), a) /\ analysis.of # a
      BY <3>1 DEF Replaced
    <3> QED BY <3>2, Places DEF WrittenNow
  <2> QED BY <2>2, <2>3 DEF Whole
<1> QED BY <1>1, InitCache, CacheStep, PTL DEF Spec

=============================================================================
