------------------------------ MODULE Ingest ------------------------------
(***************************************************************************)
(* `fotoro ingest` and `fotoro daemon`: cmd/ingest.go (RunIngest) and      *)
(* cmd/daemon.go (RunDaemon), with PrepareImage of                         *)
(* internal/validate/image.go.                                             *)
(*                                                                         *)
(* Both are the same pipeline over bounded channels: vision workers, one   *)
(* goroutine that asks the model, one that writes images.  They may run at *)
(* the same time on one folder and one library, while pictures are still   *)
(* being copied into the folder.                                           *)
(***************************************************************************)
EXTENDS Integers, Sequences, FiniteSets, Functions

CONSTANTS
    NumFiles,    \* pictures that may appear in the folder, in walking order
    Content,     \* their content when they are complete
    Looks,       \* the perceptual hashes the contents may have
    BulkWorkers, \* FOTORO_VISION_WORKERS
    CPUs,        \* vision workers of the daemon
    QueueCap,    \* capacity of the channels (100)
    MaxTrouble,  \* bound: failing model calls and writes, and killed runs
    Nil

Files == 1..NumFiles
Contents == {Content[f] : f \in Files}
Pipelines == {"bulk", "daemon"}
PartHash(f) == [part |-> f]

ASSUME FilesAssumption ==
    /\ NumFiles \in Nat /\ DOMAIN Content = Files
    /\ Nil \notin Contents \cup Pipelines
    /\ \A f \in Files : PartHash(f) \notin Contents
ASSUME BoundsAssumption ==
    /\ QueueCap \in Nat \ {0} /\ MaxTrouble \in Nat
    /\ IsFiniteSet(BulkWorkers) /\ BulkWorkers # {}

Workers(q) == IF q = "bulk" THEN BulkWorkers ELSE CPUs

VARIABLES
    disk,     \* each file: absent, part (being copied), whole
    looks,    \* the perceptual hash of each content, never changed
    rows,     \* images, by hash
    pipe,     \* the channels and goroutines of each pipeline
    jobs,     \* the files the bulk run took on
    main,     \* the bulk run: which stage it waits for
    count,    \* its counters
    pending,  \* files made and not yet sent to the daemon's workers: in an event, in
              \* the map of pending files or in the batch of the last tick
    heard,    \* history: files the daemon was told of
    givenUp,  \* history: files a pipeline dropped
    trouble

scan == <<jobs, main>>
folder == <<disk, looks>>
vars == <<folder, rows, pipe, scan, count, pending, heard, givenUp, trouble>>

Hash(f) == IF disk[f] = "whole" THEN Content[f] ELSE PartHash(f)
Present == {f \in Files : disk[f] # "absent"}
Alike(f) == \E h \in DOMAIN rows : rows[h].looks = looks[Content[f]]

Rest == [pc |-> "idle", file |-> 0, hash |-> Nil]
Idle(q) == [vision |-> <<>>, work |-> [w \in Workers(q) |-> Rest],
            llmQ |-> <<>>, dbQ |-> <<>>]
Zero == [processed |-> 0, skipped |-> 0, failed |-> 0]

Init ==
    /\ disk \in [Files -> {"absent", "whole"}]
    /\ looks \in Looks /\ rows = <<>>
    /\ pipe = [q \in Pipelines |-> Idle(q)]
    /\ jobs = <<>> /\ main = "start" /\ count = Zero
    /\ pending = {} /\ heard = {}
    /\ givenUp = [q \in Pipelines |-> {}] /\ trouble = 0

Trouble == trouble < MaxTrouble /\ trouble' = trouble + 1
NoTrouble == UNCHANGED trouble
Count(q, what) == count' = IF q = "bulk" THEN [count EXCEPT ![what] = @ + 1] ELSE count
GiveUp(q, f) == givenUp' = [givenUp EXCEPT ![q] = @ \cup {f}]
Work(q, w, s) == pipe' = [pipe EXCEPT ![q].work[w] = s]

(***************************************************************************)
(* The folder.  inotify reports a file when it is made and says nothing    *)
(* when it is complete.                                                    *)
(***************************************************************************)
StartCopy(f) ==
    /\ disk[f] = "absent" /\ disk' = [disk EXCEPT ![f] = "part"]
    /\ pending' = pending \cup {f} /\ heard' = heard \cup {f}
    /\ UNCHANGED <<looks, rows, pipe, scan, count, givenUp, trouble>>

FinishCopy(f) ==
    /\ disk[f] = "part" /\ disk' = [disk EXCEPT ![f] = "whole"]
    /\ UNCHANGED <<looks, rows, pipe, scan, count, pending, heard, givenUp, trouble>>

(***************************************************************************)
(* The vision workers.                                                     *)
(***************************************************************************)
\* The daemon looks the hash up first; PrepareImage reads the file for its hash, and
\* again to decode it.
Take(q, w) ==
    /\ pipe[q].work[w].pc = "idle" /\ pipe[q].vision # <<>>
    /\ LET f == Head(pipe[q].vision) IN
       pipe' = [pipe EXCEPT ![q].vision = Tail(@),
           ![q].work[w] = IF q = "daemon" /\ Hash(f) \in DOMAIN rows THEN Rest
                          ELSE [pc |-> "decode", file |-> f, hash |-> Hash(f)]]
    /\ UNCHANGED <<folder, rows, scan, count, pending, heard, givenUp, trouble>>

\* Mutant: a file that cannot be decoded is passed over without being counted.
DecodeSilent(q, w) ==
    LET f == pipe[q].work[w].file IN
    /\ pipe[q].work[w].pc = "decode"
    /\ \/ disk[f] = "part" /\ Work(q, w, Rest) /\ GiveUp(q, f) /\ UNCHANGED count
       \/ disk[f] = "whole" /\ Alike(f) /\ Work(q, w, Rest) /\ Count(q, "skipped") /\ UNCHANGED givenUp
       \/ /\ disk[f] = "whole" /\ ~Alike(f) /\ UNCHANGED <<count, givenUp>>
          /\ Work(q, w, [pipe[q].work[w] EXCEPT !.pc = "send"])
    /\ UNCHANGED <<folder, rows, scan, pending, heard, trouble>>

Decode(q, w) ==
    LET f == pipe[q].work[w].file IN
    /\ pipe[q].work[w].pc = "decode"
    /\ \/ disk[f] = "part" /\ Work(q, w, Rest) /\ Count(q, "failed") /\ GiveUp(q, f)
       \/ disk[f] = "whole" /\ Alike(f) /\ Work(q, w, Rest) /\ Count(q, "skipped") /\ UNCHANGED givenUp
       \/ /\ disk[f] = "whole" /\ ~Alike(f) /\ UNCHANGED <<count, givenUp>>
          /\ Work(q, w, [pipe[q].work[w] EXCEPT !.pc = "send"])
    /\ UNCHANGED <<folder, rows, scan, pending, heard, trouble>>

SendVision(q, w) ==
    /\ pipe[q].work[w].pc = "send" /\ Len(pipe[q].llmQ) < QueueCap
    /\ pipe' = [pipe EXCEPT ![q].work[w] = Rest, ![q].llmQ = Append(@, pipe[q].work[w])]
    /\ UNCHANGED <<folder, rows, scan, count, pending, heard, givenUp, trouble>>

(***************************************************************************)
(* The goroutine that asks the model: a picture leaves its queue when      *)
(* there is an answer, and room for it in the next.                        *)
(***************************************************************************)
NewRow(f, caption) == [looks |-> looks[Content[f]], caption |-> caption, vector |-> Nil]

\* INSERT OR IGNORE.
InsertIgnore(f, h, caption) ==
    rows' = [k \in DOMAIN rows \cup {h} |-> IF k \in DOMAIN rows THEN rows[k] ELSE NewRow(f, caption)]

\* The bulk run leaves a row for a picture the model failed on, the daemon drops it.  The
\* error of this INSERT is not looked at, and what refuses it may be what the model fails
\* for: it takes no trouble of its own.
InsertFailed(f, h) ==
    \/ InsertIgnore(f, h, "failed") /\ UNCHANGED givenUp
    \/ GiveUp("bulk", f) /\ UNCHANGED rows

AnalyzeImage(q) ==
    /\ pipe[q].llmQ # <<>>
    /\ LET r == Head(pipe[q].llmQ) IN
       \/ /\ Len(pipe[q].dbQ) < QueueCap
          /\ pipe' = [pipe EXCEPT ![q].llmQ = Tail(@), ![q].dbQ = Append(@, r)]
          /\ NoTrouble /\ UNCHANGED <<rows, count, givenUp>>
       \/ /\ pipe' = [pipe EXCEPT ![q].llmQ = Tail(@)]
          /\ Count(q, "failed") /\ Trouble
          /\ IF q = "bulk" THEN InsertFailed(r.file, r.hash)
             ELSE GiveUp(q, r.file) /\ UNCHANGED rows
    /\ UNCHANGED <<folder, scan, pending, heard>>

(***************************************************************************)
(* The goroutine that writes.                                              *)
(***************************************************************************)
\* INSERT, or what a refused one leaves; then UPDATE ... SET embedding WHERE hash, when
\* the embedding model answers.
WriteRow(q, r, embeds) ==
    \E v \in IF embeds THEN BOOLEAN ELSE {FALSE} :
        rows' = [h \in DOMAIN rows \cup {r.hash} |->
            IF h # r.hash THEN rows[h]
            ELSE LET row == IF h \in DOMAIN rows THEN rows[h] ELSE NewRow(r.file, q)
                 IN IF v THEN [row EXCEPT !.vector = q] ELSE row]

\* Mutant: the bulk run goes on to the vector of a row it did not write.
EmbedsAlways(q) == TRUE

\* After a refused row the bulk run goes on with the next; the daemon does not look at
\* the error.
EmbedsRefused(q) == q = "daemon"

\* The hash is UNIQUE, and a write can fail.
InsertImage(q) ==
    /\ pipe[q].dbQ # <<>>
    /\ LET r == Head(pipe[q].dbQ)
           known == r.hash \in DOMAIN rows
           next == [pipe EXCEPT ![q].dbQ = Tail(@)]
       IN \/ /\ ~known /\ WriteRow(q, r, TRUE)
             /\ pipe' = next /\ Count(q, "processed") /\ NoTrouble /\ UNCHANGED givenUp
          \/ /\ known /\ WriteRow(q, r, EmbedsRefused(q))
             /\ pipe' = next /\ Count(q, "failed") /\ NoTrouble /\ UNCHANGED givenUp
          \/ /\ Trouble /\ pipe' = next /\ Count(q, "failed") /\ GiveUp(q, r.file)
             /\ UNCHANGED rows
    /\ UNCHANGED <<folder, scan, pending, heard>>

(***************************************************************************)
(* The bulk run.                                                           *)
(***************************************************************************)
\* The walk: one file for every hash that is not in the library.
FirstOfHash(f) == \A g \in Present : Hash(g) = Hash(f) => g >= f
Wanted(f) == f \in Present /\ Hash(f) \notin DOMAIN rows /\ FirstOfHash(f)
InOrder(s) == \A i, j \in DOMAIN s : i < j => s[i] < s[j]
StartIngest ==
    /\ main = "start"
    /\ LET wanted == {f \in Files : Wanted(f)}
       IN \E walk \in [1..Cardinality(wanted) -> wanted] : InOrder(walk) /\ jobs' = walk
    /\ main' = "vision" /\ count' = Zero
    /\ pipe' = [pipe EXCEPT !["bulk"].vision = jobs']
    /\ UNCHANGED <<folder, rows, pending, heard, givenUp, trouble>>

VisionDone == pipe["bulk"].vision = <<>> /\ \A w \in BulkWorkers : pipe["bulk"].work[w].pc = "idle"
LLMDone == pipe["bulk"].llmQ = <<>>
DBDone == pipe["bulk"].dbQ = <<>>

\* Mutant: dbWg.Wait() before close(dbQ).
WaitBeforeClose ==
    /\ \/ main = "vision" /\ VisionDone /\ main' = "llm"
       \/ main = "llm" /\ LLMDone /\ main' = "db"
    /\ UNCHANGED <<folder, rows, pipe, jobs, count, pending, heard, givenUp, trouble>>

\* Mutant: dbWg.Wait() is forgotten.
WaitWithoutDB ==
    /\ \/ main = "vision" /\ VisionDone /\ main' = "llm"
       \/ main = "llm" /\ LLMDone /\ main' = "done"
    /\ UNCHANGED <<folder, rows, pipe, jobs, count, pending, heard, givenUp, trouble>>

\* close(visionQ); visionWg.Wait(); close(llmQ); llmWg.Wait(); close(dbQ); dbWg.Wait()
Wait ==
    /\ \/ main = "vision" /\ VisionDone /\ main' = "llm"
       \/ main = "llm" /\ LLMDone /\ main' = "db"
       \/ main = "db" /\ DBDone /\ main' = "done"
    /\ UNCHANGED <<folder, rows, pipe, jobs, count, pending, heard, givenUp, trouble>>

\* The run is killed, and started again.
KillIngest ==
    /\ main \notin {"start", "done"} /\ Trouble
    /\ main' = "start" /\ jobs' = <<>> /\ count' = Zero
    /\ pipe' = [pipe EXCEPT !["bulk"] = Idle("bulk")]
    /\ UNCHANGED <<folder, rows, pending, heard, givenUp>>

(***************************************************************************)
(* The daemon's loop: at a tick it sends what is pending, and waits while  *)
(* the channel is full.                                                    *)
(***************************************************************************)
\* Mutant: a picture that finds the channel full is dropped.
SendOrDrop ==
    /\ \E f \in pending :
        /\ pending' = pending \ {f}
        /\ pipe' = IF Len(pipe["daemon"].vision) = QueueCap THEN pipe
                   ELSE [pipe EXCEPT !["daemon"].vision = Append(@, f)]
    /\ UNCHANGED <<folder, rows, scan, count, heard, givenUp, trouble>>

SendBatch ==
    /\ Len(pipe["daemon"].vision) < QueueCap
    /\ \E f \in pending :
        /\ pending' = pending \ {f}
        /\ pipe' = [pipe EXCEPT !["daemon"].vision = Append(@, f)]
    /\ UNCHANGED <<folder, rows, scan, count, heard, givenUp, trouble>>

Worker(q, w) == Take(q, w) \/ Decode(q, w) \/ SendVision(q, w)

Next ==
    \/ \E f \in Files : StartCopy(f) \/ FinishCopy(f)
    \/ \E q \in Pipelines : (\E w \in Workers(q) : Worker(q, w)) \/ AnalyzeImage(q) \/ InsertImage(q)
    \/ StartIngest \/ Wait \/ KillIngest \/ SendBatch

Spec == Init /\ [][Next]_vars

\* Every goroutine that can go on does.
FairSpec ==
    /\ Spec
    /\ \A q \in Pipelines :
        /\ \A w \in Workers(q) : WF_vars(Worker(q, w))
        /\ WF_vars(AnalyzeImage(q)) /\ WF_vars(InsertImage(q))
    /\ WF_vars(StartIngest \/ Wait) /\ WF_vars(SendBatch)

-----------------------------------------------------------------------------
Hashes == Contents \cup {PartHash(f) : f \in Files}
Item == [pc : {"idle", "decode", "send"}, file : Files \cup {0}, hash : Hashes \cup {Nil}]
TypeOK ==
    /\ disk \in [Files -> {"absent", "part", "whole"}] /\ looks \in Looks
    /\ DOMAIN rows \subseteq Hashes
    /\ \A h \in DOMAIN rows :
        /\ rows[h].caption \in Pipelines \cup {"failed"}
        /\ rows[h].vector \in Pipelines \cup {Nil}
    /\ \A q \in Pipelines :
        /\ Len(pipe[q].llmQ) <= QueueCap /\ Len(pipe[q].dbQ) <= QueueCap
        /\ \A r \in Range(pipe[q].llmQ) \cup Range(pipe[q].dbQ) : r \in Item /\ r.hash \in Hashes
        /\ \A w \in Workers(q) : pipe[q].work[w] \in Item
    /\ Len(pipe["daemon"].vision) <= QueueCap
    /\ pending \subseteq Files

(***************************************************************************)
(* No picture falls out of the bulk run uncounted: what it took on is      *)
(* counted, in a channel or in a worker, and none is left when it says it  *)
(* is done.  (The channels keep to their capacity: TypeOK.)                *)
(***************************************************************************)
InFlight ==
    LET b == pipe["bulk"] IN
    Len(b.vision) + Len(b.llmQ) + Len(b.dbQ)
    + Cardinality({w \in BulkWorkers : b.work[w].pc # "idle"})
Accounted ==
    /\ TypeOK
    /\ count.processed + count.skipped + count.failed + InFlight = Len(jobs)
    /\ main = "done" => InFlight = 0

(***************************************************************************)
(* When the bulk run is done, a picture it took on is in the library, or   *)
(* one that looks like it is, or it could not be decoded, or the library   *)
(* refused its row (also that of a picture the model failed on, which is   *)
(* in `failed` of the summary all the same).  That a look-alike will do is *)
(* what the code does, not what STORAGE_RETRIEVAL_DESIGN.md:7 says: such   *)
(* pictures "are separate memories".                                       *)
(***************************************************************************)
Kept ==
    main = "done" => \A f \in Range(jobs) \ givenUp["bulk"] : Alike(f)

(***************************************************************************)
(* A picture a running daemon was told of is on its way, or it is in the   *)
(* library or one that looks like it is, or it could not be read, analysed *)
(* or stored.  A picture that is still being copied when the daemon reads  *)
(* it is one that cannot be read: nothing tells the daemon of its end.     *)
(***************************************************************************)
OnItsWay(f) ==
    LET d == pipe["daemon"] IN
    \/ f \in pending \cup Range(d.vision)
    \/ \E r \in Range(d.llmQ) \cup Range(d.dbQ) \cup {d.work[w] : w \in CPUs} : r.file = f
HeardIsKept ==
    \A f \in heard : OnItsWay(f) \/ Alike(f) \/ f \in givenUp["daemon"]

(***************************************************************************)
(* The bulk run stores the vector of the caption it stored, never of one   *)
(* that lost the race for the row (the daemon does not take this care).    *)
(***************************************************************************)
VectorOfCaption ==
    \A h \in DOMAIN rows : rows[h].vector = "bulk" => rows[h].caption = "bulk"

(***************************************************************************)
(* The bulk run ends, however the channels fill up.                        *)
(***************************************************************************)
IngestEnds == <>(main = "done")

=============================================================================
