---------------------------- MODULE UploadQueue ----------------------------
(***************************************************************************)
(* The queue of pictures that wait for analysis (pending_uploads):         *)
(* internal/scheduler/scheduler.go (AddUpload, GetPendingList, ProcessNow, *)
(* processUpload) with the three ways in, the web upload and the folder    *)
(* ingest of the server (cmd/server.go) and the `fotoro scheduler` command *)
(* (cmd/scheduler.go), which is a process of its own on the same database. *)
(*                                                                         *)
(* A file is its picture.  The SHA-256 of a file IS its picture; the       *)
(* perceptual hash is the same for pictures that look alike.  A picture in *)
(* the library stays at the path it was queued with.                       *)
(***************************************************************************)
EXTENDS Integers, Sequences, FiniteSets

CONSTANTS
    Pictures,     \* contents of image files
    Broken,       \* those that PrepareImage cannot decode
    PHash,        \* the perceptual hash of each picture
    Handlers,     \* web uploads that may run at a time
    Staged,       \* paths under uploads/
    Folder,       \* paths in the folder that is ingested
    MaxPerBatch,  \* schedule_config.max_per_batch
    MaxRows,      \* bound: rows of pending_uploads
    MaxTrouble,   \* bound: crashes and failing calls
    Nil

Paths  == Staged \cup Folder
Procs  == {"server", "cli"}
Actors == Handlers \cup {"folder", "cli"}      \* the callers of AddUpload
Status == {"pending", "processing", "done", "failed", "duplicate"}
Row    == [path : Paths, hash : Pictures, status : Status]

ASSUME BoundsAssumption ==
    MaxPerBatch \in Nat \ {0} /\ MaxRows \in Nat /\ MaxTrouble \in Nat
ASSUME PicturesAssumption ==
    /\ Broken \subseteq Pictures /\ PHash \in [Pictures -> SUBSET Pictures]
    /\ Nil \notin Pictures \cup Paths /\ Staged \cap Folder = {}
    /\ Handlers \cap {"folder", "cli"} = {}
ASSUME FiniteAssumption == IsFiniteSet(Handlers) /\ IsFiniteSet(Staged)

VARIABLES
    files,     \* the picture at each path, or Nil
    images,    \* the library: the path of each picture it lists, or Nil
    rows,      \* pending_uploads, by id
    up,        \* running processes
    scan,      \* files the command has collected and not yet queued
    adding,    \* AddUpload of each actor: its program counter, path and hash
    batch,     \* ProcessNow of each process: its program counter, rows to do, and hash
    accepted,  \* history: pictures whose sender was told they are queued
    alike,     \* history: pictures whose file was removed because one like it was found
    trouble

disk == <<files, images>>
vars == <<files, images, rows, up, scan, adding, batch, accepted, alike, trouble>>

NotAdding == [pc |-> "idle", path |-> Nil, hash |-> Nil]
NoBatch   == [pc |-> "idle", todo |-> {}, hash |-> Nil]

\* The folder and uploads/ may hold pictures before Fotoro runs for the first time.
Init ==
    /\ files \in [Paths -> Pictures \cup {Nil}]
    /\ \A p, q \in Paths : p # q /\ files[p] # Nil => files[p] # files[q]
    /\ images = [c \in Pictures |-> Nil]
    /\ rows = <<>>
    /\ up = {} /\ scan = {}
    /\ adding = [a \in Actors |-> NotAdding]
    /\ batch = [p \in Procs |-> NoBatch]
    /\ accepted = {} /\ alike = {} /\ trouble \in 0..MaxTrouble

Trouble == trouble < MaxTrouble /\ trouble' = trouble + 1
NoTrouble == UNCHANGED trouble

(***************************************************************************)
(* AddUpload and its callers.                                              *)
(***************************************************************************)
ProcOf(a) == IF a = "cli" THEN "cli" ELSE "server"
Coming == Len(rows) + Cardinality(scan) + Cardinality({a \in Actors : adding[a].pc # "idle"})
Room == Coming < MaxRows
Begin(a, p) == adding' = [adding EXCEPT ![a] = [pc |-> "hash", path |-> p, hash |-> Nil]]
Goto(a, s)  == adding' = [adding EXCEPT ![a].pc = s]
Return(a)   == adding' = [adding EXCEPT ![a] = NotAdding]

\* A web upload: os.Create truncates what is at the path.
Receive(h) ==
    /\ "server" \in up /\ adding[h].pc = "idle" /\ Room
    /\ \E p \in Staged :
        \/ /\ \E c \in Pictures : files' = [files EXCEPT ![p] = c]
           /\ Begin(h, p) /\ NoTrouble
        \/ /\ \E c \in Broken : files' = [files EXCEPT ![p] = c]     \* cut short
           /\ Trouble /\ UNCHANGED adding
    /\ UNCHANGED <<images, rows, up, scan, batch, accepted, alike>>

IngestFile ==
    /\ "server" \in up /\ adding["folder"].pc = "idle" /\ Room
    /\ \E p \in Folder : files[p] # Nil /\ Begin("folder", p)
    /\ UNCHANGED <<disk, rows, up, scan, batch, accepted, alike, trouble>>

ScanFile ==
    /\ adding["cli"].pc = "idle"
    /\ \E p \in scan : Begin("cli", p) /\ scan' = scan \ {p}
    /\ UNCHANGED <<disk, rows, up, batch, accepted, alike, trouble>>

\* What an error of AddUpload means: the web handler removes its file.
Refused(a) == IF a \in Handlers THEN Goto(a, "drop") ELSE Return(a)

HashUpload(a) ==
    /\ adding[a].pc = "hash"
    /\ LET c == files[adding[a].path] IN
        \/ /\ c # Nil /\ NoTrouble
           /\ adding' = [adding EXCEPT ![a].pc = "library", ![a].hash = c]
        \/ Refused(a) /\ IF c = Nil THEN NoTrouble ELSE Trouble
    /\ UNCHANGED <<disk, rows, up, scan, batch, accepted, alike>>

\* Already in the library: a row that says so, with the path of the library.
LookupLibrary(a) ==
    LET c == adding[a].hash IN
    /\ adding[a].pc = "library"
    /\ \/ /\ images[c] # Nil
          /\ rows' = Append(rows, [path |-> images[c], hash |-> c, status |-> "duplicate"])
          /\ IF a = "folder" THEN Return(a) ELSE Goto(a, "drop")
          /\ NoTrouble
       \/ images[c] # Nil /\ Refused(a) /\ Trouble /\ UNCHANGED rows
       \/ images[c] = Nil /\ Goto(a, "queue") /\ NoTrouble /\ UNCHANGED rows
       \/ Goto(a, "queue") /\ Trouble /\ UNCHANGED rows     \* any error: not there
    /\ UNCHANGED <<disk, up, scan, batch, accepted, alike>>

Queued(c) == \E i \in 1..Len(rows) : rows[i].hash = c /\ rows[i].status \in {"pending", "processing"}

LookupQueue(a) ==
    /\ adding[a].pc = "queue"
    /\ \/ Queued(adding[a].hash) /\ Refused(a) /\ NoTrouble
       \/ ~Queued(adding[a].hash) /\ Goto(a, "insert") /\ NoTrouble
       \/ Goto(a, "insert") /\ Trouble
    /\ UNCHANGED <<disk, rows, up, scan, batch, accepted, alike>>

InsertPending(a) ==
    /\ adding[a].pc = "insert"
    /\ \/ /\ rows' = Append(rows, [path |-> adding[a].path, hash |-> adding[a].hash,
                                   status |-> "pending"])
          /\ accepted' = accepted \cup {adding[a].hash}
          /\ Return(a) /\ NoTrouble
       \/ Refused(a) /\ Trouble /\ UNCHANGED <<rows, accepted, alike>>
    /\ UNCHANGED <<disk, up, scan, batch, alike>>

\* Mutant: the path of the returned upload, that of the library, is removed.
DropReturned(a) ==
    /\ adding[a].pc = "drop"
    /\ LET c == adding[a].hash
           p == IF c # Nil /\ images[c] # Nil THEN images[c] ELSE adding[a].path
       IN  files' = [files EXCEPT ![p] = Nil]
    /\ Return(a)
    /\ UNCHANGED <<images, rows, up, scan, batch, accepted, alike, trouble>>

DropUpload(a) ==
    /\ adding[a].pc = "drop"
    /\ files' = [files EXCEPT ![adding[a].path] = Nil]
    /\ Return(a)
    /\ UNCHANGED <<images, rows, up, scan, batch, accepted, alike, trouble>>

(***************************************************************************)
(* ProcessNow: the flag jq.processing lets one batch run per process, with *)
(* one worker.                                                             *)
(***************************************************************************)
\* Mutant: rows that failed are tried again.
PendingOrFailed == {i \in 1..Len(rows) : rows[i].status \in {"pending", "failed"}}

Pending == {i \in 1..Len(rows) : rows[i].status = "pending"}

PendingList == {i \in Pending : Cardinality({j \in Pending : j < i}) < MaxPerBatch}

ReadyToProcess(p) ==
    /\ p \in up /\ batch[p].pc = "idle"
    /\ p = "cli" => scan = {} /\ adding["cli"].pc = "idle"

ProcessNow(p) ==
    /\ ReadyToProcess(p) /\ Pending # {}
    /\ batch' = [batch EXCEPT ![p] = [pc |-> "next", todo |-> PendingList, hash |-> Nil]]
    /\ UNCHANGED <<disk, rows, up, scan, adding, accepted, alike, trouble>>

At(p, s, i) == batch[p].pc = s /\ i \in batch[p].todo /\ \A j \in batch[p].todo : i <= j
GoOn(p, s)  == batch' = [batch EXCEPT ![p].pc = s]
NextRow(p, i) ==
    batch' = [batch EXCEPT ![p] = [pc |-> "next", todo |-> batch[p].todo \ {i}, hash |-> Nil]]

\* UPDATE pending_uploads: its error is ignored.
SetStatus(i, s) ==
    \/ rows' = [rows EXCEPT ![i].status = s] /\ NoTrouble
    \/ UNCHANGED rows /\ Trouble

MarkProcessing(p, i) ==
    /\ At(p, "next", i)
    /\ SetStatus(i, "processing") /\ GoOn(p, "prepare")
    /\ UNCHANGED <<disk, up, scan, adding, accepted, alike>>

\* Mutant: the status of a file that cannot be prepared is not set.
PrepareSilently(p, i) ==
    LET c == files[rows[i].path] IN
    /\ At(p, "prepare", i)
    /\ IF c = Nil \/ c \in Broken
       THEN SetStatus(i, "pending") /\ NextRow(p, i)
       ELSE /\ batch' = [batch EXCEPT ![p].pc = "compare", ![p].hash = c]
            /\ NoTrouble /\ UNCHANGED rows
    /\ UNCHANGED <<disk, up, scan, adding, accepted, alike>>

PrepareImage(p, i) ==
    LET c == files[rows[i].path] IN
    /\ At(p, "prepare", i)
    /\ \/ /\ c = Nil \/ c \in Broken
          /\ SetStatus(i, "failed") /\ NextRow(p, i)
       \/ /\ c # Nil /\ c \notin Broken
          /\ batch' = [batch EXCEPT ![p].pc = "compare", ![p].hash = c]
          /\ NoTrouble /\ UNCHANGED rows
    /\ UNCHANGED <<disk, up, scan, adding, accepted, alike>>

\* Mutant: the other rows of the queue are compared, not the library.
SimilarQueued(c) == \E i \in 1..Len(rows) : PHash[rows[i].hash] = PHash[c] /\ rows[i].status # "processing"

Similar(c) == \E d \in Pictures : images[d] # Nil /\ PHash[d] = PHash[c]

ComparePicture(p, i) ==
    /\ At(p, "compare", i)
    /\ \/ Similar(batch[p].hash) /\ SetStatus(i, "duplicate") /\ GoOn(p, "remove")
       \/ ~Similar(batch[p].hash) /\ GoOn(p, "analyze") /\ NoTrouble /\ UNCHANGED rows
       \/ GoOn(p, "analyze") /\ Trouble /\ UNCHANGED rows     \* any error: none alike
    /\ UNCHANGED <<disk, up, scan, adding, accepted, alike>>

\* isStagedUploadSource: a file of the ingested folder is left alone.
RemoveSimilar(p, i) ==
    /\ At(p, "remove", i)
    /\ files' = IF rows[i].path \in Staged THEN [files EXCEPT ![rows[i].path] = Nil] ELSE files
    /\ alike' = alike \cup ({files[rows[i].path]} \ {files'[rows[i].path]})
    /\ NextRow(p, i)
    /\ UNCHANGED <<images, rows, up, scan, adding, accepted, trouble>>

\* The model may fail: the picture enters the library without analysis.
AnalyzeImage(p, i) ==
    /\ At(p, "analyze", i)
    /\ \/ GoOn(p, "save") /\ NoTrouble /\ UNCHANGED rows
       \/ Trouble /\ rows' = [rows EXCEPT ![i].status = "failed"] /\ GoOn(p, "keep")
    /\ UNCHANGED <<disk, up, scan, adding, accepted, alike>>

Listed(c, p) == images' = [images EXCEPT ![c] = p]

KeepUnanalyzed(p, i) ==
    LET c == batch[p].hash IN
    /\ At(p, "keep", i)
    /\ \/ NoTrouble /\ IF images[c] = Nil THEN Listed(c, rows[i].path) ELSE UNCHANGED images
       \/ Trouble /\ UNCHANGED images
    /\ NextRow(p, i)
    /\ UNCHANGED <<files, rows, up, scan, adding, accepted, alike>>

\* UNIQUE(hash) of images.
SaveImage(p, i) ==
    LET c == batch[p].hash IN
    /\ At(p, "save", i)
    /\ \/ /\ images[c] = Nil /\ Listed(c, rows[i].path)
          /\ GoOn(p, "mark") /\ NoTrouble /\ UNCHANGED rows
       \/ /\ images[c] # Nil
          /\ SetStatus(i, "failed") /\ NextRow(p, i) /\ UNCHANGED images
       \/ /\ Trouble /\ rows' = [rows EXCEPT ![i].status = "failed"]
          /\ NextRow(p, i) /\ UNCHANGED images
    /\ UNCHANGED <<files, up, scan, adding, accepted, alike>>

MarkDone(p, i) ==
    /\ At(p, "mark", i)
    /\ SetStatus(i, "done") /\ NextRow(p, i)
    /\ UNCHANGED <<disk, up, scan, adding, accepted, alike>>

\* The batch is complete; the command ends with it, or without any when nothing
\* is pending or memory is too short for the model.
FinishBatch(p) ==
    /\ batch[p].pc = "next" /\ batch[p].todo = {}
    /\ batch' = [batch EXCEPT ![p] = NoBatch]
    /\ up' = up \ ({p} \cap {"cli"})
    /\ UNCHANGED <<disk, rows, scan, adding, accepted, alike, trouble>>

EndWithoutBatch ==
    /\ ReadyToProcess("cli") /\ up' = up \ {"cli"}
    /\ IF Pending = {} THEN NoTrouble ELSE Trouble
    /\ UNCHANGED <<disk, rows, scan, adding, batch, accepted, alike>>

(***************************************************************************)
(* Processes start, and die at any time.                                   *)
(***************************************************************************)
Uploads == {p \in Staged : files[p] # Nil}
Start(p) ==
    /\ p \notin up /\ up' = up \cup {p}
    /\ IF p = "cli" THEN scan' = Uploads /\ Coming + Cardinality(Uploads) <= MaxRows
       ELSE UNCHANGED scan
    /\ UNCHANGED <<disk, rows, adding, batch, accepted, alike, trouble>>

Crash(p) ==
    /\ p \in up /\ Trouble
    /\ up' = up \ {p}
    /\ scan' = IF p = "cli" THEN {} ELSE scan
    /\ adding' = [a \in Actors |-> IF ProcOf(a) = p THEN NotAdding ELSE adding[a]]
    /\ batch' = [batch EXCEPT ![p] = NoBatch]
    /\ UNCHANGED <<disk, rows, accepted, alike>>

AddStep(a) ==
    HashUpload(a) \/ LookupLibrary(a) \/ LookupQueue(a) \/ InsertPending(a) \/ DropUpload(a)

RowStep(p, i) ==
    \/ MarkProcessing(p, i) \/ PrepareImage(p, i) \/ ComparePicture(p, i) \/ RemoveSimilar(p, i)
    \/ AnalyzeImage(p, i) \/ KeepUnanalyzed(p, i) \/ SaveImage(p, i) \/ MarkDone(p, i)

BatchStep(p) == FinishBatch(p) \/ \E i \in 1..Len(rows) : RowStep(p, i)

Next ==
    \/ \E h \in Handlers : Receive(h)
    \/ IngestFile \/ ScanFile \/ EndWithoutBatch
    \/ \E a \in Actors : AddStep(a)
    \/ \E p \in Procs : ProcessNow(p) \/ BatchStep(p) \/ Start(p) \/ Crash(p)

Spec == Init /\ [][Next]_vars

(***************************************************************************)
(* Assumptions that the code does not enforce.                             *)
(***************************************************************************)
\* The command and the server do not run at the same time.
OneProcess == Cardinality(up) <= 1

\* The command is not run again once the library has pictures under uploads/.
FirstScan == "cli" \in up' \ up => \A c \in Pictures : images[c] \notin Staged

\* The names of staged files, made of a time in seconds and the name of the
\* upload, do not repeat.
Unused(p) ==
    /\ files[p] = Nil /\ p \notin scan
    /\ \A i \in 1..Len(rows) : rows[i].path # p
    /\ \A a \in Actors : adding[a].path # p
FreshNames ==
    /\ \A h \in Handlers :
        adding[h].pc = "idle" /\ adding'[h].pc = "hash" => Unused(adding'[h].path)
    /\ \A p \in Staged : files'[p] \notin {Nil, files[p]} => Unused(p)

\* AddUpload takes any error of its lookup in the queue for "not queued"; such an
\* error does not meet a picture that is queued.
QueueRead ==
    \A a \in Actors :
        adding[a].pc = "queue" /\ adding'[a].pc = "insert" => ~Queued(adding[a].hash)

\* The UPDATE to "processing" does not fail.
Marked ==
    \A p \in Procs, i \in 1..Len(rows) :
        At(p, batch[p].pc, i) /\ batch[p].pc # "next" => rows[i].status # "pending"

Careful == OneProcess' /\ FirstScan /\ FreshNames /\ QueueRead /\ Marked'
CarefulSpec == Init /\ [][Next /\ Careful]_vars
RescanSpec  == Init /\ [][Next /\ OneProcess' /\ FreshNames /\ QueueRead /\ Marked']_vars

\* The daily run is enabled and the server is up for it; a command that was
\* started goes on.
DailyRun   == Start("server") \/ ProcessNow("server") \/ BatchStep("server")
CommandRun ==
    ScanFile \/ AddStep("cli") \/ ProcessNow("cli") \/ BatchStep("cli") \/ EndWithoutBatch
FairSpec ==
    /\ CarefulSpec
    /\ WF_vars(DailyRun /\ Careful) /\ WF_vars(CommandRun /\ Careful)

-----------------------------------------------------------------------------
TypeOK ==
    /\ files \in [Paths -> Pictures \cup {Nil}]
    /\ images \in [Pictures -> Paths \cup {Nil}]
    /\ rows \in Seq(Row) /\ Len(rows) <= MaxRows
    /\ up \subseteq Procs
    /\ scan \subseteq Staged
    /\ adding \in [Actors ->
        [pc : {"idle", "hash", "library", "queue", "insert", "drop"},
         path : Paths \cup {Nil}, hash : Pictures \cup {Nil}]]
    /\ batch \in [Procs ->
        [pc : {"idle", "next", "prepare", "compare", "remove", "analyze", "keep", "save", "mark"},
         todo : SUBSET (1..MaxRows), hash : Pictures \cup {Nil}]]
    /\ accepted \subseteq Pictures /\ alike \subseteq Pictures
    /\ trouble \in 0..MaxTrouble

(***************************************************************************)
(* Nothing takes away the file of a picture in the library: not a repeated *)
(* upload of it, not one that looks alike, not a failing or dying process. *)
(***************************************************************************)
LibraryFiles == \A c \in Pictures : images[c] # Nil => files[images[c]] = c

(***************************************************************************)
(* A picture whose sender was told "queued" stays on disk, with one        *)
(* exception that processUpload makes on purpose: when the library has a   *)
(* picture with the same perceptual hash, the file is removed; that        *)
(* picture then is there to look at.  (The types are checked along.)       *)
(***************************************************************************)
OnDisk(c) == \E p \in Paths : files[p] = c
AcceptedKept ==
    /\ TypeOK
    /\ \A c \in accepted :
           \/ OnDisk(c)
           \/ c \in alike /\ \E d \in Pictures :
                  images[d] # Nil /\ PHash[d] = PHash[c] /\ files[images[d]] = d

(***************************************************************************)
(* STORAGE_RETRIEVAL_DESIGN.md does not know the exception: pictures that  *)
(* look alike "are separate memories and must only be presented as review  *)
(* suggestions" (line 7), "never automatic deletion" (line 29).            *)
(***************************************************************************)
AlikeKept == \A c \in accepted : OnDisk(c)

(***************************************************************************)
(* A row that was settled is never touched again: a batch does not pick it *)
(* up twice, whichever process runs it.                                    *)
(***************************************************************************)
Settled == {"done", "failed", "duplicate"}
SettledStays ==
    [][\A i \in 1..Len(rows) : rows[i].status \in Settled => rows'[i] = rows[i]]_vars

(***************************************************************************)
(* Every pending row gets its turn and is settled once calls do not fail   *)
(* and processes do not die any more: neither a file that cannot be read   *)
(* nor rows that keep arriving hold it up.                                 *)
(***************************************************************************)
HasStatus(i, S) == i <= Len(rows) /\ rows[i].status \in S
QueueDrains ==
    \A i \in 1..MaxRows :
        (HasStatus(i, {"pending"}) /\ trouble = MaxTrouble) ~> HasStatus(i, Settled)

=============================================================================
