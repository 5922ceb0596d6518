---------------------------- MODULE MediaUpload ----------------------------
(***************************************************************************)
(* Resumable upload sessions and the import of their bytes as originals:   *)
(* internal/media/service.go (CreateUpload, AppendChunk, CompleteUpload,   *)
(* CancelUpload, ImportFile, materializeOriginal, linkDeviceAsset).        *)
(*                                                                         *)
(* An HTTP request holds the mutex of its upload session from the first    *)
(* read to its return, so there is at most one running handler per upload  *)
(* and op[u] is its program counter with its local variables.  Handlers of *)
(* different uploads interleave at every file system call and SQL          *)
(* statement.  A file is its bytes, and SHA-256 is taken to be injective:  *)
(* the hash of a file IS its bytes.                                        *)
(***************************************************************************)
EXTENDS Integers, Sequences

CONSTANTS
    Uploads,       \* ids of upload sessions
    Chunks,        \* the values one unit of bytes can have
    Zero,          \* the unit a hole in a file reads as
    MaxSize,       \* FOTORO_MAX_ASSET_BYTES, in units
    Exts,          \* file name extensions (safeExtension of the original name)
    ImageExts,     \* those whose asset is an image
    DeviceAssets,  \* (device_id, device_asset_id) pairs
    Requests,      \* the upload requests clients make
    Sends,         \* the runs of bytes clients send in one chunk
    MaxTrouble,    \* bound: crashes and failing calls in a behaviour
    Nil            \* NULL: no file, no row, no hash, no device

Content == UNION {[1..n -> Chunks] : n \in 0..MaxSize}
Key     == Content \X Exts      \* originals/<hash><ext>
Request == [size : 0..MaxSize, sha : Content \cup {Nil},
            ext : Exts, dev : DeviceAssets \cup {Nil}]
File    == [bytes : Content, writer : Uploads \cup {Nil}]
Status  == {"absent", "uploading", "completed", "failed", "expired", "cancelled"}
Row     == [status : Status, received : 0..MaxSize, asset : Content \cup {Nil}]
Asset   == [key : Key, dev : DeviceAssets \cup {Nil},
            preview : {"pending", "unavailable"}]
Step    == {"idle", "session", "offset", "cancel", "lookup", "recheck", "stat", "open",
            "copy", "rename", "verify", "commit", "link", "job", "mark", "unstage"}
Op      == [pc : Step, hash : Content \cup {Nil},
            created : BOOLEAN, fresh : BOOLEAN,
            next : 0..MaxSize, chunk : Content]

ASSUME BoundsAssumption == MaxSize \in Nat /\ MaxTrouble \in Nat
ASSUME ConstantsAssumption ==
    /\ Zero \in Chunks /\ ImageExts \subseteq Exts
    /\ Requests \subseteq Request /\ Sends \subseteq Content
ASSUME NilAssumption ==
    Nil \notin Content \cup Uploads \cup DeviceAssets \cup File \cup Asset

VARIABLES
    req,       \* the CreateUploadRequest of each session
    row,       \* upload_sessions
    late,      \* expires_at has passed
    assets,    \* media_assets, by hash
    copies,    \* storage_copies: assets with a verified primary copy
    links,     \* device_assets: the asset each device asset is linked to
    jobs,      \* analysis_jobs: assets with a thumbnail job
    part,      \* .partial/<id>.part
    tmp,       \* originals/<key>.tmp
    orig,      \* originals/<key>
    op,        \* the handler that holds the mutex of each session
    acked,     \* history: the bytes the client was told are received, Nil once withdrawn
    unseen,    \* history: assets whose original was there when a stat of it failed
    trouble    \* crashes and failed calls so far

dbVars   == <<row, assets, copies, links, jobs>>
fileVars == <<part, tmp, orig>>
vars     == <<req, row, late, assets, copies, links, jobs, part, tmp, orig, op, acked, unseen, trouble>>

Idle == [pc |-> "idle", hash |-> Nil, created |-> FALSE,
         fresh |-> FALSE, next |-> 0, chunk |-> <<>>]

Init ==
    /\ req \in [Uploads -> Requests]
    /\ row = [u \in Uploads |-> [status |-> "absent", received |-> 0, asset |-> Nil]]
    /\ late = [u \in Uploads |-> FALSE]
    /\ assets = [c \in Content |-> Nil]
    /\ copies = {}
    /\ links = [d \in DeviceAssets |-> Nil]
    /\ jobs = {}
    /\ part = [u \in Uploads |-> Nil]
    /\ tmp = [k \in Key |-> Nil]
    /\ orig = [k \in Key |-> Nil]
    /\ op = [u \in Uploads |-> Idle]
    /\ acked = [u \in Uploads |-> <<>>]
    /\ unseen = {} /\ trouble = 0

Goto(u, p) == op' = [op EXCEPT ![u].pc = p]
Return(u)  == op' = [op EXCEPT ![u] = Idle]

\* A system call or SQL statement that fails, or a crash.
Trouble == trouble < MaxTrouble /\ trouble' = trouble + 1
NoTrouble == UNCHANGED trouble

Hash(u) == op[u].hash
Dest(u) == <<op[u].hash, req[u].ext>>

(***************************************************************************)
(* CreateUpload: make the empty .part file, then insert the row.           *)
(***************************************************************************)
CreateUpload(u) ==
    /\ op[u].pc = "idle" /\ row[u].status = "absent" /\ part[u] = Nil
    /\ part' = [part EXCEPT ![u] = <<>>]
    /\ Goto(u, "session")
    /\ UNCHANGED <<req, dbVars, late, tmp, orig, acked, unseen, trouble>>

InsertSession(u) ==
    /\ op[u].pc = "session"
    /\ \/ /\ row' = [row EXCEPT ![u].status = "uploading"]
          /\ NoTrouble /\ UNCHANGED part
       \/ /\ Trouble                      \* insert failed: the file is removed again
          /\ part' = [part EXCEPT ![u] = Nil]
          /\ UNCHANGED row
    /\ Return(u)
    /\ UNCHANGED <<req, late, assets, copies, links, jobs, tmp, orig, acked, unseen>>

\* 48 hours pass.
Expire(u) ==
    /\ row[u].status = "uploading" /\ ~late[u]
    /\ late' = [late EXCEPT ![u] = TRUE]
    /\ UNCHANGED <<req, dbVars, fileVars, op, acked, unseen, trouble>>

(***************************************************************************)
(* AppendChunk: check the offset, write at it, fsync, then move the offset.*)
(***************************************************************************)
\* Mutant: the file is opened for appending, the offset is not used.
WriteAtEnd(f, off, d) == f \o d

\* WriteAt: a write past the end of the file leaves a hole.
WriteAt(f, off, d) ==
    [k \in 1..(IF Len(f) > off + Len(d) THEN Len(f) ELSE off + Len(d)) |->
        IF k \in off + 1 .. off + Len(d) THEN d[k - off]
        ELSE IF k <= Len(f) THEN f[k] ELSE Zero]

ChunkExpired(u) ==
    /\ op[u].pc = "idle" /\ row[u].status = "uploading" /\ late[u]
    /\ row' = [row EXCEPT ![u].status = "expired"]
    /\ UNCHANGED <<req, late, assets, copies, links, jobs, fileVars, op, acked, unseen, trouble>>

\* Mutant: the offset of the request is not compared with the received size.
ChunkAnywhere(u, off, d) ==
    /\ op[u].pc = "idle" /\ row[u].status = "uploading" /\ ~late[u]
    /\ off + Len(d) <= req[u].size /\ part[u] # Nil

ChunkAccepted(u, off, d) ==
    /\ op[u].pc = "idle" /\ row[u].status = "uploading" /\ ~late[u]
    /\ off = row[u].received
    /\ off + Len(d) <= req[u].size
    /\ part[u] # Nil                      \* opened without O_CREATE

AppendChunk(u, off, d) ==
    /\ ChunkAccepted(u, off, d)
    /\ \/ /\ part' = [part EXCEPT ![u] = WriteAt(@, off, d)]
          /\ op' = [op EXCEPT ![u].pc = "offset", ![u].chunk = d,
                                  ![u].next = off + Len(d)]
          /\ NoTrouble
       \/ /\ Trouble                      \* short write, or a crash in the middle of it
          /\ \E n \in 0..(Len(d) - 1) :
                part' = [part EXCEPT ![u] = WriteAt(@, off, SubSeq(d, 1, n))]
          /\ UNCHANGED op
    /\ UNCHANGED <<req, dbVars, late, tmp, orig, acked, unseen>>

UpdateOffset(u) ==
    /\ op[u].pc = "offset"
    /\ \/ /\ row' = [row EXCEPT ![u].received = op[u].next]
          /\ acked' = [acked EXCEPT ![u] = @ \o op[u].chunk]
          /\ NoTrouble
       \/ Trouble /\ UNCHANGED <<row, acked>>
    /\ Return(u)
    /\ UNCHANGED <<req, late, assets, copies, links, jobs, fileVars, unseen>>

(***************************************************************************)
(* CompleteUpload, up to its call of ImportFile.  A repeated call for a    *)
(* completed session reads and returns the asset, and changes nothing.     *)
(***************************************************************************)
CompleteUpload(u) ==
    /\ op[u].pc = "idle" /\ row[u].status = "uploading"
    /\ row[u].received = req[u].size
    /\ part[u] # Nil
    /\ \/ /\ req[u].sha \in {Nil, part[u]}
          /\ op' = [op EXCEPT ![u].pc = "lookup", ![u].hash = part[u]]
          /\ UNCHANGED row
       \/ /\ req[u].sha \notin {Nil, part[u]}
          /\ row' = [row EXCEPT ![u].status = "failed"]
          /\ UNCHANGED op
    /\ UNCHANGED <<req, late, assets, copies, links, jobs, fileVars, acked, unseen, trouble>>

(***************************************************************************)
(* ImportFile.  Every error return leaves the session uploading, with its  *)
(* .part file in place.                                                    *)
(***************************************************************************)
\* GetAsset(hash).  Any error of the query, not only "no rows", is taken for
\* "not archived yet".
Lookup(u) ==
    /\ op[u].pc = "lookup"
    /\ \/ assets[Hash(u)] # Nil /\ Goto(u, "recheck") /\ NoTrouble
       \/ assets[Hash(u)] = Nil /\ Goto(u, "stat") /\ NoTrouble
       \/ Goto(u, "stat") /\ Trouble
    /\ UNCHANGED <<req, dbVars, late, fileVars, acked, unseen>>

\* The content is archived: the stored original is hashed again before the
\* session may refer to it.
RecheckOriginal(u) ==
    LET stored == orig[assets[Hash(u)].key]
        intact == stored # Nil /\ stored.bytes = Hash(u) IN
    /\ op[u].pc = "recheck"
    /\ \/ /\ intact
          /\ copies' = copies \cup {Hash(u)}
          /\ Goto(u, "link") /\ NoTrouble
       \/ ~intact /\ Return(u) /\ NoTrouble /\ UNCHANGED copies
       \/ Return(u) /\ Trouble /\ UNCHANGED copies
    /\ UNCHANGED <<req, row, assets, links, jobs, late, fileVars, acked, unseen>>

(***************************************************************************)
(* materializeOriginal(source, destination, FALSE): copy the source to     *)
(* destination.tmp, fsync, rename, fsync the directory.  A file that is    *)
(* being written keeps its writer through a rename.                        *)
(***************************************************************************)
Listed(c, k) == assets[c] # Nil /\ assets[c].key = k

\* Any error of the stat, not only ENOENT, is taken for "not there": the
\* original is made again, even one that the catalogue lists.
StatOriginal(u) ==
    /\ op[u].pc = "stat"
    /\ \/ /\ Goto(u, IF orig[Dest(u)] = Nil THEN "open" ELSE "verify")
          /\ NoTrouble /\ UNCHANGED unseen
       \/ /\ Goto(u, "open") /\ Trouble
          /\ unseen' = unseen \cup {c \in {Hash(u)} : Listed(c, Dest(u))}
    /\ UNCHANGED <<req, dbVars, late, fileVars, acked>>

\* Mutant: the copy is written at its destination.
OpenInPlace(u) ==
    /\ op[u].pc = "open"
    /\ orig' = [orig EXCEPT ![Dest(u)] = [bytes |-> <<>>, writer |-> u]]
    /\ Goto(u, "copy")
    /\ UNCHANGED <<req, dbVars, late, part, tmp, acked, unseen, trouble>>

\* Mutant: a leftover temporary file is not removed before the exclusive create.
OpenExclusive(u) ==
    /\ op[u].pc = "open"
    /\ \/ /\ tmp[Dest(u)] = Nil
          /\ tmp' = [tmp EXCEPT ![Dest(u)] = [bytes |-> <<>>, writer |-> u]]
          /\ Goto(u, "copy")
       \/ tmp[Dest(u)] # Nil /\ Return(u) /\ UNCHANGED tmp
    /\ UNCHANGED <<req, dbVars, late, part, orig, acked, unseen, trouble>>

\* Remove a leftover temporary file and create a new one exclusively.
OpenTemp(u) ==
    /\ op[u].pc = "open"
    /\ \/ /\ tmp' = [tmp EXCEPT ![Dest(u)] = [bytes |-> <<>>, writer |-> u]]
          /\ Goto(u, "copy") /\ NoTrouble
       \/ /\ Return(u) /\ Trouble
          /\ tmp' = [tmp EXCEPT ![Dest(u)] = Nil]
    /\ UNCHANGED <<req, dbVars, late, part, orig, acked, unseen>>

Closed(files, u) ==
    [k \in Key |-> IF files[k] # Nil /\ files[k].writer = u
                   THEN [files[k] EXCEPT !.writer = Nil] ELSE files[k]]
Written(files, u) ==
    [k \in Key |-> IF files[k] # Nil /\ files[k].writer = u
                   THEN [bytes |-> Hash(u), writer |-> Nil] ELSE files[k]]

\* The bytes go to the file this handler opened, wherever it is by now.
CopyBytes(u) ==
    /\ op[u].pc = "copy"
    /\ \/ /\ tmp' = Written(tmp, u) /\ orig' = Written(orig, u)
          /\ Goto(u, "rename") /\ NoTrouble
       \/ /\ tmp' = [Closed(tmp, u) EXCEPT ![Dest(u)] = Nil]
          /\ orig' = Closed(orig, u)
          /\ Return(u) /\ Trouble
    /\ UNCHANGED <<req, dbVars, late, part, acked, unseen>>

RenameTemp(u) ==
    /\ op[u].pc = "rename"
    /\ \/ /\ tmp[Dest(u)] # Nil
          /\ orig' = [orig EXCEPT ![Dest(u)] = tmp[Dest(u)]]
          /\ tmp' = [tmp EXCEPT ![Dest(u)] = Nil]
          /\ \/ op' = [op EXCEPT ![u].pc = "verify", ![u].created = TRUE] /\ NoTrouble
             \/ Return(u) /\ Trouble      \* renamed, but the directory fsync failed
       \/ /\ tmp[Dest(u)] = Nil           \* another handler took the file away
          /\ Return(u) /\ NoTrouble /\ UNCHANGED <<orig, tmp>>
       \/ /\ tmp' = [tmp EXCEPT ![Dest(u)] = Nil]
          /\ Return(u) /\ Trouble /\ UNCHANGED orig
    /\ UNCHANGED <<req, dbVars, late, part, acked, unseen>>

\* Mutant: the destination is removed whoever created it.
DropAlways(u) == orig' = [orig EXCEPT ![Dest(u)] = Nil]

\* The error paths after materializeOriginal: only a destination that this
\* call created is removed.
DropCreated(u) ==
    orig' = IF op[u].created THEN [orig EXCEPT ![Dest(u)] = Nil] ELSE orig

VerifyOriginal(u) ==
    LET intact == orig[Dest(u)] # Nil /\ orig[Dest(u)].bytes = Hash(u) IN
    /\ op[u].pc = "verify"
    /\ \/ intact /\ Goto(u, "commit") /\ NoTrouble /\ UNCHANGED orig
       \/ ~intact /\ DropCreated(u) /\ Return(u) /\ NoTrouble
       \/ DropCreated(u) /\ Return(u) /\ Trouble
    /\ UNCHANGED <<req, dbVars, late, part, tmp, acked, unseen>>

\* UNIQUE(hash) and UNIQUE(source_device_id, device_asset_id) of media_assets.
DeviceKeyTaken(u) ==
    /\ req[u].dev # Nil
    /\ \E c \in Content : assets[c] # Nil /\ assets[c].dev = req[u].dev
Insertable(u) == assets[Hash(u)] = Nil /\ ~DeviceKeyTaken(u)

\* One transaction: the media_assets row and its primary storage_copies row.
CommitAsset(u) ==
    /\ op[u].pc = "commit"
    /\ \/ /\ Insertable(u)
          /\ assets' = [assets EXCEPT ![Hash(u)] =
                [key |-> Dest(u), dev |-> req[u].dev, preview |-> "pending"]]
          /\ copies' = copies \cup {Hash(u)}
          /\ op' = [op EXCEPT ![u].pc = "link", ![u].fresh = TRUE]
          /\ NoTrouble /\ UNCHANGED orig
       \/ /\ ~Insertable(u)
          /\ DropCreated(u) /\ Return(u) /\ NoTrouble /\ UNCHANGED <<assets, copies>>
       \/ DropCreated(u) /\ Return(u) /\ Trouble /\ UNCHANGED <<assets, copies>>
    /\ UNCHANGED <<req, row, links, jobs, late, part, tmp, acked, unseen>>

\* Mutant: the error of the upsert is not returned.
LinkErrorIgnored(u) ==
    /\ op[u].pc = "link"
    /\ \/ links' = [links EXCEPT ![req[u].dev] = Hash(u)] /\ NoTrouble
       \/ Trouble /\ UNCHANGED links
    /\ Goto(u, "job")
    /\ UNCHANGED <<req, row, assets, copies, jobs, late, fileVars, acked, unseen>>

LinkDeviceAsset(u) ==
    /\ op[u].pc = "link"
    /\ \/ /\ links' = IF req[u].dev = Nil THEN links
                      ELSE [links EXCEPT ![req[u].dev] = Hash(u)]
          /\ Goto(u, "job") /\ NoTrouble
       \/ Return(u) /\ Trouble /\ UNCHANGED links
    /\ UNCHANGED <<req, row, assets, copies, jobs, late, fileVars, acked, unseen>>

\* An image gets a thumbnail job (INSERT OR IGNORE), other media no preview.
\* The kind is that of the name the asset was first archived under.
IsImage(c) == assets[c].key[2] \in ImageExts

\* A repeated import queues only while there is no preview yet.
ThumbnailDue(u) ==
    IsImage(Hash(u)) /\ (op[u].fresh \/ assets[Hash(u)].preview = "pending")

QueueThumbnail(u) ==
    /\ op[u].pc = "job"
    /\ \/ /\ ThumbnailDue(u)
          /\ jobs' = jobs \cup {Hash(u)}
          /\ Goto(u, "mark") /\ NoTrouble /\ UNCHANGED assets
       \/ /\ ThumbnailDue(u)
          /\ Return(u) /\ Trouble /\ UNCHANGED <<assets, jobs>>
       \/ /\ ~ThumbnailDue(u)
          /\ \/ op[u].fresh /\ assets' = [assets EXCEPT ![Hash(u)].preview = "unavailable"] /\ NoTrouble
             \/ ~op[u].fresh /\ NoTrouble /\ UNCHANGED assets
             \/ op[u].fresh /\ Trouble /\ UNCHANGED assets
          /\ Goto(u, "mark") /\ UNCHANGED jobs
    /\ UNCHANGED <<req, row, copies, links, late, fileVars, acked, unseen>>

(***************************************************************************)
(* The rest of CompleteUpload: settle the session, then drop the staging   *)
(* file.                                                                   *)
(***************************************************************************)
MarkCompleted(u) ==
    /\ op[u].pc = "mark"
    /\ \/ /\ row' = [row EXCEPT ![u] = [status |-> "completed", received |-> req[u].size,
                                        asset |-> Hash(u)]]
          /\ Goto(u, "unstage") /\ NoTrouble
       \/ Return(u) /\ Trouble /\ UNCHANGED row
    /\ UNCHANGED <<req, assets, copies, links, jobs, late, fileVars, acked, unseen>>

RemoveStaging(u) ==
    /\ op[u].pc = "unstage"
    /\ part' = [part EXCEPT ![u] = Nil]
    /\ Return(u)
    /\ UNCHANGED <<req, dbVars, late, tmp, orig, acked, unseen, trouble>>

(***************************************************************************)
(* CancelUpload: the file goes first, then the row.                        *)
(***************************************************************************)
CancelUpload(u) ==
    /\ op[u].pc = "idle" /\ row[u].status \notin {"absent", "completed"}
    /\ part' = [part EXCEPT ![u] = Nil]
    /\ acked' = [acked EXCEPT ![u] = Nil]
    /\ Goto(u, "cancel")
    /\ UNCHANGED <<req, dbVars, late, tmp, orig, unseen, trouble>>

MarkCancelled(u) ==
    /\ op[u].pc = "cancel"
    /\ \/ row' = [row EXCEPT ![u].status = "cancelled"] /\ NoTrouble
       \/ Trouble /\ UNCHANGED row
    /\ Return(u)
    /\ UNCHANGED <<req, assets, copies, links, jobs, late, fileVars, acked, unseen>>

\* The server process dies: mutexes, locals and open files are gone.
Crash ==
    /\ Trouble
    /\ op' = [u \in Uploads |-> Idle]
    /\ tmp' = [k \in Key |-> IF tmp[k] = Nil THEN Nil ELSE [tmp[k] EXCEPT !.writer = Nil]]
    /\ orig' = [k \in Key |-> IF orig[k] = Nil THEN Nil ELSE [orig[k] EXCEPT !.writer = Nil]]
    /\ UNCHANGED <<req, dbVars, late, part, acked, unseen>>

Import(u) ==
    \/ Lookup(u) \/ RecheckOriginal(u)
    \/ StatOriginal(u) \/ OpenTemp(u) \/ CopyBytes(u) \/ RenameTemp(u)
    \/ VerifyOriginal(u) \/ CommitAsset(u)
    \/ LinkDeviceAsset(u) \/ QueueThumbnail(u)

\* What a running handler does next; it never waits for another process.
Handler(u) ==
    \/ InsertSession(u) \/ UpdateOffset(u)
    \/ Import(u) \/ MarkCompleted(u) \/ RemoveStaging(u)
    \/ MarkCancelled(u)

\* A request arrives for a session whose mutex is free.
Client(u) ==
    \/ CreateUpload(u)
    \/ ChunkExpired(u)
    \/ \E off \in 0..MaxSize, d \in Sends : AppendChunk(u, off, d)
    \/ CompleteUpload(u)
    \/ CancelUpload(u)

Next ==
    \/ \E u \in Uploads : Handler(u) \/ Client(u) \/ Expire(u)
    \/ Crash

Spec == Init /\ [][Next]_vars

(***************************************************************************)
(* Assumption on the clients: while an import makes an original, that is,  *)
(* may still write, replace or remove it, no other upload of the same      *)
(* bytes under the same extension uses it.  Imports that found the file    *)
(* there may overlap.  The code does not enforce it: uploadLocks is per    *)
(* session, not per content.                                               *)
(***************************************************************************)
Making(u) ==
    \/ op[u].pc \in {"open", "copy", "rename"}
    \/ op[u].pc \in {"verify", "commit"} /\ op[u].created
Importing(u) == op[u].pc \in {"open", "copy", "rename", "verify", "commit"}
SerialImports ==
    \A u, v \in Uploads : u # v /\ Making(u) /\ Importing(v) => Dest(u) # Dest(v)

SerialSpec == Init /\ [][Next /\ SerialImports']_vars

\* Handlers run to their end, and a client repeats /complete until it is answered.
Fairness ==
    \A u \in Uploads : /\ WF_vars(Handler(u) /\ SerialImports')
                       /\ WF_vars(CompleteUpload(u) /\ SerialImports')
FairSpec == SerialSpec /\ Fairness

-----------------------------------------------------------------------------
TypeOK ==
    /\ req \in [Uploads -> Request]
    /\ row \in [Uploads -> Row]
    /\ late \in [Uploads -> BOOLEAN]
    /\ assets \in [Content -> Asset \cup {Nil}]
    /\ copies \in SUBSET Content
    /\ links \in [DeviceAssets -> Content \cup {Nil}]
    /\ jobs \in SUBSET Content
    /\ part \in [Uploads -> Content \cup {Nil}]
    /\ tmp \in [Key -> File \cup {Nil}]
    /\ orig \in [Key -> File \cup {Nil}]
    /\ op \in [Uploads -> Op]
    /\ acked \in [Uploads -> Content \cup {Nil}]
    /\ unseen \in SUBSET Content
    /\ trouble \in 0..MaxTrouble

\* The catalogue row of c and the file it names agree.
Archived(c) ==
    /\ assets[c] # Nil /\ assets[c].key[1] = c
    /\ orig[assets[c].key] # Nil /\ orig[assets[c].key].bytes = c

(***************************************************************************)
(* Under originals/ there is never a partial or foreign file at a          *)
(* content-derived path, whatever crashes or fails between the copy, the   *)
(* rename and the verification (materializeOriginal, ImportFile).          *)
(***************************************************************************)
OriginalsAreWhole == \A k \in Key : orig[k] # Nil => orig[k] = [bytes |-> k[1], writer |-> Nil]

(***************************************************************************)
(* An original that the catalogue lists is on disk with its bytes: no      *)
(* error path of a later import removes the file of a committed asset,     *)
(* with one exception that README.md:23 ("A duplicate hash refers to an    *)
(* existing original") does not know: when a stat of it failed, the import *)
(* makes it anew, fails on UNIQUE(hash) and removes it.                    *)
(***************************************************************************)
NoLostOriginal == \A c \in Content : assets[c] # Nil /\ c \notin unseen => Archived(c)

(***************************************************************************)
(* "Keep staging intact until the asset and upload session are committed": *)
(* what the client was told is received can be read back, from the .part   *)
(* file or from the archived original, until the client withdraws it.  The *)
(* exception is that of NoLostOriginal, for a session that is completed.   *)
(***************************************************************************)
AckedBytesSurvive ==
    \A u \in Uploads : row[u].status \in {"uploading", "completed"} /\ acked[u] # Nil =>
        /\ Len(acked[u]) = row[u].received
        /\ \/ part[u] # Nil /\ SubSeq(part[u], 1, Len(acked[u])) = acked[u]
           \/ Archived(acked[u])
           \/ row[u].status = "completed" /\ acked[u] \in unseen

(***************************************************************************)
(* A completed session refers to the bytes that were received and declared,*)
(* and nothing of the import is left undone: the primary copy is recorded, *)
(* the device asset is linked and a preview is queued or ruled out.        *)
(***************************************************************************)
CompletedIsWhole ==
    \A u \in Uploads : row[u].status = "completed" =>
        LET c == row[u].asset IN
        /\ c # Nil /\ c = acked[u] /\ req[u].sha \in {Nil, c}
        /\ assets[c] # Nil /\ c \in copies
        /\ req[u].dev # Nil => links[req[u].dev] # Nil
        /\ IsImage(c) => c \in jobs

(***************************************************************************)
(* No step takes back an offset or a settled answer: two requests on one   *)
(* session (append, complete, cancel) are as good as one after the other.  *)
(***************************************************************************)
SessionProgress ==
    [][\A u \in Uploads :
        /\ row'[u].received >= row[u].received
        /\ row[u].status = "completed" => row'[u] = row[u]
        /\ row[u].status \in {"failed", "expired", "cancelled"} =>
                row'[u].status \in {row[u].status, "cancelled"}]_vars

(***************************************************************************)
(* An upload whose bytes all arrived settles if its client keeps asking,   *)
(* after any crash or error in between, unless its device asset is already *)
(* archived with other bytes and its own bytes are not archived, or a stat *)
(* that failed has cost the original of its bytes (NoLostOriginal).        *)
(***************************************************************************)
FullyReceived(u) ==
    row[u].status = "uploading" /\ row[u].received = req[u].size /\ acked[u] # Nil
Refused(u) == DeviceKeyTaken(u) /\ assets[acked[u]] = Nil
Lost(c) == c \in unseen /\ ~Archived(c)
Settles ==
    \A u \in Uploads : FullyReceived(u) ~> (~FullyReceived(u) \/ Refused(u) \/ Lost(acked[u]))

(***************************************************************************)
(* The archive of Archive.tla: contents that are catalogued with an intact *)
(* original, those of them a failing stat has put at risk, and the answers *)
(* of completed sessions.                                                  *)
(***************************************************************************)
ArchiveState == {c \in Content : Archived(c)}
AnswerState  == [u \in Uploads |-> row[u].asset]
A == INSTANCE Archive WITH archive <- ArchiveState, atRisk <- unseen, answer <- AnswerState
ImplementsArchive == A!Spec

=============================================================================
