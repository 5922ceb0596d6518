# A TLA+ model of the Fotoro host

Fotoro is a Go server, with a few commands on the same SQLite database, that
keeps the photos of one household: phones are paired with it, upload originals
and read previews; the server stores originals under names made of their
SHA-256, copies them to a second disk, makes display copies, and captions
pictures with a local model. This directory models the parts where an unlucky
order of steps loses bytes, confuses accounts or stops the server, checks them
with TLC on small instances, and proves the central facts with TLAPS for every
value of the constants.

## 1. The system

### Components

| Component | Code | State | Operations | Hard behaviour | Module |
| --- | --- | --- | --- | --- | --- |
| Upload sessions, import of originals | `internal/media/service.go`, `cmd/media_api.go` | `upload_sessions`, `media_assets`, `storage_copies`, `device_assets`, `.partial/*.part`, `originals/*` | create, append, complete, cancel, import | torn writes, crashes between two statements, concurrent imports of one content | `MediaUpload`, `Archive` |
| Second copies | `internal/media/backup.go`, `cmd/storage_api.go` | `storage_copies`, both disks, `backupMu` | verify originals, copy, verify copies, `safe_to_delete` | disks that come and go, decay, batches with limits, restarts | `BackupCopies` |
| Upload queue | `internal/scheduler`, `cmd/scheduler.go`, upload and folder handlers of `cmd/server.go` | `pending_uploads`, `images`, `uploads/` | add, process a batch, daily run | check-then-insert, look-alike pictures, unreadable files, crashes | `UploadQueue` |
| Display copies | `internal/media/jobs.go`, `large_preview.go`, `service.go`, `cmd/derivative_worker.go`, `internal/validate/image.go` | `analysis_jobs`, `preview_status`, `derivatives`, cached files | queue, claim, generate, reset, backfill | a worker or command killed between two writes, three writers of one cache | `Derivatives` |
| Pairing, device credentials | `cmd/device_auth.go`, `authorization.go`, `internal/auth` | `pairing_sessions`, `device_credentials`, `server_config.auth_user_id` | create a code, redeem it, authorise a request | concurrent redemptions over a pool of connections, an owner that changes | `DevicePairing`, `AtomicPairing` |
| Account session | `internal/cloudsync`, `internal/db/auth_session.go`, `cmd/web_auth.go`, `auth_handlers.go`, `internal/cliauth` | `server_config`, memory of the server, `cli_auth_sessions` | sign in, hand over, refresh, sync | refreshes of two processes, sign-ins of two accounts that cross | `AccountSession` |
| Schema, secrets | `internal/db/db.go`, `migrations.go`, `migrate_version.go`, `local_secrets.go` | `user_version`, tables, snapshot file, secrets | open, migrate, take a snapshot, create a secret | interruption at every statement, two processes at once | `SchemaMigration` |
| Bulk ingest, folder daemon | `cmd/ingest.go`, `cmd/daemon.go` | channels, counters, `images` | scan, decode, ask the model, insert | three stages over bounded channels, files still being copied, two pipelines on one library | `Ingest` |
| Server lifecycle | `cmd/server_activation.go`, `cmd/server.go`, `derivative_worker.go`, `internal/scheduler` | activity counters | socket activation, idle check, shutdown, background passes, daily run | check-then-exit, counters | `ServerLifecycle` |
| Metrics cache, device status, signed links, backfills, gallery, search, model clients, memory guard, Tailscale, desktop client, setup | the rest | little of their own | queries, HTTP, subprocesses | - | not modelled (section 6) |

### How they interact

* `fotoroctl start` has systemd open the socket, `fotoroctl stop` ends server and
  socket; between them a connection starts the server (`ServerLifecycle`);
  every process that starts opens and migrates the database
  (`SchemaMigration`) and takes its secrets from it.
* A user signs in through the browser; the session is in memory and in the
  database, and the heartbeat refreshes it (`AccountSession`). Its account is
  the owner that `DevicePairing` asks for on each request.
* A phone redeems a pairing code and uploads with its device token. An HTTP
  request runs `CreateUpload`, `AppendChunk` or `CompleteUpload` under the mutex
  of the session. Completion imports the staged file: an original, a
  `media_assets` row, a verified `primary` row of `storage_copies`, a
  `device_assets` link and, for an image, a thumbnail job (`MediaUpload`).
* The derivative worker takes these jobs (`Derivatives`), the backup worker
  makes and verifies second copies (`BackupCopies`). `safe_to_delete`, on which
  a phone may act, is derived from the copy rows and the two mounts.
* Browser uploads, folder ingest and the `fotoro scheduler` command put pictures
  in `pending_uploads`, and a run moves them into `images` (`UploadQueue`);
  `fotoro ingest` and `fotoro daemon` insert into `images` directly (`Ingest`).
* Requests, passes of the two workers and analysis runs keep the server awake;
  ten minutes after the last request it exits (`ServerLifecycle`).

A module that needs the effect of another component has it as one action named
for the code it stands for (`Import` and `Reupload` in `BackupCopies`, `Commit`
in `Derivatives`, `SaveAuthSession` in `DevicePairing`, `Leave` in
`ServerLifecycle`).

### What makes each part correct

* Uploads: an original is whole, a listed original has its file, bytes the
  client was told are received are not lost, a completed session is finished and
  never taken back, a session settles.
* Copies: what is reported safe to delete has two copies; unreachable is not
  corrupt; every readable original gets a copy, and decay is found.
* Queue: the library never loses a file; an accepted picture is kept; a row is
  settled once, and every pending row is.
* Display copies: what is announced can be shown; no picture is forgotten.
* Pairing: a code pairs one phone, with the account that made it; only an
  owner's devices are served; redemptions do not lock each other out.
* Session: tokens stay with their account; refreshing signs nobody out; the
  last sign-in is the owner.
* Schema: a version is a promise; the snapshot shows the original; one secret.
* Ingest: nothing falls out uncounted, nothing is lost, and the run ends.
* Lifecycle: the exit cuts off nothing it could have seen; no request is left at
  the socket of a sleeping server; the server sleeps in the end.

What is hard to test, line by line, is under `hazards` in `PROJECT.json`; the
properties are chosen for it.

## 2. The modules

| Module | What it is |
| --- | --- |
| `MediaUpload`, `MCMediaUpload` | sessions and import, one action per file system call or SQL statement |
| `Archive` | what the host keeps of its archive: content that entered stays unless a failing `stat` put it at risk, an upload is answered once, with content that was archived |
| `MediaUploadProofs` | theorems about `MediaUpload`: sessions, the originals on disk, the refinement of `Archive` |
| `BackupCopies`, `BackupCopiesProofs` | the three passes, disks, decay; checked as it is |
| `UploadQueue`, `MCUploadQueue`, `UploadQueueProofs` | the queue, its callers, two processes |
| `Derivatives`, `DerivativesProofs` | jobs, previews, display copies |
| `DevicePairing`, `MCDevicePairing`, `DevicePairingProofs` | codes, redemption transactions, device tokens, requests |
| `AtomicPairing` | what pairing promises: a redemption is one step, with the owner of that moment, or nothing |
| `AccountSession`, `MCAccountSession`, `AccountSessionProofs` | sign-ins, refreshes, `fotoro login` |
| `SchemaMigration`, `ServerProofs` | opening and migrating the database, the snapshot, secrets |
| `Ingest`, `MCIngest`, `IngestProofs` | the bulk run and the daemon |
| `ServerLifecycle`, `ServerProofs` | the server between two sleeps (the proofs of what a server process does when it opens its library, and of its life, are in one module) |

Operators marked `Mutant:` are forms of a definition that a plausible bug would
give it; `PROJECT.json` names the property that each of them breaks.

### MediaUpload

`row` is `upload_sessions`, `assets` is `media_assets` by hash, `copies` the
primary rows of `storage_copies`, `links` is `device_assets`, `jobs` the
thumbnail jobs; `part`, `tmp` and `orig` are the files. `op[u]` is the program
counter and the locals of the handler that holds the mutex of session `u`.
A chunk is a run of units; `WriteAt` keeps what is before and after it and
leaves a hole beyond the end. SHA-256 is taken to be injective, so the hash of
a file is its bytes. `Trouble` marks every failing call, torn write and crash;
`MaxTrouble` bounds their number in a behaviour. `unseen` is a history: the
listed contents whose original was there when `os.Stat` failed on it. The code
takes every error of it for "not there" (`service.go:1014`), makes the original
anew over the old one, and removes it when its `INSERT` fails. `Archive` has that
as contents at risk (`atRisk`), the only ones that may leave the archive.

Left out: the owner check, the capacity and mount checks (they only refuse),
updates of `captured_at`, the row of the older `images` table, and failures of
`os.Remove` and `UPDATE` whose errors the code ignores on its way to an error
it returns. (The errors that it ignores on its way to a success are in.) Removing a leftover `.tmp` and creating a new one are one step.

### BackupCopies

Assets are numbered by `imported_at`. `status`, `primary`, `backup` and `age`
are the catalogue (`age` is the order of `verified_at`); `pfile` and `bfile`
are the files of the two disks and `shadow` those at the same paths under the
bare mount point. `turn`, `todo` and `pc` are the pass that holds `backupMu`,
the rows its query returned, and where it is. `rotten` is a history: copies
that decayed after they were last hashed, which no catalogue can know. The first
two passes are called by the ticker of 30 seconds; the third, by a ticker of 24
hours or by `POST /api/v1/storage/verify`, may come at any time or never.

### UploadQueue

`files` maps paths to pictures, `images` is the library by hash, `rows` is
`pending_uploads` by id, `adding[a]` is a running `AddUpload`, `batch[p]` the
`ProcessNow` of a process. The worker count is one, as the code caps it unless
`FOTORO_ALLOW_PARALLEL_VLM` is set. `scan` holds the paths the command
collected. `alike` is a history: the pictures that `processUpload` removed as
look-alikes. Left out: thumbnails, captions and embeddings (data), statistics and
the arithmetic of `next_run`.

### Derivatives

`preview` is `media_assets.preview_status`, `job` the `analysis_jobs` row of an
asset, `derived` the rows for large copies in `derivatives`, `file` the two
cached copies (absent, torn or whole: `os.Create` truncates, then the JPEG is
written). `import[a]` is what `ImportFile` still has to do after its commit,
`worker` the derivative worker and its step, `analysis` another writer of the
cache, `backfill` the `backfill-detail` command. Videos have no jobs; their
preview is "unavailable" one statement after the import. Three histories name
what the code does not repair: `spoiled`, copies of an announced or listed
picture that a writer replaced in place when it was killed or failed; `cut`,
imports that ended before their last statement; and `lost`, pictures for which a
statement failed whose error nobody looks at: the reset of interrupted jobs
(`derivative_worker.go:9`), the preview statuses of
`generateImageDerivatives` (`service.go:373`, `378` and those after it), or the
one that takes a job out of "processing" (`jobs.go`), whose error ends the pass.

### DevicePairing

`codes` is `pairing_sessions`, `creds` is `device_credentials`, `redeem[r]` a
running redemption with the rows its snapshot shows. A transaction reads the
snapshot of its first statement; `writer` holds SQLite's write lock, and
`stale` the transactions whose snapshot is outdated, whose first write fails
(`SQLITE_BUSY_SNAPSHOT`). `Connections` is the size of the pool: a redemption
holds one and reads the owner through it (the mutant of `RedeemsMove` asks for
another); every other statement takes a free one. `request[q]` is one
call of `withAuth` or `withStrictAuth`: token verification, the link, the
comparison with the owner, the handler, with the owners seen meanwhile as a
history.

### AccountSession

A token is an access token with the refresh token that came with it; the
service refreshes a refresh token once, and a second use may be refused. `db`
and `mem` are the two places a session is kept, `sync[y]` a refresh by the
server's heartbeat or by `fotoro nodesync`, `saving` a sign-in between memory
and database, `login` the `fotoro login` command with its two polls, `handoff`
the row at the website, `load` the session that `GET /api/auth/session` has read
from the row and not yet put into memory. Two histories: `crossed`, a sign-in was
saved while a refresh was under way, or could not be saved; `orphaned`, used
refresh tokens whose successors were lost before they were stored. The server
stops at any time: the idle check waits for requests, not for the heartbeat, so
an ordinary exit may fall between `RefreshSession` and `SaveAuthSession`. Only an
exit that cuts off a request counts as trouble.

### SchemaMigration

Columns are grouped into the `Parts` that one statement sequence adds. A process
goes through `Open` and `migrateVersioned` part by part, and may die between any
two; `snapshot`
is the file that `VACUUM INTO` makes before the first migration, from the read
transaction in `proc[p].view`. Libraries of every version are initial states,
and any of their pictures may be in `media_assets`: analysis writes `images`
only, so a library of version 1 to 3 may have pictures that no later version
enters. `cut` is a history: a process died, or failed, in its `VACUUM INTO`.

### Ingest

`pipe[q]` holds the channels and goroutines of the bulk run or the daemon;
channels have capacity `QueueCap`, and a send blocks. A file that is still being
copied can be hashed, but not decoded. `Wait` is the chain of `WaitGroup.Wait`
and `close` in `RunIngest`. `looks` gives every content a perceptual hash, so
that two may look alike. `givenUp` holds the pictures a pipeline could not read,
analyse or store; the bulk run's `INSERT OR IGNORE` for a failing model call may
fail too, and its error is dropped (`ingest.go:155`).

### ServerLifecycle

`up` is "off" before `fotoroctl start` and after `fotoroctl stop`, which ends the
server and its socket (a request is refused then), "asleep" with the socket
listening, "awake", "closing" after the idle check and "stopping" after a stop.
`active` and `background` are the two counters, `fresh` stands for the
comparison of `lastActivity` with the idle time. The idle check reads one thing
per step (`check`), so that requests, passes and runs can begin and end between
its looks. `Serve` returns as soon as `Shutdown` is called, so `FallAsleep` and
`TurnOff` may come while requests are served. A pass begins with every tick,
whether or not there is work. `late` and `ends` are histories: what began after the
check looked at its kind, and which requests ended within the idle time.

## 3. The runs

| Run | Specification | Question | Result |
| --- | --- | --- | --- |
| `upload` | `FairSpec` of `MediaUpload` | originals whole, none lost but by a failing `stat`, acknowledged bytes survive, implements `Archive`, a completed session is whole, no answer is taken back, a fully received upload settles | holds |
| `backup` | `FairSpec` of `BackupCopies` | safe to delete means two good copies; corrupt is real; copies are completed, legacy rows verified, decay found if verification comes | holds |
| `queue` | `FairSpec` of `UploadQueue` | library files stay, accepted pictures are kept but for removed look-alikes, settled rows are final, the queue drains | holds |
| `derivatives` | `FairSpec` of `Derivatives` | announced and listed copies are whole, no picture is forgotten and every preview settles but for dropped errors | holds |
| `pairing` | `Spec` of `DevicePairing` | one code pairs one phone with its account, implements `AtomicPairing` (a device is linked to the owner of that moment), requests are served for an owner only, redemptions never wait for each other | holds |
| `session` | `Spec` of `AccountSession` | tokens fit accounts, refreshing signs nobody out unless the new tokens were lost before the save, the last sign-in wins | holds |
| `migration` | `FairSpec` of `SchemaMigration` | a version is complete, the snapshot is the original unless `VACUUM INTO` was cut off, one secret, the migration is finished | holds |
| `ingest` | `FairSpec` of `Ingest` | nothing uncounted or lost, vectors fit captions, the run ends | holds |
| `lifecycle` | `ServerFairSpec` of `ServerLifecycle` | the exit cuts off only what it could not see, requests are answered or refused, the server sleeps | holds |
| `upload_overlap` | `Spec` of `MediaUpload` | no original is lost | violated, finding 1 |
| `queue_alike` | `CarefulSpec` of `UploadQueue` | an accepted picture stays on disk, also one that looks like another | violated, finding 3 |
| `queue_rescan` | `RescanSpec` of `UploadQueue` | library files stay, if the command is run again | violated, finding 2 |

The fair specifications of uploads, copies and the queue include the assumptions
named below. `CHECK_DEADLOCK FALSE` is set wherever the model ends: all
sessions are settled, all rows, codes, tokens or files are used up, a library is
migrated. `BackupCopies` never stops, and deadlock is checked there. (That the
components with locks or channels do not get stuck is stated by `RedeemsMove`,
`IngestEnds` and the other liveness properties.)

### Bounds

* Uploads: two sessions, units of one or two values, contents of at most two
  units, two requests that agree on content, extension or device asset, one
  trouble (a crash or a failure at any one step). A handler shares with another
  only a destination, a `.tmp`, a hash and a device key, so two sessions meet in
  every way they can. Contents of length two make torn writes and wrong offsets
  differ from right ones.
* Copies: two assets (the order of rows, one blocking the other, the rotation),
  batches of one (more rows than a batch), one trouble. Unmounts, decay, failing
  statements and restarts all count as trouble, so a behaviour has one of them.
* Queue: two pictures that look alike and a file that is no picture, two staged
  paths and one folder path, three rows with batches of one (a row may be
  starved), one trouble. (Four rows is the first size at which one path can
  come to have two rows; with liveness that is too slow for a run, and the
  theorems of section 5 cover it for the three safety properties.)
* Derivatives: one picture and one video, three troubles: a kill, a second kill
  of what the restart repairs, and a failing write. Assets share nothing but the
  worker.
* Pairing: two phones on two connections (the pool of four is used up by four;
  the ratio is what matters), two codes, one device that both may become, two
  accounts, one request at a time, one trouble.
* Session: two accounts, one browser, the two refreshers and `fotoro login`,
  three tokens (a sign-in, a second one, a refresh between them), two troubles
  (the idle exit that loses a refreshed token takes none).
* Migration: two processes, one picture, one secret, libraries of every version,
  two troubles (a first attempt is cut off, and the second).
* Ingest: two files that may look alike, channels of capacity one (with two
  files every channel is full at some time), one worker per pipeline, one trouble.
* Lifecycle: two requests, one unit of each kind of work, one day, one
  `fotoroctl stop` and any number of starts.

### Assumptions, and which the code enforces

* `SerialImports` (`MediaUpload`): while an import makes an original (from the
  `stat` that found none until its row is in, or its error path has removed the
  file), no other import of the same destination uses it. Imports that found the
  file there may overlap. **Not enforced**; finding 1 is what happens otherwise;
  `CompletedWhole` and `SessionsProgress` (section 5) are proved without it.
* `SteadyDisks` (`BackupCopies`): the backup disk does not go away between the
  mount check of a copy (`backup.go:385`) and `MkdirAll` (`backup.go:400`), while
  the original is hashed. **Not enforced**: the directory, and then the copy, is
  made under the bare mount point and the row says "verified"; with two troubles
  TLC finds the path to a damaged copy reported as safe. Every other moment is
  harmless: `BackupCopiesProofs` shows that without a directory there nothing is
  ever written under the mount point, so a copy interrupted later fails.
* `OneProcess`, `FirstScan`, `FreshNames`, `QueueRead`, `Marked`
  (`UploadQueue`): one process at a time, the command is not run over files of
  the library, staged names do not repeat, an error of the lookup in the queue
  does not meet a queued picture, the first `UPDATE` of a batch succeeds. **Not
  enforced**; finding 2 drops `FirstScan`. Each of the five is needed for
  `LibraryFiles` and `AcceptedKept`: dropped from `CarefulSpec`, it lets TLC find
  a violation (for `QueueRead` and `Marked` with two troubles).
  `SettledStays` needs `OneProcess` only.
* `LooksBetweenPasses` (`ServerLifecycle`, a premise of `Sleeps` only): the idle
  check, which looks every 15 seconds, again and again finds `backgroundActive`
  at zero, although passes tick every 3 and 30 seconds. A pass with nothing to do
  takes milliseconds, but **nothing in the code keeps the ticks apart**.
* `VerificationComes` (`BackupCopies`, a premise of `DecayFound` only):
  verification passes keep coming. **Not enforced**: the ticker of 24 hours
  (`storage_api.go:76`) starts anew with every process, and an idle server exits
  after ten minutes, which does not ask for verification. On a server that is
  used now and then decay is found only if somebody posts to
  `/api/v1/storage/verify`.
* Ingest, derivatives, pairing, session and migration assume nothing
  of this kind; where the code lets something go wrong, the property names it
  as an exception, listed under "Known weaknesses".

### Fairness

* `MediaUpload`: a handler never waits for another process, so each of its steps
  is weakly fair, and a client repeats `/complete` until it is answered, as
  resumable clients do. Nothing is assumed about chunks or cancels.
* `BackupCopies`: the ticker of 30 seconds calls the first two passes again, as
  the server stays awake while copies are pending (`server_activation.go:58`);
  nothing is assumed of verification; a pass runs on (weak fairness of its steps); `sync.Mutex` does
  not starve a waiter (strong fairness of `Acquire`); a disk that went away is
  mounted again. Disks that never return would make every promise void.
* `UploadQueue`: the daily run is enabled and the server is up for it
  (`DailyRun`), and a command that was started goes on (`CommandRun`). No
  caller of `AddUpload` is assumed to come.
* `Derivatives`: the socket starts the server again, its worker ticks, an import
  that has begun goes on, and a phone whose call was cut off calls again.
* `SchemaMigration`: a process that failed to open the database is started
  again; each of its steps is weakly fair.
* `Ingest`: every goroutine that is not blocked on a channel goes on. The copies
  into the folder and the daemon's events are not fair.
* `ServerLifecycle`: handlers return, workers tick and their passes end, systemd
  starts the service for a waiting connection, a stop is carried out, ten quiet
  minutes pass once no request comes. New requests, new work and the user's
  starts and stops are not fair.
* `DevicePairing` and `AccountSession` state no liveness: SQLite's lock is
  granted or times out, and phones retry as they like. `RedeemsMove` says
  instead that some redemption can always take a step.

## 4. Findings

1. **Concurrent imports of one content lose the original**
   (`service.go:326`). Both sessions see no row; the second renames its copy
   over the first's and, when its `INSERT` fails, removes the file.
2. **`fotoro scheduler` run twice deletes library files**
   (`cmd/scheduler.go:54`). Processed uploads stay under `uploads/`; the second
   run collects them, is told "duplicate" and removes them.
3. **A picture that looks like another is deleted** (`scheduler.go:430`).
   `processUpload` removes the staged file of an upload with the perceptual hash
   of a picture in the library, although its bytes are others.
   `STORAGE_RETRIEVAL_DESIGN.md:7` says such pictures "are separate memories and
   must only be presented as review suggestions", and line 29 "never automatic
   deletion". (`AcceptedKept` shows that this is the only way an accepted picture
   is lost.)

### Known weaknesses

What follows is not reported by a run of its own: the properties have it as an
exception that they name, so that they say what holds besides. Where a document
or a comment of the repository promises more than the code keeps, it is quoted.

* Uploads: a photo that was changed under an archived device asset id never
  completes, as every `/complete` breaks
  `UNIQUE(source_device_id, device_asset_id)`, until somebody else archives its
  bytes (`service.go:317`; `Refused`, the exception in `Settles` and
  `AttemptsBounded`). An `os.Stat` that fails on a listed original
  (`service.go:1014`) loses it, when the lookup of its row failed too or another
  session archived it after this one had looked: against `README.md:23`, "A
  duplicate hash refers to an existing original" (`unseen`).
* Copies: one unreadable original stops all backups behind it
  (`backup.go:317`; exception in `BackupsComplete`). Nothing brings verification
  round on a server that sleeps (`VerificationComes`).
* Queue: rows left in `processing` by a crash are never taken up again; an error of
  the lookup in the queue counts as "not queued" (`scheduler.go:278`), so the
  command can queue a staged file twice, and the second row removes the
  library's file as a look-alike of itself (`QueueRead` leaves that out).
* Display copies: `SaveThumbnails` writes in place, so a kill leaves a torn copy
  of a picture that was announced before (`spoiled`); `backfill-detail` takes a
  torn file that is not empty as it is; errors of the preview `UPDATE`s and of the
  reset of interrupted jobs are dropped, so a preview may stay "pending" with its
  job settled, or a job in "processing" until the next start (`lost`); a failed
  job is never retried; a video whose import is cut off before its status is set
  stays "pending".
* Account session: a sign-in that crosses a refresh can be overwritten by it
  (`crossed`). An ordinary idle exit between the heartbeat's refresh and its save
  loses the new tokens, and the user has to sign in again (`orphaned`;
  `server.go:500-509` is not seen by `server_activation.go:48-62`). `fotoro login`
  may report an older session when the row was
  touched by a sync meanwhile (`web_auth.go:33-34`); a callback to the running
  server refuses the state that the command made; the token in memory is stale
  after a refresh (`auth_handlers.go:77`), and `GET /api/auth/session` may put the
  row it read over that of a newer sign-in; errors of saving a session are ignored.
* Schema (`cut`): a process that is killed in `VACUUM INTO` leaves a torn file, on
  which every later attempt fails, or an empty one, which passes
  `integrity_check`: then the next attempt changes the schema with no copy of the
  library at all; or a second process fills the empty file with a library that is
  half migrated. `SERVER_V1_RUNBOOK.md:44` says "The initial migration creates
  this consistent snapshot before changing the schema", and
  `migrate_version.go:122` "An interrupted migration keeps its first
  pre-migration snapshot intact." The same line of the runbook has
  `user_version` 3 after migration; the code has 4 (`migrate_version.go:10`).
  Pictures analysed under version 1, 2 or 3 may be missing in `media_assets` for
  good, as only the way from version 0 enters them (`OldPicturesListed`).
* Ingest: a row written for a failing model call hides the picture from later
  runs, and when that row is refused too, nothing but the counter tells of it
  (`ingest.go:155`); look-alikes are skipped (against
  `STORAGE_RETRIEVAL_DESIGN.md:7`, though no file is deleted here), and those
  whose hashes are compared before either is inserted both get in; a file that
  is not complete when it is read is dropped, since no later
  event brings it back; the daemon's `UPDATE` of an embedding may overwrite the
  vector of another pipeline's caption; what a killed daemon had heard of is
  forgotten (the model kills the bulk run only).
* Lifecycle: `Serve` returns at once on `Shutdown`, so what began after the
  check had looked is cut off; a scheduled run that falls into sleep, or into a
  manual run, is missed; the check does not ask for pending derivative jobs; a
  backup copy that can never be made keeps the server awake (the exception in
  `Sleeps`), against `README.md:32`, `SERVER_V1_RUNBOOK.md:5` ("exits after ten
  idle minutes") and `fotoroctl:38`.
* Comments: `device_auth.go:167-169` and `decorateAssetPage` in `service.go`
  speak of one open connection, `db.go:30` opens four. The code is right for
  either; `Connections` is a constant of `DevicePairing`.


## 5. The proofs

TLAPS checks the following for every value of the constants that satisfies the
`ASSUME`s of the modules (sizes and bounds are natural numbers, names of
different kinds differ, `Nil` is no name, a half copied file has the hash of no
whole one, the bulk run has at least one and finitely many workers); the runs show the same formulas on
the instances above.

| Theorem | States | Under |
| --- | --- | --- |
| `TypeCorrect` (`MediaUploadProofs`) | `TypeOK` | `Spec` |
| `CompletedWhole` | `CompletedIsWhole` | `Spec` |
| `SessionsProgress` | `SessionProgress` | `Spec` |
| `OriginalsWhole` | `OriginalsAreWhole` | `SerialSpec` |
| `OriginalsKept` | `NoLostOriginal`: but for a failing `stat` | `SerialSpec` |
| `AckedKept` | `AckedBytesSurvive`: but for a failing `stat` | `SerialSpec` |
| `ArchiveImplemented` | `ImplementsArchive`: the refinement of `Archive` | `SerialSpec` |
| `AttemptsBounded` | how often an import can fail: the safety half of `Settles` | `SerialSpec` |
| `LibraryStays`, `AcceptedStays` (`UploadQueueProofs`) | `LibraryFiles`, `AcceptedKept` | `CarefulSpec` |
| `SettledKept` (`UploadQueueProofs`) | `SettledStays` | `AloneSpec` |
| `TurnsCome` | that rows get their turn, in order and in batches that end: the safety half of `QueueDrains` | `AloneSpec` |
| `BackupTypeCorrect`, `CorruptReal` (`BackupCopiesProofs`) | `TypeOK`, `CorruptIsReal` | `Spec` |
| `SafeCopies` | `SafeCopiesVerified` | `SteadySpec` |
| `PassesEnd` | how long a pass keeps `backupMu`: the safety half of `BackupsComplete`, `LegacyVerified`, `DecayFound` | `Spec` |
| `CopiesTypeCorrect`, `NoneForgotten`, `ReadyShown`, `ListedShown` (`DerivativesProofs`) | `TypeOK`, `WaitingHasJob`, `ReadyIsWhole`, `ListedIsWhole` | `Spec` |
| `PairingTypeCorrect`, `OnePairing`, `ServedRight` (`DevicePairingProofs`) | `TypeOK`, `CodePairsOnce`, `ServedForOwner` | `Spec` |
| `PairingImplemented` | `ImplementsPairing`: the refinement of `AtomicPairing` | `Spec` |
| `LinkedRight` | `LinkedToOwner`, the part of it about links | `Spec` |
| `SessionTypeCorrect`, `OneAccount`, `LastSignInKept`, `SignedInKept` (`AccountSessionProofs`) | `TypeOK`, `SessionCoherent`, `LastSignInWins`, `StaysSignedIn` | `Spec` |
| `LibraryTypeCorrect`, `VersionKept`, `SnapshotKept`, `SecretAgreed` (`ServerProofs`) | `TypeOK`, `VersionIsComplete`, `SnapshotIsOriginal`, `OneSecret` | `Spec` |
| `EveryPictureCounted`, `TakenIsKept`, `HeardIsNotLost`, `VectorFitsCaption` (`IngestProofs`) | `Accounted` (with `TypeOK`), `Kept`, `HeardIsKept`, `VectorOfCaption` | `Spec` |
| `RunEnds` | that the bulk run neither hangs nor goes on for ever: the safety half of `IngestEnds` | `Spec` |
| `CountersRight`, `NothingSeenIsCut`, `QuietBeforeExit` (`ServerProofs`) | `ServerTypeOK`, `CutOnlyLate`, `ExitAfterQuiet` | `ServerSpec` |

`SerialSpec`, `SteadySpec` and `CarefulSpec` are `Spec` with the assumptions
`SerialImports`, `SteadyDisks` and `Careful` (the five of the queue) of section 3; the fair
specifications that the runs check imply them. `AloneSpec` is `Spec` with
`OneProcess` alone. `Handlers` and `Staged` of the
queue are finite sets, since the model counts rows that are under way.

### The arguments

Each proof module states the inductive invariant, a lemma that `Init` implies
it, lemmas for the steps (one case per action), and the theorem. None of the
properties is inductive by itself; what has to be added is what a handler knows
between two of its steps.

* **Sessions** (`TypeInv`, `WholeInv`). The history of acknowledged bytes is as
  long as the received offset (without that even the types are not inductive).
  `StagedInv`: a `.part` file begins with the acknowledged bytes and never grows
  beyond the declared size, so that it *is* the content when all is received.
  `ImportInv`: each step of the import leaves its record (copy, link, job)
  before the next step, and no step of another handler takes one back.
  `PreviewsOpen`: no image is catalogued with its preview ruled out, or it would
  never get a job. `SessionProgress` is an action property; it follows from the
  types and the guards of the handlers.
* **Originals** (`FileInv`). A `.tmp` that is being written belongs to the one
  handler that copies into it (`WritersOpen`), so it is complete when it is
  renamed. A handler that may still replace or remove a file under `originals/`
  aims at a path that no catalogue row names, or whose listed content is `unseen`
  (`HandlerInv`), and nobody else is
  about to catalogue it: that is where `SerialImports` is needed, and what
  finding 1 breaks.
* **Attempts** (`StepsLeft`). From `FileInv`, an attempt to complete a session
  fails only when a call fails, the process dies, or another session archived
  the bytes after this one had looked; the first two use up `trouble`, the third
  happens once, as what is listed stays listed (`ListedStays`). Every step of an
  attempt uses up `StepsLeft`, which is bounded, and nobody raises it
  (`NoStepsBack`). What is left of `Settles` for TLC is that the client asks
  again and the handler runs on, which is the fairness.
* **Refinement.** The archive is mapped to the contents that are catalogued with
  an intact file, the contents at risk to `unseen`, the answers to the assets of
  the sessions. `MarkCompleted` is the only step that answers, and `ImportInv`
  with `FileInv` says that the content is archived by then, or at risk;
  `StatOriginal` is the only one that puts a content at risk; every other step
  adds to the archive, moves contents at risk in or out, or stutters.
* **Queue** (`QueueInv`, `KeptInv`, `CountInv`). One process is up (`Running`),
  and the command scans before the library has a staged file (`Scanning`). A web
  upload has its path for itself: no row, picture or other caller has it
  (`Own`), so removing it on a refusal takes nothing away. Of the rows that are
  still to be processed, or that a batch is at, no two have one staged file, and
  the library has not listed it (`RowsApart`, `RowsNew`): removing a look-alike
  cannot meet a file of the library. An accepted
  picture has a file that no web upload is about to give up (`Lasting`), or the
  library has one like it and it was removed for that (`KeptInv`, `alike`). The bound on rows needs what is under way
  counted too (`CountInv`). Settled rows need none of this, only that one
  process is up (`AloneInv`): a pending row is chosen, and nobody but the batch
  changes it until the batch leaves it (`Yet`).
* **Turns** (`TurnInv`). `PendingList` holds the oldest pending rows, all of them
  or exactly `MaxPerBatch` (`OldestFirst`, from a greatest and a least element of
  a finite set), so a batch that passes a row by has its fill of older ones; and
  no step makes a row pending but the one that appends it (`RowsWait`).
  `BatchLeft`, six for each row to do and the stage of the first, falls with every
  step of a batch. `OneTurn` says what a turn is worth: without a failing call the
  row is settled by it.
* **Copies** (`CopyInv`, `CorruptInv`). A row says "verified" of a file that was
  hashed (`PrimariesHashed`, `BackupsHashed`); between the hash and the row the
  program counter carries the fact (`Hashed`, `Marking`). No directory is made
  under a bare mount point, so nothing is ever written there, whenever the disks
  go away (`OnDisk`); that is where `SteadyDisks` is needed. For "corrupt": a pass selects existing assets
  only (`Chosen`), and a file it found bad does not become good (`BadRead`). A
  pass ends (`PassesEnd`): the ranks of its query are different numbers, so it
  selects at most `LIMIT` rows (the pigeonhole principle), and `PassLeft`, seven
  for each row left less the stage of the present one, falls with every step of
  the pass and is raised by nothing else.
* **Display copies** (`JobInv`, `CacheInv`). `Queued`: in what ways a preview can
  be pending, and who will take it up. `Counts`/`Whole`: from where the worker
  has written a copy it is whole, being written, or spoiled by a kill; `Shown`
  and `Legible`: only what is announced is listed, only what can be decoded is
  announced.
* **Pairing** (`PairInv`). A redemption past its first write holds SQLite's lock
  (`Locked`), and while its snapshot is the newest, its code's account is the
  server's owner (`Newest`). That is why a second redemption fails on its first
  write and the guarded `UPDATE` decides. At its commit the code is therefore
  unused and of the present owner, and the token is nobody's (`TokensApart`):
  the commit is the step `Pair` of `AtomicPairing`, a sign-in `SignIn`, a new
  code `MakeCode`, and everything else stutters.
* **Requests** (`ServeInv`). Tokens are made once, one per pairing
  (`TokensApart`). The owner that a request was compared with is one it met
  while it ran (`Met`), and the link it read is the maker of its token unless
  the device was paired anew meanwhile (`AsAccount`, `AsDevice`).
* **Session** (`SessInv`, `OwnerInv`, `FreshInv`). Wherever a session is stored
  or carried, the service gave its token to its user. Until a refresh stores its
  answer only a sign-in can change the account in the row (`RefreshesRow`), and
  that sets `crossed`. An unread answer is held at one place, unused, and is not
  in the row (`Unread`, `OneHolder`), so the row's token is spent only while an
  answer to it is still to be stored, or was lost (`RowUnspent`, `orphaned`).
* **Schema** (`LibInv`, `SnapInv`). Parts and pictures are only added, so what a
  process found at one program counter (`Has`) stays whatever the others do. As
  long as there is no snapshot nobody is past taking it and the library is still
  the original one (`SnapshotWatched`), unless somebody died in `VACUUM INTO`.
* **Ingest** (`CarryInv`, `StageInv`, `CountInv`). From the channel of the vision
  workers on, a picture is carried (`InPipe`) until a row looks like it or it is
  given up (`Settled`); this is `TakenInv` for the bulk run and `HeardInv` for the
  daemon. `RowInv`: a hash names one content, so whatever pipeline wrote the row
  of a hash, it looks like every picture of that hash, and a second `INSERT` may
  be refused. Only the bulk run writes its own vector, and only after its own
  `INSERT`. `StageInv`: each `Wait` finds its stage empty, and it stays so because
  all that feeds it ended before; a run that is done carries nothing. `CountInv`
  is a sum over channels and busy workers; a step moves one picture between two
  of its terms, or from one into a counter. The run ends (`RunEnds`): `RunLeft`
  weighs each picture by the stages before it and falls with every step of the
  run (`Onwards`); and as long as it is not done a goroutine has what it waits
  for (`CanGoOn`), for a full channel has a reader and the last one writes. That
  needs `JobsInv`: what was taken on is on the disk, at most once for each file.
* **Lifecycle** (`IdleInv`). What the check has passed is quiet or began after it
  looked (`Looked`); the end of a request is noted before it leaves the counter
  (`Noted`): the order of the two deferred calls is what makes the check right.

### Only model-checked

* Liveness (`Settles`, `BackupsComplete`, `LegacyVerified`, `DecayFound`,
  `QueueDrains`, `PreviewSettles`, `MigrationFinishes`, `IngestEnds`, `Answered`,
  `Sleeps`) and `RedeemsMove`, which speaks of `ENABLED`: neither is in reach of
  the prover. For `Settles`, the three of the copies, `IngestEnds` and
  `QueueDrains` half of the argument is proved: what is under way has a bounded
  number of steps left, and in the queue nobody passes a row that waits
  (`AttemptsBounded`, `PassesEnd`, `RunEnds`, `TurnsCome`). That each of those
  steps is taken, and that a fair schedule reaches every session, pass and row,
  is TLC's part.

No module declares a `RECURSIVE` operator, and no theorem needs induction over
data.

## 6. Not modelled

* `cmd/mobile.go`: dead code; nothing calls `RegisterRoutes` of its server.
* Dashboard metrics and diagnostics: a cached row with an age.
* Device asset status, gallery, albums, search: queries, and rows that one
  statement writes. Signed media links: stateless; the creation of the key is in
  `SchemaMigration`.
* Backfill and repair commands except `backfill-detail`: one process, a loop of
  single statements.
* Model clients, image decoding, capture metadata, memory guard and host
  inspection: they read, and answer or fail; the outcomes are choices of the
  models that call them.
* Tailscale, desktop client, setup, command line: external commands and user
  interface.
* Of modelled components: the arithmetic of `recalculateNextRun` (which does not
  end if no configured day is a weekday number, `scheduler.go:221`), statistics,
  directories that appear while the daemon runs and hold files already, the
  registration data of a node and its encryption, and the columns inside a part
  of the schema.
