-------------------------- MODULE ServerLifecycle --------------------------
(***************************************************************************)
(* The server between two sleeps: cmd/server.go (RunServer), socket        *)
(* activation and the idle check (server_activation.go), and what keeps it *)
(* awake: requests, the derivative worker (derivative_worker.go), the      *)
(* backup worker (storage_api.go), and analysis runs, started by a request *)
(* or by the schedule (internal/scheduler/scheduler.go).                   *)
(*                                                                         *)
(* `fotoroctl start` opens a socket that systemd keeps; a request that      *)
(* arrives while nobody serves it starts the server; `fotoroctl stop`      *)
(* stops the server and closes the socket.  The idle check reads one thing *)
(* after the other while requests and passes begin and end.  (Of the       *)
(* health probes, which are not noted, only the one of `fotoroctl start`   *)
(* is modelled.)                                                           *)
(***************************************************************************)
EXTENDS Integers, FiniteSets

CONSTANTS
    Requests,  \* requests other than health probes
    MaxWork    \* bound: uploads and copies that wait, days, stops

ASSUME RequestsAssumption == MaxWork \in Nat /\ IsFiniteSet(Requests)
ASSUME WorkNamesAssumption == Requests \cap {"derivatives", "backup", "run"} = {}

VARIABLES
    up,         \* off (no socket), asleep (no server), awake, closing (idle: Shutdown was
                \* called), stopping (by fotoroctl); the socket listens in all but the first
    request,    \* each request: new, refused, sent, served, noted (lastActivity is stored),
                \* done, cut
    active,     \* activeRequests
    fresh,      \* lastActivity lies within the idle time
    background, \* backgroundActive
    pass,       \* the background passes under way
    run,        \* analysis: none, started (its goroutine exists), manual, scheduled
    uploads,    \* uploads that wait for an analysis
    copies,     \* backup copies that wait
    target,     \* of the backup: absent, good, or there and no copy can be made on it
    due,        \* next_run has passed
    days,       \* days that passed
    check,      \* what the idle check reads next
    late,       \* history: work that began after the check looked at its kind, to its end
    ends,       \* history: requests that ended within the idle time
    stops       \* how often the user stopped the server

counters == <<active, fresh, background>>
work == <<pass, run, uploads, copies, target>>
clock == <<due, days>>
history == <<late, ends, stops>>
serverVars == <<up, request, counters, work, clock, check, history>>

Workers == {"derivatives", "backup"}

ServerInit ==
    /\ up = "off" /\ request = [r \in Requests |-> "new"]
    /\ active = 0 /\ fresh = TRUE /\ background = 0
    /\ pass = {} /\ run = "none" /\ uploads = 0
    /\ copies = 0 /\ target \in {"absent", "good", "bad"}
    /\ due = FALSE /\ days = 0 /\ check = "wait"
    /\ late = {} /\ ends = {} /\ stops = 0

Awake == up = "awake"
SetRequest(r, s) == request' = [request EXCEPT ![r] = s]

\* The check has looked at this kind of work since it began.
Order == [requests |-> 1, activity |-> 2, queue |-> 3, workers |-> 4, copies |-> 5]
Passed(kind) == check = "close" \/ (check # "wait" /\ Order[check] > Order[kind])
Begin(kind, w) == late' = IF Passed(kind) THEN late \cup {w} ELSE late \ {w}

(***************************************************************************)
(* Requests.                                                               *)
(***************************************************************************)
Send(r) ==
    /\ request[r] = "new" /\ SetRequest(r, IF up = "off" THEN "refused" ELSE "sent")
    /\ UNCHANGED <<up, counters, work, clock, check, history>>

\* fotoroctl start; the health probe of the script wakes the server.
Start ==
    /\ up = "off" /\ up' = "awake"
    /\ UNCHANGED <<request, counters, work, clock, check, history>>

\* systemd starts the service for a connection that waits; RunServer starts its workers.
RunServer ==
    /\ up = "asleep" /\ \E r \in Requests : request[r] = "sent"
    /\ up' = "awake"
    /\ UNCHANGED <<request, counters, work, clock, check, history>>

Accept(r) ==
    /\ Awake /\ request[r] = "sent" /\ SetRequest(r, "served")
    /\ active' = active + 1 /\ Begin("requests", r)
    /\ UNCHANGED <<up, fresh, background, work, clock, check, ends, stops>>

\* What a handler leaves behind: an upload for analysis, an imported original, a run.
Leave ==
    \/ uploads < MaxWork /\ uploads' = uploads + 1 /\ UNCHANGED <<copies, run>>
    \/ copies < MaxWork /\ copies' = copies + 1 /\ UNCHANGED <<uploads, run>>
    \/ run = "none" /\ run' = "started" /\ UNCHANGED <<uploads, copies>>
    \/ UNCHANGED <<uploads, copies, run>>

\* Mutant: the end of a request is not noted.
HandleUnnoted(r) ==
    /\ request[r] = "served" /\ Leave
    /\ SetRequest(r, "noted")
    /\ UNCHANGED <<up, active, fresh, background, pass, target, clock, check, history>>

Handle(r) ==
    /\ request[r] = "served" /\ Leave
    /\ fresh' = TRUE /\ SetRequest(r, "noted")
    /\ UNCHANGED <<up, active, background, pass, target, clock, check, history>>

\* The deferred function: lastActivity is stored, then the counter goes down.
Finish(r) ==
    /\ request[r] = "noted" /\ SetRequest(r, "done")
    /\ active' = active - 1 /\ ends' = ends \cup {r}
    /\ UNCHANGED <<up, fresh, background, work, clock, check, late, stops>>

(***************************************************************************)
(* Background work.                                                        *)
(***************************************************************************)
\* A tick, whether or not there is work: every 3 s for previews; for the backup every 30 s
\* when its target is available, and every 24 h, to verify, when it is not, too.
StartPass(w) ==
    /\ Awake /\ w \notin pass /\ pass' = pass \cup {w}
    /\ background' = background + 1 /\ Begin("workers", w)
    /\ UNCHANGED <<up, request, active, fresh, run, uploads, copies, target, clock, check, ends, stops>>

Made(w) ==
    copies' = IF w = "backup" /\ target = "good" THEN 0 ELSE copies

\* Mutant: a pass that fails returns before it is taken off the counter.
EndPassCounted(w) ==
    /\ Awake /\ w \in pass /\ pass' = pass \ {w} /\ Made(w)
    /\ background' \in {background, background - 1} /\ late' = late \ {w}
    /\ UNCHANGED <<up, request, active, fresh, run, uploads, target, clock, check, ends, stops>>

EndPass(w) ==
    /\ Awake /\ w \in pass /\ pass' = pass \ {w} /\ Made(w)
    /\ background' = background - 1 /\ late' = late \ {w}
    /\ UNCHANGED <<up, request, active, fresh, run, uploads, target, clock, check, ends, stops>>

\* ProcessNow sets processing under its lock.  The schedule looks for a due time every
\* minute; when a run is under way it computes the next time all the same.
Processing == run \in {"manual", "scheduled"}
StartRun ==
    /\ Awake
    /\ \/ run = "started" /\ run' = "manual"
       \/ ~Processing /\ due /\ uploads > 0 /\ run' = "scheduled"
    /\ Begin("queue", "run")
    /\ UNCHANGED <<up, request, counters, pass, uploads, copies, target, clock, check, ends, stops>>

SkipRun ==
    /\ Awake /\ run = "manual" /\ due /\ uploads > 0 /\ due' = FALSE
    /\ UNCHANGED <<up, request, counters, work, days, check, history>>

\* A run takes what is pending, unless the memory guard refuses it.
EndRun ==
    /\ Awake /\ Processing /\ run' = "none" /\ uploads' \in {0, uploads}
    /\ due' = IF run = "scheduled" THEN FALSE ELSE due
    /\ late' = late \ {"run"}
    /\ UNCHANGED <<up, request, counters, pass, copies, target, days, check, ends, stops>>

(***************************************************************************)
(* Time.                                                                   *)
(***************************************************************************)
NextDay ==
    /\ days < MaxWork /\ days' = days + 1 /\ due' = TRUE
    /\ UNCHANGED <<up, request, counters, work, check, history>>

\* Ten minutes without the end of a request.  (Neither the two statements of the deferred
\* function nor the accept of a connection that waits take as long.)
IdleTime ==
    /\ Awake /\ fresh /\ \A r \in Requests : request[r] \notin {"sent", "noted"}
    /\ fresh' = FALSE /\ ends' = {}
    /\ UNCHANGED <<up, request, active, background, work, clock, check, late, stops>>

(***************************************************************************)
(* idleShutdown.                                                           *)
(***************************************************************************)
Tick ==
    /\ Awake /\ check = "wait" /\ check' = "requests"
    /\ UNCHANGED <<up, request, counters, work, clock, history>>

Look(now, quiet, next) ==
    /\ Awake /\ check = now
    /\ IF quiet THEN check' = next /\ UNCHANGED late ELSE check' = "wait" /\ late' = {}
    /\ UNCHANGED <<up, request, counters, work, clock, ends, stops>>

\* Mutant: a run does not keep the server awake.
LookPastQueue == Look("queue", TRUE, "workers")

LookRequests == Look("requests", active = 0, "activity")

LookActivity == Look("activity", ~fresh, "queue")

LookQueue == Look("queue", ~Processing, "workers")

LookWorkers == Look("workers", background = 0, "copies")

\* BackupStatus: a backup is configured and available, and has copies to make.
BackupWaits == copies > 0 /\ target # "absent"

LookCopies == Look("copies", ~BackupWaits, "close")

\* close(done), server.Shutdown.
Close ==
    /\ Awake /\ check = "close" /\ up' = "closing"
    /\ UNCHANGED <<request, counters, work, clock, check, history>>

\* fotoroctl stop: SIGTERM to the server, if one runs, and the end of the socket.
Stop ==
    /\ up \in {"asleep", "awake", "closing"} /\ stops < MaxWork /\ up' = "stopping" /\ stops' = stops + 1
    /\ late' = {} /\ ends' = {}
    /\ UNCHANGED <<request, counters, work, clock, check>>

\* The process ends with all it kept in memory, and cuts off what it served; the next one
\* begins with a note of the time.
Leaving(sent) ==
    /\ request' = [r \in Requests |-> CASE request[r] \in {"served", "noted"} -> "cut"
                                        [] request[r] = "sent" -> sent
                                        [] OTHER -> request[r]]
    /\ active' = 0 /\ fresh' = TRUE /\ background' = 0 /\ check' = "wait"
    /\ pass' = {} /\ run' = "none" /\ late' = {} /\ ends' = {}
    /\ UNCHANGED <<uploads, copies, target, clock, stops>>

\* Mutant: the server that goes to sleep shuts down the socket, not its own copy of it.
FallAsleepDeaf == up = "closing" /\ up' = "off" /\ Leaving("sent")

\* Serve returns as soon as Shutdown is called, and RunServer returns.  What waits at
\* the socket goes on waiting.
FallAsleep == up = "closing" /\ up' = "asleep" /\ Leaving("sent")

\* Without the socket, a connection that waits is reset.
TurnOff == up = "stopping" /\ up' = "off" /\ Leaving("refused")

Idle == Tick \/ LookRequests \/ LookActivity \/ LookQueue \/ LookWorkers \/ LookCopies \/ Close
Serving(r) == Accept(r) \/ Handle(r) \/ Finish(r)

ServerNext ==
    \/ \E r \in Requests : Send(r) \/ Serving(r)
    \/ RunServer \/ StartRun \/ SkipRun \/ EndRun \/ NextDay \/ IdleTime \/ Idle
    \/ Start \/ Stop \/ FallAsleep \/ TurnOff
    \/ \E w \in Workers : StartPass(w) \/ EndPass(w)

ServerSpec == ServerInit /\ [][ServerNext]_serverVars

\* Goroutines go on, time passes, systemd starts the service, and a stop is carried out.
\* (The actions joined under one fairness are never enabled together.)
ServerFairSpec ==
    /\ ServerSpec
    /\ \A r \in Requests : WF_serverVars(Serving(r))
    /\ WF_serverVars(RunServer \/ Idle \/ FallAsleep \/ TurnOff)
    /\ WF_serverVars(IdleTime) /\ WF_serverVars(StartRun \/ EndRun)
    /\ \A w \in Workers : WF_serverVars(StartPass(w) \/ EndPass(w))

-----------------------------------------------------------------------------
ServerTypeOK ==
    /\ up \in {"off", "asleep", "awake", "closing", "stopping"}
    /\ request \in [Requests -> {"new", "refused", "sent", "served", "noted", "done", "cut"}]
    /\ fresh \in BOOLEAN /\ target \in {"absent", "good", "bad"} /\ due \in BOOLEAN
    /\ pass \subseteq Workers /\ run \in {"none", "started", "manual", "scheduled"}
    /\ uploads \in 0..MaxWork /\ copies \in 0..MaxWork /\ days \in 0..MaxWork /\ stops \in 0..MaxWork
    /\ check \in {"wait", "requests", "activity", "queue", "workers", "copies", "close"}
    /\ late \subseteq Requests \cup Workers \cup {"run"} /\ ends \subseteq Requests
    /\ active = Cardinality({r \in Requests : request[r] \in {"served", "noted"}})
    /\ background = Cardinality(pass)

(***************************************************************************)
(* The idle check cuts off no work that it could have seen: what is under  *)
(* way when it closes the server began after it had looked at work of that *)
(* kind.  (It does cut that: nothing stops work from beginning between its *)
(* look and the end of the process.)                                       *)
(***************************************************************************)
UnderWay ==
    {r \in Requests : request[r] \in {"served", "noted"}} \cup pass
    \cup (IF Processing THEN {"run"} ELSE {})
CutOnlyLate == up = "closing" => UnderWay \subseteq late

(***************************************************************************)
(* A request, however long it took, is followed by the whole idle time.    *)
(***************************************************************************)
ExitAfterQuiet == up = "closing" => ends \subseteq late

(***************************************************************************)
(* A request that reached the socket is answered, or it was cut off while  *)
(* it was served, or `fotoroctl stop` refused it: none is left waiting at  *)
(* the socket of a server that went to sleep when it came.                 *)
(***************************************************************************)
Answered == \A r \in Requests : request[r] = "sent" ~> request[r] \in {"done", "cut", "refused"}

(***************************************************************************)
(* When no requests come, the server goes to sleep, unless the backup has  *)
(* a copy it cannot make (README.md:32 makes no exception).  That the      *)
(* check finds a moment without a pass is assumed: the passes tick every   *)
(* 3 s and 30 s, the check every 15 s, and a pass with nothing to do takes *)
(* milliseconds; nothing in the code keeps their ticks apart.              *)
(***************************************************************************)
LooksBetweenPasses == []<><<LookWorkers>>_serverVars => []<><<LookWorkers /\ pass = {}>>_serverVars
NobodyServes == up \in {"off", "asleep"}
Sleeps == LooksBetweenPasses => <>[](NobodyServes \/ (target = "bad" /\ copies > 0))

=============================================================================
