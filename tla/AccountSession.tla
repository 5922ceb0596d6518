--------------------------- MODULE AccountSession ---------------------------
(***************************************************************************)
(* The account session of a server: signing in through the browser         *)
(* (cmd/web_auth.go, cmd/auth_handlers.go, internal/cliauth), the session  *)
(* in the database (internal/db/auth_session.go) and its copy in memory,   *)
(* and the refresh of its tokens by everybody who talks to the website     *)
(* (internal/cloudsync: the heartbeat of the server, `fotoro nodesync`).   *)
(*                                                                         *)
(* A token is an access token with the refresh token that came with it.    *)
(* The account service gives a new pair for a refresh token once; a second *)
(* use it may refuse.  updated_at of the row matters only to a login that  *)
(* waits: whether the row was written since it began, or in the second     *)
(* before.                                                                 *)
(***************************************************************************)
EXTENDS Integers, Sequences, FiniteSets

CONSTANTS
    Accounts,    \* users of the account service
    Browsers,    \* sign-ins that the server may handle at a time
    MaxTokens,   \* bound: tokens the service gives out
    MaxTrouble,  \* bound: crashes and failing calls
    Nil

ASSUME BoundsAssumption == MaxTokens \in Nat /\ MaxTrouble \in Nat

Syncers == {"heartbeat", "nodesync"}
Savers  == Browsers \cup {"cli"}
Session == [user : Accounts, token : 1..MaxTokens]

ASSUME NamesAssumption == Nil \notin Accounts \cup Session /\ "cli" \notin Browsers

VARIABLES
    db,       \* the session in server_config, or Nil
    mem,      \* authUser and authAccessToken of the server, or Nil
    up,       \* whether the server runs
    given,    \* the service: the account of each token it gave out
    expired,  \* the service: access tokens within two minutes of their end
    spent,    \* the service: refresh tokens that were used
    sync,     \* FreshAccessToken and SyncNodeLive: how far, and the session read
    saving,   \* sign-ins on their way to memory and database
    load,     \* the session that GET /api/auth/session has read for memory, or Nil
    login,    \* `fotoro login`: how far, whether it may use the website's
              \* handoff, whether the row was written since, and what it returned
    handoff,  \* the row of cli_auth_sessions: the session it carries, or Nil
    last,     \* history: the account of the last sign-in that was saved
    crossed,  \* history: a sign-in was saved during a refresh, or could not be saved
    orphaned, \* history: used refresh tokens whose successors were lost before the save
    trouble

service == <<given, expired, spent>>
vars == <<db, mem, up, given, expired, spent, sync, saving, load, login, handoff, last, crossed, orphaned, trouble>>

IdleSync == [pc |-> "idle", sess |-> Nil]
NoSave   == [pc |-> "idle", sess |-> Nil]
NoLogin  == [pc |-> "idle", handoff |-> FALSE, touched |-> FALSE, result |-> Nil]

Init ==
    /\ db = Nil /\ mem = Nil /\ up = FALSE
    /\ given = <<>> /\ expired = {} /\ spent = {}
    /\ sync = [y \in Syncers |-> IdleSync]
    /\ saving = [b \in Savers |-> NoSave]
    /\ load = Nil /\ login = NoLogin /\ handoff = Nil
    /\ last = Nil /\ crossed = FALSE /\ orphaned = {} /\ trouble = 0

Trouble == trouble < MaxTrouble /\ trouble' = trouble + 1
NoTrouble == UNCHANGED trouble

\* The service signs a user in, or refreshes.
NewToken(a) == Len(given) < MaxTokens /\ given' = Append(given, a)
NewSession(a) == [user |-> a, token |-> Len(given) + 1]

\* Every UPDATE of server_config sets updated_at.
Touched == [login EXCEPT !.touched = @ \/ login.pc # "idle"]

TokenExpires(t) ==
    /\ t \in 1..Len(given) /\ t \notin expired /\ expired' = expired \cup {t}
    /\ UNCHANGED <<db, mem, up, given, spent, sync, saving, load, login, handoff, last, crossed, orphaned, trouble>>

(***************************************************************************)
(* FreshAccessToken, then SyncNode and UpdateServerConfig.                 *)
(***************************************************************************)
ReadSession(y) ==
    /\ sync[y].pc = "idle" /\ db # Nil /\ (y = "heartbeat" => up)
    /\ sync' = [sync EXCEPT ![y] =
        [pc |-> IF db.token \in expired THEN "refresh" ELSE "post", sess |-> db]]
    /\ UNCHANGED <<db, mem, up, service, saving, load, login, handoff, last, crossed, orphaned, trouble>>

EndSync(y) == sync' = [sync EXCEPT ![y] = IdleSync]

\* Mutant: the tokens that were sent are kept.
AnswerDropped(y) == [pc |-> "save", sess |-> sync[y].sess]

Answer(y) == [pc |-> "save", sess |-> NewSession(sync[y].sess.user)]

\* The stored token, when it was used and nothing will take its place.
Used == IF db = Nil THEN {} ELSE {db.token} \cap spent
Orphan(ts) == orphaned' = orphaned \cup ts

\* The answer may be an error, or be lost although the service has given it.
RefreshSession(y) ==
    LET sess == sync[y].sess IN
    /\ sync[y].pc = "refresh"
    /\ \/ /\ NewToken(sess.user) /\ spent' = spent \cup {sess.token}
          /\ \/ sync' = [sync EXCEPT ![y] = Answer(y)] /\ NoTrouble /\ UNCHANGED orphaned
             \/ Trouble /\ EndSync(y) /\ Orphan({sess.token})
       \/ sess.token \in spent /\ EndSync(y) /\ NoTrouble /\ UNCHANGED <<given, spent, orphaned>>
       \/ Trouble /\ EndSync(y) /\ UNCHANGED <<given, spent, orphaned>>
    /\ UNCHANGED <<db, mem, up, expired, saving, load, login, handoff, last, crossed>>

\* Mutant: only the tokens are written.
Rotated(s) == [user |-> db.user, token |-> s.token]

\* The session as FreshAccessToken writes it: new tokens, the account that it read.
Refreshed(s) == s

\* The error of SaveAuthSession is ignored.
SaveRefreshed(y) ==
    /\ sync[y].pc = "save" /\ sync' = [sync EXCEPT ![y].pc = "post"]
    /\ \/ db' = Refreshed(sync[y].sess) /\ login' = Touched /\ NoTrouble /\ UNCHANGED orphaned
       \/ Trouble /\ Orphan(Used) /\ UNCHANGED <<db, login>>
    /\ UNCHANGED <<mem, up, service, saving, load, handoff, last, crossed>>

\* Mutant: the session is written back with the data of the node.
PostWithSession(y) ==
    /\ sync[y].pc = "post" /\ EndSync(y)
    /\ db' = sync[y].sess /\ login' = Touched
    /\ UNCHANGED <<mem, up, service, saving, load, handoff, last, crossed, orphaned, trouble>>

\* SyncNode; the row is updated when the website took it.
PostNode(y) ==
    /\ sync[y].pc = "post" /\ EndSync(y)
    /\ \/ login' = Touched /\ NoTrouble
       \/ Trouble /\ UNCHANGED login
    /\ UNCHANGED <<db, mem, up, service, saving, load, handoff, last, crossed, orphaned>>

(***************************************************************************)
(* A sign-in that reached a handler: memory first, then the database.      *)
(***************************************************************************)
SaveTo(b, s) == saving' = [saving EXCEPT ![b].pc = s]
Refreshing == {y \in Syncers : sync[y].pc \in {"refresh", "save"}}

\* The login that persists what the handoff brought ends with it.
Handed(b) == b = "cli" /\ handoff # Nil /\ saving[b].sess = handoff
Returned(s) == [NoLogin EXCEPT !.result = s]

\* The callback that the server's own page began (login-url, /auth/setup), or
\* POST /api/auth/session: the token is verified.
SignIn(b) ==
    /\ up /\ saving[b].pc = "idle"
    /\ \E a \in Accounts :
        /\ NewToken(a)
        /\ saving' = [saving EXCEPT ![b] = [pc |-> "memory", sess |-> NewSession(a)]]
    /\ UNCHANGED <<db, mem, up, expired, spent, sync, load, login, handoff, last, crossed, orphaned, trouble>>

Kept(b) == saving[b].sess

KeepInMemory(b) ==
    /\ saving[b].pc = "memory" /\ SaveTo(b, "database")
    /\ mem' = Kept(b)
    /\ UNCHANGED <<db, up, service, sync, load, login, handoff, last, crossed, orphaned, trouble>>

\* The error of SaveAuthSession is ignored: the page says "Signed in".
SaveAuthSession(b) ==
    LET s == saving[b].sess IN
    /\ saving[b].pc = "database"
    /\ saving' = [saving EXCEPT ![b] = NoSave]
    /\ last' = s.user
    /\ \/ /\ db' = s /\ NoTrouble
          /\ crossed' = (crossed \/ Refreshing # {})
          /\ login' = IF Handed(b) THEN Returned(s) ELSE Touched
       \/ /\ Trouble /\ crossed' = TRUE /\ UNCHANGED db
          /\ login' = IF Handed(b) THEN Returned(s) ELSE login
    /\ handoff' = IF Handed(b) THEN Nil ELSE handoff
    /\ UNCHANGED <<mem, up, service, sync, load, orphaned>>

\* GET /api/auth/session: the row is read when memory has nothing, and put into memory
\* whatever a sign-in has put there since.
ReadStored ==
    /\ up /\ mem = Nil /\ load = Nil /\ db # Nil /\ load' = db
    /\ UNCHANGED <<db, mem, up, service, sync, saving, login, handoff, last, crossed, orphaned, trouble>>

LoadStoredSession ==
    /\ load # Nil /\ mem' = load /\ load' = Nil
    /\ UNCHANGED <<db, up, service, sync, saving, login, handoff, last, crossed, orphaned, trouble>>

(***************************************************************************)
(* `fotoro login`.  It makes the state of its sign-in in its own process:  *)
(* a callback that reaches the server is refused, and one is accepted only *)
(* when the command had to start its own auth server.                      *)
(***************************************************************************)
StartLogin ==
    /\ login.pc = "idle" /\ login.result = Nil
    /\ \E h \in BOOLEAN, t \in IF db = Nil THEN {FALSE} ELSE BOOLEAN :
        login' = [pc |-> IF up THEN "remote" ELSE "own", handoff |-> h, touched |-> t, result |-> Nil]
    /\ handoff' = Nil
    /\ UNCHANGED <<db, mem, up, service, sync, saving, load, last, crossed, orphaned, trouble>>

\* The user signs in on the website, which completes the row of the handoff.
CompleteHandoff ==
    /\ login.pc # "idle" /\ login.handoff /\ handoff = Nil /\ saving["cli"].pc = "idle"
    /\ \E a \in Accounts : NewToken(a) /\ handoff' = NewSession(a)
    /\ UNCHANGED <<db, mem, up, expired, spent, sync, saving, load, login, last, crossed, orphaned, trouble>>

\* The website redirects to the command's own callback (its memory is not the server's).
CallbackOwn ==
    /\ login.pc = "own" /\ saving["cli"].pc = "idle"
    /\ \E a \in Accounts :
        /\ NewToken(a)
        /\ saving' = [saving EXCEPT !["cli"] = [pc |-> "database", sess |-> NewSession(a)]]
    /\ UNCHANGED <<db, mem, up, expired, spent, sync, load, login, handoff, last, crossed, orphaned, trouble>>

PollDatabase ==
    /\ login.pc # "idle" /\ saving["cli"].pc = "idle" /\ login.touched /\ db # Nil
    /\ login' = Returned(db)
    /\ UNCHANGED <<db, mem, up, service, sync, saving, load, handoff, last, crossed, orphaned, trouble>>

SaveHanded(s) == saving' = [saving EXCEPT !["cli"] = [pc |-> s, sess |-> handoff]]

\* persistCLISession: POST to whatever serves the address, or, when that fails, to
\* the database.
PollHandoff ==
    /\ login.pc # "idle" /\ saving["cli"].pc = "idle" /\ ~login.touched /\ handoff # Nil
    /\ \/ SaveHanded(IF up THEN "memory" ELSE "database") /\ NoTrouble
       \/ SaveHanded("database") /\ Trouble
    /\ UNCHANGED <<db, mem, up, service, sync, load, login, handoff, last, crossed, orphaned>>

LoginTimesOut ==
    /\ login.pc # "idle" /\ saving["cli"].pc = "idle" /\ login' = NoLogin /\ handoff' = Nil
    /\ UNCHANGED <<db, mem, up, service, sync, saving, load, last, crossed, orphaned, trouble>>

(***************************************************************************)
(* The server starts (loadStoredSession) unless the command's auth server  *)
(* has its port, sleeps when idle, and may die.                            *)
(***************************************************************************)
ServerStarts ==
    /\ ~up /\ login.pc # "own" /\ up' = TRUE /\ mem' = db
    /\ UNCHANGED <<db, service, sync, saving, load, login, handoff, last, crossed, orphaned, trouble>>

\* The idle check waits for requests, not for the heartbeat, which may have new tokens in
\* hand.  A request is cut off only when the process dies; a command whose POST is cut off
\* writes to the database itself.
ServerStops ==
    /\ up /\ up' = FALSE /\ mem' = Nil /\ load' = Nil
    /\ sync' = [sync EXCEPT !["heartbeat"] = IdleSync]
    /\ Orphan(IF sync["heartbeat"].pc = "save" THEN Used ELSE {})
    /\ saving' = [b \in Savers |->
        IF b # "cli" THEN NoSave
        ELSE IF saving[b].pc = "memory" THEN [saving[b] EXCEPT !.pc = "database"] ELSE saving[b]]
    /\ IF saving' = saving /\ load = Nil THEN NoTrouble ELSE Trouble
    /\ UNCHANGED <<db, service, login, handoff, last, crossed>>

Next ==
    \/ \E t \in 1..MaxTokens : TokenExpires(t)
    \/ \E y \in Syncers : ReadSession(y) \/ RefreshSession(y) \/ SaveRefreshed(y) \/ PostNode(y)
    \/ \E b \in Browsers : SignIn(b)
    \/ \E b \in Savers : KeepInMemory(b) \/ SaveAuthSession(b)
    \/ ReadStored \/ LoadStoredSession \/ ServerStarts \/ ServerStops
    \/ StartLogin \/ CompleteHandoff \/ CallbackOwn \/ PollDatabase \/ PollHandoff \/ LoginTimesOut

Spec == Init /\ [][Next]_vars

-----------------------------------------------------------------------------
TypeOK ==
    /\ db \in Session \cup {Nil} /\ mem \in Session \cup {Nil} /\ load \in Session \cup {Nil}
    /\ handoff \in Session \cup {Nil}
    /\ up \in BOOLEAN
    /\ given \in Seq(Accounts) /\ Len(given) <= MaxTokens
    /\ expired \subseteq 1..MaxTokens /\ spent \subseteq 1..MaxTokens /\ orphaned \subseteq 1..MaxTokens
    /\ sync \in [Syncers -> [pc : {"idle", "refresh", "save", "post"}, sess : Session \cup {Nil}]]
    /\ saving \in [Savers -> [pc : {"idle", "memory", "database"}, sess : Session \cup {Nil}]]
    /\ login \in [pc : {"idle", "remote", "own"}, handoff : BOOLEAN, touched : BOOLEAN,
                  result : Session \cup {Nil}]
    /\ last \in Accounts \cup {Nil} /\ crossed \in BOOLEAN
    /\ trouble \in 0..MaxTrouble

(***************************************************************************)
(* The tokens of a session are those of its account, in the database, in   *)
(* memory and in what a login reports, however sign-ins of two accounts    *)
(* and refreshes of two processes interleave.                              *)
(***************************************************************************)
Coherent(s) == s # Nil => s.token \in 1..Len(given) /\ given[s.token] = s.user
SessionCoherent == Coherent(db) /\ Coherent(mem) /\ Coherent(login.result)

(***************************************************************************)
(* Nobody is signed out by refreshing: unless somebody is about to store   *)
(* new tokens, the stored refresh token has not been used, whichever       *)
(* processes refresh, sign in and stop in whatever order.  The exception   *)
(* is a token whose successor was lost before the save: the answer did not *)
(* arrive, the save failed, or the server stopped in between.  The last    *)
(* takes no failing call: ten idle minutes and a heartbeat will do, and    *)
(* the user has to sign in again.                                          *)
(***************************************************************************)
StaysSignedIn ==
    db # Nil /\ (\A y \in Syncers : sync[y].pc # "save") => db.token \notin spent \ orphaned

(***************************************************************************)
(* The account whose sign-in was saved last is the owner of the database,  *)
(* unless a refresh was under way at the time, or the save failed: a later *)
(* refresh keeps the account, whoever reads and stores the session when.   *)
(***************************************************************************)
LastSignInWins ==
    ~crossed => IF last = Nil THEN db = Nil ELSE db # Nil /\ db.user = last

=============================================================================
