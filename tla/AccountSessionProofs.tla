------------------------ MODULE AccountSessionProofs ------------------------
(***************************************************************************)
(* For any accounts, sign-ins, tokens and failures: the state of the       *)
(* account session is well typed, and wherever a session is kept or on its *)
(* way, its tokens are those of its account; the last sign-in is the owner *)
(* unless it crossed a refresh or could not be saved; and the stored       *)
(* refresh token is one that was used up only when its successor was lost. *)
(***************************************************************************)
EXTENDS AccountSession, TLAPS

(***************************************************************************)
(* A session is known when the service gave its token to its account.      *)
(* Whoever has read one carries it along, so all of them are known.        *)
(***************************************************************************)
Known(s) == s \in Session \cup {Nil} /\ Coherent(s)

SyncKnown(y) == Known(sync[y].sess) /\ (sync[y].pc # "idle" => sync[y].sess \in Session)
SaveKnown(b) == Known(saving[b].sess) /\ (saving[b].pc # "idle" => saving[b].sess \in Session)

Stored == Known(db) /\ Known(mem) /\ Known(load) /\ Known(handoff) /\ Known(login.result)
Carried == (\A y \in Syncers : SyncKnown(y)) /\ (\A b \in Savers : SaveKnown(b))

SessInv == TypeOK /\ Stored /\ Carried

LEMMA InitSession == Init => SessInv
<1> SUFFICES ASSUME Init PROVE SessInv
  OBVIOUS
<1> USE BoundsAssumption, NamesAssumption DEF Init
<1>1. TypeOK
  <2>1. given \in Seq(Accounts) /\ Len(given) = 0
    OBVIOUS
  <2>2. sync \in [Syncers -> [pc : {"idle", "refresh", "save", "post"}, sess : Session \cup {Nil}]]
    BY DEF IdleSync
  <2>3. saving \in [Savers -> [pc : {"idle", "memory", "database"}, sess : Session \cup {Nil}]]
    BY DEF NoSave
  <2>4. login \in [pc : {"idle", "remote", "own"}, handoff : BOOLEAN, touched : BOOLEAN,
                   result : Session \cup {Nil}]
    BY DEF NoLogin
  <2>5. 0 <= MaxTokens /\ trouble \in 0..MaxTrouble
    OBVIOUS
  <2> QED BY <2>1, <2>2, <2>3, <2>4, <2>5 DEF TypeOK
<1>2. Stored /\ Carried
  BY DEF Stored, Carried, SyncKnown, SaveKnown, Known, Coherent, IdleSync, NoSave, NoLogin
<1> QED BY <1>1, <1>2 DEF SessInv

LEMMA TroubleType == ASSUME TypeOK, Trouble \/ NoTrouble PROVE trouble' \in 0..MaxTrouble
BY BoundsAssumption DEF TypeOK, Trouble, NoTrouble

(***************************************************************************)
(* The service gives out tokens and takes none back.                       *)
(***************************************************************************)
LEMMA GivenType ==
    ASSUME TypeOK, UNCHANGED given \/ \E a \in Accounts : NewToken(a)
    PROVE  /\ given' \in Seq(Accounts) /\ Len(given') <= MaxTokens
           /\ \A s : Known(s) => Known(s)'
<1>1. CASE UNCHANGED given
  BY <1>1 DEF TypeOK, Known, Coherent
<1>2. ASSUME NEW a \in Accounts, NewToken(a)
      PROVE  /\ given' \in Seq(Accounts) /\ Len(given') <= MaxTokens
             /\ \A s : Known(s) => Known(s)'
  <2>1. given \in Seq(Accounts) /\ Len(given) < MaxTokens /\ given' = Append(given, a)
    BY <1>2 DEF TypeOK, NewToken
  <2>2. given' \in Seq(Accounts) /\ Len(given') = Len(given) + 1 /\ Len(given) \in Nat
    BY <2>1
  <2>3. \A t \in 1..Len(given) : given'[t] = given[t] /\ t \in 1..Len(given')
    BY <2>1, <2>2
  <2>4. Len(given') <= MaxTokens
    BY <2>1, <2>2, BoundsAssumption
  <2> QED BY <2>2, <2>3, <2>4 DEF Known, Coherent
<1> QED BY <1>1, <1>2

LEMMA NewKnown ==
    ASSUME TypeOK, NEW a \in Accounts, NewToken(a), NEW s, s = NewSession(a)
    PROVE  s \in Session /\ Known(s)'
<1>1. given \in Seq(Accounts) /\ Len(given) < MaxTokens /\ given' = Append(given, a)
  BY DEF TypeOK, NewToken
<1>2. Len(given) \in Nat /\ Len(given') = Len(given) + 1 /\ given'[Len(given) + 1] = a
  BY <1>1
<1>3. Len(given) + 1 \in 1..MaxTokens
  BY <1>1, <1>2, BoundsAssumption
<1>4. s = [user |-> a, token |-> Len(given) + 1]
  BY DEF NewSession
<1>5. s \in Session /\ s.token \in 1..Len(given') /\ given'[s.token] = s.user
  BY <1>1, <1>2, <1>3, <1>4 DEF Session
<1> QED BY <1>5 DEF Known, Coherent

(***************************************************************************)
(* One step of whatever talks to the website.                              *)
(***************************************************************************)
SyncStep(y) == ReadSession(y) \/ RefreshSession(y) \/ SaveRefreshed(y) \/ PostNode(y)

LEMMA SyncKeeps == ASSUME SessInv, NEW y \in Syncers, SyncStep(y) PROVE SessInv'
<1> USE DEF SessInv
<1> DEFINE SyncType == [pc : {"idle", "refresh", "save", "post"}, sess : Session \cup {Nil}]
<1>1. /\ UNCHANGED <<mem, up, expired, saving, load, handoff, last, crossed>>
      /\ trouble' \in 0..MaxTrouble
      /\ UNCHANGED given \/ \E a \in Accounts : NewToken(a)
      /\ spent' \subseteq 1..MaxTokens /\ orphaned' \subseteq 1..MaxTokens
  <2>1. sync[y].pc # "idle" => sync[y].sess \in Session
    BY DEF Carried, SyncKnown
  <2>2. sync[y].sess \in Session => sync[y].sess.user \in Accounts /\ sync[y].sess.token \in 1..MaxTokens
    BY DEF Session
  <2>3. Trouble \/ NoTrouble
    BY DEF SyncStep, ReadSession, RefreshSession, SaveRefreshed, PostNode, NoTrouble
  <2>4. UNCHANGED <<mem, up, expired, saving, load, handoff, last, crossed>>
    BY DEF SyncStep, ReadSession, RefreshSession, SaveRefreshed, PostNode, service
  <2>5. /\ UNCHANGED given \/ \E a \in Accounts : NewToken(a)
        /\ spent' \subseteq 1..MaxTokens /\ orphaned' \subseteq 1..MaxTokens
    <3>1. CASE RefreshSession(y)
      BY <2>1, <2>2, <3>1 DEF RefreshSession, Orphan, TypeOK
    <3>2. CASE ~RefreshSession(y)
      BY <3>2 DEF SyncStep, ReadSession, SaveRefreshed, PostNode, Orphan, Used, service, TypeOK
    <3> QED BY <3>1, <3>2
  <2> QED BY <2>3, <2>4, <2>5, TroubleType
<1>2. /\ given' \in Seq(Accounts) /\ Len(given') <= MaxTokens
      /\ \A s : Known(s) => Known(s)'
  BY <1>1, GivenType
<1>3. db' \in {db, sync[y].sess} /\ (db' # db => sync[y].pc # "idle") /\ login' \in {login, Touched}
  BY DEF SyncStep, ReadSession, RefreshSession, SaveRefreshed, PostNode, Refreshed
<1>4. login' \in [pc : {"idle", "remote", "own"}, handoff : BOOLEAN, touched : BOOLEAN,
                  result : Session \cup {Nil}] /\ login'.result = login.result
  BY <1>3 DEF TypeOK, Touched
<1>5. db' \in Session \cup {Nil} /\ Known(db)'
  BY <1>2, <1>3 DEF TypeOK, Stored, Carried, SyncKnown, Known
<1>6. /\ sync' = [sync EXCEPT ![y] = sync'[y]]
      /\ sync'[y] \in SyncType
      /\ SyncKnown(y)'
  <2>0. /\ sync \in [Syncers -> SyncType] /\ Known(sync[y].sess)
        /\ sync[y].pc # "idle" => sync[y].sess \in Session
        /\ Known(db)
    BY DEF TypeOK, Carried, SyncKnown, Stored
  <2>1. CASE EndSync(y)
    <3>1. sync'[y] = IdleSync /\ sync' = [sync EXCEPT ![y] = sync'[y]]
      BY <2>0, <2>1 DEF EndSync
    <3> QED BY <3>1 DEF IdleSync, SyncKnown, Known, Coherent
  <2>2. CASE ReadSession(y)
    <3>1. PICK p \in {"refresh", "post"} : sync' = [sync EXCEPT ![y] = [pc |-> p, sess |-> db]]
      BY <2>2 DEF ReadSession
    <3>2. sync'[y] = [pc |-> p, sess |-> db] /\ sync' = [sync EXCEPT ![y] = sync'[y]]
      BY <2>0, <3>1
    <3>3. db \in Session
      BY <2>0, <2>2 DEF ReadSession, Known
    <3> QED BY <1>2, <2>0, <3>2, <3>3 DEF SyncKnown
  <2>3. CASE RefreshSession(y) /\ ~EndSync(y)
    <3>1. sync[y].sess.user \in Accounts
      BY <2>0, <2>3 DEF RefreshSession, Session
    <3>2. PICK a \in Accounts : a = sync[y].sess.user
      BY <3>1
    <3>3. NewToken(a) /\ sync' = [sync EXCEPT ![y] = [pc |-> "save", sess |-> NewSession(a)]]
      BY <2>3, <3>2 DEF RefreshSession, Answer
    <3>4. PICK s : s = NewSession(a)
      OBVIOUS
    <3>5. s \in Session /\ Known(s)'
      BY <3>3, <3>4, NewKnown
    <3>6. sync'[y] = [pc |-> "save", sess |-> s] /\ sync' = [sync EXCEPT ![y] = sync'[y]]
      BY <2>0, <3>3, <3>4
    <3>7. SyncKnown(y)'
      BY <3>5, <3>6 DEF SyncKnown
    <3>8. sync'[y] \in SyncType
      BY <3>5, <3>6
    <3> QED BY <3>6, <3>7, <3>8
  <2>4. CASE SaveRefreshed(y)
    <3>1. sync'[y] = [sync[y] EXCEPT !.pc = "post"] /\ sync' = [sync EXCEPT ![y] = sync'[y]]
      BY <2>0, <2>4 DEF SaveRefreshed
    <3>2. sync'[y] \in SyncType /\ sync'[y].sess = sync[y].sess /\ sync[y].sess \in Session
      BY <2>0, <2>4, <3>1 DEF SaveRefreshed
    <3> QED BY <1>2, <2>0, <3>1, <3>2 DEF SyncKnown
  <2> QED BY <2>1, <2>2, <2>3, <2>4 DEF SyncStep, PostNode
<1>7. TypeOK'
  BY <1>1, <1>2, <1>4, <1>5, <1>6 DEF TypeOK
<1>8. Stored'
  BY <1>1, <1>2, <1>4, <1>5 DEF Stored
<1>9. Carried'
  <2>1. ASSUME NEW x \in Syncers PROVE SyncKnown(x)'
    <3>1. CASE x # y
      <4>1. sync'[x] = sync[x]
        BY <1>6, <3>1 DEF TypeOK
      <4> QED BY <1>2, <4>1 DEF Carried, SyncKnown
    <3> QED BY <1>6, <3>1
  <2>2. ASSUME NEW b \in Savers PROVE SaveKnown(b)'
    BY <1>1, <1>2 DEF Carried, SaveKnown
  <2> QED BY <2>1, <2>2 DEF Carried
<1> QED BY <1>7, <1>8, <1>9

(***************************************************************************)
(* One step of a sign-in on its way to memory and database.                *)
(***************************************************************************)
SaveStep(b) ==
    \/ b \in Browsers /\ SignIn(b)
    \/ KeepInMemory(b) \/ SaveAuthSession(b)
    \/ b = "cli" /\ (CallbackOwn \/ PollHandoff)

LEMMA SaveKeeps == ASSUME SessInv, NEW b \in Savers, SaveStep(b) PROVE SessInv'
<1> USE DEF SessInv
<1> DEFINE SaveType  == [pc : {"idle", "memory", "database"}, sess : Session \cup {Nil}]
           LoginType == [pc : {"idle", "remote", "own"}, handoff : BOOLEAN, touched : BOOLEAN,
                         result : Session \cup {Nil}]
<1>0. /\ saving \in [Savers -> SaveType] /\ Known(saving[b].sess)
      /\ saving[b].pc # "idle" => saving[b].sess \in Session
      /\ login \in LoginType /\ Known(handoff)
  BY DEF TypeOK, Carried, SaveKnown, Stored
<1>1. /\ UNCHANGED <<up, expired, spent, sync, load, orphaned>>
      /\ trouble' \in 0..MaxTrouble
      /\ UNCHANGED given \/ \E a \in Accounts : NewToken(a)
  <2>1. Trouble \/ NoTrouble
    BY DEF SaveStep, SignIn, KeepInMemory, SaveAuthSession, CallbackOwn, PollHandoff, NoTrouble
  <2>2. UNCHANGED <<up, expired, spent, sync, load, orphaned>> /\ (UNCHANGED given \/ \E a \in Accounts : NewToken(a))
    BY DEF SaveStep, SignIn, KeepInMemory, SaveAuthSession, CallbackOwn, PollHandoff, service
  <2> QED BY <2>1, <2>2, TroubleType
<1>2. /\ given' \in Seq(Accounts) /\ Len(given') <= MaxTokens
      /\ \A s : Known(s) => Known(s)'
  BY <1>1, GivenType
<1>3. /\ mem' \in {mem, saving[b].sess} /\ db' \in {db, saving[b].sess}
      /\ handoff' \in {handoff, Nil}
  BY DEF SaveStep, SignIn, KeepInMemory, SaveAuthSession, CallbackOwn, PollHandoff, Kept
<1>4. /\ db' \in Session \cup {Nil} /\ mem' \in Session \cup {Nil} /\ handoff' \in Session \cup {Nil}
      /\ Known(db)' /\ Known(mem)' /\ Known(handoff)'
  <2>1. Known(Nil)
    BY DEF Known, Coherent
  <2>2. \A s : Known(s)' => s \in Session \cup {Nil}
    BY DEF Known
  <2>3. Known(db) /\ Known(mem)
    BY DEF Stored
  <2>4. Known(db)' /\ Known(mem)' /\ Known(handoff)'
    BY <1>0, <1>2, <1>3, <2>1, <2>3
  <2> QED BY <2>2, <2>4
<1>5. login' \in LoginType /\ Known(login.result)'
  <2>1. login' = login \/ login' = Touched \/ login' = Returned(saving[b].sess)
    BY DEF SaveStep, SignIn, KeepInMemory, SaveAuthSession, CallbackOwn, PollHandoff
  <2>2. CASE login' = login \/ login' = Touched
    <3>1. login' \in LoginType /\ login'.result = login.result
      BY <1>0, <2>2 DEF Touched
    <3> QED BY <1>2, <3>1 DEF Stored
  <2>3. CASE login' = Returned(saving[b].sess)
    <3>1. login' \in LoginType /\ login'.result = saving[b].sess
      BY <1>0, <2>3 DEF Returned, NoLogin, Known
    <3> QED BY <1>0, <1>2, <3>1
  <2> QED BY <2>1, <2>2, <2>3
<1>6. saving' = [saving EXCEPT ![b] = saving'[b]] /\ saving'[b] \in SaveType /\ SaveKnown(b)'
  <2>1. CASE KeepInMemory(b)
    <3>1. saving'[b] = [saving[b] EXCEPT !.pc = "database"] /\ saving' = [saving EXCEPT ![b] = saving'[b]]
      BY <1>0, <2>1 DEF KeepInMemory, SaveTo
    <3>2. saving'[b] \in SaveType /\ saving'[b].sess = saving[b].sess /\ saving[b].sess \in Session
      BY <1>0, <2>1, <3>1 DEF KeepInMemory
    <3> QED BY <1>0, <1>2, <3>1, <3>2 DEF SaveKnown
  <2>2. CASE SaveAuthSession(b)
    <3>1. saving'[b] = NoSave /\ saving' = [saving EXCEPT ![b] = saving'[b]]
      BY <1>0, <2>2 DEF SaveAuthSession
    <3> QED BY <3>1 DEF NoSave, SaveKnown, Known, Coherent
  <2>3. ASSUME NEW a \in Accounts, NewToken(a), NEW p \in {"memory", "database"},
               saving' = [saving EXCEPT ![b] = [pc |-> p, sess |-> NewSession(a)]]
        PROVE  saving' = [saving EXCEPT ![b] = saving'[b]] /\ saving'[b] \in SaveType /\ SaveKnown(b)'
    <3>1. PICK s : s = NewSession(a)
      OBVIOUS
    <3>2. s \in Session /\ Known(s)'
      BY <2>3, <3>1, NewKnown
    <3>3. saving'[b] = [pc |-> p, sess |-> s] /\ saving' = [saving EXCEPT ![b] = saving'[b]]
      BY <1>0, <2>3, <3>1
    <3>4. SaveKnown(b)'
      BY <3>2, <3>3 DEF SaveKnown
    <3> QED BY <3>2, <3>3, <3>4
  <2>4. CASE b \in Browsers /\ SignIn(b)
    BY <2>3, <2>4 DEF SignIn
  <2>5. CASE b = "cli" /\ CallbackOwn
    BY <2>3, <2>5 DEF CallbackOwn
  <2>6. CASE b = "cli" /\ PollHandoff
    <3>1. PICK p \in {"memory", "database"} : saving' = [saving EXCEPT ![b] = [pc |-> p, sess |-> handoff]]
      BY <2>6 DEF PollHandoff, SaveHanded
    <3>2. handoff \in Session
      BY <1>0, <2>6 DEF PollHandoff, Known
    <3>3. saving'[b] = [pc |-> p, sess |-> handoff] /\ saving' = [saving EXCEPT ![b] = saving'[b]]
      BY <1>0, <3>1
    <3> QED BY <1>0, <1>2, <3>2, <3>3 DEF SaveKnown
  <2> QED BY <2>1, <2>2, <2>4, <2>5, <2>6 DEF SaveStep
<1>7. last' \in Accounts \cup {Nil} /\ crossed' \in BOOLEAN
  <2>1. last' = last \/ (saving[b].pc = "database" /\ last' = saving[b].sess.user)
    BY DEF SaveStep, SignIn, KeepInMemory, SaveAuthSession, CallbackOwn, PollHandoff
  <2>2. crossed' \in BOOLEAN
    BY DEF SaveStep, SignIn, KeepInMemory, SaveAuthSession, CallbackOwn, PollHandoff, TypeOK
  <2> QED BY <1>0, <2>1, <2>2 DEF TypeOK, Session
<1>8. TypeOK'
  BY <1>0, <1>1, <1>2, <1>4, <1>5, <1>6, <1>7 DEF TypeOK
<1>9. Carried'
  <2>1. ASSUME NEW y \in Syncers PROVE SyncKnown(y)'
    BY <1>1, <1>2 DEF Carried, SyncKnown
  <2>2. ASSUME NEW c \in Savers PROVE SaveKnown(c)'
    <3>1. CASE c # b
      <4>1. saving'[c] = saving[c]
        BY <1>0, <1>6, <3>1
      <4> QED BY <1>2, <4>1 DEF Carried, SaveKnown
    <3> QED BY <1>6, <3>1
  <2> QED BY <2>1, <2>2 DEF Carried
<1>10. Known(load)'
  BY <1>1, <1>2 DEF Stored
<1> QED BY <1>4, <1>5, <1>8, <1>9, <1>10 DEF Stored

(***************************************************************************)
(* The login command waits, the server comes and goes, tokens expire.      *)
(***************************************************************************)
WaitStep ==
    \/ \E t \in 1..MaxTokens : TokenExpires(t)
    \/ ReadStored \/ LoadStoredSession \/ ServerStarts \/ ServerStops
    \/ StartLogin \/ CompleteHandoff \/ PollDatabase \/ LoginTimesOut

LEMMA WaitKeeps == ASSUME SessInv, WaitStep PROVE SessInv'
<1> USE DEF SessInv
<1> DEFINE SaveType  == [pc : {"idle", "memory", "database"}, sess : Session \cup {Nil}]
           LoginType == [pc : {"idle", "remote", "own"}, handoff : BOOLEAN, touched : BOOLEAN,
                         result : Session \cup {Nil}]
<1>0. /\ saving \in [Savers -> SaveType] /\ login \in LoginType
      /\ Known(db) /\ Known(mem) /\ Known(load) /\ Known(handoff) /\ Known(login.result) /\ Known(Nil)
  BY DEF TypeOK, Stored, Known, Coherent
<1>1. /\ UNCHANGED <<db, last, spent>> /\ up' \in BOOLEAN /\ crossed' \in BOOLEAN
      /\ expired' \subseteq 1..MaxTokens /\ orphaned' \subseteq 1..MaxTokens
      /\ trouble' \in 0..MaxTrouble
      /\ UNCHANGED given \/ \E a \in Accounts : NewToken(a)
  <2>1. Trouble \/ NoTrouble
    BY DEF WaitStep, TokenExpires, ReadStored, LoadStoredSession, ServerStarts, ServerStops, StartLogin,
           CompleteHandoff, PollDatabase, LoginTimesOut, NoTrouble
  <2>2. UNCHANGED <<db, last, spent>> /\ (UNCHANGED given \/ \E a \in Accounts : NewToken(a))
    BY DEF WaitStep, TokenExpires, ReadStored, LoadStoredSession, ServerStarts, ServerStops, StartLogin,
           CompleteHandoff, PollDatabase, LoginTimesOut, service
  <2>3. up' \in BOOLEAN /\ crossed' \in BOOLEAN /\ expired' \subseteq 1..MaxTokens
    BY DEF WaitStep, TokenExpires, ReadStored, LoadStoredSession, ServerStarts, ServerStops, StartLogin,
           CompleteHandoff, PollDatabase, LoginTimesOut, service, TypeOK
  <2>4. orphaned' \subseteq 1..MaxTokens
    BY DEF WaitStep, TokenExpires, ReadStored, LoadStoredSession, ServerStarts, ServerStops, StartLogin,
           CompleteHandoff, PollDatabase, LoginTimesOut, Orphan, Used, TypeOK
  <2> QED BY <2>1, <2>2, <2>3, <2>4, TroubleType
<1>2. /\ given' \in Seq(Accounts) /\ Len(given') <= MaxTokens
      /\ \A s : Known(s) => Known(s)'
  BY <1>1, GivenType
<1>3. Known(mem)' /\ Known(db)' /\ Known(load)' /\ Known(handoff)'
  <2>1. mem' \in {mem, load, db, Nil} /\ load' \in {load, db, Nil}
    BY DEF WaitStep, TokenExpires, ReadStored, LoadStoredSession, ServerStarts, ServerStops, StartLogin,
           CompleteHandoff, PollDatabase, LoginTimesOut
  <2>2. Known(handoff)'
    <3>1. CASE CompleteHandoff
      <4>1. PICK a \in Accounts : NewToken(a) /\ handoff' = NewSession(a)
        BY <3>1 DEF CompleteHandoff
      <4> QED BY <4>1, NewKnown
    <3>2. CASE ~CompleteHandoff
      <4>1. handoff' \in {handoff, Nil}
        BY <3>2 DEF WaitStep, TokenExpires, ReadStored, LoadStoredSession, ServerStarts, ServerStops, StartLogin,
                    PollDatabase, LoginTimesOut
      <4> QED BY <1>0, <1>2, <4>1
    <3> QED BY <3>1, <3>2
  <2> QED BY <1>0, <1>1, <1>2, <2>1, <2>2
<1>4. login' \in LoginType /\ Known(login.result)'
  <2>1. CASE UNCHANGED login
    BY <1>0, <1>2, <2>1
  <2>2. CASE StartLogin
    <3>1. PICK h \in BOOLEAN, t \in BOOLEAN :
            login' = [pc |-> IF up THEN "remote" ELSE "own", handoff |-> h, touched |-> t, result |-> Nil]
      BY <2>2, Zenon DEF StartLogin
    <3>2. login' \in LoginType /\ login'.result = Nil
      BY <3>1
    <3> QED BY <1>0, <1>2, <3>2
  <2>3. CASE PollDatabase
    <3>1. login' \in LoginType /\ login'.result = db
      BY <1>0, <2>3 DEF PollDatabase, Returned, NoLogin, Known
    <3> QED BY <1>0, <1>2, <3>1
  <2>4. CASE LoginTimesOut
    <3>1. login' \in LoginType /\ login'.result = Nil
      BY <2>4 DEF LoginTimesOut, NoLogin
    <3> QED BY <1>0, <1>2, <3>1
  <2> QED BY <2>1, <2>2, <2>3, <2>4
     DEF WaitStep, TokenExpires, ReadStored, LoadStoredSession, ServerStarts, ServerStops, CompleteHandoff
<1>5. /\ saving' \in [Savers -> SaveType]
      /\ \A b \in Savers : SaveKnown(b)'
  <2>1. CASE ServerStops
    <3> DEFINE next(b) == IF b # "cli" THEN NoSave
                          ELSE IF saving[b].pc = "memory" THEN [saving[b] EXCEPT !.pc = "database"]
                          ELSE saving[b]
    <3>1. saving' = [b \in Savers |-> next(b)]
      BY <2>1 DEF ServerStops
    <3>2. ASSUME NEW b \in Savers
          PROVE  /\ next(b) \in SaveType /\ next(b).sess \in {saving[b].sess, Nil}
                 /\ next(b).pc # "idle" => saving[b].pc # "idle" /\ next(b).sess = saving[b].sess
      BY <1>0 DEF NoSave
    <3>3. ASSUME NEW b \in Savers PROVE saving'[b] = next(b)
      BY <3>1
    <3> HIDE DEF next
    <3>4. ASSUME NEW b \in Savers PROVE SaveKnown(b)'
      <4>1. SaveKnown(b)
        BY DEF Carried
      <4> QED BY <1>0, <1>2, <3>2, <3>3, <4>1 DEF SaveKnown
    <3> QED BY <3>1, <3>2, <3>4
  <2>2. CASE ~ServerStops
    <3>1. saving' = saving
      BY <2>2 DEF WaitStep, TokenExpires, ReadStored, LoadStoredSession, ServerStarts, StartLogin,
                  CompleteHandoff, PollDatabase, LoginTimesOut
    <3> QED BY <1>0, <1>2, <3>1 DEF Carried, SaveKnown
  <2> QED BY <2>1, <2>2
<1>6. /\ sync' \in [Syncers -> [pc : {"idle", "refresh", "save", "post"}, sess : Session \cup {Nil}]]
      /\ \A y \in Syncers : SyncKnown(y)'
  <2>1. sync' \in {sync, [sync EXCEPT !["heartbeat"] = IdleSync]}
    BY DEF WaitStep, TokenExpires, ReadStored, LoadStoredSession, ServerStarts, ServerStops, StartLogin,
           CompleteHandoff, PollDatabase, LoginTimesOut
  <2>2. sync' \in [Syncers -> [pc : {"idle", "refresh", "save", "post"}, sess : Session \cup {Nil}]]
    BY <2>1 DEF TypeOK, IdleSync
  <2>3. ASSUME NEW y \in Syncers PROVE SyncKnown(y)'
    <3>1. sync'[y] \in {sync[y], IdleSync}
      BY <2>1 DEF TypeOK
    <3> QED BY <1>0, <1>2, <3>1 DEF Carried, SyncKnown, IdleSync
  <2> QED BY <2>2, <2>3
<1>7. TypeOK'
  <2>1. \A s : Known(s)' => s \in Session \cup {Nil}
    BY DEF Known
  <2> QED BY <1>1, <1>2, <1>3, <1>4, <1>5, <1>6, <2>1 DEF TypeOK
<1> QED BY <1>3, <1>4, <1>5, <1>6, <1>7 DEF Stored, Carried

LEMMA SessionStep == SessInv /\ [Next]_vars => SessInv'
<1> SUFFICES ASSUME SessInv, [Next]_vars PROVE SessInv'
  OBVIOUS
<1>1. ASSUME NEW y \in Syncers, SyncStep(y) PROVE SessInv'
  BY <1>1, SyncKeeps
<1>2. ASSUME NEW b \in Savers, SaveStep(b) PROVE SessInv'
  BY <1>2, SaveKeeps
<1>3. CASE WaitStep
  BY <1>3, WaitKeeps
<1>4. CASE UNCHANGED vars
  BY <1>4 DEF vars, SessInv, TypeOK, Stored, Carried, SyncKnown, SaveKnown, Known, Coherent
<1>5. Next => (\E y \in Syncers : SyncStep(y)) \/ (\E b \in Savers : SaveStep(b)) \/ WaitStep
  BY DEF Next, SyncStep, SaveStep, WaitStep, Savers
<1> QED BY <1>1, <1>2, <1>3, <1>4, <1>5

(***************************************************************************)
(* The state of the account session is well typed.                         *)
(***************************************************************************)
THEOREM SessionTypeCorrect == Spec => []TypeOK
<1>1. SessInv => TypeOK
  BY DEF SessInv
<1> QED BY <1>1, InitSession, SessionStep, PTL DEF Spec

(***************************************************************************)
(* What the database, the memory of the server and a login report is one   *)
(* account's session: however sign-ins and refreshes of any number of      *)
(* processes interleave, fail or are cut off.                              *)
(***************************************************************************)
THEOREM OneAccount == Spec => []SessionCoherent
<1>1. SessInv => SessionCoherent
  BY DEF SessInv, Stored, Known, SessionCoherent
<1> QED BY <1>1, InitSession, SessionStep, PTL DEF Spec

(***************************************************************************)
(* Whose database it is.  A refresh carries the account of the row that it *)
(* read; until it stores its answer only a sign-in can change the account, *)
(* and then it was crossed.                                                *)
(***************************************************************************)
RowIsLast == IF last = Nil THEN db = Nil ELSE db # Nil /\ db.user = last
RefreshesRow == \A y \in Refreshing : db # Nil /\ sync[y].sess.user = db.user
OwnerInv == SessInv /\ (~crossed => RowIsLast /\ RefreshesRow)

LEMMA InitOwner == Init => OwnerInv
BY InitSession DEF Init, OwnerInv, RowIsLast, RefreshesRow, Refreshing, IdleSync

LEMMA SyncOwner ==
    ASSUME SessInv, RowIsLast, RefreshesRow, NEW y \in Syncers, SyncStep(y)
    PROVE  RowIsLast' /\ RefreshesRow'
<1>0. /\ last' = last
      /\ \A x \in Syncers \ {y} : sync'[x] = sync[x]
  BY DEF SyncStep, ReadSession, RefreshSession, SaveRefreshed, PostNode, EndSync, SessInv, TypeOK
<1>1. /\ \/ db' = db
         \/ SaveRefreshed(y) /\ db' = sync[y].sess
      /\ db # Nil => db' # Nil /\ db'.user = db.user
      /\ db = Nil => db' = Nil
  <2>1. CASE SaveRefreshed(y) /\ db' = sync[y].sess
    <3>1. y \in Refreshing /\ sync[y].sess \in Session
      BY <2>1 DEF SaveRefreshed, Refreshing, SessInv, Carried, SyncKnown
    <3>2. db # Nil /\ sync[y].sess.user = db.user
      BY <3>1 DEF RefreshesRow
    <3>3. sync[y].sess # Nil
      BY <3>1, NamesAssumption
    <3> QED BY <2>1, <3>2, <3>3
  <2>2. CASE db' = db
    BY <2>2
  <2> QED BY <2>1, <2>2 DEF SyncStep, ReadSession, RefreshSession, SaveRefreshed, PostNode, Refreshed
<1>2. y \in Refreshing' => db' # Nil /\ sync'[y].sess.user = db'.user
  <2>0. sync \in [Syncers -> [pc : {"idle", "refresh", "save", "post"}, sess : Session \cup {Nil}]]
    BY DEF SessInv, TypeOK
  <2>1. CASE EndSync(y)
    <3>1. sync'[y] = IdleSync
      BY <2>0, <2>1 DEF EndSync
    <3> QED BY <3>1 DEF IdleSync, Refreshing
  <2>2. CASE ReadSession(y)
    <3>1. sync'[y].sess = db /\ db # Nil /\ db' = db
      BY <2>0, <2>2 DEF ReadSession
    <3> QED BY <3>1
  <2>3. CASE RefreshSession(y) /\ ~EndSync(y)
    <3>1. db' = db /\ y \in Refreshing
      BY <2>3 DEF RefreshSession, Refreshing
    <3>2. sync'[y] = [pc |-> "save", sess |-> NewSession(sync[y].sess.user)]
      BY <2>0, <2>3 DEF RefreshSession, Answer
    <3>3. sync'[y].sess.user = sync[y].sess.user
      BY <3>2 DEF NewSession
    <3> QED BY <3>1, <3>3 DEF RefreshesRow
  <2>4. CASE SaveRefreshed(y)
    <3>1. sync'[y] = [sync[y] EXCEPT !.pc = "post"]
      BY <2>0, <2>4 DEF SaveRefreshed
    <3>2. sync'[y].pc = "post"
      BY <2>0, <3>1
    <3> QED BY <3>2 DEF Refreshing
  <2> QED BY <2>1, <2>2, <2>3, <2>4 DEF SyncStep, PostNode
<1> QED BY <1>0, <1>1, <1>2 DEF RowIsLast, RefreshesRow, Refreshing

LEMMA OwnerStep == OwnerInv /\ [Next]_vars => OwnerInv'
<1> SUFFICES ASSUME OwnerInv, [Next]_vars PROVE OwnerInv'
  OBVIOUS
<1>0. SessInv /\ SessInv'
  BY SessionStep DEF OwnerInv
<1> SUFFICES ASSUME ~crossed' PROVE RowIsLast' /\ RefreshesRow'
  BY <1>0 DEF OwnerInv
<1>1. ASSUME NEW y \in Syncers, SyncStep(y) PROVE RowIsLast' /\ RefreshesRow'
  <2>1. ~crossed
    BY <1>1 DEF SyncStep, ReadSession, RefreshSession, SaveRefreshed, PostNode
  <2> QED BY <1>0, <1>1, <2>1, SyncOwner DEF OwnerInv
<1>2. ASSUME NEW b \in Savers, SaveAuthSession(b) PROVE RowIsLast' /\ RefreshesRow'
  <2>1. /\ db' = saving[b].sess /\ last' = saving[b].sess.user /\ sync' = sync
        /\ Refreshing = {} /\ saving[b].pc = "database"
    BY <1>2 DEF SaveAuthSession
  <2>2. saving[b].sess \in Session
    BY <1>0, <2>1 DEF SessInv, Carried, SaveKnown
  <2>3. saving[b].sess # Nil /\ saving[b].sess.user # Nil
    BY <2>2, NamesAssumption DEF Session
  <2> QED BY <2>1, <2>3 DEF RowIsLast, RefreshesRow, Refreshing
<1>3. ASSUME WaitStep \/ (\E b \in Savers : SaveStep(b) /\ ~SaveAuthSession(b)) \/ UNCHANGED vars
      PROVE  RowIsLast' /\ RefreshesRow'
  <2>1. UNCHANGED <<db, last, crossed>> /\ sync' \in {sync, [sync EXCEPT !["heartbeat"] = IdleSync]}
    BY <1>3 DEF WaitStep, TokenExpires, ReadStored, LoadStoredSession, ServerStarts, ServerStops, StartLogin,
       CompleteHandoff, PollDatabase, LoginTimesOut, SaveStep, SignIn, KeepInMemory, CallbackOwn, PollHandoff,
       vars
  <2>2. \A y \in Syncers : sync'[y] \in {sync[y], IdleSync}
    BY <1>0, <2>1 DEF SessInv, TypeOK
  <2> QED BY <2>1, <2>2 DEF OwnerInv, RowIsLast, RefreshesRow, Refreshing, IdleSync
<1>4. Next => (\E y \in Syncers : SyncStep(y)) \/ (\E b \in Savers : SaveStep(b)) \/ WaitStep
  BY DEF Next, SyncStep, SaveStep, WaitStep, Savers
<1> QED BY <1>1, <1>2, <1>3, <1>4

(***************************************************************************)
(* The account that signed in last owns the database, however refreshes of *)
(* other processes and further sign-ins follow, fail or are cut off.       *)
(***************************************************************************)
THEOREM LastSignInKept == Spec => []LastSignInWins
<1>1. OwnerInv => LastSignInWins
  BY DEF OwnerInv, RowIsLast, LastSignInWins
<1> QED BY <1>1, InitOwner, OwnerStep, PTL DEF Spec

(***************************************************************************)
(* Nobody is signed out.  A token that waits to be stored has one holder,  *)
(* and nobody has read it yet, so that nobody can have used it up.         *)
(***************************************************************************)
SaveHas(b, t) == saving[b].pc # "idle" /\ saving[b].sess.token = t
SyncHas(y, t) == sync[y].pc = "save" /\ sync[y].sess.token = t
HandHas(t)    == handoff # Nil /\ handoff.token = t
RowHas(t)     == db # Nil /\ db.token = t
UsedBy(y, t)  == sync[y].pc = "refresh" /\ sync[y].sess.token = t
Waits(t)      == (\E b \in Savers : SaveHas(b, t)) \/ (\E y \in Syncers : SyncHas(y, t)) \/ HandHas(t)

Unread == \A t : Waits(t) => t \notin spent /\ ~RowHas(t) /\ \A y \in Syncers : ~UsedBy(y, t)
OneHolder == \A t :
    /\ \A b, c \in Savers : SaveHas(b, t) /\ SaveHas(c, t) => b = c
    /\ \A y, z \in Syncers : SyncHas(y, t) /\ SyncHas(z, t) => y = z
    /\ \A y \in Syncers : SyncHas(y, t) => ~HandHas(t) /\ \A b \in Savers : ~SaveHas(b, t)
    /\ \A b \in Savers : SaveHas(b, t) /\ HandHas(t) => b = "cli" /\ saving[b].sess = handoff
RowUnspent == \A t : RowHas(t) /\ (\A y \in Syncers : sync[y].pc # "save") => t \notin spent \ orphaned
Fresh == Unread /\ OneHolder /\ RowUnspent /\ spent \subseteq 1..Len(given)
FreshInv == SessInv /\ Fresh

LEMMA InitFresh == Init => FreshInv
BY InitSession DEF Init, FreshInv, Fresh, Unread, OneHolder, RowUnspent, Waits, SaveHas, SyncHas, HandHas,
   RowHas, UsedBy, IdleSync, NoSave

\* Every token that anybody has was given out.
LEMMA TokensGiven ==
    ASSUME SessInv, NEW t, Waits(t) \/ RowHas(t) \/ \E y \in Syncers : UsedBy(y, t)
    PROVE  t \in 1..Len(given)
<1>1. ASSUME NEW s, Known(s), s # Nil, s.token = t PROVE t \in 1..Len(given)
  BY <1>1 DEF Known, Coherent
<1>2. Nil \notin Session
  BY NamesAssumption
<1>3. CASE RowHas(t) \/ HandHas(t)
  BY <1>1, <1>3 DEF RowHas, HandHas, SessInv, Stored
<1>4. ASSUME NEW b \in Savers, SaveHas(b, t) PROVE t \in 1..Len(given)
  BY <1>1, <1>2, <1>4 DEF SaveHas, SessInv, Carried, SaveKnown
<1>5. ASSUME NEW y \in Syncers, SyncHas(y, t) \/ UsedBy(y, t) PROVE t \in 1..Len(given)
  BY <1>1, <1>2, <1>5 DEF SyncHas, UsedBy, SessInv, Carried, SyncKnown
<1> QED BY <1>3, <1>4, <1>5 DEF Waits

LEMMA NextToken ==
    ASSUME SessInv, NEW a \in Accounts, NewToken(a)
    PROVE  /\ NewSession(a).token \notin 1..Len(given) /\ NewSession(a).token \in 1..Len(given')
           /\ 1..Len(given) \subseteq 1..Len(given')
<1>1. given \in Seq(Accounts) /\ given' = Append(given, a)
  BY DEF SessInv, TypeOK, NewToken
<1>2. Len(given) \in Nat /\ Len(given') = Len(given) + 1
  BY <1>1
<1> QED BY <1>2 DEF NewSession

\* A step that gives nobody a token to store, and leaves the row alone.  If somebody had
\* one, and now nobody has, the token of the row is an orphan.
LEMMA FreshKept ==
    ASSUME Fresh, UNCHANGED <<spent, given, db>>, handoff' \in {handoff, Nil}, orphaned \subseteq orphaned',
           \A t : \A b \in Savers : SaveHas(b, t)' => SaveHas(b, t) /\ saving'[b].sess = saving[b].sess,
           Used \subseteq orphaned' \/ \A y \in Syncers : sync[y].pc = "save" => sync'[y].pc = "save",
           \A y \in Syncers : /\ \A t : SyncHas(y, t)' => SyncHas(y, t)
                              /\ \A t : UsedBy(y, t)' => UsedBy(y, t) \/ RowHas(t)
    PROVE  Fresh'
<1>1. \A t : HandHas(t)' => HandHas(t) /\ handoff' = handoff
  BY DEF HandHas
<1>2. \A t : RowHas(t)' <=> RowHas(t)
  BY DEF RowHas
<1>3. \A t : Waits(t)' => Waits(t)
  BY <1>1 DEF Waits
<1>4. Unread'
  BY <1>2, <1>3 DEF Unread, Fresh
<1>5. OneHolder'
  BY <1>1 DEF OneHolder, Fresh
<1>6. RowUnspent'
  <2>1. CASE Used \subseteq orphaned'
    BY <2>1 DEF RowUnspent, RowHas, Used
  <2>2. CASE \A y \in Syncers : sync[y].pc = "save" => sync'[y].pc = "save"
    BY <1>2, <2>2 DEF RowUnspent, Fresh
  <2> QED BY <2>1, <2>2
<1> QED BY <1>4, <1>5, <1>6 DEF Fresh

LEMMA SyncFresh ==
    ASSUME SessInv, Fresh, NEW y \in Syncers, SyncStep(y)
    PROVE  Fresh'
<1>0. /\ sync \in [Syncers -> [pc : {"idle", "refresh", "save", "post"}, sess : Session \cup {Nil}]]
      /\ UNCHANGED <<saving, handoff>> /\ orphaned \subseteq orphaned'
  BY DEF SessInv, TypeOK, SyncStep, ReadSession, RefreshSession, SaveRefreshed, PostNode, Orphan
<1>1. /\ \A t : \A b \in Savers : SaveHas(b, t)' <=> SaveHas(b, t)
      /\ \A t : HandHas(t)' <=> HandHas(t)
  BY <1>0 DEF SaveHas, HandHas
<1>2. ASSUME UNCHANGED <<spent, given, db>>, NEW q, sync' = [sync EXCEPT ![y] = q],
             sync[y].pc # "save", q.pc # "save", q.pc = "refresh" => db # Nil /\ q.sess = db
      PROVE  Fresh'
  <2>1. sync'[y] = q /\ \A x \in Syncers \ {y} : sync'[x] = sync[x]
    BY <1>0, <1>2
  <2>2. \A x \in Syncers : /\ sync[x].pc = "save" => sync'[x].pc = "save"
                           /\ \A t : SyncHas(x, t)' => SyncHas(x, t)
                           /\ \A t : UsedBy(x, t)' => UsedBy(x, t) \/ RowHas(t)
    BY <1>2, <2>1 DEF SyncHas, UsedBy, RowHas
  <2> QED BY <1>0, <1>1, <1>2, <2>2, FreshKept
<1>3. CASE ReadSession(y)
  <2>1. PICK p \in {"refresh", "post"} : sync' = [sync EXCEPT ![y] = [pc |-> p, sess |-> db]]
    BY <1>3 DEF ReadSession
  <2> QED BY <1>2, <1>3, <2>1 DEF ReadSession, service
<1>4. CASE EndSync(y) /\ UNCHANGED <<spent, given, db>> /\ sync[y].pc # "save"
  <2>1. sync' = [sync EXCEPT ![y] = IdleSync] /\ IdleSync.pc = "idle"
    BY <1>4 DEF EndSync, IdleSync
  <2> QED BY <1>2, <1>4, <2>1
<1>5. PostNode(y) => EndSync(y) /\ UNCHANGED <<spent, given, db>> /\ sync[y].pc # "save"
  BY DEF PostNode, service
<1>6. CASE RefreshSession(y) /\ ~EndSync(y)
  <2> DEFINE a == sync[y].sess.user
             n == NewSession(a).token
  <2>1. /\ NewToken(a) /\ spent' = spent \cup {sync[y].sess.token} /\ db' = db
        /\ sync' = [sync EXCEPT ![y] = [pc |-> "save", sess |-> NewSession(a)]]
        /\ UsedBy(y, sync[y].sess.token)
    BY <1>0, <1>6 DEF RefreshSession, Answer, UsedBy
  <2>2. a \in Accounts
    <3>1. sync[y].sess \in Session
      BY <1>6 DEF RefreshSession, SessInv, Carried, SyncKnown
    <3> QED BY <3>1 DEF Session
  <2>3. n \notin 1..Len(given) /\ n \in 1..Len(given') /\ 1..Len(given) \subseteq 1..Len(given')
    BY <2>1, <2>2, NextToken
  <2>4. sync'[y] = [pc |-> "save", sess |-> NewSession(a)] /\ \A x \in Syncers \ {y} : sync'[x] = sync[x]
    BY <1>0, <2>1
  <2> HIDE DEF n, a
  <2>5. /\ \A t : SyncHas(y, t)' <=> t = n
        /\ \A t : ~SyncHas(y, t) /\ ~UsedBy(y, t)'
        /\ \A t : \A x \in Syncers \ {y} : (SyncHas(x, t)' <=> SyncHas(x, t)) /\ (UsedBy(x, t)' <=> UsedBy(x, t))
        /\ \A t : RowHas(t)' <=> RowHas(t)
    BY <1>6, <2>1, <2>4 DEF SyncHas, UsedBy, RowHas, n, RefreshSession
  <2>6. \A t : Waits(t)' <=> Waits(t) \/ t = n
    BY <1>1, <2>5 DEF Waits
  <2>7. ~Waits(n) /\ ~RowHas(n) /\ \A x \in Syncers : ~UsedBy(x, n)
    BY <2>3, TokensGiven
  <2>8. n \notin spent /\ n # sync[y].sess.token
    BY <2>1, <2>3, <2>7 DEF Fresh
  <2>9. Unread'
    <3> SUFFICES ASSUME NEW t, Waits(t)' PROVE t \notin spent' /\ ~RowHas(t)' /\ \A x \in Syncers : ~UsedBy(x, t)'
      BY DEF Unread
    <3>1. CASE t = n
      BY <2>1, <2>5, <2>7, <2>8, <3>1
    <3>2. CASE Waits(t)
      BY <2>1, <2>5, <3>2 DEF Fresh, Unread
    <3> QED BY <2>6, <3>1, <3>2
  <2>10. OneHolder'
    <3>1. \A b \in Savers : ~SaveHas(b, n) /\ ~HandHas(n)
      BY <2>7 DEF Waits
    <3>2. \A x \in Syncers : ~SyncHas(x, n)
      BY <2>7 DEF Waits
    <3>3. saving' = saving /\ handoff' = handoff
      BY <1>0
    <3> QED BY <1>1, <2>5, <2>7, <3>1, <3>2, <3>3 DEF OneHolder, Fresh, Waits
  <2>11. RowUnspent'
    BY <2>4 DEF RowUnspent
  <2>12. spent' \subseteq 1..Len(given')
    BY <2>1, <2>3, TokensGiven DEF Fresh
  <2> QED BY <2>9, <2>10, <2>11, <2>12 DEF Fresh
<1>7. CASE RefreshSession(y) /\ EndSync(y) /\ ~UNCHANGED <<spent, given, db>>
  <2>1. PICK u : u = sync[y].sess.token
    OBVIOUS
  <2>2. /\ NewToken(sync[y].sess.user) /\ spent' = spent \cup {u} /\ db' = db
        /\ Orphan({u}) \/ sync' = [sync EXCEPT ![y] = Answer(y)]
        /\ UsedBy(y, u) /\ sync[y].sess \in Session
    BY <1>7, <2>1 DEF RefreshSession, UsedBy, SessInv, Carried, SyncKnown
  <2>3. sync'[y] = IdleSync /\ \A x \in Syncers \ {y} : sync'[x] = sync[x]
    BY <1>0, <1>7 DEF EndSync
  <2>4. orphaned' = orphaned \cup {u}
    <3>1. sync' # [sync EXCEPT ![y] = Answer(y)]
      BY <1>0, <2>3 DEF Answer, IdleSync
    <3> QED BY <2>2, <3>1 DEF Orphan
  <2>5. 1..Len(given) \subseteq 1..Len(given')
    <3>1. sync[y].sess.user \in Accounts
      BY <2>2 DEF Session
    <3> QED BY <2>2, <3>1, NextToken
  <2>6. u \in 1..Len(given) /\ ~Waits(u)
    BY <2>2, TokensGiven DEF Fresh, Unread
  <2>7. /\ \A x \in Syncers : \A t : (SyncHas(x, t)' => SyncHas(x, t)) /\ (UsedBy(x, t)' => UsedBy(x, t))
        /\ \A t : RowHas(t)' <=> RowHas(t)
        /\ \A x \in Syncers : sync[x].pc = "save" => sync'[x].pc = "save"
    BY <2>2, <2>3 DEF SyncHas, UsedBy, RowHas, IdleSync
  <2>8. \A t : Waits(t)' => Waits(t)
    BY <1>1, <2>7 DEF Waits
  <2>9. Unread'
    BY <2>2, <2>6, <2>7, <2>8 DEF Unread, Fresh
  <2>10. OneHolder'
    BY <1>0, <1>1, <2>7 DEF OneHolder, Fresh
  <2>11. RowUnspent'
    BY <2>2, <2>4, <2>7 DEF RowUnspent, Fresh
  <2> QED BY <2>2, <2>5, <2>6, <2>9, <2>10, <2>11 DEF Fresh
<1>8. CASE SaveRefreshed(y) /\ db' = db /\ Orphan(Used)
  <2>1. /\ sync'[y] = [sync[y] EXCEPT !.pc = "post"] /\ \A x \in Syncers \ {y} : sync'[x] = sync[x]
        /\ UNCHANGED <<spent, given>>
    BY <1>0, <1>8 DEF SaveRefreshed, service
  <2>2. sync'[y].pc = "post"
    BY <1>0, <2>1
  <2>3. \A x \in Syncers : \A t : (SyncHas(x, t)' => SyncHas(x, t)) /\ (UsedBy(x, t)' => UsedBy(x, t))
    BY <2>1, <2>2 DEF SyncHas, UsedBy
  <2>4. Used \subseteq orphaned'
    BY <1>8 DEF Orphan
  <2> QED BY <1>0, <1>1, <1>8, <2>1, <2>3, <2>4, FreshKept
<1>9. CASE SaveRefreshed(y) /\ ~(db' = db /\ Orphan(Used))
  <2> DEFINE n == sync[y].sess.token
  <2>1. /\ UNCHANGED <<spent, given>> /\ db' = sync[y].sess
        /\ sync' = [sync EXCEPT ![y].pc = "post"] /\ SyncHas(y, n)
    BY <1>0, <1>9 DEF SaveRefreshed, Refreshed, service, SyncHas
  <2>2. sync'[y].pc = "post" /\ \A x \in Syncers \ {y} : sync'[x] = sync[x]
    <3>1. sync'[y] = [sync[y] EXCEPT !.pc = "post"] /\ \A x \in Syncers \ {y} : sync'[x] = sync[x]
      BY <1>0, <2>1
    <3> QED BY <1>0, <3>1
  <2>3. db' # Nil
    BY <1>9, <2>1, NamesAssumption DEF SaveRefreshed, SessInv, Carried, SyncKnown
  <2>4. /\ \A t : ~SyncHas(y, t)' /\ ~UsedBy(y, t)'
        /\ \A t : \A x \in Syncers \ {y} : (SyncHas(x, t)' <=> SyncHas(x, t)) /\ (UsedBy(x, t)' <=> UsedBy(x, t))
        /\ \A t : RowHas(t)' <=> t = n
    BY <2>1, <2>2, <2>3 DEF SyncHas, UsedBy, RowHas
  <2> HIDE DEF n
  <2>5. \A t : Waits(t)' => Waits(t) /\ t # n
    <3> SUFFICES ASSUME NEW t, Waits(t)' PROVE Waits(t) /\ t # n
      OBVIOUS
    <3>1. Waits(t)
      BY <1>1, <2>4 DEF Waits
    <3>2. ~SyncHas(y, t) \/ ~Waits(t)'
      BY <1>1, <2>4 DEF Waits, Fresh, OneHolder
    <3> QED BY <2>1, <3>1, <3>2
  <2>6. Unread'
    BY <2>1, <2>4, <2>5 DEF Unread, Fresh
  <2>7. OneHolder'
    <3>1. saving' = saving /\ handoff' = handoff
      BY <1>0
    <3> QED BY <1>1, <2>4, <3>1 DEF OneHolder, Fresh
  <2>8. RowUnspent'
    <3>1. Waits(n)
      BY <2>1 DEF Waits
    <3> QED BY <2>1, <2>4, <3>1 DEF RowUnspent, Unread, Fresh
  <2> QED BY <2>1, <2>6, <2>7, <2>8 DEF Fresh
<1>10. RefreshSession(y) => sync[y].pc # "save"
  BY DEF RefreshSession
<1> QED BY <1>3, <1>4, <1>5, <1>6, <1>7, <1>8, <1>9, <1>10 DEF SyncStep

\* The service gives a token to a holder that had none.
LEMMA FreshGiven ==
    ASSUME SessInv, Fresh, NEW a \in Accounts, NewToken(a), UNCHANGED <<spent, db, sync, orphaned>>,
           NEW n, n = NewSession(a).token,
           \/ /\ UNCHANGED handoff
              /\ \E b \in Savers :
                    /\ saving[b].pc = "idle" /\ \A t : SaveHas(b, t)' <=> t = n
                    /\ \A c \in Savers \ {b} : saving'[c] = saving[c]
           \/ UNCHANGED saving /\ handoff = Nil /\ \A t : HandHas(t)' <=> t = n
    PROVE  Fresh'
<1>1. n \notin 1..Len(given) /\ 1..Len(given) \subseteq 1..Len(given')
  BY NextToken
<1>2. ~Waits(n) /\ ~RowHas(n) /\ n \notin spent /\ \A y \in Syncers : ~UsedBy(y, n)
  BY <1>1, TokensGiven DEF Fresh
<1>3. /\ \A t : \A y \in Syncers : (SyncHas(y, t)' <=> SyncHas(y, t)) /\ (UsedBy(y, t)' <=> UsedBy(y, t))
      /\ \A t : RowHas(t)' <=> RowHas(t)
  BY DEF SyncHas, UsedBy, RowHas
<1>4. CASE /\ UNCHANGED handoff
           /\ \E b \in Savers :
                 /\ saving[b].pc = "idle" /\ \A t : SaveHas(b, t)' <=> t = n
                 /\ \A c \in Savers \ {b} : saving'[c] = saving[c]
  <2>1. PICK b \in Savers : /\ saving[b].pc = "idle" /\ \A t : SaveHas(b, t)' <=> t = n
                            /\ \A c \in Savers \ {b} : saving'[c] = saving[c]
    BY <1>4
  <2>2. /\ \A t : HandHas(t)' <=> HandHas(t)
        /\ \A t : ~SaveHas(b, t)
        /\ \A t : \A c \in Savers \ {b} : SaveHas(c, t)' <=> SaveHas(c, t)
    BY <1>4, <2>1 DEF HandHas, SaveHas
  <2>3. \A t : Waits(t)' => Waits(t) \/ t = n
    BY <1>3, <2>1, <2>2 DEF Waits
  <2>4. Unread'
    BY <1>2, <1>3, <2>3 DEF Unread, Fresh
  <2>5. OneHolder'
    <3>1. ~HandHas(n) /\ (\A y \in Syncers : ~SyncHas(y, n)) /\ \A c \in Savers : ~SaveHas(c, n)
      BY <1>2 DEF Waits
    <3>2. \A c, d \in Savers : \A t : SaveHas(c, t)' /\ SaveHas(d, t)' => c = d
      BY <2>1, <2>2, <3>1 DEF OneHolder, Fresh
    <3>3. \A y \in Syncers : \A t : SyncHas(y, t)' => ~HandHas(t)' /\ \A c \in Savers : ~SaveHas(c, t)'
      BY <1>3, <2>1, <2>2, <3>1 DEF OneHolder, Fresh
    <3>4. \A c \in Savers : \A t : SaveHas(c, t)' /\ HandHas(t)' => c = "cli" /\ saving'[c].sess = handoff'
      BY <1>4, <2>1, <2>2, <3>1 DEF OneHolder, Fresh
    <3> QED BY <1>3, <3>2, <3>3, <3>4 DEF OneHolder, Fresh
  <2>6. RowUnspent'
    BY <1>3 DEF RowUnspent, Fresh
  <2> QED BY <1>1, <2>4, <2>5, <2>6 DEF Fresh
<1>5. CASE UNCHANGED saving /\ handoff = Nil /\ \A t : HandHas(t)' <=> t = n
  <2>1. \A t : \A b \in Savers : SaveHas(b, t)' <=> SaveHas(b, t)
    BY <1>5 DEF SaveHas
  <2>2. \A t : Waits(t)' => Waits(t) \/ t = n
    BY <1>3, <1>5, <2>1 DEF Waits
  <2>3. Unread'
    BY <1>2, <1>3, <2>2 DEF Unread, Fresh
  <2>4. OneHolder'
    <3>1. (\A y \in Syncers : ~SyncHas(y, n)) /\ \A c \in Savers : ~SaveHas(c, n)
      BY <1>2 DEF Waits
    <3> QED BY <1>3, <1>5, <2>1, <3>1 DEF OneHolder, Fresh
  <2>5. RowUnspent'
    BY <1>3 DEF RowUnspent, Fresh
  <2> QED BY <1>1, <2>3, <2>4, <2>5 DEF Fresh
<1> QED BY <1>4, <1>5

LEMMA SaveFresh ==
    ASSUME SessInv, Fresh, NEW b \in Savers, SaveStep(b)
    PROVE  Fresh'
<1>0. /\ saving \in [Savers -> [pc : {"idle", "memory", "database"}, sess : Session \cup {Nil}]]
      /\ UNCHANGED <<spent, sync, orphaned>>
  BY DEF SessInv, TypeOK, SaveStep, SignIn, KeepInMemory, SaveAuthSession, CallbackOwn, PollHandoff,
     service
<1>1. \A t : \A y \in Syncers : (SyncHas(y, t)' <=> SyncHas(y, t)) /\ (UsedBy(y, t)' <=> UsedBy(y, t))
  BY <1>0 DEF SyncHas, UsedBy
<1>2. ASSUME NEW a \in Accounts, NewToken(a), NEW p \in {"memory", "database"}, saving[b].pc = "idle",
             saving' = [saving EXCEPT ![b] = [pc |-> p, sess |-> NewSession(a)]], UNCHANGED <<db, handoff>>
      PROVE  Fresh'
  <2>1. PICK n : n = NewSession(a).token
    OBVIOUS
  <2>2. /\ saving'[b] = [pc |-> p, sess |-> NewSession(a)]
        /\ \A c \in Savers \ {b} : saving'[c] = saving[c]
    BY <1>0, <1>2
  <2>3. \A t : SaveHas(b, t)' <=> t = n
    BY <2>1, <2>2 DEF SaveHas
  <2> QED BY <1>0, <1>2, <2>1, <2>2, <2>3, FreshGiven
<1>3. CASE b \in Browsers /\ SignIn(b)
  BY <1>2, <1>3 DEF SignIn
<1>4. CASE b = "cli" /\ CallbackOwn
  BY <1>2, <1>4 DEF CallbackOwn
<1>5. CASE KeepInMemory(b)
  <2>1. /\ UNCHANGED <<given, db, handoff>> /\ saving[b].pc = "memory"
        /\ saving' = [saving EXCEPT ![b].pc = "database"]
    BY <1>5 DEF KeepInMemory, SaveTo, service
  <2>2. /\ saving'[b] = [saving[b] EXCEPT !.pc = "database"]
        /\ \A c \in Savers \ {b} : saving'[c] = saving[c]
    BY <1>0, <2>1
  <2>3. saving'[b].sess = saving[b].sess
    BY <1>0, <2>2
  <2>4. \A t : \A c \in Savers : SaveHas(c, t)' => SaveHas(c, t) /\ saving'[c].sess = saving[c].sess
    BY <2>1, <2>2, <2>3 DEF SaveHas
  <2> QED BY <1>0, <1>1, <2>1, <2>4, FreshKept
<1>6. CASE b = "cli" /\ PollHandoff
  <2>1. /\ UNCHANGED <<given, db, handoff>> /\ saving[b].pc = "idle" /\ handoff # Nil
        /\ \E p \in {"memory", "database"} : saving' = [saving EXCEPT ![b] = [pc |-> p, sess |-> handoff]]
    BY <1>6 DEF PollHandoff, SaveHanded, service
  <2>2. /\ saving'[b].sess = handoff
        /\ \A c \in Savers \ {b} : saving'[c] = saving[c]
    BY <1>0, <2>1
  <2>3. /\ \A t : ~SaveHas(b, t) /\ (SaveHas(b, t)' => HandHas(t))
        /\ \A t : \A c \in Savers \ {b} : SaveHas(c, t)' <=> SaveHas(c, t)
        /\ \A t : (HandHas(t)' <=> HandHas(t)) /\ (RowHas(t)' <=> RowHas(t))
    BY <2>1, <2>2 DEF SaveHas, HandHas, RowHas
  <2>4. \A t : Waits(t)' => Waits(t)
    BY <1>1, <2>3 DEF Waits
  <2>5. Unread'
    BY <1>0, <1>1, <2>3, <2>4 DEF Unread, Fresh
  <2>6. OneHolder'
    <3>1. \A t : \A c \in Savers \ {b} : HandHas(t) => ~SaveHas(c, t)
      BY <1>6 DEF OneHolder, Fresh
    <3>2. \A c, d \in Savers : \A t : SaveHas(c, t)' /\ SaveHas(d, t)' => c = d
      BY <2>3, <3>1 DEF OneHolder, Fresh
    <3>3. \A y \in Syncers : \A t : SyncHas(y, t)' => ~HandHas(t)' /\ \A c \in Savers : ~SaveHas(c, t)'
      BY <1>1, <2>3 DEF OneHolder, Fresh
    <3>4. \A c \in Savers : \A t : SaveHas(c, t)' /\ HandHas(t)' => c = "cli" /\ saving'[c].sess = handoff'
      BY <1>6, <2>1, <2>2, <2>3, <3>1
    <3> QED BY <1>1, <3>2, <3>3, <3>4 DEF OneHolder, Fresh
  <2>7. RowUnspent'
    BY <1>0, <2>3 DEF RowUnspent, Fresh
  <2> QED BY <1>0, <2>1, <2>5, <2>6, <2>7 DEF Fresh
<1>7. CASE SaveAuthSession(b) /\ db' # saving[b].sess
  <2>1. /\ UNCHANGED <<given, db>> /\ handoff' \in {handoff, Nil} /\ saving' = [saving EXCEPT ![b] = NoSave]
    BY <1>7 DEF SaveAuthSession, service
  <2>2. saving'[b].pc = "idle" /\ \A c \in Savers \ {b} : saving'[c] = saving[c]
    BY <1>0, <2>1 DEF NoSave
  <2>3. \A t : \A c \in Savers : SaveHas(c, t)' => SaveHas(c, t) /\ saving'[c].sess = saving[c].sess
    BY <2>2 DEF SaveHas
  <2> QED BY <1>0, <1>1, <2>1, <2>3, FreshKept
<1>8. CASE SaveAuthSession(b) /\ db' = saving[b].sess
  <2>0. PICK n : n = saving[b].sess.token
    OBVIOUS
  <2>1. /\ UNCHANGED given /\ db' = saving[b].sess /\ saving' = [saving EXCEPT ![b] = NoSave]
        /\ handoff' = IF Handed(b) THEN Nil ELSE handoff
        /\ SaveHas(b, n) /\ saving[b].pc # "idle"
    BY <1>0, <1>8, <2>0 DEF SaveAuthSession, service, SaveHas
  <2>2. saving'[b].pc = "idle" /\ \A c \in Savers \ {b} : saving'[c] = saving[c]
    BY <1>0, <2>1 DEF NoSave
  <2>3. db' # Nil
    BY <2>1, NamesAssumption DEF SessInv, Carried, SaveKnown
  <2>4. /\ \A t : ~SaveHas(b, t)'
        /\ \A t : \A c \in Savers \ {b} : SaveHas(c, t)' <=> SaveHas(c, t)
        /\ \A t : RowHas(t)' <=> t = n
        /\ \A t : HandHas(t)' => HandHas(t) /\ handoff' = handoff /\ ~Handed(b)
    BY <2>0, <2>1, <2>2, <2>3 DEF SaveHas, RowHas, HandHas
  <2>5. Waits(n) /\ \A t : Waits(t)' => Waits(t)
    BY <1>1, <2>1, <2>4 DEF Waits
  <2>6. ~Waits(n)'
    <3>1. \A c \in Savers : ~SaveHas(c, n)'
      BY <2>1, <2>4 DEF OneHolder, Fresh
    <3>2. \A y \in Syncers : ~SyncHas(y, n)'
      BY <1>1, <2>1 DEF OneHolder, Fresh
    <3>3. ~HandHas(n)'
      <4>1. HandHas(n) => Handed(b)
        BY <2>1 DEF OneHolder, Fresh, Handed, HandHas
      <4> QED BY <2>4, <4>1
    <3> QED BY <3>1, <3>2, <3>3 DEF Waits
  <2>7. Unread'
    BY <1>0, <1>1, <2>4, <2>5, <2>6 DEF Unread, Fresh
  <2>8. OneHolder'
    BY <1>1, <2>2, <2>4 DEF OneHolder, Fresh
  <2>9. RowUnspent'
    BY <1>0, <2>4, <2>5 DEF RowUnspent, Unread, Fresh
  <2> QED BY <1>0, <2>1, <2>7, <2>8, <2>9 DEF Fresh
<1> QED BY <1>3, <1>4, <1>5, <1>6, <1>7, <1>8 DEF SaveStep

LEMMA WaitFresh == ASSUME SessInv, Fresh, WaitStep PROVE Fresh'
<1>0. UNCHANGED <<spent, db>>
  BY DEF WaitStep, TokenExpires, ReadStored, LoadStoredSession, ServerStarts, ServerStops, StartLogin,
     CompleteHandoff, PollDatabase, LoginTimesOut, service
<1>1. CASE CompleteHandoff
  <2>1. PICK a \in Accounts : NewToken(a) /\ handoff' = NewSession(a)
    BY <1>1 DEF CompleteHandoff
  <2>2. PICK n : n = NewSession(a).token
    OBVIOUS
  <2>3. \A t : HandHas(t)' <=> t = n
    <3>1. NewSession(a) \in Session
      BY <2>1, NewKnown DEF SessInv
    <3>2. handoff' # Nil
      BY <2>1, <3>1, NamesAssumption
    <3> QED BY <2>1, <2>2, <3>2 DEF HandHas
  <2> QED BY <1>0, <1>1, <2>1, <2>2, <2>3, FreshGiven DEF CompleteHandoff
<1>2. CASE ServerStops
  <2>1. /\ UNCHANGED <<given, handoff>> /\ orphaned \subseteq orphaned'
        /\ sync["heartbeat"].pc = "save" => Used \subseteq orphaned'
    BY <1>2 DEF ServerStops, Orphan, service
  <2>2. \A y \in Syncers : sync'[y] = IF y = "heartbeat" THEN IdleSync ELSE sync[y]
    BY <1>2 DEF ServerStops, SessInv, TypeOK
  <2>3. \A t : \A c \in Savers : SaveHas(c, t)' => SaveHas(c, t) /\ saving'[c].sess = saving[c].sess
    <3> SUFFICES ASSUME NEW c \in Savers, saving'[c].pc # "idle"
                 PROVE  saving[c].pc # "idle" /\ saving'[c].sess = saving[c].sess
      BY DEF SaveHas
    <3>1. saving'[c] = IF c # "cli" THEN NoSave
                       ELSE IF saving[c].pc = "memory" THEN [saving[c] EXCEPT !.pc = "database"] ELSE saving[c]
      BY <1>2 DEF ServerStops
    <3>2. saving[c] \in [pc : {"idle", "memory", "database"}, sess : Session \cup {Nil}]
      BY DEF SessInv, TypeOK
    <3> QED BY <3>1, <3>2 DEF NoSave
  <2>4. \A y \in Syncers : \A t : (SyncHas(y, t)' => SyncHas(y, t)) /\ (UsedBy(y, t)' => UsedBy(y, t))
    BY <2>2 DEF SyncHas, UsedBy, IdleSync
  <2>5. Used \subseteq orphaned' \/ \A y \in Syncers : sync[y].pc = "save" => sync'[y].pc = "save"
    BY <2>1, <2>2
  <2> QED BY <1>0, <2>1, <2>3, <2>4, <2>5, FreshKept
<1>3. CASE ~CompleteHandoff /\ ~ServerStops
  <2>1. UNCHANGED <<given, sync, saving, orphaned>> /\ handoff' \in {handoff, Nil}
    BY <1>3 DEF WaitStep, TokenExpires, ReadStored, LoadStoredSession, ServerStarts, StartLogin, PollDatabase,
                LoginTimesOut, service
  <2>2. \A t : \A c \in Savers : SaveHas(c, t)' => SaveHas(c, t) /\ saving'[c].sess = saving[c].sess
    BY <2>1 DEF SaveHas
  <2>3. \A t : \A y \in Syncers : (SyncHas(y, t)' <=> SyncHas(y, t)) /\ (UsedBy(y, t)' <=> UsedBy(y, t))
    BY <2>1 DEF SyncHas, UsedBy
  <2> QED BY <1>0, <2>1, <2>2, <2>3, FreshKept
<1> QED BY <1>1, <1>2, <1>3

LEMMA FreshStep == FreshInv /\ [Next]_vars => FreshInv'
<1> SUFFICES ASSUME FreshInv, [Next]_vars PROVE FreshInv'
  OBVIOUS
<1>0. SessInv /\ SessInv' /\ Fresh
  BY SessionStep DEF FreshInv
<1>1. Next => (\E y \in Syncers : SyncStep(y)) \/ (\E b \in Savers : SaveStep(b)) \/ WaitStep
  BY DEF Next, SyncStep, SaveStep, WaitStep, Savers
<1>2. CASE UNCHANGED vars
  BY <1>0, <1>2 DEF vars, FreshInv, Fresh, Unread, OneHolder, RowUnspent, Waits, SaveHas, SyncHas, HandHas,
     RowHas, UsedBy
<1>3. CASE Next
  BY <1>0, <1>1, <1>3, SyncFresh, SaveFresh, WaitFresh DEF FreshInv
<1> QED BY <1>2, <1>3

(***************************************************************************)
(* No refresh, by whichever process and in whatever order, leaves a used   *)
(* token in the database, so that the next one is refused, unless the      *)
(* tokens it got were lost before they were saved: on the way, by a save   *)
(* that failed, or by the server's exit.                                   *)
(***************************************************************************)
THEOREM SignedInKept == Spec => []StaysSignedIn
<1>1. FreshInv => StaysSignedIn
  BY DEF FreshInv, Fresh, RowUnspent, RowHas, StaysSignedIn
<1> QED BY <1>1, InitFresh, FreshStep, PTL DEF Spec

=============================================================================
