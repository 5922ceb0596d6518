--------------------------- MODULE DevicePairing ---------------------------
(***************************************************************************)
(* How a phone becomes a device of the server and what its token opens:    *)
(* cmd/device_auth.go (pairing codes, their redemption, device tokens),    *)
(* cmd/authorization.go (authorizeUser) and the middleware around every    *)
(* handler (withAuth, withStrictAuth), while the account that owns the     *)
(* server may change (SaveAuthSession, also from another process).         *)
(*                                                                         *)
(* The database is SQLite in WAL mode: a transaction reads the snapshot of *)
(* its first statement, and its first write fails when that snapshot is no *)
(* longer the newest.  A transaction holds one of the pool's connections;  *)
(* any other statement takes a free one for its own duration.              *)
(***************************************************************************)
EXTENDS Integers, FiniteSets

CONSTANTS
    Accounts,     \* users of the account service
    Devices,      \* device ids
    Codes,        \* pairing codes (pairing_token), each made once
    Phones,       \* redemptions that may run at a time
    Requests,     \* API requests that may run at a time
    Connections,  \* SetMaxOpenConns
    MaxTokens,    \* bound: device tokens made
    MaxTrouble,   \* bound: crashes and failing calls
    Nil

ASSUME BoundsAssumption ==
    Connections \in Nat \ {0} /\ MaxTokens \in Nat /\ MaxTrouble \in Nat

VARIABLES
    owner,    \* server_config.auth_user_id
    codes,    \* pairing_sessions: who made each code and the device that used it
    expired,  \* codes made more than ten minutes ago
    creds,    \* device_credentials: the token of each device and its account
    redeem,   \* the transaction of each redemption, with what its snapshot shows
    writer,   \* the redemption that holds the database's write lock
    stale,    \* redemptions whose snapshot is no longer the newest
    request,  \* API requests: how far each is, who sends it, what it read and
              \* (history) the owners the server had meanwhile
    tokens,   \* device tokens made so far
    issued,   \* history: the pairings that were committed
    trouble

vars == <<owner, codes, expired, creds, redeem, writer, stale, request,
          tokens, issued, trouble>>

Session    == [by : Accounts, used : Devices \cup {Nil}]
Credential == [token : 0..MaxTokens, owner : Accounts \cup {Nil}]
Pairing    == [code : Codes, device : Devices, token : 1..MaxTokens, owner : Accounts]

Redemption == [pc : {"idle", "owner", "device", "use", "commit"}, code : Codes \cup {Nil},
               device : Devices \cup {Nil}, owner : Accounts \cup {Nil}, token : 0..MaxTokens]
Call == [pc : {"idle", "touch", "link", "bound", "serve"}, user : Accounts \cup Devices \cup {Nil},
         token : 0..MaxTokens, path : {"media", "pairing"}, link : Accounts \cup {Nil},
         owners : SUBSET (Accounts \cup {Nil})]

ASSUME NamesAssumption ==
    /\ Nil \notin Accounts \cup Devices \cup Codes \cup Phones \cup Session \cup Credential
    /\ Accounts \cap Devices = {}

NoRedeem  == [pc |-> "idle", code |-> Nil, device |-> Nil, owner |-> Nil, token |-> 0]
NoRequest == [pc |-> "idle", user |-> Nil, token |-> 0, path |-> "media", link |-> Nil,
              owners |-> {}]

\* An older version may have paired a device, without noting the account.
Init ==
    /\ owner \in Accounts \cup {Nil}
    /\ codes = [c \in Codes |-> Nil] /\ expired = {}
    /\ \E D \in SUBSET Devices, o \in {owner, Nil} :
        /\ Cardinality(D) <= 1
        /\ creds = [d \in Devices |-> IF d \in D THEN [token |-> 0, owner |-> o] ELSE Nil]
    /\ redeem = [r \in Phones |-> NoRedeem] /\ writer = Nil /\ stale = {}
    /\ request = [q \in Requests |-> NoRequest]
    /\ tokens = 0 /\ issued = {}
    /\ trouble = 0

Trouble == trouble < MaxTrouble /\ trouble' = trouble + 1
NoTrouble == UNCHANGED trouble

InTransaction == {r \in Phones : redeem[r].pc # "idle"}
FreeConnection == Cardinality(InTransaction) < Connections

\* What a commit does to the transactions that have only read so far.
Outdate(r) == stale' = (stale \cup InTransaction) \ {r}
Written == writer = Nil /\ Outdate(Nil) /\ UNCHANGED writer

(***************************************************************************)
(* The account that owns the server changes: the first sign-in, or another *)
(* account signs in.                                                       *)
(***************************************************************************)
SaveAuthSession(a) ==
    /\ owner # a /\ owner' = a /\ Written
    /\ request' = [q \in Requests |->
        IF request[q].pc = "idle" THEN NoRequest ELSE [request[q] EXCEPT !.owners = @ \cup {a}]]
    /\ UNCHANGED <<codes, expired, creds, redeem, tokens, issued, trouble>>

CodeExpires(c) ==
    /\ codes[c] # Nil /\ c \notin expired /\ expired' = expired \cup {c}
    /\ UNCHANGED <<owner, codes, creds, redeem, writer, stale, request, tokens, issued, trouble>>

(***************************************************************************)
(* A request: withAuth (or withStrictAuth), then its handler.              *)
(***************************************************************************)
ReqTo(q, s)  == request' = [request EXCEPT ![q].pc = s]
Refuse(q)    == request' = [request EXCEPT ![q] = NoRequest]

\* The account service signs a user's token; it stays valid when the owner changes.
VerifyAccount(q) ==
    /\ request[q].pc = "idle"
    /\ \E a \in Accounts, path \in {"media", "pairing"} :
        request' = [request EXCEPT ![q] =
            [pc |-> "bound", user |-> a, token |-> 0, path |-> path, link |-> a,
             owners |-> {owner}]]
    /\ UNCHANGED <<owner, codes, expired, creds, redeem, writer, stale, tokens, issued, trouble>>

VerifyDevice(q) ==
    /\ request[q].pc = "idle" /\ FreeConnection
    /\ \E d \in Devices, path \in {"media", "pairing"} :
        /\ creds[d] # Nil
        /\ request' = [request EXCEPT ![q] =
            [pc |-> "touch", user |-> d, token |-> creds[d].token, path |-> path,
             link |-> Nil, owners |-> {owner}]]
    /\ UNCHANGED <<owner, codes, expired, creds, redeem, writer, stale, tokens, issued, trouble>>

\* last_used_at: its error is ignored.
TouchDevice(q) ==
    /\ request[q].pc = "touch" /\ FreeConnection
    /\ ReqTo(q, "link")
    /\ \/ Written /\ NoTrouble
       \/ Trouble /\ UNCHANGED <<writer, stale>>
    /\ UNCHANGED <<owner, codes, expired, creds, redeem, tokens, issued>>

\* By the device, no longer by the token.
ReadLink(q) ==
    LET d == request[q].user IN
    /\ request[q].pc = "link" /\ FreeConnection
    /\ \/ /\ creds[d].owner # Nil /\ NoTrouble
          /\ request' = [request EXCEPT ![q].pc = "bound", ![q].link = creds[d].owner]
       \/ creds[d].owner = Nil /\ Refuse(q) /\ NoTrouble
       \/ Refuse(q) /\ Trouble
    /\ UNCHANGED <<owner, codes, expired, creds, redeem, writer, stale, tokens, issued>>

\* Mutant: any account that a device is linked to will do.
LinkSuffices(q) ==
    request[q].link # Nil /\ (request[q].user \in Devices \/ owner = request[q].link)

\* A device may only use the media routes.
Allowed(q) ==
    owner = request[q].link /\ (request[q].user \in Devices => request[q].path = "media")

CheckBound(q) ==
    /\ request[q].pc = "bound" /\ FreeConnection
    /\ \/ Allowed(q) /\ ReqTo(q, "serve") /\ NoTrouble
       \/ ~Allowed(q) /\ Refuse(q) /\ NoTrouble
       \/ Refuse(q) /\ Trouble
    /\ UNCHANGED <<owner, codes, expired, creds, redeem, writer, stale, tokens, issued>>

ServeMedia(q) ==
    /\ request[q].pc = "serve" /\ request[q].path = "media" /\ Refuse(q)
    /\ UNCHANGED <<owner, codes, expired, creds, redeem, writer, stale, tokens, issued, trouble>>

CreatePairingSession(q) ==
    /\ request[q].pc = "serve" /\ request[q].path = "pairing" /\ FreeConnection
    /\ Refuse(q)
    /\ \/ /\ \E c \in Codes : codes[c] = Nil
                /\ codes' = [codes EXCEPT ![c] = [by |-> request[q].user, used |-> Nil]]
          /\ Written /\ NoTrouble
       \/ Trouble /\ UNCHANGED <<codes, writer, stale>>
       \/ (\A c \in Codes : codes[c] # Nil) /\ NoTrouble /\ UNCHANGED <<codes, writer, stale>>
    /\ UNCHANGED <<owner, expired, creds, redeem, tokens, issued>>

(***************************************************************************)
(* A phone redeems a code, in one transaction.                             *)
(***************************************************************************)
RedeemTo(r, s) == redeem' = [redeem EXCEPT ![r].pc = s]
Rollback(r) ==
    /\ redeem' = [redeem EXCEPT ![r] = NoRedeem]
    /\ stale' = stale \ {r}
    /\ writer' = IF writer = r THEN Nil ELSE writer

\* A code that is unknown, used or expired is refused at once.
ReadSession(r) ==
    /\ redeem[r].pc = "idle" /\ FreeConnection
    /\ \E c \in Codes \ expired, d \in Devices :
        /\ codes[c] # Nil /\ codes[c].used = Nil
        /\ redeem' = [redeem EXCEPT ![r] =
            [pc |-> "owner", code |-> c, device |-> d, owner |-> owner, token |-> 0]]
    /\ UNCHANGED <<owner, codes, expired, creds, writer, stale, request, tokens, issued, trouble>>

\* Mutant: boundOwnerID, on a connection of its own.
CheckOwnerElsewhere(r) ==
    /\ redeem[r].pc = "owner" /\ FreeConnection
    /\ \/ /\ owner = codes[redeem[r].code].by /\ tokens < MaxTokens
          /\ tokens' = tokens + 1
          /\ redeem' = [redeem EXCEPT ![r].pc = "device", ![r].token = tokens + 1]
          /\ UNCHANGED <<writer, stale>>
       \/ Rollback(r) /\ UNCHANGED tokens
    /\ UNCHANGED <<owner, codes, expired, creds, request, issued, trouble>>

\* The owner as the snapshot has it.
CheckOwner(r) ==
    LET same == redeem[r].owner = codes[redeem[r].code].by IN
    /\ redeem[r].pc = "owner"
    /\ \/ /\ same /\ tokens < MaxTokens /\ tokens' = tokens + 1
          /\ redeem' = [redeem EXCEPT ![r].pc = "device", ![r].token = tokens + 1]
          /\ NoTrouble /\ UNCHANGED <<writer, stale>>
       \/ (same => tokens = MaxTokens) /\ Rollback(r) /\ NoTrouble /\ UNCHANGED tokens
       \/ Rollback(r) /\ Trouble /\ UNCHANGED tokens
    /\ UNCHANGED <<owner, codes, expired, creds, request, issued>>

\* Mutant: the database would let an old snapshot be written to.
RegisterStale(r) ==
    /\ redeem[r].pc = "device" /\ writer = Nil
    /\ RedeemTo(r, "use") /\ writer' = r /\ UNCHANGED stale
    /\ UNCHANGED <<owner, codes, expired, creds, request, tokens, issued, trouble>>

\* The first write takes the write lock, or fails; it gives up when the lock is
\* not free in time (busy_timeout).
RegisterDevice(r) ==
    /\ redeem[r].pc = "device"
    /\ \/ /\ writer = Nil /\ r \notin stale
          /\ RedeemTo(r, "use") /\ writer' = r /\ NoTrouble /\ UNCHANGED stale
       \/ (writer # Nil \/ r \in stale) /\ Rollback(r) /\ NoTrouble
       \/ Rollback(r) /\ Trouble
    /\ UNCHANGED <<owner, codes, expired, creds, request, tokens, issued>>

\* The credential, and the guarded update of the code.
UseSession(r) ==
    /\ redeem[r].pc = "use"
    /\ \/ codes[redeem[r].code].used = Nil /\ RedeemTo(r, "commit") /\ NoTrouble /\ UNCHANGED <<writer, stale>>
       \/ codes[redeem[r].code].used # Nil /\ Rollback(r) /\ NoTrouble
       \/ Rollback(r) /\ Trouble
    /\ UNCHANGED <<owner, codes, expired, creds, request, tokens, issued>>

\* Mutant: the code is marked by an update that another statement's rollback loses.
CodeKept(r) == UNCHANGED codes

CodeUsed(r) == codes' = [codes EXCEPT ![redeem[r].code].used = redeem[r].device]

CommitRedeem(r) ==
    LET m == redeem[r] IN
    /\ m.pc = "commit"
    /\ redeem' = [redeem EXCEPT ![r] = NoRedeem] /\ writer' = Nil
    /\ \/ /\ creds' = [creds EXCEPT ![m.device] = [token |-> m.token, owner |-> m.owner]]
          /\ CodeUsed(r)
          /\ issued' = issued \cup
                {[code |-> m.code, device |-> m.device, token |-> m.token, owner |-> m.owner]}
          /\ Outdate(r) /\ NoTrouble
       \/ Trouble /\ stale' = stale \ {r} /\ UNCHANGED <<codes, creds, issued>>
    /\ UNCHANGED <<owner, expired, request, tokens>>

\* The server dies: what was not committed is gone.
Crash ==
    /\ Trouble
    /\ redeem' = [r \in Phones |-> NoRedeem] /\ writer' = Nil /\ stale' = {}
    /\ request' = [q \in Requests |-> NoRequest]
    /\ UNCHANGED <<owner, codes, expired, creds, tokens, issued>>

RedeemStep(r) == CheckOwner(r) \/ RegisterDevice(r) \/ UseSession(r) \/ CommitRedeem(r)
RequestStep(q) ==
    TouchDevice(q) \/ ReadLink(q) \/ CheckBound(q) \/ ServeMedia(q) \/ CreatePairingSession(q)

Next ==
    \/ \E a \in Accounts : SaveAuthSession(a)
    \/ \E c \in Codes : CodeExpires(c)
    \/ \E r \in Phones : ReadSession(r) \/ RedeemStep(r)
    \/ \E q \in Requests : VerifyAccount(q) \/ VerifyDevice(q) \/ RequestStep(q)
    \/ Crash

Spec == Init /\ [][Next]_vars

-----------------------------------------------------------------------------
TypeOK ==
    /\ owner \in Accounts \cup {Nil}
    /\ codes \in [Codes -> Session \cup {Nil}] /\ expired \subseteq Codes
    /\ creds \in [Devices -> Credential \cup {Nil}]
    /\ redeem \in [Phones -> Redemption]
    /\ writer \in Phones \cup {Nil} /\ stale \subseteq Phones
    /\ request \in [Requests -> Call]
    /\ tokens \in 0..MaxTokens /\ issued \subseteq Pairing
    /\ trouble \in 0..MaxTrouble

(***************************************************************************)
(* One code pairs one phone, and with the account that made the code:      *)
(* however many phones redeem it together, whichever of them fails or is   *)
(* cut off, and whoever signs in meanwhile.                                *)
(***************************************************************************)
CodePairsOnce ==
    /\ \A x \in issued : codes[x.code] = [by |-> x.owner, used |-> x.device]
    /\ \A x, y \in issued : x.code = y.code => x = y

(***************************************************************************)
(* A redemption is atomic, though it reads and writes in several           *)
(* statements while others redeem, an owner signs in and calls fail: to    *)
(* the rest of the server it is the one step Pair of AtomicPairing.tla,    *)
(* with the owner of that moment, or nothing.                              *)
(***************************************************************************)
P == INSTANCE AtomicPairing WITH Tokens <- 1..MaxTokens
ImplementsPairing == P!Spec

(***************************************************************************)
(* A request is served only for an account that owned the server while it  *)
(* ran: the sender's own, or the one its device's token was made for,      *)
(* unless the device was paired again meanwhile.                           *)
(***************************************************************************)
MadeFor(d, t) ==
    IF t = 0 THEN {creds[d].owner} ELSE {x.owner : x \in {y \in issued : y.token = t}}
ServedForOwner ==
    \A q \in Requests : request[q].pc = "serve" =>
        LET u == request[q].user IN
        \/ u \in Accounts /\ u \in request[q].owners
        \/ u \in Devices /\ (MadeFor(u, request[q].token) \cap request[q].owners # {}
                             \/ creds[u].token # request[q].token)

(***************************************************************************)
(* The pool of connections cannot be used up by redemptions that wait for  *)
(* each other: each of them can always go on, with the connection it has.  *)
(***************************************************************************)
RedeemsMove == \A r \in InTransaction : ENABLED RedeemStep(r)

=============================================================================
