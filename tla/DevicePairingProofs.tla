------------------------ MODULE DevicePairingProofs ------------------------
(***************************************************************************)
(* For any accounts, devices, codes, phones and requests: a pairing code   *)
(* pairs one device, with the account that made it, a device is linked to  *)
(* the account that owns the server when it is linked, and a request is    *)
(* served for an owner or one of its devices only.                         *)
(***************************************************************************)
EXTENDS DevicePairing, TLAPS

(***************************************************************************)
(* A request knows its sender; one for a pairing code is an account's.     *)
(***************************************************************************)
Sender == \A q \in Requests :
    /\ request[q].pc # "idle" => request[q].user # Nil
    /\ request[q].pc \in {"touch", "link"} =>
           request[q].user \in Devices /\ creds[request[q].user] \in Credential
    /\ request[q].pc = "serve" => request[q].user \notin Devices \/ request[q].path = "media"

(***************************************************************************)
(* What a redemption has found out, and who may write: its code exists and *)
(* stays its account's; past its first write it holds the lock, and while  *)
(* its snapshot is the newest its owner is the server's.                   *)
(***************************************************************************)
Located(r) ==
    redeem[r].pc # "idle" =>
        /\ redeem[r].code \in Codes /\ codes[redeem[r].code] \in Session
        /\ redeem[r].device \in Devices
Owned(r) ==
    redeem[r].pc \in {"device", "use", "commit"} =>
        redeem[r].owner = codes[redeem[r].code].by /\ redeem[r].token >= 1
Locked(r) ==
    /\ redeem[r].pc \in {"use", "commit"} => writer = r
    /\ redeem[r].pc = "commit" => codes[redeem[r].code].used = Nil
Newest(r) ==
    redeem[r].pc # "idle" /\ (r \notin stale \/ writer = r) => redeem[r].owner = owner

Redeeming == \A r \in Phones : Located(r) /\ Owned(r) /\ Locked(r) /\ Newest(r)

PairInv == TypeOK /\ Sender /\ Redeeming /\ CodePairsOnce

LEMMA InitPair == Init => PairInv
<1> SUFFICES ASSUME Init PROVE PairInv
  OBVIOUS
<1> USE BoundsAssumption, NamesAssumption DEF Init
<1>1. creds \in [Devices -> Credential \cup {Nil}]
  BY DEF Credential
<1>2. TypeOK
  BY <1>1 DEF TypeOK, NoRedeem, NoRequest, Redemption, Call
<1>3. Sender /\ Redeeming
  BY DEF Sender, Redeeming, Located, Owned, Locked, Newest, NoRequest, NoRedeem
<1>4. CodePairsOnce
  BY DEF CodePairsOnce
<1> QED BY <1>2, <1>3, <1>4 DEF PairInv

LEMMA TroubleType == ASSUME TypeOK, Trouble \/ NoTrouble PROVE trouble' \in 0..MaxTrouble
BY BoundsAssumption DEF TypeOK, Trouble, NoTrouble

(***************************************************************************)
(* The requests touch neither redemptions nor pairings; a statement that   *)
(* writes makes every running snapshot an old one.                         *)
(***************************************************************************)
\* How a step of request q may change it.
Moves(q) ==
    LET m == request[q]
        n == request'[q] IN
    /\ request' = [request EXCEPT ![q] = n]
    /\ n \in Call
    /\ n.pc # "idle" => m.pc # "idle" /\ n.user = m.user /\ n.path = m.path
    /\ n.pc = "link" => m.pc = "touch"
    /\ n.pc # "touch"
    /\ n.pc = "serve" => m.user \notin Devices \/ m.path = "media"

LEMMA RequestMoves == ASSUME PairInv, NEW q \in Requests, RequestStep(q) PROVE Moves(q)
<1> DEFINE m == request[q]
           n == request'[q]
<1>0. request \in [Requests -> Call] /\ m \in Call
  BY DEF PairInv, TypeOK
<1>1. CASE request' = [request EXCEPT ![q] = NoRequest]
  <2>1. n = NoRequest
    BY <1>0, <1>1
  <2>2. NoRequest \in Call
    BY BoundsAssumption DEF Call, NoRequest
  <2> QED BY <1>0, <1>1, <2>1, <2>2 DEF Moves, NoRequest
<1>2. ASSUME NEW s \in {"link", "serve"}, request' = [request EXCEPT ![q].pc = s],
             s = "link" => m.pc = "touch", s = "serve" => m.pc = "bound" /\ Allowed(q)
      PROVE  Moves(q)
  <2>1. n = [m EXCEPT !.pc = s]
    BY <1>0, <1>2
  <2>2. request' = [request EXCEPT ![q] = n]
    BY <1>0, <1>2, <2>1
  <2>3. n \in Call /\ n.pc = s /\ n.user = m.user /\ n.path = m.path
    BY <1>0, <2>1 DEF Call
  <2>4. m.pc # "idle"
    BY <1>2
  <2>5. s = "serve" => m.user \notin Devices \/ m.path = "media"
    BY <1>2 DEF Allowed
  <2> QED BY <1>2, <2>2, <2>3, <2>4, <2>5 DEF Moves
<1>3. CASE ReadLink(q) /\ request' # [request EXCEPT ![q] = NoRequest]
  <2>1. /\ m.pc = "link" /\ m.user \in Devices /\ creds[m.user] \in Credential
        /\ creds[m.user].owner # Nil
        /\ request' = [request EXCEPT ![q].pc = "bound", ![q].link = creds[m.user].owner]
    BY <1>3 DEF ReadLink, Refuse, PairInv, Sender
  <2>2. creds[m.user].owner \in Accounts
    BY <2>1 DEF Credential
  <2>3. n = [m EXCEPT !.pc = "bound", !.link = creds[m.user].owner]
    BY <1>0, <2>1
  <2>4. n \in Call /\ n.pc = "bound" /\ n.user = m.user /\ n.path = m.path
    BY <1>0, <2>2, <2>3 DEF Call
  <2>5. request' = [request EXCEPT ![q] = n]
    BY <1>0, <2>1, <2>3
  <2> QED BY <2>1, <2>4, <2>5 DEF Moves
<1>4. CASE ~ReadLink(q) /\ request' # [request EXCEPT ![q] = NoRequest]
  <2>1. \/ m.pc = "touch" /\ request' = [request EXCEPT ![q].pc = "link"]
        \/ m.pc = "bound" /\ Allowed(q) /\ request' = [request EXCEPT ![q].pc = "serve"]
    BY <1>4 DEF RequestStep, TouchDevice, CheckBound, ServeMedia, CreatePairingSession, Refuse, ReqTo
  <2> QED BY <1>2, <2>1
<1> QED BY <1>1, <1>3, <1>4

LEMMA RequestType == ASSUME PairInv, NEW q \in Requests, RequestStep(q) PROVE TypeOK' /\ Sender'
<1>1. Moves(q)
  BY RequestMoves
<1>2. /\ UNCHANGED <<owner, expired, creds, redeem, tokens, issued, writer>>
      /\ stale' \subseteq stale \cup Phones
  BY DEF RequestStep, TouchDevice, ReadLink, CheckBound, ServeMedia, CreatePairingSession,
         Written, Outdate, InTransaction
<1>3. trouble' \in 0..MaxTrouble
  <2>1. Trouble \/ NoTrouble
    BY DEF RequestStep, TouchDevice, ReadLink, CheckBound, ServeMedia, CreatePairingSession, NoTrouble
  <2> QED BY <2>1, TroubleType DEF PairInv
<1>4. codes' \in [Codes -> Session \cup {Nil}]
  <2>0. codes \in [Codes -> Session \cup {Nil}] /\ request[q] \in Call
    BY DEF PairInv, TypeOK
  <2>1. CASE codes' = codes
    BY <2>0, <2>1
  <2>2. CASE CreatePairingSession(q) /\ codes' # codes
    <3>1. request[q].user \in Accounts
      BY <2>0, <2>2, NamesAssumption DEF CreatePairingSession, PairInv, Sender, Call
    <3>2. [by |-> request[q].user, used |-> Nil] \in Session
      BY <3>1 DEF Session
    <3> QED BY <2>0, <2>2, <3>2 DEF CreatePairingSession
  <2> QED BY <2>1, <2>2 DEF RequestStep, TouchDevice, ReadLink, CheckBound, ServeMedia
<1>5. request' \in [Requests -> Call]
  BY <1>1 DEF Moves, PairInv, TypeOK
<1>6. TypeOK'
  BY <1>2, <1>3, <1>4, <1>5 DEF PairInv, TypeOK
<1>7. Sender'
  <2> SUFFICES ASSUME NEW p \in Requests
               PROVE /\ request'[p].pc # "idle" => request'[p].user # Nil
                     /\ request'[p].pc \in {"touch", "link"} =>
                            request'[p].user \in Devices /\ creds'[request'[p].user] \in Credential
                     /\ request'[p].pc = "serve" =>
                            request'[p].user \notin Devices \/ request'[p].path = "media"
    BY DEF Sender
  <2>1. CASE p = q
    BY <1>1, <1>2, <2>1 DEF Moves, PairInv, Sender
  <2>2. CASE p # q
    <3>1. request'[p] = request[p]
      BY <1>1, <2>2 DEF Moves, PairInv, TypeOK
    <3> QED BY <1>2, <3>1 DEF PairInv, Sender
  <2> QED BY <2>1, <2>2
<1> QED BY <1>6, <1>7

\* The code of a pairing is used up.
LEMMA IssuedUsed ==
    ASSUME PairInv, NEW x \in issued
    PROVE  x.code \in Codes /\ codes[x.code] \in Session /\ codes[x.code].used \in Devices
<1>1. x \in Pairing
  BY DEF PairInv, TypeOK
<1>2. x.code \in Codes /\ x.owner \in Accounts /\ x.device \in Devices
  BY <1>1 DEF Pairing
<1>3. codes[x.code] = [by |-> x.owner, used |-> x.device]
  BY DEF PairInv, CodePairsOnce
<1> QED BY <1>2, <1>3 DEF Session

\* What a step outside of the redemptions may do to what they rely on.
Aside ==
    /\ UNCHANGED <<redeem, creds, issued>> /\ writer' = writer
    /\ \A c \in Codes : codes[c] \in Session => codes'[c] = codes[c]
    /\ stale \subseteq stale'
    /\ owner' # owner => writer = Nil /\ InTransaction \subseteq stale'

LEMMA AsideKeeps == ASSUME PairInv, Aside PROVE Redeeming' /\ CodePairsOnce'
<1>1. Redeeming'
  <2> SUFFICES ASSUME NEW r \in Phones PROVE (Located(r) /\ Owned(r) /\ Locked(r) /\ Newest(r))'
    BY DEF Redeeming
  <2>1. Located(r) /\ Owned(r) /\ Locked(r) /\ Newest(r) /\ redeem' = redeem /\ writer' = writer
    BY DEF PairInv, Redeeming, Aside
  <2>2. redeem[r].pc # "idle" => codes'[redeem[r].code] = codes[redeem[r].code]
    BY <2>1 DEF Aside, Located
  <2>3. (Located(r) /\ Owned(r) /\ Locked(r))'
    BY <2>1, <2>2 DEF Located, Owned, Locked
  <2>4. Newest(r)'
    BY <2>1, NamesAssumption DEF Aside, Newest, InTransaction
  <2> QED BY <2>3, <2>4
<1>2. \A x \in issued : x.code \in Codes /\ codes[x.code] \in Session
  BY IssuedUsed
<1>3. CodePairsOnce'
  BY <1>2 DEF Aside, PairInv, CodePairsOnce
<1> QED BY <1>1, <1>3

LEMMA RequestAside == ASSUME PairInv, NEW q \in Requests, RequestStep(q) PROVE Aside
<1> USE NamesAssumption
<1>1. CASE CreatePairingSession(q)
  <2>1. \A c \in Codes : codes[c] \in Session => codes'[c] = codes[c]
    BY <1>1 DEF CreatePairingSession, PairInv, TypeOK
  <2>2. writer' = writer /\ stale \subseteq stale'
    BY <1>1 DEF CreatePairingSession, Written, Outdate, PairInv, TypeOK
  <2> QED BY <1>1, <2>1, <2>2 DEF CreatePairingSession, Aside
<1>2. CASE TouchDevice(q)
  <2>1. writer' = writer /\ stale \subseteq stale'
    BY <1>2 DEF TouchDevice, Written, Outdate, PairInv, TypeOK
  <2> QED BY <1>2, <2>1 DEF TouchDevice, Aside
<1>3. CASE ReadLink(q) \/ CheckBound(q) \/ ServeMedia(q)
  BY <1>3 DEF ReadLink, CheckBound, ServeMedia, Aside
<1> QED BY <1>1, <1>2, <1>3 DEF RequestStep

(***************************************************************************)
(* The redemptions.                                                        *)
(***************************************************************************)
LEMMA RedeemType ==
    ASSUME PairInv, NEW r \in Phones, ReadSession(r) \/ RedeemStep(r) PROVE TypeOK' /\ Sender'
<1> USE BoundsAssumption, NamesAssumption
<1>0. /\ redeem \in [Phones -> Redemption] /\ redeem[r] \in Redemption
      /\ creds \in [Devices -> Credential \cup {Nil}]
      /\ codes \in [Codes -> Session \cup {Nil}]
  BY DEF PairInv, TypeOK
<1>1. UNCHANGED <<owner, expired, request>> /\ writer' \in {writer, r, Nil} /\ stale' \subseteq stale \cup Phones
  BY DEF ReadSession, RedeemStep, CheckOwner, RegisterDevice, UseSession, CommitRedeem, Rollback,
         Outdate, InTransaction
<1>2. trouble' \in 0..MaxTrouble
  <2>1. Trouble \/ NoTrouble
    BY DEF ReadSession, RedeemStep, CheckOwner, RegisterDevice, UseSession, CommitRedeem, NoTrouble
  <2> QED BY <2>1, TroubleType DEF PairInv
<1>3. tokens' \in 0..MaxTokens
  BY DEF PairInv, TypeOK, ReadSession, RedeemStep, CheckOwner, RegisterDevice, UseSession, CommitRedeem
<1>4. redeem' \in [Phones -> Redemption]
  <2>1. NoRedeem \in Redemption
    BY DEF NoRedeem, Redemption
  <2>2. CASE redeem' = [redeem EXCEPT ![r] = NoRedeem]
    BY <1>0, <2>1, <2>2
  <2>3. CASE ReadSession(r)
    <3>1. PICK c \in Codes, d \in Devices : redeem' = [redeem EXCEPT ![r] =
            [pc |-> "owner", code |-> c, device |-> d, owner |-> owner, token |-> 0]]
      BY <2>3 DEF ReadSession
    <3>2. [pc |-> "owner", code |-> c, device |-> d, owner |-> owner, token |-> 0] \in Redemption
      BY DEF PairInv, TypeOK, Redemption
    <3> QED BY <1>0, <3>1, <3>2
  <2>4. ASSUME NEW s \in {"use", "commit"}, RedeemTo(r, s) PROVE redeem' \in [Phones -> Redemption]
    <3>1. [redeem[r] EXCEPT !.pc = s] \in Redemption
      BY <1>0 DEF Redemption
    <3> QED BY <1>0, <2>4, <3>1 DEF RedeemTo
  <2>5. CASE /\ tokens < MaxTokens
             /\ redeem' = [redeem EXCEPT ![r].pc = "device", ![r].token = tokens + 1]
    <3>1. tokens + 1 \in 0..MaxTokens
      BY <2>5 DEF PairInv, TypeOK
    <3>2. [redeem[r] EXCEPT !.pc = "device", !.token = tokens + 1] \in Redemption
      BY <1>0, <3>1 DEF Redemption
    <3>3. redeem' = [redeem EXCEPT ![r] = [redeem[r] EXCEPT !.pc = "device", !.token = tokens + 1]]
      BY <1>0, <2>5
    <3> QED BY <1>0, <3>2, <3>3
  <2> QED BY <2>2, <2>3, <2>4, <2>5
     DEF RedeemStep, CheckOwner, RegisterDevice, UseSession, CommitRedeem, Rollback
<1>5. /\ codes' \in [Codes -> Session \cup {Nil}]
      /\ creds' \in [Devices -> Credential \cup {Nil}]
      /\ \A d \in Devices : creds[d] \in Credential => creds'[d] \in Credential
      /\ issued' \subseteq Pairing
  <2>1. CASE UNCHANGED <<codes, creds, issued>>
    BY <2>1 DEF PairInv, TypeOK
  <2>2. CASE CommitRedeem(r) /\ ~UNCHANGED <<codes, creds, issued>>
    <3> DEFINE m == redeem[r]
    <3>1. /\ m.code \in Codes /\ m.device \in Devices /\ codes[m.code] \in Session
          /\ m.owner \in Accounts /\ m.token \in 1..MaxTokens
      BY <1>0, <2>2 DEF CommitRedeem, PairInv, Redeeming, Located, Owned, Session, Redemption
    <3>2. /\ creds' = [creds EXCEPT ![m.device] = [token |-> m.token, owner |-> m.owner]]
          /\ codes' = [codes EXCEPT ![m.code].used = m.device]
          /\ issued' = issued \cup
                {[code |-> m.code, device |-> m.device, token |-> m.token, owner |-> m.owner]}
      BY <2>2 DEF CommitRedeem, CodeUsed
    <3>3. [token |-> m.token, owner |-> m.owner] \in Credential
      BY <3>1 DEF Credential
    <3>4. [codes[m.code] EXCEPT !.used = m.device] \in Session
      BY <3>1 DEF Session
    <3>5. [code |-> m.code, device |-> m.device, token |-> m.token, owner |-> m.owner] \in Pairing
      BY <3>1 DEF Pairing
    <3>6. issued \subseteq Pairing
      BY DEF PairInv, TypeOK
    <3> HIDE DEF m
    <3> QED BY <1>0, <3>1, <3>2, <3>3, <3>4, <3>5, <3>6
  <2> QED BY <2>1, <2>2 DEF ReadSession, RedeemStep, CheckOwner, RegisterDevice, UseSession, CommitRedeem
<1>6. TypeOK'
  BY <1>1, <1>2, <1>3, <1>4, <1>5 DEF PairInv, TypeOK
<1>7. Sender'
  BY <1>1, <1>5 DEF PairInv, Sender
<1> QED BY <1>6, <1>7

\* A redemption that ends without a trace.
LEMMA RollbackKeeps ==
    ASSUME PairInv, NEW r \in Phones, Rollback(r), UNCHANGED <<owner, codes, issued>>
    PROVE  Redeeming' /\ CodePairsOnce'
<1>1. CodePairsOnce'
  BY DEF PairInv, CodePairsOnce
<1> SUFFICES ASSUME NEW s \in Phones PROVE (Located(s) /\ Owned(s) /\ Locked(s) /\ Newest(s))'
  BY <1>1 DEF Redeeming
<1>2. s = r => redeem'[s].pc = "idle"
  BY DEF Rollback, NoRedeem, PairInv, TypeOK
<1>3. s # r => /\ redeem'[s] = redeem[s] /\ (s \notin stale' => s \notin stale)
               /\ (writer = s <=> writer' = s)
  BY NamesAssumption DEF Rollback, PairInv, TypeOK
<1>4. Located(s) /\ Owned(s) /\ Locked(s) /\ Newest(s)
  BY DEF PairInv, Redeeming
<1> QED BY <1>2, <1>3, <1>4 DEF Located, Owned, Locked, Newest

\* A redemption that goes on by one step.
LEMMA RedeemGoesOn ==
    ASSUME PairInv, NEW r \in Phones,
           CheckOwner(r) \/ RegisterDevice(r) \/ UseSession(r), ~Rollback(r)
    PROVE  Redeeming' /\ CodePairsOnce'
<1> USE DEF RedeemTo, NoTrouble
<1>1. UNCHANGED <<owner, codes, issued, stale>>
  BY DEF CheckOwner, RegisterDevice, UseSession
<1>2. CodePairsOnce'
  BY <1>1 DEF PairInv, CodePairsOnce
<1> SUFFICES ASSUME NEW s \in Phones PROVE (Located(s) /\ Owned(s) /\ Locked(s) /\ Newest(s))'
  BY <1>2 DEF Redeeming
<1>3. Located(s) /\ Owned(s) /\ Locked(s) /\ Newest(s) /\ Located(r) /\ Owned(r) /\ Locked(r) /\ Newest(r)
  BY DEF PairInv, Redeeming
<1>4. CASE CheckOwner(r)
  <2>1. /\ redeem' = [redeem EXCEPT ![r].pc = "device", ![r].token = tokens + 1]
        /\ redeem[r].owner = codes[redeem[r].code].by /\ redeem[r].pc = "owner" /\ writer' = writer
    BY <1>4 DEF CheckOwner
  <2>2. tokens + 1 >= 1
    BY BoundsAssumption DEF PairInv, TypeOK
  <2>3. /\ s # r => redeem'[s] = redeem[s]
        /\ redeem'[r].pc = "device" /\ redeem'[r].token = tokens + 1
        /\ redeem'[r].owner = redeem[r].owner /\ redeem'[r].code = redeem[r].code
        /\ redeem'[r].device = redeem[r].device
    BY <2>1 DEF PairInv, TypeOK
  <2> QED BY <1>1, <1>3, <2>1, <2>2, <2>3 DEF Located, Owned, Locked, Newest
<1>5. CASE RegisterDevice(r) \/ UseSession(r)
  <2>1. PICK p \in {"use", "commit"} :
          /\ redeem' = [redeem EXCEPT ![r].pc = p]
          /\ p = "use" => redeem[r].pc = "device" /\ writer = Nil /\ writer' = r /\ r \notin stale
          /\ p = "commit" => /\ redeem[r].pc = "use" /\ writer' = writer
                             /\ codes[redeem[r].code].used = Nil
    BY <1>5 DEF RegisterDevice, UseSession
  <2>2. /\ s # r => redeem'[s] = redeem[s]
        /\ redeem'[r].pc = p
        /\ redeem'[r].owner = redeem[r].owner /\ redeem'[r].code = redeem[r].code
        /\ redeem'[r].device = redeem[r].device /\ redeem'[r].token = redeem[r].token
    BY <2>1 DEF PairInv, TypeOK
  <2>3. s # r => redeem[s].pc \notin {"use", "commit"} \/ writer' # r
    BY <1>3, <2>1, NamesAssumption DEF Locked
  <2>4. CASE s = r
    BY <1>1, <1>3, <2>1, <2>2, <2>4 DEF Located, Owned, Locked, Newest
  <2>5. CASE s # r
    <3>1. writer' = s => writer = s
      BY <2>1, <2>5
    <3>2. redeem[s].pc \in {"use", "commit"} => writer' = s
      BY <1>3, <2>1, <2>5, NamesAssumption DEF Locked
    <3> QED BY <1>1, <1>3, <2>2, <2>5, <3>1, <3>2 DEF Located, Owned, Locked, Newest
  <2> QED BY <2>4, <2>5
<1> QED BY <1>4, <1>5

LEMMA CommitKeeps ==
    ASSUME PairInv, NEW r \in Phones, CommitRedeem(r) PROVE Redeeming' /\ CodePairsOnce'
<1> USE NamesAssumption
<1> DEFINE m == redeem[r]
           new == [code |-> m.code, device |-> m.device, token |-> m.token, owner |-> m.owner]
<1>1. /\ m.code \in Codes /\ codes[m.code] \in Session /\ m.device \in Devices
      /\ m.owner = codes[m.code].by /\ codes[m.code].used = Nil /\ writer = r
  BY DEF CommitRedeem, PairInv, Redeeming, Located, Owned, Locked
<1>2. redeem' = [redeem EXCEPT ![r] = NoRedeem] /\ writer' = Nil /\ owner' = owner
  BY DEF CommitRedeem
<1>3. codes' = codes \/ codes' = [codes EXCEPT ![m.code].used = m.device]
  BY DEF CommitRedeem, CodeUsed
<1>4. \A c \in Codes : /\ c # m.code => codes'[c] = codes[c]
                       /\ codes[c] \in Session => codes'[c] \in Session /\ codes'[c].by = codes[c].by
  <2>1. codes \in [Codes -> Session \cup {Nil}]
    BY DEF PairInv, TypeOK
  <2>2. CASE codes' = codes
    BY <2>2
  <2>3. CASE codes' = [codes EXCEPT ![m.code].used = m.device]
    <3>1. \A c \in Codes : c # m.code => codes'[c] = codes[c]
      BY <2>1, <2>3
    <3>2. codes'[m.code] = [codes[m.code] EXCEPT !.used = m.device]
      BY <1>1, <2>1, <2>3
    <3>3. codes'[m.code] \in Session /\ codes'[m.code].by = codes[m.code].by
      BY <1>1, <3>2 DEF Session
    <3> QED BY <3>1, <3>3
  <2> QED BY <1>3, <2>2, <2>3
<1>5. Redeeming'
  <2> SUFFICES ASSUME NEW s \in Phones PROVE (Located(s) /\ Owned(s) /\ Locked(s) /\ Newest(s))'
    BY DEF Redeeming
  <2>1. Located(s) /\ Owned(s) /\ Locked(s) /\ Newest(s)
    BY DEF PairInv, Redeeming
  <2>2. s = r => redeem'[s].pc = "idle"
    BY <1>2 DEF NoRedeem, PairInv, TypeOK
  <2>3. s # r => redeem'[s] = redeem[s] /\ redeem[s].pc \notin {"use", "commit"}
    BY <1>1, <1>2, <2>1 DEF Locked, PairInv, TypeOK
  <2>4. s # r /\ s \notin stale' => s \notin stale
    BY DEF CommitRedeem, Outdate
  <2>5. writer' # s
    BY <1>2
  <2> QED BY <1>2, <1>4, <2>1, <2>2, <2>3, <2>4, <2>5 DEF Located, Owned, Locked, Newest
<1>6. CodePairsOnce'
  <2>1. \A x \in issued : x.code \in Codes /\ codes[x.code].used \in Devices
    BY IssuedUsed
  <2>2. \A x \in issued : x.code # m.code
    BY <1>1, <2>1
  <2>3. \A x \in issued : codes'[x.code] = [by |-> x.owner, used |-> x.device]
    BY <1>4, <2>1, <2>2 DEF PairInv, CodePairsOnce
  <2>4. CASE issued' = issued
    BY <2>3, <2>4 DEF PairInv, CodePairsOnce
  <2>5. CASE issued' = issued \cup {new} /\ CodeUsed(r)
    <3>1. codes'[m.code] = [codes[m.code] EXCEPT !.used = m.device]
      BY <1>1, <2>5 DEF CodeUsed, PairInv, TypeOK
    <3>2. codes'[m.code] = [by |-> m.owner, used |-> m.device]
      BY <1>1, <3>1 DEF Session
    <3>3. codes'[new.code] = [by |-> new.owner, used |-> new.device]
      BY <3>2
    <3>4. \A x, y \in issued : x.code = y.code => x = y
      BY DEF PairInv, CodePairsOnce
    <3>5. new.code = m.code
      OBVIOUS
    <3> HIDE DEF new
    <3> QED BY <2>2, <2>3, <2>5, <3>3, <3>4, <3>5 DEF CodePairsOnce
  <2> QED BY <2>4, <2>5 DEF CommitRedeem
<1> QED BY <1>5, <1>6

LEMMA PairStep == PairInv /\ [Next]_vars => PairInv'
<1> SUFFICES ASSUME PairInv, [Next]_vars PROVE PairInv'
  OBVIOUS
<1> USE NamesAssumption DEF PairInv
<1>1. ASSUME NEW a \in Accounts, SaveAuthSession(a) PROVE PairInv'
  <2>1. stale' \subseteq Phones /\ writer' = Nil /\ writer = Nil /\ stale' = stale \cup InTransaction
    BY <1>1 DEF SaveAuthSession, Written, Outdate, InTransaction, TypeOK
  <2>2. /\ request' \in [Requests -> Call]
        /\ Sender'
    <3> DEFINE next(q) == IF request[q].pc = "idle" THEN NoRequest
                          ELSE [request[q] EXCEPT !.owners = @ \cup {a}]
    <3>1. request' = [q \in Requests |-> next(q)]
      BY <1>1 DEF SaveAuthSession
    <3>2. ASSUME NEW q \in Requests
          PROVE  /\ next(q) \in Call
                 /\ next(q).pc # "idle" => next(q).user = request[q].user /\ next(q).pc = request[q].pc
                                           /\ next(q).path = request[q].path
      BY BoundsAssumption DEF TypeOK, NoRequest, Call
    <3>3. ASSUME NEW q \in Requests PROVE request'[q] = next(q)
      BY <3>1
    <3>4. creds' = creds
      BY <1>1 DEF SaveAuthSession
    <3> HIDE DEF next
    <3>5. request' \in [Requests -> Call]
      BY <3>1, <3>2
    <3>6. Sender'
      BY <3>2, <3>3, <3>4 DEF Sender
    <3> QED BY <3>5, <3>6
  <2>3. TypeOK'
    BY <1>1, <2>1, <2>2 DEF SaveAuthSession, TypeOK
  <2>4. Aside
    BY <1>1, <2>1 DEF SaveAuthSession, Aside
  <2> QED BY <2>2, <2>3, <2>4, AsideKeeps
<1>2. ASSUME NEW c \in Codes, CodeExpires(c) PROVE PairInv'
  <2>1. TypeOK' /\ Sender' /\ Aside
    BY <1>2 DEF CodeExpires, TypeOK, Sender, Aside
  <2> QED BY <2>1, AsideKeeps
<1>3. ASSUME NEW r \in Phones, ReadSession(r) PROVE PairInv'
  <2>1. CodePairsOnce'
    BY <1>3 DEF ReadSession, CodePairsOnce
  <2>2. ASSUME NEW s \in Phones PROVE (Located(s) /\ Owned(s) /\ Locked(s) /\ Newest(s))'
    <3>1. Located(s) /\ Owned(s) /\ Locked(s) /\ Newest(s)
      BY DEF Redeeming
    <3>2. PICK c \in Codes, d \in Devices :
            /\ codes[c] # Nil
            /\ redeem' = [redeem EXCEPT ![r] =
                  [pc |-> "owner", code |-> c, device |-> d, owner |-> owner, token |-> 0]]
      BY <1>3 DEF ReadSession
    <3>3. s # r => redeem'[s] = redeem[s]
      BY <3>2 DEF TypeOK
    <3>4. redeem'[r] = [pc |-> "owner", code |-> c, device |-> d, owner |-> owner, token |-> 0]
      BY <3>2 DEF TypeOK
    <3>5. codes[c] \in Session
      BY <3>2 DEF TypeOK
    <3>6. UNCHANGED <<owner, codes, writer, stale>>
      BY <1>3 DEF ReadSession
    <3> QED BY <3>1, <3>3, <3>4, <3>5, <3>6 DEF Located, Owned, Locked, Newest
  <2> QED BY <1>3, <2>1, <2>2, RedeemType DEF Redeeming
<1>4. ASSUME NEW r \in Phones, RedeemStep(r) PROVE PairInv'
  <2>1. CASE CommitRedeem(r)
    BY <1>4, <2>1, CommitKeeps, RedeemType
  <2>2. CASE Rollback(r) /\ ~CommitRedeem(r)
    BY <1>4, <2>2, RollbackKeeps, RedeemType
       DEF RedeemStep, CheckOwner, RegisterDevice, UseSession
  <2>3. CASE ~Rollback(r) /\ ~CommitRedeem(r)
    BY <1>4, <2>3, RedeemGoesOn, RedeemType DEF RedeemStep
  <2> QED BY <2>1, <2>2, <2>3
<1>5. ASSUME NEW q \in Requests, VerifyAccount(q) PROVE PairInv'
  <2>1. Aside
    BY <1>5 DEF VerifyAccount, Aside
  <2>2. TypeOK' /\ Sender'
    BY <1>5, BoundsAssumption DEF VerifyAccount, TypeOK, Sender, Call
  <2> QED BY <2>1, <2>2, AsideKeeps
<1>6. ASSUME NEW q \in Requests, VerifyDevice(q) PROVE PairInv'
  <2>1. Aside
    BY <1>6 DEF VerifyDevice, Aside
  <2>2. PICK d \in Devices, path \in {"media", "pairing"} :
          /\ creds[d] # Nil
          /\ request' = [request EXCEPT ![q] =
                [pc |-> "touch", user |-> d, token |-> creds[d].token, path |-> path,
                 link |-> Nil, owners |-> {owner}]]
    BY <1>6 DEF VerifyDevice
  <2>3. creds[d].token \in 0..MaxTokens
    BY <2>2 DEF TypeOK, Credential
  <2>4. TypeOK' /\ Sender'
    BY <1>6, <2>2, <2>3 DEF VerifyDevice, TypeOK, Sender, Call
  <2> QED BY <2>1, <2>4, AsideKeeps
<1>7. ASSUME NEW q \in Requests, RequestStep(q) PROVE PairInv'
  BY <1>7, RequestType, RequestAside, AsideKeeps
<1>8. CASE Crash
  <2>1. TypeOK' /\ Sender'
    BY <1>8, BoundsAssumption, TroubleType DEF Crash, TypeOK, Sender, NoRedeem, NoRequest, Redemption, Call
  <2>2. Redeeming' /\ CodePairsOnce'
    BY <1>8 DEF Crash, Redeeming, Located, Owned, Locked, Newest, NoRedeem, CodePairsOnce
  <2> QED BY <2>1, <2>2
<1>9. CASE UNCHANGED vars
  BY <1>9 DEF vars, TypeOK, Sender, Redeeming, Located, Owned, Locked, Newest, CodePairsOnce
<1> QED BY <1>1, <1>2, <1>3, <1>4, <1>5, <1>6, <1>7, <1>8, <1>9 DEF Next

(***************************************************************************)
(* The state of the pairing is well typed; in particular a pairing code is *)
(* made by an account, never by a device.                                  *)
(***************************************************************************)
THEOREM PairingTypeCorrect == Spec => []TypeOK
<1>1. PairInv => TypeOK
  BY DEF PairInv
<1> QED BY <1>1, InitPair, PairStep, PTL DEF Spec

(***************************************************************************)
(* A code pairs one device, with the account that made it: however many    *)
(* phones redeem it, and whoever crashes, fails or signs in meanwhile.     *)
(***************************************************************************)
THEOREM OnePairing == Spec => []CodePairsOnce
<1>1. PairInv => CodePairsOnce
  BY DEF PairInv
<1> QED BY <1>1, InitPair, PairStep, PTL DEF Spec

(***************************************************************************)
(* A device is linked to the account that owns the server at that moment,  *)
(* not to one that owned it when the redemption began.                     *)
(***************************************************************************)
LinkedToOwner ==
    [][\A d \in Devices : creds'[d] # creds[d] => creds'[d].owner = owner]_vars

THEOREM LinkedRight == Spec => LinkedToOwner
<1>1. PairInv /\ [Next]_vars => [\A d \in Devices : creds'[d] # creds[d] => creds'[d].owner = owner]_vars
  <2> SUFFICES ASSUME PairInv, Next, NEW d \in Devices, creds'[d] # creds[d] PROVE creds'[d].owner = owner
    OBVIOUS
  <2>1. PICK r \in Phones : CommitRedeem(r)
    BY DEF Next, SaveAuthSession, CodeExpires, ReadSession, RedeemStep, CheckOwner, RegisterDevice,
           UseSession, VerifyAccount, VerifyDevice, RequestStep, TouchDevice, ReadLink, CheckBound,
           ServeMedia, CreatePairingSession, Crash
  <2>2. creds' = [creds EXCEPT ![redeem[r].device] = [token |-> redeem[r].token, owner |-> redeem[r].owner]]
    BY <2>1 DEF CommitRedeem
  <2>3. redeem[r].owner = owner
    BY <2>1 DEF CommitRedeem, PairInv, Redeeming, Locked, Newest
  <2>4. creds'[d] = [token |-> redeem[r].token, owner |-> redeem[r].owner]
    BY <2>2 DEF PairInv, TypeOK
  <2> QED BY <2>3, <2>4
<1> QED BY <1>1, InitPair, PairStep, PTL DEF Spec, LinkedToOwner

(***************************************************************************)
(* What a request is served for.  The token of a device is in its          *)
(* credential or was replaced, and is never given again: a redemption on   *)
(* its way has a token of its own, that no pairing has.                    *)
(***************************************************************************)
Pending(r) == redeem[r].pc \in {"device", "use", "commit"}
Given(t)   == \E x \in issued : x.token = t

TokensApart ==
    /\ \A x \in issued : x.token <= tokens
    /\ \A r \in Phones : Pending(r) => redeem[r].token <= tokens /\ ~Given(redeem[r].token)
    /\ \A r, s \in Phones : Pending(r) /\ Pending(s) /\ redeem[r].token = redeem[s].token => r = s
    /\ \A d \in Devices : creds[d] \in Credential /\ creds[d].token # 0 =>
           \E x \in issued : x.token = creds[d].token /\ x.owner = creds[d].owner

Replaced(q) == creds[request[q].user].token # request[q].token
Maker(q)    == MadeFor(request[q].user, request[q].token)

\* The owner that a request was checked against is one that it met.
Met(q) == request[q].pc # "idle" => owner \in request[q].owners
AsAccount(q) ==
    request[q].user \in Accounts =>
        /\ request[q].pc = "bound" => request[q].link = request[q].user
        /\ request[q].pc = "serve" => request[q].user \in request[q].owners
AsDevice(q) ==
    request[q].pc # "idle" /\ request[q].user \in Devices =>
        /\ creds[request[q].user] \in Credential
        /\ request[q].token = 0 \/ Given(request[q].token)
        /\ request[q].pc = "bound" => Replaced(q) \/ request[q].link \in Maker(q)
        /\ request[q].pc = "serve" => Replaced(q) \/ Maker(q) \cap request[q].owners # {}

ServeInv ==
    /\ PairInv /\ TokensApart
    /\ \A q \in Requests : Met(q) /\ AsAccount(q) /\ AsDevice(q)

LEMMA InitServe == Init => ServeInv
<1> SUFFICES ASSUME Init PROVE ServeInv
  OBVIOUS
<1>1. TokensApart
  <2>1. \A d \in Devices : creds[d] \in Credential => creds[d].token = 0
    BY NamesAssumption DEF Init
  <2> QED BY <2>1 DEF Init, TokensApart, Pending, NoRedeem
<1>2. \A q \in Requests : Met(q) /\ AsAccount(q) /\ AsDevice(q)
  BY DEF Init, Met, AsAccount, AsDevice, NoRequest
<1> QED BY <1>1, <1>2, InitPair DEF ServeInv

\* A step of redemption r, up to its commit.
LEMMA TokensKept ==
    ASSUME PairInv, TokensApart, NEW r \in Phones, UNCHANGED <<issued, creds>>,
           redeem' = [redeem EXCEPT ![r] = redeem'[r]],
           \/ tokens' = tokens /\ (Pending(r)' => Pending(r) /\ redeem'[r].token = redeem[r].token)
           \/ tokens' = tokens + 1 /\ redeem'[r].token = tokens + 1
    PROVE  TokensApart'
<1>0. tokens \in Nat /\ (\A s \in Phones : redeem[s].token \in Nat) /\ \A x \in issued : x.token \in Nat
  BY DEF PairInv, TypeOK, Redemption, Pairing
<1>1. \A s \in Phones \ {r} : redeem'[s] = redeem[s]
  BY DEF PairInv, TypeOK
<1>2. tokens <= tokens' /\ \A t : Given(t)' <=> Given(t)
  BY <1>0 DEF Given
<1>3. \A x \in issued' : x.token <= tokens'
  BY <1>0, <1>2 DEF TokensApart
<1>4. \A s \in Phones : Pending(s)' =>
          \/ Pending(s) /\ redeem'[s].token = redeem[s].token
          \/ s = r /\ redeem'[s].token = tokens + 1 /\ tokens' = tokens + 1
  BY <1>1 DEF Pending
<1>5. \A s \in Phones : Pending(s)' => redeem'[s].token <= tokens' /\ ~Given(redeem'[s].token)
  <2> SUFFICES ASSUME NEW s \in Phones, Pending(s)'
               PROVE  redeem'[s].token <= tokens' /\ ~Given(redeem'[s].token)
    OBVIOUS
  <2>0. tokens' \in Nat
    BY <1>0
  <2>1. CASE Pending(s) /\ redeem'[s].token = redeem[s].token
    <3>1. redeem[s].token <= tokens /\ ~Given(redeem[s].token) /\ redeem[s].token \in Nat
      BY <1>0, <2>1 DEF TokensApart
    <3> QED BY <1>0, <1>2, <2>0, <2>1, <3>1
  <2>2. CASE redeem'[s].token = tokens + 1 /\ tokens' = tokens + 1
    <3>1. ~Given(tokens + 1)
      BY <1>0 DEF TokensApart, Given
    <3> QED BY <1>0, <2>0, <2>2, <3>1
  <2> QED BY <1>4, <2>1, <2>2
<1>6. \A s, z \in Phones : Pending(s)' /\ Pending(z)' /\ redeem'[s].token = redeem'[z].token => s = z
  <2>1. \A s \in Phones : Pending(s) => redeem[s].token # tokens + 1
    BY <1>0 DEF TokensApart
  <2> QED BY <1>4, <2>1 DEF TokensApart
<1>7. \A d \in Devices : creds'[d] \in Credential /\ creds'[d].token # 0 =>
           \E x \in issued' : x.token = creds'[d].token /\ x.owner = creds'[d].owner
  BY DEF TokensApart
<1>8. Credential' = Credential
  BY DEF Credential
<1>9. \A s \in Phones : Pending(s)' => redeem'[s].token <= tokens' /\ ~(\E x \in issued' : x.token = redeem'[s].token)
  BY <1>5 DEF Given
<1> QED BY <1>3, <1>6, <1>7, <1>8, <1>9 DEF TokensApart, Given

LEMMA RedeemTokens ==
    ASSUME PairInv, TokensApart, NEW r \in Phones, RedeemStep(r) \/ ReadSession(r), ~CommitRedeem(r)
    PROVE  TokensApart'
<1>0. redeem \in [Phones -> Redemption] /\ UNCHANGED <<issued, creds>>
  BY DEF PairInv, TypeOK, RedeemStep, ReadSession, CheckOwner, RegisterDevice, UseSession
<1>1. ASSUME NEW n, redeem' = [redeem EXCEPT ![r] = n]
      PROVE  redeem' = [redeem EXCEPT ![r] = redeem'[r]] /\ redeem'[r] = n
  BY <1>0, <1>1
<1>2. CASE Rollback(r) /\ tokens' = tokens
  <2>1. redeem' = [redeem EXCEPT ![r] = NoRedeem]
    BY <1>2 DEF Rollback
  <2>2. redeem' = [redeem EXCEPT ![r] = redeem'[r]] /\ redeem'[r] = NoRedeem
    BY <1>1, <2>1
  <2>3. ~Pending(r)'
    BY <2>2 DEF Pending, NoRedeem
  <2> QED BY <1>0, <1>2, <2>2, <2>3, TokensKept
<1>3. CASE ReadSession(r)
  <2>1. PICK n : redeem' = [redeem EXCEPT ![r] = n] /\ n.pc = "owner" /\ tokens' = tokens
    BY <1>3 DEF ReadSession
  <2>2. redeem' = [redeem EXCEPT ![r] = redeem'[r]] /\ redeem'[r] = n
    BY <1>1, <2>1
  <2>3. ~Pending(r)'
    BY <2>1, <2>2 DEF Pending
  <2> QED BY <1>0, <2>1, <2>2, <2>3, TokensKept
<1>4. CASE CheckOwner(r) /\ ~(Rollback(r) /\ tokens' = tokens)
  <2>1. /\ tokens' = tokens + 1
        /\ redeem' = [redeem EXCEPT ![r].pc = "device", ![r].token = tokens + 1]
    BY <1>4 DEF CheckOwner
  <2>2. /\ redeem'[r] = [redeem[r] EXCEPT !.pc = "device", !.token = tokens + 1]
        /\ redeem' = [redeem EXCEPT ![r] = redeem'[r]]
    BY <1>0, <2>1
  <2>3. redeem'[r].token = tokens + 1
    BY <1>0, <2>2 DEF Redemption
  <2> QED BY <1>0, <2>1, <2>2, <2>3, TokensKept
<1>5. CASE (RegisterDevice(r) \/ UseSession(r)) /\ ~(Rollback(r) /\ tokens' = tokens)
  <2>1. PICK s \in {"use", "commit"} : redeem' = [redeem EXCEPT ![r].pc = s] /\ tokens' = tokens /\ Pending(r)
    BY <1>5 DEF RegisterDevice, UseSession, RedeemTo, Pending
  <2>2. /\ redeem'[r] = [redeem[r] EXCEPT !.pc = s]
        /\ redeem' = [redeem EXCEPT ![r] = redeem'[r]]
    BY <1>0, <2>1
  <2>3. redeem'[r].token = redeem[r].token
    BY <1>0, <2>2 DEF Redemption
  <2> QED BY <1>0, <2>1, <2>2, <2>3, TokensKept
<1> QED BY <1>2, <1>3, <1>4, <1>5 DEF RedeemStep, CheckOwner, RegisterDevice, UseSession

\* Whatever leaves requests, credentials and the owner alone.
LEMMA ServedAside ==
    ASSUME ServeInv, UNCHANGED <<request, owner, creds, issued>>
    PROVE  \A q \in Requests : Met(q)' /\ AsAccount(q)' /\ AsDevice(q)'
<1>1. \A t : Given(t)' <=> Given(t)
  BY DEF Given
<1>2. \A q \in Requests : Maker(q)' = Maker(q)
  BY DEF Maker, MadeFor
<1> QED BY <1>1, <1>2 DEF ServeInv, Met, AsAccount, AsDevice, Replaced

LEMMA ServedNewOwner ==
    ASSUME ServeInv, NEW a \in Accounts, SaveAuthSession(a)
    PROVE  TokensApart' /\ \A q \in Requests : Met(q)' /\ AsAccount(q)' /\ AsDevice(q)'
<1>0. owner' = a /\ UNCHANGED <<creds, issued, redeem, tokens>> /\ request \in [Requests -> Call]
  BY DEF SaveAuthSession, ServeInv, PairInv, TypeOK
<1>1. TokensApart'
  BY <1>0 DEF ServeInv, TokensApart, Pending, Given, Credential
<1>2. ASSUME NEW q \in Requests PROVE Met(q)' /\ AsAccount(q)' /\ AsDevice(q)'
  <2>1. CASE request[q].pc = "idle"
    <3>1. request'[q] = NoRequest
      BY <2>1 DEF SaveAuthSession
    <3>2. request'[q].user = Nil /\ request'[q].pc = "idle"
      BY <3>1 DEF NoRequest
    <3> QED BY <3>2 DEF Met, AsAccount, AsDevice
  <2>2. CASE request[q].pc # "idle"
    <3>1. request'[q] = [request[q] EXCEPT !.owners = @ \cup {a}]
      BY <2>2 DEF SaveAuthSession
    <3>2. /\ request'[q].pc = request[q].pc /\ request'[q].user = request[q].user
          /\ request'[q].token = request[q].token /\ request'[q].link = request[q].link
          /\ request'[q].owners = request[q].owners \cup {a}
      BY <1>0, <3>1 DEF Call
    <3>3. Maker(q)' = Maker(q) /\ (Replaced(q)' <=> Replaced(q))
      BY <1>0, <3>2 DEF Maker, MadeFor, Replaced
    <3>4. Met(q)' /\ AsAccount(q)'
      BY <1>0, <3>2 DEF ServeInv, Met, AsAccount
    <3>5. AsDevice(q)'
      BY <1>0, <3>2, <3>3 DEF ServeInv, AsDevice, Given
    <3> QED BY <3>4, <3>5
  <2> QED BY <2>1, <2>2
<1> QED BY <1>1, <1>2

\* A commit replaces the device's token by one that no request can have.
LEMMA ServedCommit ==
    ASSUME ServeInv, NEW r \in Phones, CommitRedeem(r)
    PROVE  TokensApart' /\ \A q \in Requests : Met(q)' /\ AsAccount(q)' /\ AsDevice(q)'
<1>0. /\ redeem' = [redeem EXCEPT ![r] = NoRedeem] /\ redeem \in [Phones -> Redemption]
      /\ UNCHANGED <<owner, request, tokens>> /\ Pending(r)
      /\ tokens \in Nat
  BY DEF CommitRedeem, ServeInv, PairInv, TypeOK, Pending
<1>1. /\ \A s \in Phones \ {r} : redeem'[s] = redeem[s]
      /\ ~Pending(r)'
  <2>1. redeem'[r] = NoRedeem /\ \A s \in Phones \ {r} : redeem'[s] = redeem[s]
    BY <1>0
  <2> QED BY <2>1 DEF Pending, NoRedeem
<1>2. \A s \in Phones : Pending(s)' => Pending(s) /\ redeem'[s] = redeem[s] /\ s # r
  BY <1>1 DEF Pending
<1>3. CASE UNCHANGED <<creds, issued>>
  <2>1. TokensApart'
    BY <1>0, <1>2, <1>3 DEF ServeInv, TokensApart, Given, Credential
  <2> QED BY <1>0, <1>3, <2>1, ServedAside
<1>4. CASE ~UNCHANGED <<creds, issued>>
  <2>1. PICK d, t, o : d = redeem[r].device /\ t = redeem[r].token /\ o = redeem[r].owner
    OBVIOUS
  <2>2. PICK x : x = [code |-> redeem[r].code, device |-> d, token |-> t, owner |-> o]
    OBVIOUS
  <2>3. x.token = t /\ x.owner = o
    BY <2>2
  <2>4. creds' = [creds EXCEPT ![d] = [token |-> t, owner |-> o]] /\ issued' = issued \cup {x}
    BY <1>4, <2>1, <2>2 DEF CommitRedeem
  <2>5. d \in Devices /\ t \in Nat /\ t >= 1 /\ t <= tokens /\ ~Given(t)
    BY <1>0, <2>1 DEF CommitRedeem, Pending, ServeInv, PairInv, Redeeming, Located, Owned, TokensApart, Redemption
  <2>6. creds'[d] = [token |-> t, owner |-> o] /\ \A e \in Devices \ {d} : creds'[e] = creds[e]
    BY <2>4, <2>5 DEF ServeInv, PairInv, TypeOK
  <2>7. creds'[d].token = t /\ creds'[d].owner = o
    BY <2>6
  <2>8. creds' \in [Devices -> Credential \cup {Nil}] /\ [token |-> t, owner |-> o] \in Credential
    <3>1. t \in 0..MaxTokens /\ o \in Accounts \cup {Nil}
      BY <1>0, <2>1 DEF Redemption
    <3> QED BY <2>4, <2>5, <3>1 DEF Credential, ServeInv, PairInv, TypeOK
  <2>9. TokensApart'
    <3>1. \A y \in issued' : y.token <= tokens'
      BY <1>0, <2>3, <2>4, <2>5 DEF ServeInv, TokensApart
    <3>2. \A s \in Phones : Pending(s)' =>
              redeem'[s].token <= tokens' /\ ~(\E y \in issued' : y.token = redeem'[s].token)
      BY <1>0, <1>2, <2>1, <2>3, <2>4 DEF ServeInv, TokensApart, Given
    <3>3. \A s, z \in Phones : Pending(s)' /\ Pending(z)' /\ redeem'[s].token = redeem'[z].token => s = z
      BY <1>2 DEF ServeInv, TokensApart
    <3>4. \A e \in Devices : creds'[e] \in Credential /\ creds'[e].token # 0 =>
              \E y \in issued' : y.token = creds'[e].token /\ y.owner = creds'[e].owner
      <4> SUFFICES ASSUME NEW e \in Devices, creds'[e] \in Credential, creds'[e].token # 0
                   PROVE  \E y \in issued' : y.token = creds'[e].token /\ y.owner = creds'[e].owner
        OBVIOUS
      <4>1. CASE e = d
        BY <2>3, <2>4, <2>7, <4>1
      <4>2. CASE e # d
        BY <2>4, <2>6, <4>2 DEF ServeInv, TokensApart
      <4> QED BY <4>1, <4>2
    <3>5. Credential' = Credential
      BY DEF Credential
    <3> QED BY <3>1, <3>2, <3>3, <3>4, <3>5 DEF TokensApart, Given
  <2>10. ASSUME NEW q \in Requests PROVE AsDevice(q)'
    <3> SUFFICES ASSUME request[q].pc # "idle", request[q].user \in Devices PROVE AsDevice(q)'
      BY <1>0 DEF AsDevice
    <3>1. /\ creds[request[q].user] \in Credential
          /\ request[q].token = 0 \/ Given(request[q].token)
      BY DEF ServeInv, AsDevice
    <3>2. request[q].token = 0 \/ \E y \in issued' : y.token = request[q].token
      BY <2>4, <3>1 DEF Given
    <3>3. CASE request[q].user = d
      <4>1. request[q].token # t
        BY <2>5, <3>1
      <4>2. Replaced(q)' /\ creds'[request[q].user] \in Credential
        BY <1>0, <2>6, <2>7, <2>8, <3>3, <4>1 DEF Replaced
      <4> QED BY <1>0, <3>2, <4>2 DEF AsDevice, Given, Credential
    <3>4. CASE request[q].user # d
      <4>1. creds'[request[q].user] = creds[request[q].user]
        BY <2>6, <3>4
      <4>2. Maker(q) \subseteq Maker(q)'
        BY <1>0, <2>4, <4>1 DEF Maker, MadeFor
      <4>3. Replaced(q)' <=> Replaced(q)
        BY <1>0, <4>1 DEF Replaced
      <4>4. AsDevice(q)
        BY DEF ServeInv
      <4> QED BY <1>0, <3>1, <3>2, <4>1, <4>2, <4>3, <4>4 DEF AsDevice, Given, Credential
    <3> QED BY <3>3, <3>4
  <2>11. \A q \in Requests : Met(q)' /\ AsAccount(q)'
    BY <1>0 DEF ServeInv, Met, AsAccount
  <2> QED BY <2>9, <2>10, <2>11
<1> QED BY <1>3, <1>4

\* One request arrives, goes on or ends.
LEMMA ServedRequest ==
    ASSUME ServeInv, NEW q \in Requests, VerifyAccount(q) \/ VerifyDevice(q) \/ RequestStep(q)
    PROVE  TokensApart' /\ \A p \in Requests : Met(p)' /\ AsAccount(p)' /\ AsDevice(p)'
<1>0. request \in [Requests -> Call] /\ UNCHANGED <<owner, creds, redeem, tokens, issued>>
  BY DEF ServeInv, PairInv, TypeOK, VerifyAccount, VerifyDevice, RequestStep, TouchDevice, ReadLink, CheckBound,
     ServeMedia, CreatePairingSession
<1>1. TokensApart'
  BY <1>0 DEF ServeInv, TokensApart, Pending, Given, Credential
<1>2. /\ \A t : Given(t)' <=> Given(t)
      /\ \A d, t : MadeFor(d, t)' = MadeFor(d, t)
  BY <1>0 DEF Given, MadeFor
<1>3. ASSUME NEW n, request' = [request EXCEPT ![q] = n]
      PROVE  request'[q] = n /\ \A p \in Requests \ {q} : request'[p] = request[p]
  BY <1>0, <1>3
<1>4. ASSUME NEW p \in Requests, request'[p] = request[p] PROVE Met(p)' /\ AsAccount(p)' /\ AsDevice(p)'
  <2>1. Maker(p)' = Maker(p) /\ (Replaced(p)' <=> Replaced(p))
    BY <1>0, <1>4 DEF Maker, MadeFor, Replaced
  <2> QED BY <1>0, <1>2, <1>4, <2>1 DEF ServeInv, Met, AsAccount, AsDevice, Credential
<1>5. CASE request' = [request EXCEPT ![q] = NoRequest]
  <2>1. request'[q] = NoRequest /\ \A p \in Requests \ {q} : request'[p] = request[p]
    BY <1>3, <1>5
  <2>2. Met(q)' /\ AsAccount(q)' /\ AsDevice(q)'
    BY <2>1, NamesAssumption DEF Met, AsAccount, AsDevice, NoRequest
  <2> QED BY <1>1, <1>4, <2>1, <2>2
<1>6. CASE VerifyAccount(q)
  <2>1. PICK a \in Accounts, path \in {"media", "pairing"} :
          request' = [request EXCEPT ![q] =
              [pc |-> "bound", user |-> a, token |-> 0, path |-> path, link |-> a, owners |-> {owner}]]
    BY <1>6 DEF VerifyAccount
  <2>2. /\ request'[q] = [pc |-> "bound", user |-> a, token |-> 0, path |-> path, link |-> a, owners |-> {owner}]
        /\ \A p \in Requests \ {q} : request'[p] = request[p]
    BY <1>3, <2>1
  <2>3. Met(q)' /\ AsAccount(q)' /\ AsDevice(q)'
    BY <1>0, <2>2, NamesAssumption DEF Met, AsAccount, AsDevice
  <2> QED BY <1>1, <1>4, <2>2, <2>3
<1>7. CASE VerifyDevice(q)
  <2>1. PICK d \in Devices, path \in {"media", "pairing"} :
          /\ creds[d] # Nil
          /\ request' = [request EXCEPT ![q] =
              [pc |-> "touch", user |-> d, token |-> creds[d].token, path |-> path, link |-> Nil, owners |-> {owner}]]
    BY <1>7 DEF VerifyDevice
  <2>2. /\ request'[q] = [pc |-> "touch", user |-> d, token |-> creds[d].token, path |-> path,
                          link |-> Nil, owners |-> {owner}]
        /\ \A p \in Requests \ {q} : request'[p] = request[p]
    BY <1>3, <2>1
  <2>3. creds[d] \in Credential
    BY <2>1 DEF ServeInv, PairInv, TypeOK
  <2>4. creds[d].token = 0 \/ Given(creds[d].token)
    BY <2>3 DEF ServeInv, TokensApart, Given
  <2>5. Met(q)' /\ AsAccount(q)' /\ AsDevice(q)'
    BY <1>0, <1>2, <2>2, <2>3, <2>4, NamesAssumption DEF Met, AsAccount, AsDevice, Credential
  <2> QED BY <1>1, <1>4, <2>2, <2>5
<1>8. CASE ReadLink(q) /\ request' # [request EXCEPT ![q] = NoRequest]
  <2> DEFINE d == request[q].user
  <2>1. /\ request[q].pc = "link"
        /\ request' = [request EXCEPT ![q].pc = "bound", ![q].link = creds[d].owner]
    BY <1>8 DEF ReadLink, Refuse
  <2>2. /\ request'[q] = [request[q] EXCEPT !.pc = "bound", !.link = creds[d].owner]
        /\ \A p \in Requests \ {q} : request'[p] = request[p]
    BY <1>0, <2>1
  <2>3. /\ request'[q].pc = "bound" /\ request'[q].user = request[q].user
        /\ request'[q].token = request[q].token /\ request'[q].link = creds[d].owner
        /\ request'[q].owners = request[q].owners
    BY <1>0, <2>2 DEF Call
  <2>4. d \in Devices /\ d \notin Accounts
    BY <2>1, NamesAssumption DEF ServeInv, PairInv, Sender
  <2>5. creds[d] \in Credential /\ (request[q].token = 0 \/ Given(request[q].token))
    BY <2>1, <2>4 DEF ServeInv, AsDevice
  <2>6. creds[d].token = request[q].token => creds[d].owner \in MadeFor(d, request[q].token)
    BY <2>4, <2>5 DEF ServeInv, TokensApart, MadeFor
  <2>7. Replaced(q)' \/ request'[q].link \in Maker(q)'
    BY <1>0, <1>2, <2>3, <2>6 DEF Replaced, Maker, MadeFor
  <2>8. Met(q)' /\ AsAccount(q)' /\ AsDevice(q)'
    BY <1>0, <1>2, <2>1, <2>3, <2>4, <2>5, <2>7 DEF ServeInv, Met, AsAccount, AsDevice, Credential
  <2> QED BY <1>1, <1>4, <2>2, <2>8
<1>9. CASE ~ReadLink(q) /\ RequestStep(q) /\ request' # [request EXCEPT ![q] = NoRequest]
  <2>1. PICK s \in {"link", "serve"} :
          /\ request' = [request EXCEPT ![q].pc = s]
          /\ s = "link" => request[q].pc = "touch"
          /\ s = "serve" => request[q].pc = "bound" /\ Allowed(q)
    BY <1>9 DEF RequestStep, TouchDevice, CheckBound, ServeMedia, CreatePairingSession, Refuse, ReqTo
  <2>2. /\ request'[q] = [request[q] EXCEPT !.pc = s]
        /\ \A p \in Requests \ {q} : request'[p] = request[p]
    BY <1>0, <2>1
  <2>3. /\ request'[q].pc = s /\ request'[q].user = request[q].user
        /\ request'[q].token = request[q].token /\ request'[q].link = request[q].link
        /\ request'[q].owners = request[q].owners
    BY <1>0, <2>2 DEF Call
  <2>4. Maker(q)' = Maker(q) /\ (Replaced(q)' <=> Replaced(q))
    BY <1>0, <2>3 DEF Maker, MadeFor, Replaced
  <2>5. Met(q) /\ AsAccount(q) /\ AsDevice(q) /\ request[q].pc # "idle"
    BY <2>1 DEF ServeInv
  <2>6. Met(q)'
    BY <1>0, <2>3, <2>5 DEF Met
  <2>7. s = "serve" => request[q].link = owner /\ owner \in request[q].owners
    BY <2>1, <2>5 DEF Allowed, Met
  <2>8. AsAccount(q)'
    BY <2>1, <2>3, <2>5, <2>7 DEF AsAccount
  <2>9. AsDevice(q)'
    BY <1>0, <1>2, <2>1, <2>3, <2>4, <2>5, <2>7 DEF AsDevice, Credential
  <2> QED BY <1>1, <1>4, <2>2, <2>6, <2>8, <2>9
<1> QED BY <1>5, <1>6, <1>7, <1>8, <1>9

LEMMA ServeStep == ServeInv /\ [Next]_vars => ServeInv'
<1> SUFFICES ASSUME ServeInv, [Next]_vars PROVE ServeInv'
  OBVIOUS
<1>0. PairInv /\ PairInv' /\ TokensApart
  BY PairStep DEF ServeInv
<1> SUFFICES TokensApart' /\ \A q \in Requests : Met(q)' /\ AsAccount(q)' /\ AsDevice(q)'
  BY <1>0 DEF ServeInv
<1>1. ASSUME NEW a \in Accounts, SaveAuthSession(a)
      PROVE  TokensApart' /\ \A q \in Requests : Met(q)' /\ AsAccount(q)' /\ AsDevice(q)'
  BY <1>1, ServedNewOwner
<1>2. ASSUME NEW r \in Phones, RedeemStep(r) \/ ReadSession(r)
      PROVE  TokensApart' /\ \A q \in Requests : Met(q)' /\ AsAccount(q)' /\ AsDevice(q)'
  <2>1. CASE CommitRedeem(r)
    BY <2>1, ServedCommit
  <2>2. CASE ~CommitRedeem(r)
    <3>1. UNCHANGED <<request, owner, creds, issued>>
      BY <1>2, <2>2 DEF RedeemStep, ReadSession, CheckOwner, RegisterDevice, UseSession
    <3> QED BY <1>0, <1>2, <2>2, <3>1, RedeemTokens, ServedAside
  <2> QED BY <2>1, <2>2
<1>3. ASSUME NEW q \in Requests, VerifyAccount(q) \/ VerifyDevice(q) \/ RequestStep(q)
      PROVE  TokensApart' /\ \A p \in Requests : Met(p)' /\ AsAccount(p)' /\ AsDevice(p)'
  BY <1>3, ServedRequest
<1>4. ASSUME UNCHANGED vars \/ \E c \in Codes : CodeExpires(c)
      PROVE  TokensApart' /\ \A q \in Requests : Met(q)' /\ AsAccount(q)' /\ AsDevice(q)'
  <2>1. UNCHANGED <<request, owner, creds, issued, redeem, tokens>>
    BY <1>4 DEF vars, CodeExpires
  <2> QED BY <1>0, <2>1, ServedAside DEF TokensApart, Pending, Given, Credential
<1>5. ASSUME Crash PROVE TokensApart' /\ \A q \in Requests : Met(q)' /\ AsAccount(q)' /\ AsDevice(q)'
  <2>1. /\ UNCHANGED <<owner, creds, issued, tokens>>
        /\ \A r \in Phones : redeem'[r].pc = "idle"
        /\ \A q \in Requests : request'[q].pc = "idle"
    BY <1>5 DEF Crash, NoRedeem, NoRequest
  <2>2. TokensApart'
    BY <1>0, <2>1 DEF TokensApart, Pending, Credential
  <2> QED BY <2>1, <2>2 DEF Met, AsAccount, AsDevice
<1> QED BY <1>1, <1>2, <1>3, <1>4, <1>5 DEF Next

(***************************************************************************)
(* A request is served only for an account that owned the server while it  *)
(* ran, whoever signs in and whichever devices are paired meanwhile.       *)
(***************************************************************************)
THEOREM ServedRight == Spec => []ServedForOwner
<1>1. ServeInv => ServedForOwner
  <2> SUFFICES ASSUME ServeInv, NEW q \in Requests, request[q].pc = "serve"
               PROVE  \/ request[q].user \in Accounts /\ request[q].user \in request[q].owners
                      \/ request[q].user \in Devices /\ (Maker(q) \cap request[q].owners # {} \/ Replaced(q))
    BY DEF ServedForOwner, Maker, Replaced
  <2>1. request[q].user \in Accounts \cup Devices
    BY DEF ServeInv, PairInv, TypeOK, Sender, Call
  <2> QED BY <2>1 DEF ServeInv, AsAccount, AsDevice
<1> QED BY <1>1, InitServe, ServeStep, PTL DEF Spec

-----------------------------------------------------------------------------
(* The refinement of AtomicPairing.                                        *)

LEMMA PairsFromInit == Init => P!Init
<1> SUFFICES ASSUME Init PROVE P!Init
  OBVIOUS
<1>1. PICK D \in SUBSET Devices, o \in {owner, Nil} :
        creds = [d \in Devices |-> IF d \in D THEN [token |-> 0, owner |-> o] ELSE Nil]
  BY DEF Init
<1>2. [token |-> 0, owner |-> o] \in [token : {0}, owner : {owner, Nil}]
  OBVIOUS
<1>3. creds \in [Devices -> {Nil} \cup [token : {0}, owner : {owner, Nil}]]
  BY <1>1, <1>2
<1> QED BY <1>3 DEF Init, P!Init

LEMMA CommitPairs ==
    ASSUME PairInv, TokensApart, NEW r \in Phones, CommitRedeem(r)
    PROVE  P!Next \/ UNCHANGED P!vars
<1> DEFINE m == redeem[r]
<1>1. /\ m \in Redemption /\ m.code \in Codes /\ codes[m.code] \in Session /\ m.device \in Devices
      /\ m.owner = codes[m.code].by /\ m.token >= 1 /\ codes[m.code].used = Nil /\ writer = r
  BY DEF CommitRedeem, PairInv, TypeOK, Redeeming, Located, Owned, Locked
<1>2. m.owner = owner /\ owner' = owner
  BY <1>1 DEF CommitRedeem, PairInv, Redeeming, Newest
<1>3. m.token \in 1..MaxTokens /\ \A x \in issued : x.token # m.token
  <2>1. m.token \in 0..MaxTokens
    BY <1>1 DEF Redemption
  <2>2. ~Given(m.token)
    BY DEF CommitRedeem, TokensApart, Pending
  <2> QED BY <1>1, <2>1, <2>2, BoundsAssumption DEF Given
<1>4. CASE UNCHANGED <<codes, creds, issued>>
  BY <1>2, <1>4 DEF P!vars
<1>5. CASE /\ creds' = [creds EXCEPT ![m.device] = [token |-> m.token, owner |-> m.owner]]
           /\ CodeUsed(r)
           /\ issued' = issued \cup
                 {[code |-> m.code, device |-> m.device, token |-> m.token, owner |-> m.owner]}
  <2>1. codes[m.code] = [by |-> owner, used |-> Nil]
    BY <1>1, <1>2 DEF Session
  <2>2. codes' = [codes EXCEPT ![m.code] = [by |-> owner, used |-> m.device]]
    <3>1. PICK e : e = [codes[m.code] EXCEPT !.used = m.device]
      OBVIOUS
    <3>2. e = [by |-> owner, used |-> m.device]
      BY <2>1, <3>1
    <3>3. codes' = [codes EXCEPT ![m.code] = e]
      BY <1>5, <3>1 DEF CodeUsed, PairInv, TypeOK
    <3> QED BY <3>2, <3>3
  <2>3. P!Pair(m.code, m.device, m.token)
    BY <1>2, <1>3, <1>5, <2>1, <2>2 DEF P!Pair
  <2> QED BY <1>1, <1>3, <2>3 DEF P!Next
<1> QED BY <1>4, <1>5 DEF CommitRedeem

LEMMA PairsStep == ServeInv /\ [Next]_vars => [P!Next]_(P!vars)
<1> SUFFICES ASSUME ServeInv, [Next]_vars PROVE P!Next \/ UNCHANGED P!vars
  OBVIOUS
<1>0. PairInv /\ TokensApart
  BY DEF ServeInv
<1>1. CASE UNCHANGED vars
  BY <1>1 DEF vars, P!vars
<1>2. ASSUME NEW a \in Accounts, SaveAuthSession(a) PROVE P!Next
  BY <1>2 DEF SaveAuthSession, P!Next, P!SignIn
<1>3. ASSUME NEW q \in Requests, CreatePairingSession(q) PROVE P!Next \/ UNCHANGED P!vars
  <2>1. request[q].user \in Accounts
    BY <1>0, <1>3, NamesAssumption DEF CreatePairingSession, PairInv, TypeOK, Sender, Call
  <2>2. UNCHANGED <<owner, creds, issued>>
    BY <1>3 DEF CreatePairingSession
  <2>3. CASE codes' = codes
    BY <2>2, <2>3 DEF P!vars
  <2>4. CASE codes' # codes
    <3>1. PICK c \in Codes :
            codes[c] = Nil /\ codes' = [codes EXCEPT ![c] = [by |-> request[q].user, used |-> Nil]]
      BY <1>3, <2>4 DEF CreatePairingSession
    <3> QED BY <2>1, <2>2, <3>1 DEF P!Next, P!MakeCode
  <2> QED BY <2>3, <2>4
<1>4. ASSUME NEW r \in Phones, CommitRedeem(r) PROVE P!Next \/ UNCHANGED P!vars
  BY <1>0, <1>4, CommitPairs
<1>5. CASE /\ Next
           /\ \A a \in Accounts : ~SaveAuthSession(a)
           /\ \A q \in Requests : ~CreatePairingSession(q)
           /\ \A r \in Phones : ~CommitRedeem(r)
  <2>1. UNCHANGED <<owner, codes, creds, issued>>
    BY <1>5 DEF Next, CodeExpires, ReadSession, RedeemStep, CheckOwner, RegisterDevice, UseSession,
                VerifyAccount, VerifyDevice, RequestStep, TouchDevice, ReadLink, CheckBound, ServeMedia, Crash
  <2> QED BY <2>1 DEF P!vars
<1> QED BY <1>1, <1>2, <1>3, <1>4, <1>5

(***************************************************************************)
(* Redemptions implement AtomicPairing: whatever other phones, sign-ins,   *)
(* failing calls and deaths come between its statements, a redemption is   *)
(* one step with the owner of that moment, or it leaves nothing behind.    *)
(***************************************************************************)
THEOREM PairingImplemented == Spec => ImplementsPairing
<1> QED BY PairsFromInit, InitServe, ServeStep, PairsStep, PTL DEF Spec, ImplementsPairing, P!Spec

=============================================================================
