--------------------------- MODULE AtomicPairing ---------------------------
(***************************************************************************)
(* What pairing promises, as if a redemption were one step: an unused code *)
(* that the present owner of the server made links one device to that      *)
(* owner, under a token nobody has; a redemption that does not succeed     *)
(* leaves nothing behind.  How statements, transactions and failing calls  *)
(* come to that is not said.                                               *)
(***************************************************************************)
CONSTANTS Accounts, Devices, Codes, Tokens, Nil

VARIABLES
    owner,    \* the account that owns the server
    codes,    \* who made each code and the device that used it
    creds,    \* the token of each device and the account it is linked to
    issued    \* the pairings so far

vars == <<owner, codes, creds, issued>>

\* A device of an older version has a token that is not one of Tokens.
Init ==
    /\ owner \in Accounts \cup {Nil}
    /\ codes = [c \in Codes |-> Nil]
    /\ creds \in [Devices -> {Nil} \cup [token : {0}, owner : {owner, Nil}]]
    /\ issued = {}

SignIn(a) ==
    /\ owner' = a
    /\ UNCHANGED <<codes, creds, issued>>

MakeCode(c, a) ==
    /\ codes[c] = Nil
    /\ codes' = [codes EXCEPT ![c] = [by |-> a, used |-> Nil]]
    /\ UNCHANGED <<owner, creds, issued>>

Pair(c, d, t) ==
    /\ codes[c] = [by |-> owner, used |-> Nil]
    /\ \A x \in issued : x.token # t
    /\ codes' = [codes EXCEPT ![c] = [by |-> owner, used |-> d]]
    /\ creds' = [creds EXCEPT ![d] = [token |-> t, owner |-> owner]]
    /\ issued' = issued \cup {[code |-> c, device |-> d, token |-> t, owner |-> owner]}
    /\ UNCHANGED owner

Next ==
    \/ \E a \in Accounts : SignIn(a)
    \/ \E c \in Codes, a \in Accounts : MakeCode(c, a)
    \/ \E c \in Codes, d \in Devices, t \in Tokens : Pair(c, d, t)

Spec == Init /\ [][Next]_vars
=============================================================================
