------------------------------ MODULE Archive ------------------------------
(***************************************************************************)
(* What the host promises of its archive of originals (README.md, "Media   *)
(* lifecycle", items 1 and 2): content that entered the archive stays in   *)
(* it, and an upload is answered "completed" only for content that was     *)
(* archived, once, and for good.  How the bytes get there is not said.     *)
(*                                                                         *)
(* The code keeps less than the README says: a content whose original      *)
(* could not be looked at (a stat that failed, internal/media/service.go,  *)
(* materializeOriginal) is at risk from then on, and may leave the archive *)
(* and come back.  No other content leaves.                                *)
(***************************************************************************)
CONSTANTS Uploads, Content, Nil

VARIABLES
    archive,   \* the contents whose original is stored and catalogued
    atRisk,    \* those of them whose original could not be looked at once
    answer     \* the content each upload was completed with, Nil before that

vars == <<archive, atRisk, answer>>

Init ==
    /\ archive = {} /\ atRisk = {}
    /\ answer = [u \in Uploads |-> Nil]

Enter(c) ==
    /\ archive' = archive \cup {c}
    /\ UNCHANGED <<atRisk, answer>>

Answer(u, c) ==
    /\ answer[u] = Nil /\ c \in archive \cup atRisk
    /\ answer' = [answer EXCEPT ![u] = c]
    /\ UNCHANGED <<archive, atRisk>>

Endanger(c) ==
    /\ c \in archive
    /\ atRisk' = atRisk \cup {c}
    /\ UNCHANGED <<archive, answer>>

LoseOrRestore ==
    /\ archive' \in SUBSET (archive \cup atRisk)
    /\ archive \ atRisk \subseteq archive'
    /\ UNCHANGED <<atRisk, answer>>

Next ==
    \/ \E c \in Content : Enter(c) \/ Endanger(c)
    \/ \E u \in Uploads, c \in Content : Answer(u, c)
    \/ LoseOrRestore

Spec == Init /\ [][Next]_vars
=============================================================================
