-------------------------- MODULE MCDevicePairing --------------------------
(* Instances of DevicePairing for TLC.                                     *)
EXTENDS DevicePairing, TLC

\* Nothing tells accounts, codes or redemptions apart but what they do.
MCSymmetry == Permutations(Accounts) \cup Permutations(Phones) \cup Permutations(Codes)
=============================================================================
