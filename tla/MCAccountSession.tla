-------------------------- MODULE MCAccountSession --------------------------
(* Instances of AccountSession for TLC.                                    *)
EXTENDS AccountSession, TLC

\* Nothing tells accounts apart.
MCSymmetry == Permutations(Accounts)
=============================================================================
