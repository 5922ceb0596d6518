------------------------------ MODULE MCIngest ------------------------------
EXTENDS Ingest

CONSTANTS x, y

MCContent == <<x, y>>

\* They look alike, or they do not.
MCLooks == {[c \in {x, y} |-> x], [c \in {x, y} |-> c]}
=============================================================================
