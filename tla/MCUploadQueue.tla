--------------------------- MODULE MCUploadQueue ---------------------------
(* Instances of UploadQueue for TLC.                                       *)
EXTENDS UploadQueue

\* Two pictures that look alike, and a file that is no picture.
MCPHash == [c \in Pictures |-> IF c \in Broken THEN {c} ELSE Pictures \ Broken]
=============================================================================
