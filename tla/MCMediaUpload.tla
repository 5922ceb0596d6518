--------------------------- MODULE MCMediaUpload ---------------------------
(* Instances of MediaUpload for TLC.                                       *)
EXTENDS MediaUpload

\* A photo of device asset "d" without a declared digest, so with any bytes, and
\* a clip of the same device asset with a declared one.
MCRequests ==
    {[size |-> 2, sha |-> Nil,          ext |-> "jpg", dev |-> "d"],
     [size |-> 2, sha |-> <<"x", "y">>, ext |-> "mov", dev |-> "d"]}

\* With these, both photos "xx" and "xy" occur, and an "xx" for a declared "xy".
MCSends == {<<"x">>, <<"x", "y">>}

=============================================================================
