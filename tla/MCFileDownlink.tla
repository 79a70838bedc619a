--------------------------- MODULE MCFileDownlink ---------------------------
(* Files of no byte and of two packets, each asked for as a whole.         *)
EXTENDS FileDownlink

MCRequests == {[offset |-> 0, length |-> 0]}
=============================================================================
