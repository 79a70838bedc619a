------------------------------ MODULE MCPrmDb -------------------------------
(* Two parameters and a table of two; one value is longer than the others. *)
EXTENDS PrmDb

MCValues == {<< <<"val", 1>> >>, << <<"val", 2>> >>, << <<"val", 3>>, <<"val", 4>> >>}
=============================================================================
