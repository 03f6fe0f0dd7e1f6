------------------------------- MODULE MCPlic -------------------------------
(***************************************************************************)
(* Plic for TLC: two sources, three priority levels.  The writes give the  *)
(* sources equal and different priorities, mask one of them and raise the  *)
(* threshold over the lower one.                                           *)
(***************************************************************************)
EXTENDS Plic

MCConfigWrites == {<<"prio", 1, 1>>, <<"prio", 2, 1>>, <<"prio", 2, 2>>,
                   <<"enable", {1, 2}>>, <<"enable", {1}>>, <<"threshold", 1>>}
=============================================================================
