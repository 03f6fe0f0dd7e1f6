-------------------------------- MODULE MCLsu --------------------------------
(*************************************************************************)
(* Lsu for TLC: a word a in memory, written in whole or in one lane, and *)
(* a device register d that is read into x0; buffers of two entries.     *)
(*************************************************************************)
EXTENDS Lsu

CONSTANTS a, d

MCLanes == {0, 1}
MCStrobes == {{0}, MCLanes}
MCLoadOps == {<<a, 1>>, <<d, 0>>}
MCStoreOps == {<<a, {0}>>, <<a, MCLanes>>}
=============================================================================
