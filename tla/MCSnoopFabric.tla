--------------------------- MODULE MCSnoopFabric ---------------------------
(***************************************************************************)
(* SnoopFabric for TLC: two lines and one data value.  The CPUs miss on    *)
(* different lines; the write engine, which can be restarted in the middle *)
(* of a snoop, may come back for another line.                             *)
(***************************************************************************)
EXTENDS SnoopFabric

CONSTANTS l1, l2

MCLinesOf == [c \in Clients |-> CASE c = "cpu0" -> {l1} [] c = "cpu1" -> {l2}
                                  [] c = "rd" -> {l1}   [] c = "wr" -> {l1, l2}]
=============================================================================
