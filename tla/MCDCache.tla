------------------------------ MODULE MCDCache ------------------------------
(***************************************************************************)
(* DCache for TLC: a set with two lines, a and b, that displace each       *)
(* other, and a set with one line c, of two words.  The hart stores one    *)
(* word of a and of c; agents read and take a and b, and write the other   *)
(* word of a.                                                              *)
(***************************************************************************)
EXTENDS DCache

a == <<1, 0>>
b == <<2, 0>>
c == <<1, 1>>
MCUsed == {a, b, c}
MCLoads == {<<a, 0>>, <<a, 1>>, <<b, 0>>}
MCStores == {<<a, 0>>, <<c, 0>>}
MCSnooped == {a, b}
MCWritten == {<<a, 1>>}
MCFences == {{"flush"}, {"inval"}, {"flush", "inval"}}
=============================================================================
