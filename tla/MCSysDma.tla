------------------------------- MODULE MCSysDma -------------------------------
(* Two channels and two calls: an empty and a two-burst copy, two jobs in     *)
(* parallel, a tail of two words, which takes a burst of its own, and a job   *)
(* at each FIFO of the UART; one burst may fail.                              *)
EXTENDS SysDma
MCCopies == {0, 5}
MCPairs == {<<5, 1>>}
MCJobs == {<<"mem", 5>>, <<"rx", 2>>, <<"tx", 2>>}
=============================================================================
