------------------------------ MODULE MCFirmware ------------------------------
(* Two or three calls a program, after its start; four for the timers, whose *)
(* calls are short.  A text of three bytes comes in at the UART.             *)
EXTENDS Firmware
MCArrivals == <<"p", "q", "r">>
MCCalls == [s \in Scenes |-> CASE s = "timer" -> 4 [] s = "ascon" -> 3 [] s = "main" -> 0 [] OTHER -> 2]
=============================================================================
