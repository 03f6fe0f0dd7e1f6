------------------------------ MODULE Firmware ------------------------------
(***************************************************************************)
(* The drivers of gnu_toolchain/include, each against the registers of its *)
(* device.  The devices meet only in the hart and its interrupts: a        *)
(* program uses one device, with the interrupts of that device, and the    *)
(* scene says which.                                                       *)
(***************************************************************************)
EXTENDS ClintDrv, TimerDrv, UartDrv, SpiDrv, IrqDrv, AsconDrv

CONSTANTS MaxCalls   \* scene -> the calls its program makes

VARIABLES scene

Scenes  == {"clint", "perf", "timer", "uart", "spi", "irq", "ascon", "main"}
devices == <<clintVars, timerVars, uartVars, spiVars, irqVars, asconVars>>
vars    == <<scene, hart, devices>>

ASSUME CallsConstant == MaxCalls \in [Scenes -> Nat]

Idle == <<>>
StartOf(s) ==
  CASE s \in {"clint", "perf"} -> ClintStart
    [] s = "timer" -> TimerStart
    [] s = "uart"  -> UartStart
    [] s = "spi"   -> SpiStart
    [] s = "irq"   -> IrqStart
    [] s = "ascon" -> Idle
    [] s = "main"  -> main

Init ==
  /\ scene \in Scenes
  /\ HartInit(IF scene = "main" THEN "main" ELSE "start", StartOf(scene), MaxCalls[scene])
  /\ ClintInit /\ TimerInit /\ UartInit /\ SpiInit /\ IrqInit /\ AsconInit
  /\ scene # "timer" => unit = "WDT"

Clint == scene = "clint" /\ ClintNext /\ UNCHANGED <<scene, timerVars, uartVars, spiVars, irqVars, asconVars>>
Perf  == scene = "perf" /\ PerfNext /\ UNCHANGED <<scene, timerVars, uartVars, spiVars, irqVars, asconVars>>
Timer == scene = "timer" /\ TimerNext /\ UNCHANGED <<scene, clintVars, uartVars, spiVars, irqVars, asconVars>>
Uart  == scene = "uart" /\ UartNext /\ UNCHANGED <<scene, clintVars, timerVars, spiVars, irqVars, asconVars>>
Spi   == scene = "spi" /\ SpiNext /\ UNCHANGED <<scene, clintVars, timerVars, uartVars, irqVars, asconVars>>
Irq   == scene = "irq" /\ IrqNext /\ UNCHANGED <<scene, clintVars, timerVars, uartVars, spiVars, asconVars>>
Ascon ==
  /\ scene \in {"ascon", "main"} /\ AsconNext
  /\ UNCHANGED <<scene, clintVars, timerVars, uartVars, spiVars, irqVars>>

Next == Clint \/ Perf \/ Timer \/ Uart \/ Spi \/ Irq \/ Ascon
Spec == Init /\ [][Next]_vars

-----------------------------------------------------------------------------
\* The registers and the queues of every device keep their types.
FirmwareTypeOK ==
  /\ scene \in Scenes /\ HartTypeOK
  /\ ClintTypeOK /\ TimerTypeOK /\ UartTypeOK /\ SpiTypeOK /\ IrqTypeOK /\ AsconTypeOK

\* What goes out and what comes in over the two serial lines is what the
\* callers gave and get (UartKept of UartDrv, SpiKept of SpiDrv).
SerialKept == UartKept /\ SpiKept
=============================================================================
