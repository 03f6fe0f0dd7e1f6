------------------------------ MODULE UartDrv ------------------------------
(***************************************************************************)
(* The UART, peripheral/uart, under gnu_toolchain/include/uart.h: two      *)
(* FIFOs, a transmitter, a receiver, and an interrupt on the edges of the  *)
(* FIFOs.  The program sends and receives; its handler clears the          *)
(* interrupt, then drains the receive FIFO and echoes what it finds.       *)
(***************************************************************************)
EXTENDS Hart, SequencesExt

CONSTANTS
  UartDepth,   \* of the FIFOs; 16 in the RTL
  Printed,     \* the number the program prints
  Arrivals     \* bytes that come in on the line

\* "old" is no byte: it is what an empty FIFO reads.
ASSUME UartConstants == UartDepth \in Nat /\ Arrivals \in Seq(Range(Arrivals) \ {"old"})

VARIABLES
  uartCtrl, txFifo, shift, rxFifo, txIrq, rxIrq,   \* the UART
  coming,      \* bytes that still come in
  owed,        \* history: bytes put, and not yet sent
  crowded,     \* history: the handler put a byte since the poll of the thread
  stolen,      \* history: the handler drained the FIFO since the poll of the thread
  unheard,     \* history: the thread cleared the interrupt of bytes that wait
  got          \* history: what the last uart_getc of the thread read

uart        == <<uartCtrl, txFifo, shift, rxFifo, txIrq, rxIrq, coming>>
uartHistory == <<owed, crowded, stolen, unheard, got>>
uartVars    == <<uart, uartHistory>>

\* The drivers.
uart_init(baud_div, en) == <<W("BAUD_DIV", baud_div), W("UART_CTRL", en)>>
uart_putc_at_once(ch) == <<W("TX_DATA", ch)>>                        \* a mutant
uart_putc(ch)  == <<Until("UART_STATUS", "TX_NOT_FULL"), W("TX_DATA", ch)>>
uart_getc      == <<Until("UART_STATUS", "RX_NOT_EMPTY"), R("RX_DATA")>>
Put(s)         == FlattenSeq([i \in DOMAIN s |-> uart_putc(s[i])])
uart_puts(s)   == Put(s) \o <<Until("UART_STATUS", "TX_EMPTY")>>
uart_tx_irq_enable == SetBits("UART_CTRL", {"TX"})
uart_rx_irq_enable == SetBits("UART_CTRL", {"RX"})
uart_irq_clear     == <<W("UART_IRQ_STATUS", {"TX", "RX"})>>
uart_irq_status    == <<R("UART_IRQ_STATUS")>>
uart_puthex8(v)    == Put(<<v \div 16, v % 16>>)
uart_puthex32(v)   ==
  uart_puthex8(v \div 2^24) \o uart_puthex8((v \div 2^16) % 256) \o
  uart_puthex8((v \div 2^8) % 256) \o uart_puthex8(v % 256)
uart_printf(fmt, val) ==
  FlattenSeq([i \in DOMAIN fmt |->
    IF fmt[i] = "%x" THEN uart_puts(<<"0", "x">>) \o uart_puthex32(val) ELSE uart_putc(fmt[i])])

\* What the registers read.
Full(fifo) == Len(fifo) = UartDepth
UartStatus ==
  {s \in {"TX_EMPTY", "TX_NOT_FULL", "RX_NOT_EMPTY", "RX_FULL"} :
     \/ s = "TX_EMPTY" /\ txFifo = <<>>
     \/ s = "TX_NOT_FULL" /\ ~Full(txFifo)
     \/ s = "RX_NOT_EMPTY" /\ rxFifo # <<>>
     \/ s = "RX_FULL" /\ Full(rxFifo)}
uart_irq_out == (txIrq /\ "TX" \in uartCtrl) \/ (rxIrq /\ "RX" \in uartCtrl)
UartRead ==
  CASE Reg = "UART_STATUS" -> UartStatus
    [] Reg = "UART_CTRL"   -> uartCtrl
    [] Reg = "RX_DATA"     -> IF rxFifo = <<>> THEN "old" ELSE Head(rxFifo)
    [] OTHER -> (IF txIrq THEN {"TX"} ELSE {}) \cup (IF rxIrq THEN {"RX"} ELSE {})

\* uart_axi_slave.v: a byte written to a full FIFO is dropped.
UartWrite ==
  LET clears(bit) == Writes("UART_IRQ_STATUS") /\ bit \in Written IN
  /\ uartCtrl' = IF Writes("UART_CTRL") THEN Written ELSE uartCtrl
  /\ txIrq' = (txIrq /\ ~clears("TX"))
  /\ rxIrq' = (rxIrq /\ ~clears("RX"))
  /\ txFifo' = IF Writes("TX_DATA") /\ ~Full(txFifo) THEN Append(txFifo, Written) ELSE txFifo
  /\ rxFifo' = IF Reads("RX_DATA") /\ rxFifo # <<>> THEN Tail(rxFifo) ELSE rxFifo
  /\ owed' = IF Writes("TX_DATA") /\ ~(crowded /\ Thread /\ Full(txFifo))
             THEN Append(owed, Written) ELSE owed
  /\ crowded' = Behind("TX_DATA", Writes("TX_DATA"), crowded)
  /\ stolen' = Behind("RX_DATA", Reads("RX_DATA"), stolen)
  /\ unheard' = (rxFifo' # <<>> /\ (unheard \/ (Thread /\ clears("RX"))))
  /\ got' = CASE Thread /\ Reads("RX_DATA") -> <<UartRead, stolen>>
              [] OTHER -> got
  /\ UNCHANGED <<shift, coming>>
UartAccess ==
  /\ Current # <<>>
  /\ Op = "until" => Head(Current)[3] \in UartStatus
  /\ Access(UartRead)
  /\ UartWrite

(***************************************************************************)
(* The lines.  The interrupts are on the edges: the transmit FIFO becomes  *)
(* empty, the receive FIFO is empty no more.                               *)
(***************************************************************************)
TxLoads ==
  /\ shift = <<>> /\ txFifo # <<>>
  /\ shift' = <<Head(txFifo)>> /\ txFifo' = Tail(txFifo)
  /\ txIrq' = (txIrq \/ txFifo' = <<>>)
  /\ UNCHANGED <<hart, uartCtrl, rxFifo, rxIrq, coming, uartHistory>>
TxSent ==
  /\ shift # <<>>
  /\ shift' = <<>> /\ owed' = Tail(owed)
  /\ UNCHANGED <<hart, uartCtrl, txFifo, rxFifo, txIrq, rxIrq, coming, crowded, stolen, unheard, got>>
\* A byte that finds the FIFO full is lost, and STATUS shows it for a cycle.
RxArrives ==
  /\ coming # <<>>
  /\ coming' = Tail(coming)
  /\ rxFifo' = IF Full(rxFifo) THEN rxFifo ELSE Append(rxFifo, Head(coming))
  /\ rxIrq' = (rxIrq \/ rxFifo = <<>>)
  /\ UNCHANGED <<hart, uartCtrl, txFifo, shift, txIrq, uartHistory>>

(***************************************************************************)
(* The program.                                                            *)
(***************************************************************************)
UartStart == uart_init(867, {"RX"}) \o irq_enable_external \o irq_enable_global
UartCall ==
  /\ \/ \E f \in {uart_printf(<<"c", "%x">>, Printed), uart_puts(<<"a", "b">>),
                  uart_tx_irq_enable, uart_rx_irq_enable, uart_irq_clear, uart_irq_status} :
          Begin("other", f)
     \/ Begin("getc", uart_getc)
  /\ UNCHANGED uartVars
UartReturn ==
  /\ \E f \in {"start", "getc", "other"} : GoesOn(f)
  /\ Return /\ UNCHANGED uartVars
Drain == <<R("UART_STATUS")>>
UartInterrupt == uart_irq_out /\ Interrupt("external", uart_irq_clear \o Drain) /\ UNCHANGED uartVars
UartHandles ==
  /\ HandlerAt("external") /\ "RX_NOT_EMPTY" \in Last(isrSeen)
  /\ HandlerContinue(uart_getc \o uart_putc("echo") \o Drain)
  /\ UNCHANGED uartVars
UartMret ==
  /\ HandlerAt("external") /\ "RX_NOT_EMPTY" \notin Last(isrSeen)
  /\ Mret /\ UNCHANGED uartVars

-----------------------------------------------------------------------------
UartInit ==
  /\ uartCtrl = {} /\ txFifo = <<>> /\ shift = <<>> /\ rxFifo = <<>>
  /\ txIrq = FALSE /\ rxIrq = FALSE /\ coming = Arrivals
  /\ owed = <<>> /\ crowded = FALSE /\ stolen = FALSE /\ unheard = FALSE /\ got = <<"none", FALSE>>

UartNext ==
  \/ UartAccess \/ TxLoads \/ TxSent \/ RxArrives
  \/ UartCall \/ UartReturn \/ UartInterrupt \/ UartHandles \/ UartMret

UartTypeOK ==
  /\ uartCtrl \subseteq {"TX", "RX"} /\ Len(txFifo) <= UartDepth /\ Len(rxFifo) <= UartDepth
  /\ Len(shift) <= 1 /\ {txIrq, rxIrq, crowded, stolen, unheard} \subseteq BOOLEAN

\* The bytes go out in the order they were put and none is lost
\* (uart.h:51-72), but for a byte of the thread that finds the FIFO filled by
\* the handler after its poll.
SentInOrder == owed = shift \o txFifo

\* uart_getc returns a byte that arrived, unless the handler took it after the
\* poll (uart.h:58-62): then it reads what the FIFO held before.
GetcReturnsByte == got[1] = "old" => got[2]

\* No byte waits without an interrupt when the handler is not running: it
\* clears, then drains, so that a byte that comes after the last look at
\* STATUS makes an edge.  A thread that clears the interrupt loses it.
NoByteForgotten == Thread /\ rxFifo # <<>> => rxIrq \/ unheard

\* No byte is lost or invented between the callers of uart.h and the line.
UartKept == SentInOrder /\ GetcReturnsByte /\ NoByteForgotten
=============================================================================
