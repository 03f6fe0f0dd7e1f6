------------------------------- MODULE SpiDrv -------------------------------
(***************************************************************************)
(* The SPI master, peripheral/spi, under gnu_toolchain/include/spi.h.  A   *)
(* byte goes out and its answer comes in at once, each through a FIFO: an  *)
(* answer nobody reads is still there for the next who reads.              *)
(***************************************************************************)
EXTENDS Hart, SequencesExt

CONSTANTS SpiDepth   \* of the FIFOs; 16 in the RTL

ASSUME SpiConstants == SpiDepth \in Nat \ {0}

VARIABLES
  spiCtrl, csManual, csLow,    \* CTRL, CS_CTRL, the chip select
  spiTx, wire, spiRx,          \* the FIFOs, and the byte that is shifted
  spiIrq,                      \* the sticky bits of IRQ_STATUS
  asked,                       \* history: the last byte the thread put, and whether all was quiet
  answered,                    \* history: what the last read of the thread returned, for which byte
  loose                        \* history: a byte was put with the chip select high, or behind it

spi        == <<spiCtrl, csManual, csLow, spiTx, wire, spiRx, spiIrq>>
spiHistory == <<asked, answered, loose>>
spiVars    == <<spi, spiHistory>>

\* The drivers.
spi_init(mode, divider)  == <<W("SPI_CTRL", {}), W("DIVIDER", divider), W("SPI_CTRL", mode)>>
spi_write_byte(data) == <<Until("SPI_STATUS", "TX_NOT_FULL"), W("SPI_TX_DATA", data)>>
spi_read_byte        == <<Until("SPI_STATUS", "RX_NOT_EMPTY"), R("SPI_RX_DATA")>>
spi_transfer(tx)     == spi_write_byte(tx) \o spi_read_byte
spi_wait_idle        == <<Until("SPI_STATUS", "IDLE")>>
spi_cs_assert(mask)  == <<W("CS_CTRL", mask)>>
spi_cs_deassert      == <<W("CS_CTRL", {})>>
spi_disable          == <<W("SPI_CTRL", {})>>
spi_write_buf(buf)   == FlattenSeq([i \in DOMAIN buf |-> spi_write_byte(buf[i])]) \o spi_wait_idle
spi_transfer_buf(tx) == FlattenSeq([i \in DOMAIN tx |-> spi_transfer(tx[i])])
spi_read_irq_status  == <<R("SPI_IRQ_STATUS")>>
spi_clear_irq        == <<W("SPI_IRQ_STATUS", {"TX", "RX"})>>

\* The registers.  The slave answers a byte with what it makes of it.
Answer(byte) == <<"answer", byte>>
InFlight == spiTx # <<>> \/ wire # <<>>
SpiStatus ==
  {s \in {"IDLE", "TX_EMPTY", "TX_NOT_FULL", "RX_NOT_EMPTY"} :
     \/ s = "IDLE" /\ ~InFlight
     \/ s = "TX_EMPTY" /\ spiTx = <<>>
     \/ s = "TX_NOT_FULL" /\ Len(spiTx) < SpiDepth
     \/ s = "RX_NOT_EMPTY" /\ spiRx # <<>>}
spi_irq_out == \E i \in spiIrq : i \in spiCtrl
SpiRead ==
  CASE Reg = "SPI_STATUS"  -> SpiStatus
    [] Reg = "SPI_RX_DATA" -> IF spiRx = <<>> THEN <<"old", "old">> ELSE Head(spiRx)
    [] OTHER -> spiIrq

SpiWrite ==
  LET puts == Writes("SPI_TX_DATA")  reads == Reads("SPI_RX_DATA") IN
  /\ spiCtrl' = IF Writes("SPI_CTRL") THEN Written ELSE spiCtrl
  /\ csManual' = IF Writes("CS_CTRL") THEN Written # {} ELSE csManual
  /\ csLow' = IF "CS_AUTO" \in spiCtrl' THEN csLow ELSE csManual'
  /\ spiIrq' = IF Writes("SPI_IRQ_STATUS") THEN spiIrq \ Written ELSE spiIrq
  /\ spiTx' = IF puts /\ Len(spiTx) < SpiDepth THEN Append(spiTx, Written) ELSE spiTx
  /\ spiRx' = IF reads /\ spiRx # <<>> THEN Tail(spiRx) ELSE spiRx
  /\ asked' = IF Thread /\ puts THEN <<Written, ~InFlight /\ spiRx = <<>>>>
              ELSE <<asked[1], asked[2] /\ (Thread \/ ~(puts \/ reads))>>
  /\ answered' = IF Thread /\ reads THEN <<SpiRead, asked>> ELSE answered
  /\ loose' = IF puts THEN loose \/ ~csLow \/ Behind("CS_CTRL", puts, FALSE) ELSE InFlight /\ loose
  /\ UNCHANGED wire
SpiAccess ==
  /\ Current # <<>>
  /\ Op = "until" => Head(Current)[3] \in SpiStatus
  /\ Access(SpiRead)
  /\ SpiWrite

(***************************************************************************)
(* spi_core.v.  A byte that has started ends, enabled or not.              *)
(***************************************************************************)
SpiLoads ==
  /\ wire = <<>> /\ "EN" \in spiCtrl /\ spiTx # <<>>
  /\ wire' = <<Head(spiTx)>> /\ spiTx' = Tail(spiTx)
  /\ csLow' = (csLow \/ "CS_AUTO" \in spiCtrl)
  /\ UNCHANGED <<hart, spiCtrl, csManual, spiRx, spiIrq, spiHistory>>
SpiDone ==
  LET room == Len(spiRx) < SpiDepth  last == spiTx = <<>> IN
  /\ wire # <<>>
  /\ wire' = <<>>
  /\ spiRx' = IF room THEN Append(spiRx, Answer(wire[1])) ELSE spiRx
  /\ csLow' = (csLow /\ ~("CS_AUTO" \in spiCtrl /\ last))
  /\ spiIrq' = spiIrq \cup (IF last THEN {"TX"} ELSE {}) \cup (IF room THEN {"RX"} ELSE {})
  /\ UNCHANGED <<hart, spiCtrl, csManual, spiTx, spiHistory>>

(***************************************************************************)
(* The program: bytes with the automatic chip select, or frames of bytes   *)
(* between spi_cs_assert and spi_cs_deassert.                              *)
(***************************************************************************)
AutoCs   == {"EN", "CS_AUTO", "TX"}
ManualCs == {"EN", "RX"}
Frame(bytes) == spi_cs_assert({0}) \o bytes \o spi_cs_deassert
SpiStart == spi_init(ManualCs, 4) \o irq_enable_external \o irq_enable_global
SpiCall ==
  /\ \E f \in {spi_init(AutoCs, 4), spi_init(ManualCs, 4), spi_disable,
               spi_write_byte("w"), spi_transfer("t"), spi_transfer_buf(<<"a", "b">>),
               Frame(spi_write_buf(<<"c", "d">>))} :
       Begin("other", f)
  /\ UNCHANGED spiVars
SpiReturn == (GoesOn("start") \/ GoesOn("other")) /\ Return /\ UNCHANGED spiVars
SpiInterrupt ==
  /\ spi_irq_out
  /\ \E f \in {<<>>, spi_transfer("h")} : Interrupt("external", spi_read_irq_status \o spi_clear_irq \o f)
  /\ UNCHANGED spiVars
SpiMret == HandlerAt("external") /\ Mret /\ UNCHANGED spiVars

-----------------------------------------------------------------------------
SpiInit ==
  /\ spiCtrl = {"CS_AUTO"} /\ csManual = FALSE /\ csLow = FALSE
  /\ spiTx = <<>> /\ wire = <<>> /\ spiRx = <<>> /\ spiIrq = {}
  /\ asked = <<"none", FALSE>> /\ answered = <<"none", asked>> /\ loose = FALSE

SpiNext == SpiAccess \/ SpiLoads \/ SpiDone \/ SpiCall \/ SpiReturn \/ SpiInterrupt \/ SpiMret

SpiTypeOK ==
  /\ spiCtrl \subseteq {"EN", "CS_AUTO", "TX", "RX"} /\ spiIrq \subseteq {"TX", "RX"}
  /\ {csManual, csLow, loose} \subseteq BOOLEAN
  /\ Len(spiTx) <= SpiDepth /\ Len(spiRx) <= SpiDepth /\ Len(wire) <= 1

\* spi_transfer returns the answer to the byte it sent (spi.h:125-129), if
\* the master was quiet and no answer was left when it put the byte, and no
\* handler came between: spi_write_buf leaves every answer behind.
TransferReturnsItsAnswer == answered[2][2] => answered[1] = Answer(answered[2][1])

\* A byte put with the chip select low goes out with it low: spi_wait_idle
\* ends after the last bit (spi.h:131-137), and only then the frame.
FrameKept == wire # <<>> /\ "CS_AUTO" \notin spiCtrl /\ ~csLow => loose

\* The callers of spi.h get their own answers, and frames go out as frames.
SpiKept == TransferReturnsItsAnswer /\ FrameKept
=============================================================================
