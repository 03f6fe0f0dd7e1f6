------------------------------- MODULE IrqDrv -------------------------------
(***************************************************************************)
(* An input pin interrupts the hart: peripheral/gpio, the gateway of the   *)
(* PLIC, and gpio.h, plic.h, plic_drv.h and the interrupt registers of     *)
(* soc_ctrl.h in gnu_toolchain.  Only the GPIO interrupts here; the claim, *)
(* cycle by cycle and between sources, is the subject of module Plic.      *)
(***************************************************************************)
EXTENDS Hart

CONSTANTS Pins, Strobed   \* the pins, and those that a write of IRQ_STAT can clear

\* The program drives pin 0 and pin 4.
ASSUME IrqConstants == {0, 4} \subseteq Pins

Sources == {"GPIO", "ASCON"}

VARIABLES
  din, dout, irqEn, irqMode, irqPol, irqStat,     \* gpio_regfile.v
  plicEnable, priority, threshold, pending, inService,   \* the PLIC
  wanted,                                         \* history: DOUT, IRQ_EN and PLIC_ENABLE as asked for
  tangled,                                        \* history: of them, those one caller undid for another
  unseen, missed                                  \* history: an edge not looked at; one that came in service

gpio     == <<din, dout, irqEn, irqMode, irqPol, irqStat>>
plic     == <<plicEnable, priority, threshold, pending, inService>>
irqHistory == <<wanted, tangled, unseen, missed>>
irqVars  == <<gpio, plic, irqHistory>>

\* The drivers.
gpio_set_dir(out)      == <<W("DIR", out)>>
gpio_write(val, mask)  == Merge("DOUT", val \cap mask, mask)
gpio_set(mask)         == SetBits("DOUT", mask)
gpio_clear(mask)       == ClearBits("DOUT", mask)
gpio_read              == <<R("DIN")>>
gpio_irq_enable(pins, edge, polarity) ==
  Merge("IRQ_MODE", IF edge THEN pins ELSE {}, pins) \o
  Merge("IRQ_POL", IF polarity THEN pins ELSE {}, pins) \o SetBits("IRQ_EN", pins)
gpio_irq_clear(pins)   == <<W("IRQ_STAT", pins)>>
gpio_irq_status        == <<R("IRQ_STAT")>>
plic_set_priority(src, prio) == <<W("PLIC_PRIORITY", [s \in {src} |-> prio])>>
plic_enable_only(src)  == <<W("PLIC_ENABLE", {src})>>                 \* a mutant
plic_enable(src)       == SetBits("PLIC_ENABLE", {src})
plic_disable(src)      == ClearBits("PLIC_ENABLE", {src})
plic_set_threshold(t)  == <<W("PLIC_THRESHOLD", t)>>
plic_claim             == <<R("PLIC_CLAIM")>>
plic_complete(src)     == <<W("PLIC_COMPLETE", src)>>
plic_init_source(src)  == plic_set_threshold(0) \o plic_set_priority(src, 1) \o plic_enable(src)
plic_init_ascon ==
  plic_set_priority("ASCON", 1) \o <<W("PLIC_ENABLE", {"ASCON"})>> \o plic_set_threshold(0)
mie_enable_external    == <<<<"csrs", "external">>>>
mstatus_enable_irq     == <<<<"csrs", "global">>>>
mstatus_disable_irq    == <<<<"csrc", "global">>>>
\* The interrupt output of soc_ctrl_slave.v is not connected (soc_top.v:2029).
soc_ctrl_irq_status     == <<R("SOC_IRQ_STATUS")>>
soc_ctrl_irq_clear(m)   == <<W("SOC_IRQ_STATUS", m)>>
soc_ctrl_irq_mask_set(m) == <<W("SOC_IRQ_MASK", m)>>

(***************************************************************************)
(* gpio_iocell.v.  The condition of ?: is a vector of 32 pins: one pin in  *)
(* edge mode puts all of them in edge mode, and one active high makes all  *)
(* levels active high.                                                     *)
(***************************************************************************)
Rising(from, to)  == to \ from
Falling(from, to) == from \ to
EdgeDet(from, to, pol) == (pol \cap Rising(from, to)) \cup (Falling(from, to) \ pol)
LevelDet(to, pol)      == IF pol # {} THEN to ELSE Pins \ to
IrqRaw(from, to, mode, pol) == IF mode # {} THEN EdgeDet(from, to, pol) ELSE LevelDet(to, pol)

PlicWins == {s \in pending \cap plicEnable : priority[s] > threshold}
meip     == PlicWins # {}
IrqRead ==
  CASE Reg = "DIN"      -> din
    [] Reg = "DOUT"     -> dout
    [] Reg = "IRQ_MODE" -> irqMode
    [] Reg = "IRQ_POL"  -> irqPol
    [] Reg = "IRQ_EN"   -> irqEn
    [] Reg = "IRQ_STAT" -> irqStat
    [] Reg = "PLIC_ENABLE" -> plicEnable
    [] Reg = "PLIC_CLAIM"  -> PlicWins
    [] OTHER -> {}

\* The gateway latches the interrupt of the pins, unless it is in service.
Pinned(raw) ==
  LET gpio_irq == raw \cap irqEn' # {} IN
  /\ irqStat' = (irqStat \cup (raw \cap irqEn')) \
                  (IF Current # <<>> /\ Writes("IRQ_STAT") THEN Written \cap Strobed ELSE {})
  /\ pending' = (IF Current # <<>> /\ Reads("PLIC_CLAIM") THEN pending \ PlicWins ELSE pending)
                  \cup (IF gpio_irq /\ "GPIO" \notin inService' THEN {"GPIO"} ELSE {})

\* What the callers asked for, each as if it were alone.
Kept == {"DOUT", "IRQ_EN", "PLIC_ENABLE"}
Asks(reg) == IF ~Writes(reg) THEN wanted[reg]
             ELSE IF Op = "merge" THEN Into(wanted[reg]) ELSE wanted[reg] \cup Written
Overwrites(reg) == Thread /\ call = "init" /\ ~(wanted[reg] \subseteq Written)
IrqAccess ==
  /\ Current # <<>>
  /\ Access(IrqRead)
  /\ dout' = IF Writes("DOUT") THEN Written ELSE dout
  /\ irqMode' = IF Writes("IRQ_MODE") THEN Written ELSE irqMode
  /\ irqPol' = IF Writes("IRQ_POL") THEN Written ELSE irqPol
  /\ irqEn' = IF Writes("IRQ_EN") THEN Written ELSE irqEn
  /\ plicEnable' = IF Writes("PLIC_ENABLE") THEN Written ELSE plicEnable
  /\ priority' = IF Writes("PLIC_PRIORITY")
                 THEN [s \in Sources |-> IF s \in DOMAIN Written THEN Written[s] ELSE priority[s]] ELSE priority
  /\ threshold' = IF Writes("PLIC_THRESHOLD") THEN Written ELSE threshold
  /\ inService' = IF Reads("PLIC_CLAIM") THEN inService \cup PlicWins
                  ELSE IF Writes("PLIC_COMPLETE") THEN inService \ Written ELSE inService
  /\ Pinned(IrqRaw(din, din, irqMode', irqPol'))
  /\ wanted' = [reg \in Kept |-> Asks(reg)]
  /\ tangled' = tangled \cup {reg \in Kept :
                   Writes(reg) /\ (Overwrites(reg) \/ Behind(reg, TRUE, FALSE))}
  /\ unseen' = (unseen /\ ~(Reads("IRQ_STAT") /\ ~Thread))
  /\ missed' = (missed /\ ~(Reads("IRQ_STAT") /\ ~Thread))
  /\ UNCHANGED din

\* A pin moves.
PinMoves(p) ==
  LET to  == IF p \in din THEN din \ {p} ELSE din \cup {p}
      raw == IrqRaw(din, to, irqMode, irqPol) \cap irqEn IN
  /\ din' = to
  /\ UNCHANGED <<hart, dout, irqEn, irqMode, irqPol, plicEnable, priority, threshold, inService,
                 wanted, tangled>>
  /\ irqStat' = irqStat \cup raw
  /\ pending' = pending \cup (IF raw # {} /\ "GPIO" \notin inService THEN {"GPIO"} ELSE {})
  /\ unseen' = (unseen \/ (irqMode # {} /\ raw # {}))
  /\ missed' = (missed \/ (irqMode # {} /\ raw # {} /\ "GPIO" \in inService))

(***************************************************************************)
(* The program.  Its handler claims, looks at the pins, clears those it    *)
(* saw, acts, and completes.                                               *)
(***************************************************************************)
IrqStart ==
  irq_set_mtvec \o gpio_set_dir({}) \o plic_init_source("GPIO") \o
  soc_ctrl_irq_mask_set({"GPIO"}) \o soc_ctrl_irq_status \o soc_ctrl_irq_clear({"GPIO"}) \o
  mie_enable_external \o mstatus_enable_irq
IrqCall ==
  /\ \/ \E p \in Pins, edge, polarity \in BOOLEAN : Begin("other", gpio_irq_enable({p}, edge, polarity))
     \/ \E f \in {gpio_set({0}), gpio_clear({0}), gpio_write(Pins, {4}),
                  gpio_read \o gpio_irq_status \o gpio_irq_clear(Pins),
                  plic_enable("ASCON"), plic_disable("GPIO"),
                  mstatus_disable_irq \o plic_enable("ASCON") \o mstatus_enable_irq} :
          Begin("other", f)
     \/ Begin("init", plic_init_ascon)
  /\ UNCHANGED irqVars
IrqReturn == (\E f \in {"start", "init", "other"} : GoesOn(f)) /\ Return /\ UNCHANGED irqVars
IrqInterrupt == meip /\ Interrupt("external", plic_claim \o gpio_irq_status) /\ UNCHANGED irqVars
IrqHandles ==
  /\ HandlerAt("external") /\ Len(isrSeen) = 2
  /\ \E f \in {gpio_set({0}), plic_enable("ASCON")} :
       HandlerContinue(gpio_irq_clear(isrSeen[2]) \o f \o plic_complete(isrSeen[1]))
  /\ UNCHANGED irqVars
Completed == HandlerAt("external") /\ Len(isrSeen) < 2
IrqMret == Completed /\ Mret /\ UNCHANGED irqVars

-----------------------------------------------------------------------------
IrqInit ==
  /\ din = {} /\ dout = {} /\ irqEn = {} /\ irqMode = {} /\ irqPol = {} /\ irqStat = {}
  /\ plicEnable = {} /\ priority = [s \in Sources |-> 0] /\ threshold = 0
  /\ pending = {} /\ inService = {}
  /\ wanted = [reg \in Kept |-> {}] /\ tangled = {} /\ unseen = FALSE /\ missed = FALSE

IrqNext ==
  \/ IrqAccess \/ (\E p \in Pins : PinMoves(p))
  \/ IrqCall \/ IrqReturn \/ IrqInterrupt \/ IrqHandles \/ IrqMret

IrqTypeOK ==
  /\ {din, dout, irqEn, irqMode, irqPol, irqStat} \subseteq SUBSET Pins
  /\ {plicEnable, pending, inService} \subseteq SUBSET Sources
  /\ priority \in [Sources -> {0, 1}] /\ threshold = 0
  /\ tangled \subseteq Kept /\ {unseen, missed} \subseteq BOOLEAN

\* The outputs, the enables of the pins and those of the PLIC are what the
\* callers asked for (gpio.h:38-56, plic.h:40-50), unless the handler changed
\* one between the read and the write of the thread, or plic_init_ascon,
\* which writes the whole mask (plic_drv.h:37), came after another enable.
EnabledAsAsked ==
  \A reg \in Kept \ tangled :
    wanted[reg] = CASE reg = "DOUT" -> dout [] reg = "IRQ_EN" -> irqEn [] OTHER -> plicEnable

\* An edge the handler has not looked at is pending, unless it came while the
\* source was in service: gpio_irq is a pulse, not the sticky IRQ_STAT
\* (gpio_iocell.v:76).
EdgeIsPending == unseen /\ inService = {} => "GPIO" \in pending \/ missed

\* A level that is up at an enabled pin is pending or in service (gpio.h:70),
\* if every pin has its mode and its polarity: one other pin in edge mode, or
\* of the other polarity, silences it.
LevelIsPending ==
  \A p \in irqEn \ irqMode :
    irqMode = {} /\ (p \in irqPol <=> p \in din) /\ (irqPol # {} => p \in irqPol)
      => "GPIO" \in pending \cup inService

\* The enables are kept, and what they let through reaches the PLIC.
IrqKept == EnabledAsAsked /\ EdgeIsPending /\ LevelIsPending
=============================================================================
