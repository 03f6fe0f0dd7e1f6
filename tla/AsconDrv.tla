------------------------------ MODULE AsconDrv ------------------------------
(***************************************************************************)
(* The cipher core and its DMA behind ascon_axi_slave.v, under             *)
(* gnu_toolchain/include/ascon.h, and the program main.c.  The slave keeps *)
(* two contexts: software writes and reads the selected one, the core uses *)
(* the active one and reads its registers while it runs.  A register holds *)
(* the number of the job it belongs to; a text of many blocks is one.      *)
(***************************************************************************)
EXTENDS Hart, FiniteSets

CONSTANTS WrDepth    \* texts and tags the write FIFO of the DMA holds

\* A text and its tag fit (WR_FIFO_DEPTH, ascon_top.v:80).
ASSUME DepthConstant == WrDepth \in Nat /\ WrDepth >= 2

VARIABLES
  selected, active,    \* reg_context_sel, reg_context_active
  bank,                \* the input registers of each context
  ctext, tag,          \* the output registers of each context
  core,                \* the phase of ascon_CONTROLLER, and what it has read so far
  sticky,              \* the sticky bits of STATUS
  dmaEn, dmaBusy,      \* CTRL bit 2; a DMA job is under way
  pump,                \* the DMA has text for the core
  dmaRegs, wrFifo,     \* DMA_SRC, DMA_DST, DMA_LEN; what the core has put out
  landing,             \* the write to memory that has no response yet
  mem,                 \* the areas of the data memory
  polled,              \* the variable status of the drivers
  promised, good            \* history: the inputs of a context's run; what must be right of it

asconCore == <<selected, active, bank, ctext, tag, core, sticky>>
asconDma  == <<dmaEn, dmaBusy, pump, dmaRegs, wrFifo, landing, mem>>
asconVars == <<asconCore, asconDma, polled, promised, good>>

Contexts == {0, 1}
Inputs   == {"MODE", "KEY", "NONCE", "PTEXT", "AD", "TAG_IN"}
None     == 0
Unread   == 8
Torn     == 9

\* dmem_layout.h: the areas of the data memory, in bytes from 0x10000000.
DMEM_BASE         == 448
PT_MULTI_BASE     == 544
CT_MULTI_BASE     == 672
DMEM_MULTI_PT_LEN == 128
DmemLayout ==
  [g_stream |-> <<0, 436>>, PTEXT_0 |-> <<DMEM_BASE, DMEM_BASE + 8>>,
   CTEXT_0 |-> <<DMEM_BASE + 16, DMEM_BASE + 40>>, RETCODE |-> <<DMEM_BASE + 88, DMEM_BASE + 92>>,
   PT_MULTI |-> <<PT_MULTI_BASE, PT_MULTI_BASE + DMEM_MULTI_PT_LEN>>,
   CT_MULTI |-> <<CT_MULTI_BASE, CT_MULTI_BASE + DMEM_MULTI_PT_LEN + 16>>, guard |-> <<2048, 4096>>]
Areas == DOMAIN DmemLayout
Base(area)     == DmemLayout[area][1]
At(addr)       == CHOOSE a \in Areas : Base(a) = addr
Hit(from, len) == {a \in Areas : Base(a) < from + len /\ from < DmemLayout[a][2]}

\* The drivers.
Enc == 0
Dec == 1
ascon_soft_reset        == <<W("CTRL", {"SOFT_RST"})>>
ascon_set_mode(mode)    == <<W("MODE", mode)>>
ascon_select_context(c) == <<W("CONTEXT_SEL", c)>>
ascon_set_key(key)      == <<W("KEY", key)>>
ascon_set_nonce(nonce)  == <<W("NONCE", nonce)>>
ascon_set_ptext(text)   == <<W("PTEXT", text)>>
ascon_set_tag_in(t)     == <<W("TAG_IN", t)>>
ascon_set_ad(ad)        == <<W("AD", ad)>>
ascon_clear_ad          == <<W("AD", None)>>
ascon_core_start        == <<W("CTRL", {"CORE_START"})>>
ascon_wait_core_done    == <<Until("STATUS", {"CORE_DONE"})>>
ascon_dma_config(src, dst, len) == <<W("DMA_SRC", src), W("DMA_DST", dst), W("DMA_LEN", len)>>
ascon_dma_start         == <<W("CTRL", {"CORE_START", "DMA_EN"})>>
ascon_wait_dma_done     == <<Until("STATUS", {"DMA_DONE", "DMA_ERR"})>>
ascon_get_ctext         == <<R("CTEXT")>>
ascon_get_tag           == <<R("TAG")>>
ascon_wait_core_done_check_tag == ascon_wait_core_done
Verdict                 == IF "TAG_MISMATCH" \in polled THEN "wrong" ELSE "ok"

\* What the core makes of its inputs.  The tag of a job is its number.
CtextOf(in) == [r \in Inputs \ {"TAG_IN"} |-> in[r]]
TagOf(in)   == <<"tag", CtextOf(in)>>
Matches(in) == \A r \in {"KEY", "NONCE", "PTEXT", "AD"} : in[r] = in["TAG_IN"]

\* The context the core works on.
core_busy        == core.phase # "idle"
context_selected == selected                                         \* a mutant
core_context_sel == IF core_busy \/ dmaBusy THEN active ELSE selected

AsconStatus == sticky \cup (IF core_busy THEN {"CORE_BUSY"} ELSE {})
                      \cup (IF dmaBusy THEN {"DMA_BUSY"} ELSE {})
AsconRead ==
  CASE Reg = "STATUS" -> AsconStatus
    [] Reg = "CTEXT"  -> ctext[selected]
    [] Reg = "TAG"    -> tag[selected]

\* A write to CTRL.  The soft reset reaches the DMA and the sticky bits, not
\* the core; a start while the one it starts is busy is refused.
Bits   == IF Writes("CTRL") THEN Written ELSE {}
Resets == "SOFT_RST" \in Bits
ByCpu  == Bits = {"CORE_START"} /\ ~core_busy
ByDma  == {"CORE_START", "DMA_EN"} \subseteq Bits /\ ~dmaBusy
Ctrl ==
  /\ active' = IF ByCpu \/ ByDma THEN selected ELSE IF Resets THEN 0 ELSE active
  /\ core' = IF (ByCpu \/ ByDma) /\ ~core_busy
             THEN [phase |-> "init", in |-> [r \in Inputs |-> Unread]] ELSE core
  /\ sticky' = IF Resets THEN {} ELSE sticky
  /\ dmaEn' = IF Writes("CTRL") THEN "DMA_EN" \in Bits ELSE dmaEn
  /\ dmaBusy' = (ByDma \/ (dmaBusy /\ ~Resets))
  /\ pump' = (ByDma \/ (pump /\ ~Resets))
  /\ wrFifo' = IF Resets THEN <<>> ELSE wrFifo

\* The inputs a start is made with; what is promised of it: all, if core and
\* DMA are idle and nothing is left of an earlier run.  A write to the inputs
\* of the run, a soft reset under it or a job of the DMA that takes its place
\* as the active context ends the promise; the verdict is of the last run.
Promise ==
  LET text  == IF ByDma THEN mem[At(dmaRegs["DMA_SRC"])] ELSE bank[selected]["PTEXT"]
      clean == AsconStatus = {} /\ wrFifo = <<>> /\ landing = <<>>
      after == IF clean THEN {"result", "verdict", "memory"} ELSE {} IN
  /\ promised' = IF ByCpu \/ ByDma
                 THEN [promised EXCEPT ![selected] = [bank[selected] EXCEPT !["PTEXT"] = text]]
                 ELSE promised
  /\ good' = CASE ByCpu \/ ByDma -> [c \in Contexts |-> IF c = selected THEN after
                                                         ELSE IF c = active /\ core_busy THEN {}
                                                         ELSE good[c] \ {"verdict"}]
               [] Resets /\ ~ByDma -> [c \in Contexts |-> IF core_busy THEN {} ELSE good[c] \ {"verdict"}]
               [] Op = "write" /\ Reg \in Inputs /\ selected = active /\ core_busy ->
                    [good EXCEPT ![active] = {}]
               [] OTHER -> good

AsconWrite ==
  LET to(r) == Op = "write" /\ Reg = r IN
  /\ Ctrl /\ Promise
  /\ selected' = IF to("CONTEXT_SEL") THEN Written ELSE selected
  /\ bank' = [bank EXCEPT ![selected] = [r \in Inputs |-> IF to(r) THEN Written ELSE @[r]]]
  /\ dmaRegs' = [r \in DOMAIN dmaRegs |-> IF to(r) THEN Written ELSE dmaRegs[r]]
  /\ mem' = [a \in Areas |-> IF to(a) THEN Written ELSE mem[a]]
  /\ UNCHANGED <<ctext, tag, landing>>
AsconAccess ==
  /\ Current # <<>>
  /\ Op = "until" => Head(Current)[3] \cap AsconStatus # {}
  /\ polled' = IF Op = "until" THEN AsconStatus ELSE polled
  /\ Access(AsconRead)
  /\ AsconWrite

(***************************************************************************)
(* The core reads its registers where it uses them.  What it puts out goes *)
(* to the registers and, in every mode, to the FIFO of the DMA.            *)
(***************************************************************************)
Input(r) == IF r = "PTEXT" /\ dmaEn THEN mem[At(dmaRegs["DMA_SRC"])] ELSE bank[core_context_sel][r]
Taken(regs) ==
  [r \in Inputs |-> IF r \notin regs THEN core.in[r]
                    ELSE IF core.in[r] \in {Unread, Input(r)} THEN Input(r) ELSE Torn]
Goes(from, regs, to) ==
  /\ core.phase = from
  /\ core' = [phase |-> to, in |-> Taken(regs)]
  /\ UNCHANGED <<hart, selected, active, bank, dmaEn, dmaBusy, dmaRegs, landing, mem, polled, promised>>
Overflow  == IF Len(wrFifo) = WrDepth THEN {"DMA_ERR"} ELSE {}
PushedAlways(x) == Append(wrFifo, x)                                  \* a mutant
Pushed(x) == IF Overflow = {} THEN Append(wrFifo, x) ELSE wrFifo

CoreInitialises ==
  Goes("init", {"MODE", "KEY", "NONCE"}, "ad") /\ UNCHANGED <<ctext, tag, sticky, pump, wrFifo, good>>
CoreTakesAD ==
  Goes("ad", {"KEY", "AD"}, "data") /\ UNCHANGED <<ctext, tag, sticky, pump, wrFifo, good>>
CoreTakesText ==
  /\ dmaEn => pump
  /\ Goes("data", {"MODE", "PTEXT"}, "tag")
  /\ ctext' = [ctext EXCEPT ![core_context_sel] = CtextOf(core'.in)]
  /\ pump' = FALSE
  /\ wrFifo' = Pushed(CtextOf(core'.in)) /\ sticky' = sticky \cup Overflow
  /\ UNCHANGED <<tag, good>>

\* The tag is valid in the last busy cycle and again in the cycle of done,
\* where busy is down and, without a DMA job, the selected context counts.
CoreEnds ==
  LET last  == IF dmaBusy THEN active ELSE selected
      wrong == bank[last]["MODE"] = Dec /\ ~Matches(core'.in) IN
  /\ Goes("tag", {"MODE", "KEY", "TAG_IN"}, "idle")
  /\ tag' = [c \in Contexts |-> IF c \in {core_context_sel, last} THEN TagOf(core'.in) ELSE tag[c]]
  /\ wrFifo' = Pushed(TagOf(core'.in))
  /\ sticky' = sticky \cup {"CORE_DONE"} \cup (IF wrong THEN {"TAG_MISMATCH"} ELSE {}) \cup Overflow
  /\ good' = [c \in Contexts |-> IF last = active THEN good[c]
                                 ELSE IF c = active THEN good[c] \ {"verdict"} ELSE {}]
  /\ UNCHANGED <<ctext, pump>>

(***************************************************************************)
(* The DMA writes a text and a tag, whatever the FIFO holds.  It is done   *)
(* with the last beat, before the response.                                *)
(***************************************************************************)
DmaDone ==
  /\ dmaBusy /\ Len(wrFifo) >= 2 /\ landing = <<>>
  /\ dmaBusy' = FALSE /\ sticky' = sticky \cup {"DMA_DONE"}
  /\ wrFifo' = SubSeq(wrFifo, 3, Len(wrFifo))
  /\ landing' = <<SubSeq(wrFifo, 1, 2), dmaRegs["DMA_DST"], dmaRegs["DMA_LEN"] + 16>>
  /\ UNCHANGED <<hart, selected, active, bank, ctext, tag, core, dmaEn, pump, dmaRegs, mem,
                 polled, promised, good>>
DmaLands ==
  LET struck == Hit(landing[2], landing[3]) IN
  /\ landing # <<>> /\ landing' = <<>>
  /\ mem' = [a \in Areas |-> CASE a \notin struck -> mem[a]
                               [] a \in struck /\ Base(a) = landing[2] -> landing[1]
                               [] OTHER -> Torn]
  /\ UNCHANGED <<hart, asconCore, dmaEn, dmaBusy, pump, dmaRegs, wrFifo, polled, promised, good>>
\* An error of a read or of a write; the write is lost.  The error of the last
\* write comes when the job is done.
DmaFails ==
  /\ dmaBusy \/ landing # <<>>
  /\ sticky' = sticky \cup {"DMA_ERR"}
  /\ landing' = <<>>
  /\ good' = [good EXCEPT ![active] = IF landing = <<>> THEN @ \ {"result", "verdict"} ELSE {}]
  /\ UNCHANGED <<hart, selected, active, bank, ctext, tag, core, dmaEn, dmaBusy, pump, dmaRegs, wrFifo,
                 mem, polled, promised>>

(***************************************************************************)
(* The programs: runs in the two contexts, prepared, started and collected *)
(* in any order, with single jobs of the DMA; and main, which ends.        *)
(***************************************************************************)
Load(c, mode, job, ad, t) ==
  ascon_select_context(c) \o ascon_set_mode(mode) \o ascon_set_key(job) \o ascon_set_nonce(job)
    \o ascon_set_ptext(job) \o ad \o ascon_set_tag_in(t)
Encrypt(c) == Load(c, Enc, 1, ascon_clear_ad, None)
Decrypt(c) == Load(c, Dec, 2, ascon_set_ad(2), 2)
Forged(c)  == Load(c, Dec, 3, ascon_set_ad(3), 2)
DmaJob ==
  Encrypt(0) \o <<W("PTEXT_0", 4)>> \o ascon_dma_config(Base("PTEXT_0"), Base("CTEXT_0"), 8)
    \o ascon_dma_start \o ascon_wait_dma_done
main ==
  <<W("PT_MULTI", 5)>> \o ascon_soft_reset \o ascon_set_mode(Enc) \o ascon_set_key(5) \o ascon_set_nonce(5)
    \o ascon_dma_config(PT_MULTI_BASE, CT_MULTI_BASE, DMEM_MULTI_PT_LEN)
    \o ascon_dma_start \o ascon_wait_dma_done
retcode == IF "DMA_ERR" \in polled THEN "-1" ELSE "0"

AsconCall ==
  /\ \/ \E f \in {Encrypt(0), Decrypt(1), Forged(1)} : Begin("other", f \o ascon_core_start)
     \/ Begin("other", Encrypt(1))
     \/ \E c \in Contexts :
          Begin("collect", ascon_select_context(c) \o ascon_wait_core_done_check_tag
                             \o ascon_get_ctext \o ascon_get_tag)
     \/ Begin("other", ascon_soft_reset)
     \/ Begin("other", DmaJob)
  /\ UNCHANGED asconVars
AsconReturn ==
  /\ \/ (GoesOn("start") \/ GoesOn("other") \/ GoesOn("collect")) /\ Return
     \/ GoesOn("main") /\ mem["RETCODE"] = "none" /\ Continue(<<W("RETCODE", retcode)>>)
  /\ UNCHANGED asconVars
\* main gives up.
TimesOut ==
  /\ Thread /\ call = "main" /\ Len(todo) = 1 /\ Op = "until"
  /\ polled' = AsconStatus
  /\ Continue(<<W("RETCODE", "-2")>>)
  /\ UNCHANGED <<asconCore, asconDma, promised, good>>

-----------------------------------------------------------------------------
AsconInit ==
  LET blank == [r \in Inputs |-> None] IN
  /\ selected = 0 /\ active = 0
  /\ bank = [c \in Contexts |-> blank] /\ promised = bank
  /\ ctext = [c \in Contexts |-> CtextOf(blank)] /\ tag = [c \in Contexts |-> TagOf(blank)]
  /\ core = [phase |-> "idle", in |-> blank] /\ sticky = {} /\ polled = {}
  /\ dmaEn = FALSE /\ dmaBusy = FALSE /\ pump = FALSE /\ wrFifo = <<>> /\ landing = <<>>
  /\ dmaRegs = [r \in {"DMA_SRC", "DMA_DST", "DMA_LEN"} |-> None]
  /\ mem = [a \in Areas |-> IF a = "RETCODE" THEN "none" ELSE None]
  /\ good = [c \in Contexts |-> {}]

AsconNext ==
  \/ AsconAccess \/ AsconCall \/ AsconReturn \/ TimesOut
  \/ CoreInitialises \/ CoreTakesAD \/ CoreTakesText \/ CoreEnds
  \/ DmaDone \/ DmaLands \/ DmaFails

AsconTypeOK ==
  /\ {selected, active} \subseteq Contexts /\ {dmaEn, dmaBusy, pump} \subseteq BOOLEAN
  /\ core.phase \in {"idle", "init", "ad", "data", "tag"}
  /\ sticky \subseteq {"CORE_DONE", "TAG_MISMATCH", "DMA_DONE", "DMA_ERR"}
  /\ Len(wrFifo) <= WrDepth

\* A run that starts with nothing left of another, and that nobody disturbs,
\* leaves in its context the text and the tag of the inputs it was started
\* with, for whoever collects them (ascon.h:284-296), however the two contexts
\* are prepared meanwhile; and ascon_wait_core_done_check_tag (ascon.h:340-349)
\* finds a forged tag, and only that.
ResultIsOurs ==
  call = "collect" /\ todo = <<>> =>
    LET c == selected IN
    /\ "result" \in good[c] => seen = <<CtextOf(promised[c]), TagOf(promised[c])>>
    /\ "verdict" \in good[c] =>
         (Verdict = "wrong" <=> promised[c]["MODE"] = Dec /\ ~Matches(promised[c]))

\* main.c stores 0 only over its text and tag, once the last write has its
\* response; and no job writes outside the area for its output.
MemoryIsOurs ==
  /\ mem["RETCODE"] = "0" /\ "memory" \in good[0] /\ landing = <<>> =>
       mem["CT_MULTI"] = <<CtextOf(promised[0]), TagOf(promised[0])>>
  /\ \A a \in {"g_stream", "PTEXT_0", "PT_MULTI", "guard"} : mem[a] # Torn

\* What a run leaves in its context, in memory and in its verdict is of the job
\* it was started with.
VerdictIsOurs == ResultIsOurs /\ MemoryIsOurs
=============================================================================
