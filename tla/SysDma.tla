------------------------------- MODULE SysDma -------------------------------
(***************************************************************************)
(* The system DMA controller, dma/dma_ctrl.v, under the driver that runs   *)
(* it, gnu_toolchain/include/dma.h: the register slave, the channels, the  *)
(* two round-robin arbiters of the AXI master, and a program that calls    *)
(* the driver's functions from a thread and from an interrupt handler.     *)
(*                                                                         *)
(* One step is one cycle of the clock, in which at most one register write *)
(* of the CPU lands.  A burst is read, and written, in the cycle of its    *)
(* last beat; the memory answers when it likes, and now and then with an   *)
(* error.  Addresses are areas: a source area of the program, the          *)
(* destination buffer of the channel, or the data port of the UART, whose  *)
(* receive FIFO requests channel 0 and whose transmit FIFO channel 1       *)
(* (soc_top.v:207-210).  Lengths are words, and zero is one of them.       *)
(***************************************************************************)
EXTENDS Naturals, Sequences

CONSTANTS
  NumCh,       \* channels 0 .. NumCh - 1
  BurstLen,    \* ARLEN of a full burst, which has BurstLen + 1 words
  Sources,     \* the source areas
  Copies,      \* the lengths the program gives dma_memcpy,
  Pairs,       \* the pairs of them it gives two channels in parallel,
  Jobs,        \* the modes and lengths of its background jobs
  BufLen,      \* words of a destination buffer
  MaxCalls,    \* calls the program makes
  MaxFaults    \* bursts the memory answers with an error

Channels == 0 .. NumCh - 1
Nobody   == NumCh

ASSUME SysDmaConstants ==
  /\ NumCh \in Nat \ {0} /\ BurstLen \in Nat
  /\ Sources # {} /\ {"port", "unset"} \cap Sources = {}
  /\ BufLen \in Nat
  /\ Copies \subseteq 0 .. BufLen /\ Pairs \subseteq (0 .. BufLen) \X (0 .. BufLen)
  /\ Jobs \subseteq {"mem", "rx", "tx"} \X (0 .. BufLen)
  /\ MaxCalls \in Nat /\ MaxFaults \in Nat

Positions == 1 .. BufLen
Words     == ((Sources \cup {"port"}) \X Nat) \cup {<<"old", 0>>, <<"junk", 0>>}
Modes     == {"mem", "rx", "tx"}
States    == {"IDLE", "P_WAIT", "FETCH_RD", "WAIT_RD", "FETCH_WR", "WAIT_WR", "DONE", "ERROR"}

VARIABLES
  rSrc, rDst, rLen, rMode, rEn,   \* the configuration of each channel
  startPulse,                     \* r_start
  stDone, stErr, irqEn, irqSt,    \* r_status_done, r_status_error, r_irq_en, r_irq_status
  st,                             \* the state of each channel
  jSrc, jDst, jMode, sPos, dPos, left,  \* what it latched: cur_src, cur_dst, bytes_left
  burst, buf,                     \* the words of its burst, buf_mem
  donePulse, errPulse, rdRel, wrRel,
  rdOwner, rdLast,                \* rd_grant and rd_last_grant of the arbiter
  wrOwner, wrLast,
  mem,                            \* the destination buffers
  rxFull, txFull, taken, sent,    \* the UART: its FIFOs, the words taken and sent
  faults,                         \* errors the memory may still answer
  call, awaited, todo,            \* the thread: its call, the channels it polls, its writes
  isrTodo, isrNext,               \* the channels the handler has left, its place in dma_isr_clear
  calls,                          \* calls the program may still make
  job,                            \* history: what was asked of each channel
  result,                         \* history: what the program learned of it
  background,                     \* channels whose end the handler is to serve
  missed, irqMissed               \* history: ends whose flag was erased before it was read

registers == <<rSrc, rDst, rLen, rMode, rEn, startPulse>>
flags     == <<stDone, stErr, irqEn, irqSt>>
channels  == <<st, jSrc, jDst, jMode, sPos, dPos, left, burst, buf, donePulse, errPulse, rdRel, wrRel>>
arbiters  == <<rdOwner, rdLast, wrOwner, wrLast>>
outside   == <<mem, rxFull, txFull, taken, sent, faults>>
thread    == <<call, awaited, todo, calls>>
program   == <<thread, isrTodo, isrNext, job, result, background>>
vars == <<registers, flags, channels, arbiters, outside, program, missed, irqMissed>>

(***************************************************************************)
(* The register writes the driver makes, and the driver: each function is  *)
(* the sequence of its writes.                                             *)
(***************************************************************************)
NoWrite == <<"none">>
Status(done, err) == <<"status", done, err>>
IrqStatus(chs)    == <<"irqStatus", chs>>
IrqEnable(chs)    == <<"irqEnable", chs>>
SetSrc(c, a)      == <<"src", c, a>>
SetDst(c, a)      == <<"dst", c, a>>
SetLen(c, n)      == <<"len", c, n>>
Ctrl(c, en, start, mode) == <<"ctrl", c, en, start, mode>>

dma_clear_done(c)     == <<Status({c}, {})>>
dma_clear_all_status  == <<Status(Channels, Channels)>>
dma_clear_irq(c)      == <<IrqStatus({c})>>
dma_clear_all_irq     == <<IrqStatus(Channels)>>
dma_irq_enable(chs)   == <<IrqEnable(chs)>>
dma_irq_disable_all   == <<IrqEnable({})>>
dma_chN_setup(c, s, n) == <<SetSrc(c, s), SetDst(c, "buffer"), SetLen(c, n)>>
dma_chN_start(c)       == <<Ctrl(c, TRUE, TRUE, "mem")>>
dma_ch_setup(c, s, n)  == <<SetSrc(c, s), SetDst(c, "buffer"), SetLen(c, n)>>
dma_ch_start(c)        == <<Ctrl(c, TRUE, TRUE, "mem")>>
dma_ch_setup_periph(c, s, n, mode) ==
  LET periph_src == IF mode = "rx" THEN "port" ELSE s
      periph_dst == IF mode = "rx" THEN "buffer" ELSE "port"
  IN  <<SetSrc(c, periph_src), SetDst(c, periph_dst), SetLen(c, n), Ctrl(c, TRUE, TRUE, mode)>>
dma_ch_disable(c)      == <<Ctrl(c, FALSE, FALSE, "mem")>>
dma_isr_clear(c)       == dma_clear_irq(c) \o dma_clear_done(c)

\* The writes of dma_memcpy before it waits, and after it has waited.
dma_memcpy_stale(c, s, n) == dma_ch_setup(c, s, n) \o dma_ch_start(c)   \* a mutant
dma_memcpy(c, s, n) == <<Status({c}, {c})>> \o dma_ch_setup(c, s, n) \o dma_ch_start(c)
dma_memcpy_end(c)   == <<Status({c}, {c})>>

\* What the driver reads: dma_is_busy, and the tests of dma_wait and dma_wait_all.
dma_is_busy(c)     == st[c] # "IDLE"
dma_wait(c)        == stDone[c] \/ stErr[c]
dma_wait_all(chs)  == (\E c \in chs : stErr[c]) \/ (\A c \in chs : stDone[c])
dma_isr_get_pending == {c \in Channels : irqSt[c]}

(***************************************************************************)
(* The channel, dma_channel.v.                                             *)
(***************************************************************************)
RdGrant(c) == rdOwner = c
WrGrant(c) == wrOwner = c
Request(c) == IF jMode[c] = "rx" THEN rxFull ELSE ~txFull            \* periph_req
Starts(c)  == st[c] = "IDLE" /\ startPulse[c] /\ rEn[c]
Reads(c)   == st[c] = "FETCH_RD" /\ RdGrant(c)
ReadEnds(c, rd)  == st[c] = "WAIT_RD" /\ RdGrant(c) /\ rd # "none"   \* rd_last
Writes(c)  == st[c] = "FETCH_WR" /\ WrGrant(c)
WriteEnds(c, wr) == st[c] = "WAIT_WR" /\ WrGrant(c) /\ wr # "none"   \* wr_bvalid

FullBurstAlways(n) == TRUE                                            \* a mutant
FullBurst(n) == 4 * n >= BurstLen + 4
next_burst_len(c) == IF jMode[c] # "mem" THEN 1
                     ELSE IF FullBurst(left[c]) THEN BurstLen + 1 ELSE left[c]
LastBurst(c) == left[c] <= burst[c]

NextState(c, rd, wr) ==
  CASE Starts(c) -> IF rLen[c] = 0 THEN "IDLE"
                    ELSE IF rMode[c] = "mem" THEN "FETCH_RD" ELSE "P_WAIT"
    [] st[c] = "P_WAIT" /\ Request(c) -> "FETCH_RD"
    [] Reads(c)         -> "WAIT_RD"
    [] ReadEnds(c, rd)  -> "FETCH_WR"
    [] Writes(c)        -> "WAIT_WR"
    [] WriteEnds(c, wr) -> IF wr = "err" THEN "ERROR"
                           ELSE IF LastBurst(c) THEN "DONE"
                           ELSE IF jMode[c] = "mem" THEN "FETCH_RD" ELSE "P_WAIT"
    [] st[c] \in {"DONE", "ERROR"} -> "IDLE"
    [] OTHER -> st[c]

\* The words a burst brings: RRESP is not looked at, an error brings junk.
ReadWord(c, i) == IF jSrc[c] = "port" THEN <<"port", taken + i>> ELSE <<jSrc[c], sPos[c] + i>>
ReadData(c, rd) == [i \in 1 .. burst[c] |-> IF rd = "err" THEN <<"junk", 0>> ELSE ReadWord(c, i)]

ChannelCycle(rd, wr) ==
  LET begins(c)   == Starts(c) /\ rLen[c] # 0
      advances(c) == WriteEnds(c, wr) /\ wr = "ok"
  IN
  /\ st' = [c \in Channels |-> NextState(c, rd, wr)]
  /\ jSrc' = [c \in Channels |-> IF begins(c) THEN rSrc[c] ELSE jSrc[c]]
  /\ jDst' = [c \in Channels |-> IF begins(c) THEN rDst[c] ELSE jDst[c]]
  /\ jMode' = [c \in Channels |-> IF begins(c) THEN rMode[c] ELSE jMode[c]]
  /\ sPos' = [c \in Channels |-> IF begins(c) THEN 0
                ELSE IF advances(c) /\ jMode[c] # "rx" THEN sPos[c] + burst[c] ELSE sPos[c]]
  /\ dPos' = [c \in Channels |-> IF begins(c) THEN 0
                ELSE IF advances(c) /\ jMode[c] # "tx" THEN dPos[c] + burst[c] ELSE dPos[c]]
  /\ left' = [c \in Channels |-> IF begins(c) THEN rLen[c]
                ELSE IF ~advances(c) THEN left[c]
                ELSE IF LastBurst(c) THEN 0 ELSE left[c] - burst[c]]
  /\ burst' = [c \in Channels |-> IF Reads(c) THEN next_burst_len(c) ELSE burst[c]]
  /\ buf' = [c \in Channels |-> IF ReadEnds(c, rd) THEN ReadData(c, rd)
                ELSE IF WriteEnds(c, wr) THEN <<>> ELSE buf[c]]
  /\ donePulse' = [c \in Channels |-> st[c] = "DONE" \/ (Starts(c) /\ rLen[c] = 0)]
  /\ errPulse' = [c \in Channels |-> WriteEnds(c, wr) /\ wr = "err"]
  /\ rdRel' = [c \in Channels |-> ReadEnds(c, rd)]
  /\ wrRel' = [c \in Channels |-> WriteEnds(c, wr)]

(***************************************************************************)
(* dma_arbiter.v, twice: round robin, and the bus is held until its owner  *)
(* releases it.                                                            *)
(***************************************************************************)
Ahead(c, last) == IF c > last THEN c - last ELSE c + NumCh - last
Winner(reqs, last) == CHOOSE c \in reqs : \A d \in reqs : Ahead(c, last) <= Ahead(d, last)

OwnerEveryCycle(reqs, rel, owner, last) ==                            \* a mutant
  IF reqs # {} THEN Winner(reqs, last)
  ELSE IF owner # Nobody /\ rel[owner] THEN Nobody ELSE owner
NextOwner(reqs, rel, owner, last) ==
  IF owner # Nobody THEN (IF rel[owner] THEN Nobody ELSE owner)
  ELSE IF reqs = {} THEN Nobody ELSE Winner(reqs, last)
LastOfNobody(reqs, owner, last) ==                                    \* a mutant
  IF owner = Nobody THEN (IF reqs = {} THEN Nobody ELSE Winner(reqs, last)) ELSE last
NextLast(reqs, owner, last) ==
  IF owner = Nobody /\ reqs # {} THEN Winner(reqs, last) ELSE last

RdReqs == {c \in Channels : st[c] = "FETCH_RD"}                       \* rd_req
WrReqs == {c \in Channels : st[c] = "FETCH_WR"}                       \* wr_req
ArbiterCycle ==
  /\ rdOwner' = NextOwner(RdReqs, rdRel, rdOwner, rdLast)
  /\ rdLast' = NextLast(RdReqs, rdOwner, rdLast)
  /\ wrOwner' = NextOwner(WrReqs, wrRel, wrOwner, wrLast)
  /\ wrLast' = NextLast(WrReqs, wrOwner, wrLast)

(***************************************************************************)
(* dma_reg_slave.v.  The pulses of the channels are latched; a write to    *)
(* STATUS or IRQ_STATUS assigns the register again, and a pulse of the     *)
(* same cycle is not in what it assigns.                                   *)
(***************************************************************************)
Kind(w) == w[1]
PulseOnly(flag, pulse) == pulse                                       \* a mutant
Latched(flag, pulse) == [c \in Channels |-> flag[c] \/ pulse[c]]
Without(flag, chs)   == [c \in Channels |-> flag[c] /\ c \notin chs]
Configure(reg, w, kind) ==
  IF Kind(w) = kind THEN [reg EXCEPT ![w[2]] = w[3]] ELSE reg

RegisterCycle(w) ==
  /\ rSrc' = Configure(rSrc, w, "src")
  /\ rDst' = Configure(rDst, w, "dst")
  /\ rLen' = Configure(rLen, w, "len")
  /\ rEn' = Configure(rEn, w, "ctrl")
  /\ rMode' = IF Kind(w) = "ctrl" THEN [rMode EXCEPT ![w[2]] = w[5]] ELSE rMode
  /\ startPulse' = [c \in Channels |-> Kind(w) = "ctrl" /\ w[2] = c /\ w[4]]
  /\ stDone' = IF Kind(w) = "status" THEN Without(stDone, w[2]) ELSE Latched(stDone, donePulse)
  /\ stErr' = IF Kind(w) = "status" THEN Without(stErr, w[3]) ELSE Latched(stErr, errPulse)
  /\ irqEn' = IF Kind(w) = "irqEnable" THEN w[2] ELSE irqEn
  /\ irqSt' = IF Kind(w) = "irqStatus" THEN Without(irqSt, w[2])
              ELSE Latched(irqSt, Latched(donePulse, errPulse))
irq_out == \E c \in irqEn : irqSt[c]

(***************************************************************************)
(* What is outside: the memory behind the AXI master, which has the burst  *)
(* that ends write the destination, and the UART, which receives a word    *)
(* when its FIFO is empty and sends one when it is full.                   *)
(***************************************************************************)
Target(c) == IF jMode[c] = "tx" THEN rDst[c] ELSE jDst[c]            \* wr_addr
Written(c, wr) == WriteEnds(c, wr) /\ wr = "ok"
OutsideCycle(rd, wr, receives, sends) ==
  /\ mem' = [c \in Channels |->
       IF Written(c, wr) /\ Target(c) = "buffer"
       THEN [i \in Positions |-> IF i - dPos[c] \in 1 .. burst[c] THEN buf[c][i - dPos[c]]
                                 ELSE mem[c][i]]
       ELSE mem[c]]
  /\ LET takes == \E c \in Channels : ReadEnds(c, rd) /\ jSrc[c] = "port"
         puts(c) == Written(c, wr) /\ Target(c) = "port"
     IN /\ rxFull' = ((rxFull \/ receives) /\ ~takes)
        /\ taken' = IF takes THEN taken + 1 ELSE taken
        /\ txFull' = ((txFull /\ ~sends) \/ \E c \in Channels : puts(c))
        /\ sent' = IF \E c \in Channels : puts(c)
                   THEN sent \o buf[CHOOSE c \in Channels : puts(c)] ELSE sent
  /\ rd = "err" => \A c \in Channels : ReadEnds(c, rd) => jSrc[c] # "port"
  /\ wr = "err" => \A c \in Channels : WriteEnds(c, wr) => Target(c) # "port"
  /\ faults' = IF "err" \in {rd, wr} THEN faults - 1 ELSE faults

(***************************************************************************)
(* The cycle of the clock, with the write w that lands in it.              *)
(***************************************************************************)
Answers == {"none", "ok"} \cup (IF faults > 0 THEN {"err"} ELSE {})
RdAnswers == IF \E c \in Channels : ReadEnds(c, "ok") THEN Answers ELSE {"none"}
WrAnswers == IF \E c \in Channels : WriteEnds(c, "ok") THEN Answers ELSE {"none"}
Cycle(w, rd, wr, receives, sends) ==
  /\ RegisterCycle(w)
  /\ ChannelCycle(rd, wr)
  /\ ArbiterCycle
  /\ OutsideCycle(rd, wr, receives, sends)
  /\ job' = [c \in Channels |->
       [job[c] EXCEPT !.rdErr = @ \/ (rd = "err" /\ ReadEnds(c, rd)),
                      !.wrErr = @ \/ (wr = "err" /\ WriteEnds(c, wr))]]
  /\ missed' = missed \cup {c \in awaited : /\ isrTodo # {} /\ Kind(w) = "status"
                                            /\ \/ donePulse[c] \/ errPulse[c]
                                               \/ stDone[c] /\ c \in w[2]}
  /\ irqMissed' = irqMissed \cup {c \in background : /\ Kind(w) = "irqStatus"
                                            /\ \/ donePulse[c] \/ errPulse[c]
                                               \/ irqSt[c] /\ isrTodo = {}}

(***************************************************************************)
(* The program.  It computes between two cycles: it calls a function of    *)
(* the driver, or reads a flag and goes on.  It starts a channel that      *)
(* dma_is_busy says is free, polls only channels whose interrupt is off,   *)
(* and fills the buffer of a job before it asks for it.                    *)
(***************************************************************************)
device == <<registers, flags, channels, arbiters>>
Free(c) == c \notin background /\ c \notin irqEn /\ ~dma_is_busy(c)
Job(s, n, mode) == [src |-> s, len |-> n, mode |-> mode, rdErr |-> FALSE, wrErr |-> FALSE]
NoJob == Job("unset", 0, "mem")
Blank == [i \in Positions |-> <<"old", 0>>]

Call(kind, jobs, writes, polled) ==
  LET chs == DOMAIN jobs
      over == {c \in Channels \ background : ~dma_is_busy(c)}
  IN
  /\ call = "none" /\ isrTodo = {} /\ calls > 0
  /\ \A c \in Channels : ~startPulse[c]   \* a read comes later than the cycle after a write
  /\ calls' = calls - 1
  /\ call' = kind
  /\ todo' = writes
  /\ awaited' = polled
  /\ job' = [c \in Channels |-> IF c \in chs THEN jobs[c]
                               ELSE IF c \in over THEN NoJob ELSE job[c]]
  /\ result' = [c \in Channels |-> IF c \in chs \cup over THEN "none" ELSE result[c]]
  /\ mem' = [c \in Channels |-> IF c \in chs \cup over THEN Blank ELSE mem[c]]
  /\ missed' = missed \ chs
  /\ irqMissed' = irqMissed \ chs
  /\ UNCHANGED <<device, rxFull, txFull, faults, isrTodo, isrNext>>

CallMemcpy(c, s, n) ==
  /\ Free(c)
  /\ Call("memcpy", [x \in {c} |-> Job(s, n, "mem")], dma_memcpy(c, s, n), {c})
  /\ UNCHANGED <<background, taken, sent>>

\* Two channels in parallel, then dma_wait_all (dma.h:447-461).
CallPair(c, d, s, n, m) ==
  /\ Free(c) /\ Free(d) /\ c < d
  /\ Call("pair", [x \in {c, d} |-> Job(s, IF x = c THEN n ELSE m, "mem")],
          dma_clear_all_status \o dma_chN_setup(c, s, n) \o dma_chN_setup(d, s, m)
            \o dma_chN_start(c) \o dma_chN_start(d),
          {c, d})
  /\ UNCHANGED <<background, taken, sent>>

\* A job whose end the handler serves (dma.h:463-479).
CallBackground(c, s, n, mode) ==
  /\ Free(c)
  /\ mode = "rx" => c = 0
  /\ mode = "tx" => c = 1
  /\ Call("background", [x \in {c} |-> Job(s, n, mode)],
          dma_clear_all_irq \o dma_irq_enable(background \cup {c})
            \o (IF mode = "mem" THEN dma_ch_setup(c, s, n) \o dma_ch_start(c)
                ELSE dma_ch_setup_periph(c, s, n, mode)),
          {})
  /\ background' = background \cup {c}
  /\ taken' = IF mode = "rx" THEN 0 ELSE taken
  /\ sent' = IF mode = "tx" THEN <<>> ELSE sent

\* The program takes a channel back from the handler.
CallDisable(c) ==
  /\ c \in irqEn /\ background \subseteq {c}
  /\ Call("disable", [x \in {} |-> NoJob], dma_ch_disable(c) \o dma_irq_disable_all, {})
  /\ background' = {}
  /\ UNCHANGED <<taken, sent>>

\* dma_wait or dma_wait_all reads a STATUS that ends its loop.
WaitReturns ==
  /\ awaited # {} /\ todo = <<>> /\ isrTodo = {}
  /\ IF call = "memcpy" THEN \A c \in awaited : dma_wait(c) ELSE dma_wait_all(awaited)
  /\ result' = [c \in Channels |-> IF c \notin awaited THEN result[c]
                                   ELSE IF stErr[c] THEN "err"
                                   ELSE IF stDone[c] THEN "ok" ELSE "none"]
  /\ todo' = IF call = "memcpy" THEN dma_memcpy_end(CHOOSE c \in awaited : TRUE) ELSE <<>>
  /\ awaited' = {}
  /\ UNCHANGED <<device, outside, call, calls, isrTodo, isrNext, job, background, missed, irqMissed>>

CallReturns ==
  /\ call # "none" /\ todo = <<>> /\ awaited = {} /\ isrTodo = {}
  /\ call' = "none"
  /\ UNCHANGED <<device, outside, awaited, todo, calls, isrTodo, isrNext, job, result, background,
                 missed, irqMissed>>

\* The handler reads what is pending and serves the channels it looks at:
\* those it was enabled for (dma.h:474-479), or every one (dma.h:416-424).
TakeInterrupt(looksAt) ==
  LET pending == dma_isr_get_pending \cap looksAt IN
  /\ irq_out /\ isrTodo = {}
  /\ isrTodo' = pending
  /\ result' = [c \in Channels |-> IF c \in pending \cap irqEn \cap background THEN "served"
                                   ELSE result[c]]
  /\ background' = background \ (pending \cap irqEn)
  /\ UNCHANGED <<device, outside, thread, isrNext, job, missed, irqMissed>>

Receiver == \E c \in background : job[c].mode = "rx"   \* words nobody asked for do not matter
Clocked(w) ==
  \E rd \in RdAnswers, wr \in WrAnswers, receives \in {FALSE, ~rxFull /\ Receiver}, sends \in {FALSE, txFull} :
    Cycle(w, rd, wr, receives, sends)

ThreadWrites ==
  /\ todo # <<>> /\ isrTodo = {}
  /\ todo' = Tail(todo)
  /\ UNCHANGED <<call, awaited, calls, isrTodo, isrNext, result, background>>
  /\ Clocked(Head(todo))

\* From the lowest channel up, dma_isr_clear for each.
HandlerWrites ==
  /\ isrTodo # {}
  /\ UNCHANGED <<thread, result, background>>
  /\ LET c == CHOOSE x \in isrTodo : \A y \in isrTodo : x <= y IN
     /\ Clocked(dma_isr_clear(c)[isrNext])
     /\ IF isrNext = 1 THEN isrNext' = 2 /\ UNCHANGED isrTodo
        ELSE isrNext' = 1 /\ isrTodo' = isrTodo \ {c}

\* The processor writes nothing in this cycle.
NobodyWrites ==
  /\ UNCHANGED <<thread, isrTodo, isrNext, result, background>>
  /\ Clocked(NoWrite)

-----------------------------------------------------------------------------
Init ==
  /\ rSrc = [c \in Channels |-> "unset"] /\ rDst = [c \in Channels |-> "unset"]
  /\ rLen = [c \in Channels |-> 0] /\ rMode = [c \in Channels |-> "mem"]
  /\ rEn = [c \in Channels |-> FALSE] /\ startPulse = [c \in Channels |-> FALSE]
  /\ stDone = [c \in Channels |-> FALSE] /\ stErr = [c \in Channels |-> FALSE]
  /\ irqEn = {} /\ irqSt = [c \in Channels |-> FALSE]
  /\ st = [c \in Channels |-> "IDLE"]
  /\ jSrc = [c \in Channels |-> "unset"] /\ jDst = [c \in Channels |-> "unset"]
  /\ jMode = [c \in Channels |-> "mem"]
  /\ sPos = [c \in Channels |-> 0] /\ dPos = [c \in Channels |-> 0]
  /\ left = [c \in Channels |-> 0] /\ burst = [c \in Channels |-> 0]
  /\ buf = [c \in Channels |-> <<>>]
  /\ donePulse = [c \in Channels |-> FALSE] /\ errPulse = [c \in Channels |-> FALSE]
  /\ rdRel = [c \in Channels |-> FALSE] /\ wrRel = [c \in Channels |-> FALSE]
  /\ rdOwner = Nobody /\ rdLast = NumCh - 1 /\ wrOwner = Nobody /\ wrLast = NumCh - 1
  /\ mem = [c \in Channels |-> Blank]
  /\ rxFull = FALSE /\ txFull = FALSE /\ taken = 0 /\ sent = <<>> /\ faults = MaxFaults
  /\ call = "none" /\ awaited = {} /\ todo = <<>> /\ calls = MaxCalls
  /\ isrTodo = {} /\ isrNext = 1
  /\ job = [c \in Channels |-> NoJob] /\ result = [c \in Channels |-> "none"]
  /\ background = {} /\ missed = {} /\ irqMissed = {}

Computes ==
  \/ \E c \in Channels, s \in Sources, n \in Copies : CallMemcpy(c, s, n)
  \/ \E c \in Channels, d \in Channels, s \in Sources, p \in Pairs : CallPair(c, d, s, p[1], p[2])
  \/ \E c \in Channels, s \in Sources, j \in Jobs : CallBackground(c, s, j[2], j[1])
  \/ \E c \in Channels : CallDisable(c)
  \/ WaitReturns
  \/ CallReturns
  \/ \E looksAt \in {irqEn, Channels} : TakeInterrupt(looksAt)

Next == Computes \/ ThreadWrites \/ HandlerWrites \/ NobodyWrites
Spec == Init /\ [][Next]_vars

(***************************************************************************)
(* Fairness: the clock runs, the processor carries on with its program,    *)
(* the interrupt is taken, the memory answers, the UART sends its words.   *)
(* Nothing makes the UART receive any, and no program has to make a call.  *)
(***************************************************************************)
Ticks == ThreadWrites \/ HandlerWrites \/ NobodyWrites
ProgramMoves ==
  ThreadWrites \/ HandlerWrites \/ WaitReturns \/ CallReturns
  \/ \E looksAt \in {irqEn, Channels} : TakeInterrupt(looksAt)
OutsideMoves ==
  /\ txFull \/ \E c \in Channels : ReadEnds(c, "ok") \/ WriteEnds(c, "ok")
  /\ Ticks
  /\ (txFull /\ ~txFull') \/ \E c \in Channels : rdRel'[c] \/ wrRel'[c]
Fairness == WF_vars(Ticks) /\ WF_vars(ProgramMoves) /\ WF_vars(OutsideMoves)
FairSpec == Spec /\ Fairness
-----------------------------------------------------------------------------
Flags == [Channels -> BOOLEAN]
RegisterWrites ==
  ({"status"} \X (SUBSET Channels) \X (SUBSET Channels))
  \cup ({"irqStatus", "irqEnable"} \X (SUBSET Channels))
  \cup ({"src"} \X Channels \X (Sources \cup {"port"}))
  \cup ({"dst"} \X Channels \X {"buffer", "port"})
  \cup ({"len"} \X Channels \X Nat)
  \cup ({"ctrl"} \X Channels \X BOOLEAN \X BOOLEAN \X Modes)

\* Every variable has its type.
TypeOK ==
  /\ rSrc \in [Channels -> Sources \cup {"port", "unset"}]
  /\ rDst \in [Channels -> {"buffer", "port", "unset"}]
  /\ rLen \in [Channels -> Nat] /\ rMode \in [Channels -> Modes]
  /\ rEn \in Flags /\ startPulse \in Flags
  /\ stDone \in Flags /\ stErr \in Flags /\ irqEn \subseteq Channels /\ irqSt \in Flags
  /\ st \in [Channels -> States]
  /\ jSrc \in [Channels -> Sources \cup {"port", "unset"}]
  /\ jDst \in [Channels -> {"buffer", "port", "unset"}]
  /\ jMode \in [Channels -> Modes]
  /\ sPos \in [Channels -> Nat] /\ dPos \in [Channels -> Nat]
  /\ left \in [Channels -> Nat] /\ burst \in [Channels -> Nat]
  /\ donePulse \in Flags /\ errPulse \in Flags /\ rdRel \in Flags /\ wrRel \in Flags
  /\ rdOwner \in Channels \cup {Nobody} /\ rdLast \in Channels
  /\ wrOwner \in Channels \cup {Nobody} /\ wrLast \in Channels
  /\ \A c \in Channels : buf[c] \in Seq(Words) /\ mem[c] \in [Positions -> Words]
  /\ rxFull \in BOOLEAN /\ txFull \in BOOLEAN /\ taken \in Nat /\ sent \in Seq(Words)
  /\ faults \in 0 .. MaxFaults
  /\ call \in {"none", "memcpy", "pair", "background", "disable"}
  /\ awaited \subseteq Channels /\ calls \in 0 .. MaxCalls
  /\ todo \in Seq(RegisterWrites) /\ isrTodo \subseteq Channels /\ isrNext \in {1, 2}
  /\ job \in [Channels -> [src : Sources \cup {"unset"}, len : Nat, mode : Modes,
                          rdErr : BOOLEAN, wrErr : BOOLEAN]]
  /\ result \in [Channels -> {"none", "ok", "err", "served"}]
  /\ background \subseteq Channels /\ missed \subseteq Channels /\ irqMissed \subseteq Channels

\* The AXI master multiplexes by the grants alone (dma_ctrl.v:338-340): one
\* channel at most is in a read, one in a write, and it holds the grant.
OneReaderOneWriter ==
  /\ \A c \in Channels : st[c] = "WAIT_RD" => rdOwner = c
  /\ \A c \in Channels : st[c] = "WAIT_WR" => wrOwner = c

\* What a job was to leave: word i of the source in place i of its buffer, or
\* at the port, in order.
Asked(c, i) == IF job[c].mode = "rx" THEN <<"port", i>> ELSE <<job[c].src, i>>
Copied(c) ==
  IF job[c].mode = "tx" THEN sent = [i \in 1 .. job[c].len |-> Asked(c, i)]
  ELSE \A i \in 1 .. job[c].len : mem[c][i] = Asked(c, i)

\* What dma_memcpy, dma_wait_all or the handler told the program is so: the
\* error is a write the memory refused, and without one the data is there, if
\* no read failed (RRESP is not looked at, dma_channel.v:260-270).
ReturnsTruth ==
  \A c \in Channels :
    /\ result[c] = "err" => job[c].wrErr
    /\ result[c] = "ok" => ~job[c].wrErr
    /\ result[c] \in {"ok", "served"} /\ ~job[c].rdErr /\ ~job[c].wrErr => Copied(c)

\* A job leaves the words behind its own alone, except that a tail of at
\* least (BurstLen + 4) bytes is taken for a full burst (dma_channel.v:149).
WritesStayInBurst ==
  \A c \in Channels : \A i \in Positions :
    LET tail == job[c].len % (BurstLen + 1)
    IN  i > job[c].len /\ mem[c][i] # <<"old", 0>> =>
          /\ job[c].mode = "mem" /\ 4 * tail >= BurstLen + 4
          /\ i <= job[c].len - tail + BurstLen + 1

\* A poll ends, and a background job is served, unless a write of the handler
\* to STATUS, or of the program to IRQ_STATUS, erased what it waits for
\* (dma_reg_slave.v:417, 425); a job that receives also waits for the words.
CallsComplete ==
  /\ awaited # {} ~> (awaited = {} \/ awaited \cap missed # {})
  /\ \A c \in Channels :
       (c \in background /\ job[c].mode # "rx") ~>
         (c \notin background \/ c \in irqMissed \/ awaited \cap missed # {})
=============================================================================
