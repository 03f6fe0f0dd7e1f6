# A verification project for the RISC-V / ASCON SoC

The repository is a dual-core RV32 system on chip in Verilog: two in-order cores
with their caches, a coherent ASCON-128 accelerator with its own DMA, a system
DMA, an interrupt controller, memories and peripherals behind an AXI4 crossbar.
This directory holds TLA+ models of its concurrent parts, the TLC runs that check
them, and TLAPS proofs about them. It says what is modelled, how the models
correspond to the code, what the checks and the proofs show, and what is left.

All paths below are relative to the root of the repository.

## 1. Inventory

| part | state it keeps | operations | what is hard about it |
|---|---|---|---|
| snoop fabric: `cache_interface/dcache/dcache_snoop_arb_3to1.v`, `dcache_snoop_bus_2way.v`, `ascon/dma/rtl/dma_snoop_arb.v`, wired in `soc_top.v:1405-1467` | who is served, what was broadcast, who answered | take a request, broadcast it, merge the answers, return the result | requests are pulses that may be withdrawn or still stand after their grant; two levels of arbitration; answers in any order; a DMA that is restarted or reset in the middle |
| data cache: `cache_interface/dcache/*.v` | lines and their MESI states, a controller, a fence unit, a snoop unit, AXI read and write engines | load, store, refill, forward from the peer, write back, fence, snoop | three units share one lookup port, one data port and one write-back engine, with priorities instead of handshakes; state captured before a wait and used after it |
| PLIC: `plic/` | pending and in-service bit per source, configuration | gateway, arbitration, claim, complete | claiming takes several cycles, in which arbitration may change |
| load/store unit: `cpu/core/LSU.v` | store buffer, load queue, scoreboard | queue, forward, drain, load, fence | age order in circular buffers; loads and drains share a port |
| pipeline: `cpu/riscv_cpu_core_v2.v`, `cpu/core/*.v` | pipeline registers, register file | fetch, decode, execute, stall, flush, fence | stalls and flushes meeting fences and LSU answers |
| instruction cache: `cache_interface/icache/` | lines, prefetch pointer | fetch, refill, prefetch, fence.i | prefetch meeting a miss |
| ASCON DMA: `ascon/dma/` | control FSM, two FIFOs, read and write engines, error latch | start, snoop and read, feed the core, invalidate and write, finish, abort | two engines, a cipher that cannot be stalled, coherence by snoops before the transfer |
| ASCON core: `ascon/rtl/`, `ascon/ascon_top.v` | 320-bit state, controller | initialise, absorb, crypt, finalise | data: a function, tested by vectors |
| crossbar: `interconnect/`, `axi_width_converter_64to32.v` | a locked grant per slave and direction | arbitrate, route, error response | fixed priority; grants held until the last beat |
| system DMA: `dma/rtl/` | four channels, two arbiters, status and interrupt registers | read, buffer, write, report | burst arithmetic; status bits set and cleared at once; one thread polls what an interrupt handler clears |
| CLINT, SoC controller: `clint.v`, `controller/` | 64-bit timer and its compare register, software interrupts, counters, reset and power bits | register access | 64 bits in two accesses, between which the clock runs and a handler may come |
| clocks and resets: `clk_reset_ctrl/` | synchronisers, pulse stretchers | reset, gate | asynchronous |
| debug: `jtag/rtl/` | TAP state, debug module | shift, access the bus | two clock domains |
| peripherals: `peripheral/` (timers, watchdog, UART, SPI, GPIO, OTP) | register files, FIFOs, counters | register access, I/O | FIFOs filled and emptied from two sides; flags that are left up; edges that come while nobody looks |
| boot and memories: `boot/`, `memory/` | boot FSM, arrays | load, read, write | bursts |
| firmware drivers: `gnu_toolchain/include/*.h`, `main.c` | none of their own: the registers of their device | start, wait, read, set up, interrupt handlers | reads and writes of one function between which the device or the handler moves |
| physical design copies, older programs: `pd2/`, the rest of `gnu_toolchain/` | - | - | copies of the above, test programs |

How they interact. A core's LSU asks its data cache, one access at a time. A load
that misses asks the snoop fabric, which asks both caches; so do the read engine
of the ASCON DMA (before it reads) and its write engine (before it writes).
A cache that is asked answers from its line, or writes it back first. Caches and
DMAs reach memory through the crossbar. Devices raise level interrupts that the
PLIC arbitrates; a hart claims and completes them by reads and writes over the
crossbar. A fence of a hart flushes or invalidates its data cache. Programs reach
the devices through the inline functions of `gnu_toolchain/include`, from a thread
and from the handlers that interrupt it, and both may use one device.

What makes each part correct: an answer of the fabric goes to the request it
belongs to, and every CPU is answered; a load and a snoop see the last value
stored, no write-back is lost and no access hangs; an interrupt is handed out
once, to the right reader, and the favoured one is served; a load sees the
youngest older store and none younger; a DMA writes exactly the bytes it was
asked for, and says so after it did; every master of the crossbar is served and
gets the answers to its own requests; a driver returns what its comment promises,
whatever the device does between two of its accesses.

`PROJECT.json` lists these parts as components, the hazards of the code each at
its line, and which properties are aimed at it.

## 2. Modules

In the models of circuits (`SnoopFabric`, `Plic`, `DCache`, `Lsu`, `SysDma`,
`TimerDrv`) one step is one rising edge of the core clock. Registers are
variables; wires are operators without a prime; a step is the conjunction of one
action per block, each of which chooses among the cases of that block's `always`.
Inputs of a cycle (a slave that is ready, a FIFO that is full, a register bit that
software writes) are chosen afresh in every step. In the other models of firmware a
step is one access of a hart to a register of its device, or one event of the
device (a tick, a byte, an edge), which is where the two may interleave.

| module | models |
|---|---|
| `SnoopFabric` | the three blocks of the fabric and the snoop side of their clients |
| `SnoopService` | what the fabric promises: one snoop at a time, every cache asked once, one answer to the client served |
| `SnoopFabric_proofs` | proofs: the invariants, and that SnoopFabric implements SnoopService |
| `Plic` | gateways, priority encoder, register file with its AXI channels |
| `Plic_proofs` | proofs of all safety properties of `Plic` |
| `DCache` | one data cache with all its units |
| `DCache_proofs` | proofs that the units of the cache keep apart: `NoStartIsLost`, `DirtyLinesTracked` |
| `DCache_data_proofs` | proofs about its data: `TypeOK`, `LoadsSeeTheLatest`, `SnoopsSeeTheLatest`, `NothingIsLost` |
| `Lsu` | the load/store unit, with the way of memory operations through ID, EX and MEM |
| `Lsu_proofs` | proofs of all safety properties of `Lsu` |
| `SysDma` | the system DMA under its driver `dma.h`, run from a thread and a handler |
| `SysDma_proofs` | proofs of all safety properties of `SysDma` |
| `Hart` | a hart that runs drivers: a function is its sequence of register accesses, a handler may run between any two |
| `ClintDrv` | `clint.v` under `clint.h`, the counters of `soc_ctrl_slave.v` under `soc_ctrl.h` |
| `TimerDrv` | timers and watchdog under `timer.h` |
| `UartDrv`, `SpiDrv` | the serial lines with their FIFOs under `uart.h`, `spi.h` |
| `IrqDrv` | GPIO pins, the gateway of the PLIC and the enables, under `gpio.h`, `plic.h`, `plic_drv.h`, `irq.h` |
| `AsconDrv` | the two contexts of the cipher core and a DMA job as software sees it, under `ascon.h`, and the program `main.c` |
| `Firmware` | the composition of `Hart` with the devices; `scene` says which device the program uses |
| `Firmware_proofs` | proofs about the drivers of timers, clocks, interrupts and the cipher core: `TimersKept`, `ClintKept`, `IrqKept`, `VerdictIsOurs` |
| `Serial_proofs` | proofs about the drivers of the two serial lines, `SerialKept`, and the types of all devices, `FirmwareTypeOK` |
| `MCSnoopFabric`, `MCPlic`, `MCDCache`, `MCLsu`, `MCSysDma`, `MCFirmware` | the instances TLC checks |

Operators marked `mutant` in the modules are variants of the operator after
them with a plausible slip in it; no specification uses them. They serve to see
that each property does notice such a slip (`PROJECT.json`, `mutants`).

### SnoopFabric

| variable | code |
|---|---|
| `cpu0`, `cpu1` | miss path of each `dcache_controller` (626-660): `phase` "req" and "wait" are PEER_SNOOP before and after `miss_snoop_accepted_r`; `valid` and `line` are the registered request |
| `rd`, `wr` | RD_SNP_REQ / RD_SNP_WAIT of `dma_read_engine`, WR_SNP_REQ / WR_SNP_WAIT of `dma_write_engine` |
| `dmaWait`, `dmaOwner`, `dmaLast` | `wait_resp`, `owner_wr`, `last_grant_wr` of `dma_snoop_arb` |
| `arbWait`, `arbOwner`, `arbLast` | `wait_resp_r`, `owner_r`, `last_grant_r` of `dcache_snoop_arb_3to1` |
| `busState`, `busLine`, `sent`, `waiting`, `latched`, `upResp` | registers of `dcache_snoop_bus_2way` |
| `cacheBusy`, `cacheResp` | `snoop_busy` and the registered answer of each `dcache_snoop_ctrl` |
| `served`, `replies`, `delivered` | history: the client granted last, what each cache answered since, what a client consumed |

A cache takes a snoop in a cycle in which it is safe, and answers any number of
cycles later with any answer; `DCache` models what it does in between. A CPU that
asks may withdraw nothing; an engine is restarted (`dma_start`), held by a full
FIFO, or forgotten by a soft reset of its arbiter, in any cycle.

### DCache

| variable | code |
|---|---|
| `req`, `fence` | the LSU's request and the fence pulse of the pipeline |
| `state`, `stable`, `cur`, `prev`, `ncJust`, `localDirty`, `accepted`, `fwd`, `fillWord`, `pulse` | registers of `dcache_controller`; `pulse` are its outputs that last a cycle |
| `tags`, `states`, `look`, `data` | tag array with its registered lookup, data array |
| `fstate` .. `fpulse`, `bitmap` | `dcache_flush_ctrl` with its dirty bitmap |
| `sstate`, `sreq`, `sline`, `spulse` | `dcache_snoop_ctrl` |
| `rd`, `rvalid`, `ev`, `evictDone` | `dcache_axi_interface` and the slave behind it |
| `fab` | the snoop fabric, as one client sees it |
| `mem`, `latest` | memory, and as history the last value stored in every word |

A word of data is `<<line, word, version>>`: that tells apart whose word it is and
whether it is the last one stored, which is all the properties ask. Byte strobes
are abstracted, a store replaces a word. Around the cache stand the hart (one
access at a time with an idle cycle between two, as the LSU makes them; fences
when nothing is under way), other agents that read or take lines, and take a
line in order to write memory, and slaves with any delay. The peer cache is one
of these agents: it holds clean copies. Registers that are not read before they
are written again are put back to their first value, which loses no behaviour.

The idle-hit path of the controller (answering in the cycle of the request)
needs two requests in adjacent cycles on one line; the LSU makes none, so only
its bookkeeping is exercised.

**Windows.** `Apart` names four coincidences and the environment avoids those
that are not in the constant `Windows`:

- `drain`: a fence while the rest of a line arrives whose first word was loaded,
- `snoop`: a fence while a snoop is looked up or written back,
- `victim`: an agent takes away the line that a waiting load is about to displace,
- `dirty`: a fence that only invalidates (fence r,r), over dirty lines.

Nothing in the hardware avoids the first three. Each has a run of its own that
shows what then goes wrong (section 3), and the passing run shows that they are
all that goes wrong within its bounds. The fourth is meant: the test bench of the
cache documents that fence as invalidate-only.

### Plic

`pending`, `inService` are the registers of the gateways; `prio`, `enable`,
`threshold`, the `aw*`, `w*`, `bvalid`, `ar*`, `rvalid`, `rdata` registers and the
two pulses those of `plic_regfile`. `ClaimId` is the scan of
`plic_priority_encoder`, written as a recursive function of the source number.
`held` is history: what software took and has not completed.

The environment follows the comments of the code: lines are sticky
(`plic_gateway.v:15-17`), a master completes what it holds, configuration changes
at any time but not while the same hart is claiming. A write of the other hart
landing in the cycle of a claim would disturb it as a new interrupt does.

### Lsu

| variable | code |
|---|---|
| `id` | what is in ID, as far as loads and stores are concerned: a fence, a reader of the load in EX, or another instruction |
| `ex`, `mem`, `sent` | the memory operation in ID/EX and in EX/MEM; `lsu_req_sent`, which says that MEM's was taken |
| `sb`, `sbWr`, `sbRd`, `sbCount` | store buffer |
| `lq`, `lqWr`, `lqRd`, `lqCount` | load queue; an entry holds the data forwarded to it |
| `scoreboard`, `loadState`, `cur`, `result`, `drain` | the registers of those names; `result` is none while `result_valid` is low |
| `ready`, `memory` | `dcache_ready` in this cycle; what the cache holds |
| `prog` | history: memory as the program has it, in the order in which operations enter EX |

A word is a function from byte lanes to versions, so that partial stores merge and
a forwarded word can be put together from several entries; a load carries the value
it ought to return, taken from `prog` when it enters EX. Sub-word loads are the
word they are cut from. The cache answers a request after any number of cycles;
that it does, and that it may rely on one access at a time with an idle cycle
between two, is what `DCache` assumes of the LSU and `PortDiscipline` shows. The
pipeline is held in any cycle (a fetch that misses, a register that is not there
yet) and a result of an ALU instruction may keep a load's from the register file.
Operations squashed by a branch, an interrupt or the debugger are operations that
never entered EX; a squash while EX/MEM is frozen is not modelled.

**Windows.** The environment avoids six kinds of program, but for those in `Windows`:

- `forward`: a load after two stores to its word of which the younger sits in the lower slot,
- `use`: a reader right behind a load that is itself right behind a load or store,
- `overtake`: a store to a word that an older load, not forwarded, still has to read,
- `device`: a load of a device register that an older store still has to write,
- `reload`: a load into a register for which another load is under way,
- `fence`: a fence right behind a load or store.

Nothing in the hardware avoids them. The first two contradict what the code says
of itself and have runs (section 3). With `overtake` or `device` alone
`LoadsSeeProgramOrder` fails, with `reload` `RegistersGuarded`, with `fence`
`FenceOrders` (`fence_stall` does not look at EX) and `OperationsKept` (a stalled
fence flushes ID/EX while EX/MEM is frozen); these are listed as hazards. The
passing run shows that, within its bounds, nothing else goes wrong.

### SysDma

| variable | code |
|---|---|
| `rSrc`, `rDst`, `rLen`, `rMode`, `rEn`, `startPulse` | `r_ch_*` and `r_start` of `dma_reg_slave` |
| `stDone`, `stErr`, `irqEn`, `irqSt` | `r_status_done`, `r_status_error`, `r_irq_en`, `r_irq_status` |
| `st`, `jSrc`, `jDst`, `jMode`, `sPos`, `dPos`, `left`, `burst`, `buf` | state, `cur_src`, `cur_dst`, `bytes_left`, burst length and `buf_mem` of each `dma_channel` |
| `donePulse`, `errPulse`, `rdRel`, `wrRel` | its outputs that last a cycle |
| `rdOwner`, `rdLast`, `wrOwner`, `wrLast` | `rd_grant`, `rd_last_grant`, `wr_grant`, `wr_last_grant` of `dma_arbiter` |
| `mem`, `rxFull`, `txFull`, `taken`, `sent`, `faults` | what is outside: destination buffers, the FIFOs of the UART, errors the memory may answer |
| `call`, `awaited`, `todo`, `calls`, `background` | the program: its call, the channels it polls, the writes it has left, the channels whose end the handler is to serve |
| `isrTodo`, `isrNext` | the handler: the channels it has left (`ch` of its loop), which of the two writes of `dma_isr_clear` comes next |
| `job`, `result`, `missed`, `irqMissed` | history: what was asked, what the program learned, ends whose flag was erased before it was read |

A burst is read, and written, in the cycle of its last beat: the AXI master in
between only counts beats. Addresses are areas and positions in them. The program
starts channels that `dma_is_busy` says are free, as the examples of `dma.h` do;
it may poll one channel while the handler serves another. `CallsComplete` is not
promised for what `missed` and `irqMissed` name: a write to STATUS or IRQ_STATUS
assigns the register again, and a pulse of the same cycle is lost
(`dma_reg_slave.v:417`, `425`); `dma_isr_clear` of a handler that looks at every
channel erases flags that the thread polls.

### Firmware

| module | variables and the registers they are |
|---|---|
| `Hart` | `call`, `todo`, `seen`: the function of the thread, its accesses to come, the values it read; `isr`, `isrTodo`, `isrSeen` the same of the handler; `enabled`: `mie` and `mstatus.MIE` |
| `ClintDrv` | `mtime`, `mtimecmp`, `shadow`, `msip` of `clint.v`; `counter`, `perfEn` of `soc_ctrl_slave` |
| `TimerDrv` | `ctrl`, `load`, `enR`, `count`, `flag`, `clr` of `timer_regfile` and `timer_channel`; `feed`, `rstCnt`, `rstReq` of `wdt_core`; `pend` in the PLIC |
| `UartDrv` | `uartCtrl`, `txFifo`, `shift`, `rxFifo`, `txIrq`, `rxIrq`; `coming` is the line |
| `SpiDrv` | `spiCtrl`, `csManual`, `csLow`, `spiTx`, `wire`, `spiRx`, `spiIrq` |
| `IrqDrv` | `din`, `dout`, `irqEn`, `irqMode`, `irqPol`, `irqStat` of `gpio_regfile`; `plicEnable` .. `inService` of the PLIC |
| `AsconDrv` | `selected`, `active`, `bank`, `ctext`, `tag`, `sticky`, `dmaEn`, `dmaRegs` of `ascon_axi_slave`; `core`: how far the controller has read its inputs; `dmaBusy`, `pump`, `wrFifo`, `landing`: a DMA job; `mem`: areas of the data memory; `polled`: the variable of the driver |

Each function of the headers that writes a register is the sequence of its
accesses in program order; a loop that polls is the read that ends it (`Until`), or
a function that goes on after what it read (`GoesOn`, `Continue`). A
read-modify-write is a read and a later write of what was read (`Merge`). The
devices do not share registers, so a program uses one device with that device's
handler, and one run checks all of them from different initial states.

Each property holds outside the cases it names, and history variables say when
one of these was met. They are not hidden assumptions: the code allows each, the
drivers do nothing against it, and the hazards in `PROJECT.json` describe them.

| property | outside | meaning |
|---|---|---|
| `ClintKept` | `mixed` | a handler armed the timer between the words of the thread's deadline |
| | high word moved | `soc_perf_cycle64` reads high and low once; it is exact if the high word stood still |
| `TimersKept` | `stale` | the flag was up already when the unit was started |
| `SerialKept` | `crowded`, `stolen`, `unheard` | the handler filled or emptied a FIFO behind a poll of the thread, or the thread cleared the interrupt of bytes that wait |
| | `loose`, not quiet | a byte was put with the chip select high; an answer was left by `spi_write_buf` |
| `IrqKept` | `tangled`, `missed` | the handler came between a read and a write of the thread, or `plic_init_ascon` replaced the whole mask; an edge that came while its source was in service |
| `VerdictIsOurs` | not `good` | a run that was disturbed: inputs rewritten while it read them, the same context restarted, a full write FIFO |

## 3. Runs

| run | expects | bounds | states | shows |
|---|---|---|---|---|
| `fabric` | pass | two lines, one data value; CPUs miss on different lines, the write engine alternates | 75,621 | routing, no stray answers, CPUs answered, `SnoopService` implemented |
| `plic` | pass | two sources, three priorities, six configuration writes | 284,019 | arbitration, claims, completion, service of the favoured source |
| `plic_disturbed` | violation | the same, undisturbed claims not assumed | - | a claim can take another source than software was told |
| `dcache` | pass | a set with two lines, a set with one, two words per line | 651,756 | data seen by loads and snoops, nothing lost, bitmap right, accesses and fences end |
| `dcache_drain` | violation | the same, window `drain` | - | a load returns a word of another line |
| `dcache_snoop` | violation | the same, window `snoop` | - | a snoop is answered with another line |
| `dcache_victim` | violation | the same, window `victim` | - | a stale line is written over newer data |
| `lsu` | pass | two entries in each buffer, a word written in whole or in one of two lanes, a device register, two versions | 177,444 | program order, guarded registers, queues, nothing lost, use of the port, fences and loads end |
| `lsu_forward` | violation | the same, window `forward` | - | a load is forwarded the data of the older of two stores |
| `lsu_use` | violation | the same, window `use` | - | a load leaves EX and never reaches the LSU |
| `sysdma` | pass | two channels, bursts of three words, one source, copies of 0 and 5 words, a pair of 5 and 1, jobs from memory and at both FIFOs of the UART, two calls, one error | 62 thousand | bursts do not mix, results are true, nothing is written past a burst, calls end |
| `drivers` | pass | words of one base-3 digit, times up to 5, delays and loads 0 and 2, FIFOs of two bytes (three texts for the DMA), three bytes coming in, two pins, two to four calls a program | 1.4 million | the drivers keep what their comments promise |

Why these bounds are enough to be interesting. Routing in the fabric depends on
which client is served and whether two lines are equal, not on how many lines
there are; two lines let an engine return for another line than it left. All four
clients are there, so every arbitration has a loser. In the PLIC two sources
already tie, mask and overtake each other, and the comparisons with the threshold
go both ways. In the cache two lines share a set, so that a miss displaces a dirty
or a clean line and a snoop meets a resident line, an absent one, or one about to
go; a third line lets a fence find two dirty sets; two words make the first word
of a burst differ from the last. In the LSU buffers of two entries fill and wrap
(the code has four) and an operation of either kind waits for a full one; two
lanes make a partial store, and versions are only compared for equality along one
chain of stores. The device is read and not written there: writing it too gives
the same answers with three times the states. In the system DMA two channels
contend for both buses and for the flags; a copy of five words has a full burst
and a tail that is taken for one, a copy of one has a tail that is not, and an
empty one ends in the cycle it starts; a receiver may never get its words. Two
calls let an error or an erased flag of the first meet the second. Among the
drivers, times run over the carry from the low word (base 3, up to 5); a load of 0
is the one-shot that never ends, the watchdog starts at a count that is not its
load; every FIFO fills, the one of the DMA overflows and the
receive FIFO of the UART, with three bytes for two places, does too; one pin is strobed by a write of the first byte of
IRQ_STAT and one is not.

Bounds on what would else be infinite: versions are numbers modulo `NumVersions`,
times end at `MaxTime`, programs make `MaxCalls` calls, the memory answers
`MaxFaults` errors, and `Arrivals` are the bytes that come in. Deadlock is checked
in every run but `drivers`, whose programs make their calls and end; a stuck
circuit in these models is a circuit that repeats its state, which the liveness
properties exclude, not a TLC deadlock.

**The properties**

- `AnswersTheRequest`, `NoStrayAnswer`, `CpuNotForgotten`, `Implements`,
  `CpuAnswered` of `SnoopFabric`: answers, their owners, and progress, through
  withdrawals, restarts and resets.
- `LoadsSeeTheLatest`, `SnoopsSeeTheLatest`, `NothingIsLost` of `DCache`: the
  memory model of one cache, relative to the history of stores. `NoStartIsLost`:
  the write-back engine without handshake is never started twice at once.
  `DirtyLinesTracked`: the bitmap that fences rely on agrees with the states.
  `Answered`, `FencesEnd`: nothing hangs.
- `ScanIsArbitration`, `NotPendingInService`, `ClaimMatches`, `HeldIsInService`,
  `FavouredServed` of `Plic`.
- `LoadsSeeProgramOrder` of `Lsu`: a load returns what the stores before it left,
  and nothing of those after it, through forwarding, waiting and draining.
  `OperationsKept`: no operation is lost or issued twice between EX and the queues.
  `QueuesMatch`: nor within them. `RegistersGuarded`: the scoreboard covers every
  load under way. `FenceOrders`: a fence reaches the cache after all before it.
  `PortDiscipline`: the use of the cache's port. `FencesPass`, `LoadsReturn`.
- `OneReaderOneWriter` of `SysDma`: the multiplexers go by the grants alone, so a
  channel inside a burst has to own the bus. `ReturnsTruth`: a success that
  `dma_memcpy`, `dma_wait_all` or the handler reports means the data is there, an
  error means a write was refused; a read error is reported by nobody
  (`dma_channel.v:260`). `WritesStayInBurst`: what a job may write behind its
  buffer, which is not nothing (`dma_channel.v:149` compares bytes with beats).
  `CallsComplete`: polls end and background jobs are served.
- `ClintKept`: 64-bit clocks and deadlines read and set a word at a time are whole.
  `TimersKept`: flags, interrupts and resets come when the load has run down, and
  not before. `SerialKept`: no byte is lost, invented or out of order between the
  callers and the two serial lines, and answers are those of the byte sent.
  `IrqKept`: enables are what the callers asked for, and an edge or a level at an
  enabled pin is pending. `VerdictIsOurs`: text, tag and verdict that a context
  hands out are of the job it was started with, and `main.c` reports success only
  over its own result in memory.

**Fairness.** `ClockRuns`: steps are taken for ever, unless the system rests in a
state that a cycle may leave unchanged (every rising edge is a step, so weak
fairness of the clock is what hardware has). Slaves answer (`DCache`): an address
or data beat is accepted in the end, as the memories of the repository do. The
fabric grants a request that is made again and again: it is round robin, and
`CpuAnswered` of `SnoopFabric` is that fact. Caches take and answer snoops
(`SnoopFabric`): `Answered` of `DCache` holds together with a controller that
admits no request while a snoop asks. In `Plic` the handler reads the claim
register while `meip` is high, ends its accesses, and completes what it claimed:
this is software's part of the protocol, and without it nothing can be served.
In `Lsu` the cache answers (`Answered` of `DCache`), what holds the pipeline ends,
and the register file takes a result in the end: only an instruction that writes a
register keeps it away for a cycle, and no program goes on without branches or
stores for ever. In `SysDma` weak fairness of the clock, of the program (a hart
makes its next access, takes an interrupt that stays up, and returns) and of what
is outside (a beat is answered, a full transmit FIFO is sent); nothing makes the
UART receive, and no program has to make a call. The drivers are checked for
safety only: whether a poll ends is up to the outside world.

**Findings.** Each violation run is a disagreement between the code and a
comment or document of the repository, quoted in `PROJECT.json`:

1. *Claims* (`plic_regfile.v:246`). `rdata` is latched in one cycle and the claim
   pulse reaches the gateways in the next, where it is matched with the
   `claim_id` of that next cycle. An interrupt that wins arbitration in between
   is claimed instead of the one software was told.
2. *Drain* (`dcache_controller.v:523` with `:451`). While the fence unit is busy
   the datapath stands still and the state register does not. The LSU is idle
   once the first word of a line was answered, so a fence can start while the rest
   arrives; the beats and the tag update of the frozen cycles are lost, and the
   old tag stays valid over words of the new line.
3. *Snoop* (`dcache_controller.v:258-266`). A fence that starts while a snoop is
   looked up takes the lookup and data ports away from it.
4. *Victim* (`dcache_controller.v:605` and `:639`). The dirty bit of the victim is
   captured before the peer is asked and used after the answer; a snoop served
   meanwhile may have taken the line away, and its old copy is written back over
   what the agent wrote.
5. *Forwarding* (`LSU.v:121`). Of several stores to a word in the store buffer the
   one with the highest index wins. After the write pointer has wrapped that is
   an older one, and the load returns its data.
6. *Load-use* (`hazard_detection.v:125`). A load in EX whose reader is in ID is
   flushed from ID/EX in the cycle it moves on. When an operation waits in MEM it
   does not move on, and is flushed all the same: the reader gets the old value of
   the register.

## 4. Proofs

TLAPS checks, for every value of the constants that satisfies the assumptions
(lines of clients are lines, the marker values are no lines or data; in `Plic`,
at least one source; in `Firmware`, loads within the width of the counter, times
that end a page before the largest number of two words, a write FIFO of the DMA
that holds a text and a tag, 512 words in `ascon_top.v:80`, an SPI FIFO of at least
one byte, a UART line whose bytes are not `"old"`, the mark of what an empty FIFO
reads, and pins 0 and 4, which the program drives, among the pins):

| theorem | says |
|---|---|
| `TypeCorrect` | `SnoopFabric!Spec => []TypeOK` |
| `AnswersAreRouted` | `Spec => []AnswersTheRequest` |
| `NoAnswerIsStray` | `Spec => []NoStrayAnswer` |
| `CpusAreRemembered` | `Spec => []CpuNotForgotten` |
| `FabricImplementsService` | `Spec => Implements`, the refinement of `SnoopService` |
| `ServedOnce` | `Plic!Spec => []NotPendingInService` |
| `TypeCorrect` (of `Plic_proofs`) | `Plic!Spec => []TypeOK` |
| `EncoderArbitrates` | `Plic!Spec => []ScanIsArbitration` |
| `ClaimsMatch`, `HeldStaysInService` | if `ClaimsUndisturbed`: `Plic!Spec => []ClaimMatches`, `=> []HeldIsInService` |
| `UnitsKeepApart` | without the windows `drain` and `snoop`: `DCache!Spec => []DCacheInv` |
| `StartsAreHeard`, `DirtyLinesAreTracked` | likewise: `DCache!Spec => []NoStartIsLost`, `=> []DirtyLinesTracked` |
| `DataIsTyped` | without any window: `DCache!Spec => []TypeOK` |
| `LoadsAreCurrent`, `SnoopsAreCurrent`, `NoStoreIsLost` | likewise: `=> []LoadsSeeTheLatest`, `=> []SnoopsSeeTheLatest`, `=> []NothingIsLost` |
| `LsuTypeCorrect` | `Lsu!Spec => []TypeOK` |
| `QueuesAreKept` | `Lsu!Spec => []QueuesMatch` |
| `PortIsShared` | `Lsu!Spec => PortDiscipline` |
| `OperationsAreKept` | without the windows `use` and `fence`: `Lsu!Spec => OperationsKept` |
| `RegistersAreGuarded` | without the window `reload`: `Lsu!Spec => []RegistersGuarded` |
| `FencesAreOrdered` | without the window `fence`: `Lsu!Spec => []FenceOrders` |
| `LoadsAreOrdered` | without `forward`, `overtake`, `device` and `fence`: `Lsu!Spec => []LoadsSeeProgramOrder` |
| `BurstsAreNotMixed` | `SysDma!Spec => []OneReaderOneWriter` |
| `DmaIsTyped` | `SysDma!Spec => []TypeOK` |
| `DmaTellsTheTruth` | `SysDma!Spec => []ReturnsTruth` |
| `WritesEndWithTheJob` | `SysDma!Spec => []WritesStayInBurst` |
| `TimersAreKept` | `Firmware!Spec => []TimersKept` |
| `ClintIsKept` | `Firmware!Spec => []ClintKept` |
| `IrqIsKept` | `Firmware!Spec => []IrqKept` |
| `VerdictsAreOurs` | `Firmware!Spec => []VerdictIsOurs` |
| `SerialIsKept` | `Firmware!Spec => []SerialKept` |
| `FirmwareIsTyped` | `Firmware!Spec => []FirmwareTypeOK` |

The argument for the fabric. `AnswersTheRequest` speaks only of the cycle in which
an answer arrives and is not inductive. `FabricInv` strengthens it with four
facts that hold from the grant on: the arbiter waits exactly while the bus works
or answers (`Pairing`); the owner registers of both arbiters point at the client
served, a soft reset making at most `dmaWait` false (`Ownership`); a client that
waits and is outstanding waits for the line on the bus, and one that still raises
its request while it waits does so only while the arbiter is deaf (`Waiting`);
and the bus waits for a cache exactly while that cache works or answers
(`Snooping`). A lemma per fact shows that one cycle keeps it. The proofs use the
blocks one by one, as the cycle is a conjunction of blocks. For the refinement,
`RefineInv` adds that what the bus has latched is what the caches replied
(`Heard`, `Complete`), and that a CPU which is served waits (`CpuStays`); a cycle
then maps to `Serve` (grant), `Listen` (a cache answers), `Finish` (the answer
reaches its client, or is dropped by an engine) or `Rest`.

`Plic`. `ServedOnce` uses only the gateways, and holds whatever the arbitration
answers. `EncoderArbitrates` is about the scan of the priority encoder, a recursive
function of the source number, and needs an induction: suppose the scan of the
first n sources is not the best of them for some n, take the least such n
(`LeastElement`, from the well-foundedness of the naturals), and one step of the
scan (`StepKeepsBest`) contradicts it. That the function satisfies its own
recursion is shown in the same way (`ScanExists`, `WinnerScans`). `ClaimInv` carries
a claim over its cycles: the write and read channels take one request at a time
(`Handshakes`), while the claim pulse is high the arbitration is still that of the
cycle in which `rdata` was latched (`Settled`, which is where `ClaimsUndisturbed`
enters), and what software holds is what it claimed (`Claimed`).

`DCache`. Its units share arrays and engine without a handshake, so neither property
is inductive: each needs to know where all units stand. `DCacheInv` has a part for
each. The hart and the controller: while a fence stands the controller and the snoop
unit are idle, which is where the two windows enter (`HartInv`). The fence unit:
while it is busy, or a pulse of it is up, nothing else moves (`FenceInv`). The snoop
unit: from the acceptance of a snoop to the cycle after its answer the controller
waits and puts nothing out, and what was captured is still so (`SnoopInv`). The miss:
once the controller is past the write-back, the line it displaces is clean
(`MissInv`, `DisplacedIsClean`). With these, at most one unit changes the state of a
line in a cycle, and does it in the tag array and in the bitmap alike (`BitmapInv`);
and the engine is busy only while one unit stands in its state of waiting for it
(`EvictInv`, `OwnerStays`). Every part was checked by TLC on the instance of
`dcache` with the windows `victim` and `dirty` open before it was proved; the
theorems hold with them open.

The data of `DCache`. The three properties speak of single cycles (an answer is given,
nothing is under way), so the invariant has to follow every word wherever it is in
between. `DataInv` looks at the arrays as the pulses under way leave them (`Held`,
`Dirty`, `WordAt`): `CoherentInv` says that a line held so is current and that memory
has every line not dirty so. The other parts say of each copy that travels that it
is current and whose it is: the words that have arrived of a line being filled and
the line the peer forwarded (`FillInv`), the block a fence or a snoop has read
(`FlushInv`, `AnswerInv`), the block in the write-back engine and the beats that
have reached memory (`TransferInv`); that what a unit looked up is still so when it
acts on it (`LookInv`), where the window `victim` enters; and that a line an agent
is about to write is not held (`FabInv`). Most of the work is to show that no
store and no agent changes `latest` while such a copy is under way (`FillKept`,
`HeldKept`, `LeavingStays`), and that a line becomes clean by the end of its own
write-back and by nothing else (`CleanedIsSent`). `DataSteps` stands on
`UnitsKeepApart`. Every part was checked by TLC on the instance of `dcache`
first, which refuted several earlier forms. The window `drain` breaks `CoherentInv`,
`snoop` `AnswerInv`, `victim` `LookInv` and `dirty` `FlushInv`.

`Lsu`. `RingInv` says that slots are full exactly between the pointers; `InUse` is
that range without a remainder, and `RingMoves` what a push, a pop or both do to it.
The port: while a store is on it the slot at the read pointer is full and no push
can reach it. `OperationsAreKept` needs that a stalled fence has nothing in EX
and a reader's load nothing in front of it in MEM (`BubbleInv`): then the flushes of
ID/EX displace nothing. `RegistersAreGuarded`: all loads under way write different
registers, so that clearing a mark for one clears it for none else (`GuardInv`).
`FencesAreOrdered`: a lane of a word is in the program what the youngest store on
its way to it says, in EX, then MEM, then the store buffer by distance from the
read pointer, then the cache (`OnItsWay`, `Buffered`); a push is the youngest entry
and a pop the oldest (`BufferStep`). When the fence is active nothing is on its way,
so the cache holds it all. `LoadsAreOrdered` follows each load from EX to its answer
(`LoadInv`): no younger store to its word comes behind it (`NotOvertaken`), the
entries for its word lie in the order of their slots, so that the one of the highest
index is the youngest (`Ordered`, from `NoWraps` when the load enters EX, with the
stores still in EX and MEM), and what is forwarded from them is what `OnItsWay` says
of each lane (`ForwardsTruth`). A load that is not forwarded found a lane no entry
has, and none comes (`Unmatched`); it starts when every entry for its word is a whole
word, hence when there is none, and then the cache holds what it should. These last
four theorems assume the absence of the windows named, and TLC finds a
counterexample to each property with any one of its windows open (for `device` on
an instance that also stores to `d`).

`SysDma`. A grant is released one cycle after its burst ended; `ReadInv` and
`WriteInv` say where a channel may be while its release pulse is high. The other
three theorems follow a job from its call to its answer (`DmaInv`). The thread has
its writes still to make: each configuration write comes before the start of its
channel, and the start finds every register set or a write ahead that will set it
(`ConfigInv`; a disable is the one write that may come alone). Until the channel
takes the start pulse, its buffer is blank and its job as new (`BeginInv`). In a run,
what it latched is what was asked, the words behind its position are copied and those
before it untouched, the position and the words left add up to the length, and a tail
has the remainder of the whole length, from which the bound on what a full burst
overwrites follows (`RunInv`; `BurstMoves` and `NextBurst` are its steps, by the
arithmetic of `WithoutOneMore`). A done or error flag of a channel the program
waits for is that of this job: an older one is cleared by the first write of the call
(`FlagsInv`), which is why `dma_memcpy` and `dma_isr_clear` must write before they
start. What the program was told stays so until the next call (`ToldInv`). The
handler's writes come between any two of the thread's; they clear flags and touch no
configuration (`Lands`). Assumed of the program: a job fits its buffer, a receiver
is on channel 0 and a sender on channel 1 (where `soc_top.v` wires the UART), and it
calls for a channel only when `dma_is_busy` says that it is free. Every part was
checked by TLC first, on two and on three channels.

`Firmware`. A program uses one device, so each theorem has an invariant of the scene
that moves the device and, in all others, the fact that the device rests. A function
is the sequence of its accesses, and the invariants say what may be left of it at
every point (`SetsUp`, `ReadsClock`, `Arming`, `MayRun`, `StartsRuns`), whatever the handler does
between two of them.

- Timers (`TimerInv`). What the unit has left to count and what has passed since the
  load make up at least the load; a setup stops the unit before it loads it, so that
  nothing is counted from an old value (`CountInv`). One cycle of counter, flag,
  interrupt and reset keeps it whatever access lands in it, if that access loads only
  a stopped unit (`CycleKeepsCounts`).
- Clocks (`ClintInv`). The words that `clint_mtime` has read are words of times in the
  order of the reads, not before the call; when the two high words agree all three
  times lie on one page, so that the low word belongs to both (`OnePage`). Of a
  deadline's three writes the first puts `mtimecmp` out of reach, the second changes
  only its low word there and the third makes it whole (`ArmingGoesOn`), unless the
  handler armed the timer in between (`mixed`). For this the times must end a page
  before the largest number of two words.
- Pins and PLIC (`IrqInv`). The write of a read-modify-write merges what the caller
  asked for into the value the register still has, unless the handler wrote it since
  (`tangled`); of the functions, only those named for it touch a given register
  (`MayMake`), and every driver's function is such a sequence (`DriversRun`). Only the
  handler claims, and it looks at the pins next: an edge not seen yet is pending
  unless it came while its source was in service (`missed`).
- Cipher core and `main` (`CipherInv`). A run that is still `good` has read of each
  input nothing yet or what it was started with (`TakesOurs`), so where it leaves
  text and tag they are those of its inputs (`Running`, `Result`). While it lasts no
  sticky bit is set, which is what a collect waits for (`CollectInv`, `Polled`), and a
  job of the DMA is waited for by the one thread that could disturb it (`JobWaits`). A
  function that starts the DMA has set its registers before, and nothing but the wait
  comes after (`StartsRuns`, `AsconCalls`, `MainStarts`). `main` stores 0 only when
  the job is settled, and then text and tag are in memory or in the FIFO on their way
  there (`Delivered`, `Settled`); the assumption on the depth of that FIFO enters
  here. TLC checked every part first. The proof also showed two `CASE`s of `AsconDrv`
  whose guards overlapped, so that their value was not determined: they are now
  disjoint, with the same reachable states.

- Serial lines (`LinesInv`). An access to a FIFO is right only because of the poll
  just before it, so the sequences themselves carry the invariant: in what is left of
  a function every byte put, byte taken, end of a frame and write of a
  read-modify-write comes right after the access it leans on (`Shape`, `Leans`,
  `LeansOn`), and a function that has not begun leans on nothing (`Whole`). Such
  sequences put one after the other are such a sequence (`BothAreWhole`), and so is
  what a step leaves of one (`RestHasShape`). Then what a poll found is still so at the
  next access, or the handler came between, which the history says (`PutHolds`,
  `GetHolds`, `LeaveHolds`, `TakeHolds`). No byte waits unheard because the last
  access of the handler is a look at STATUS: it ends only if that look found the FIFO
  empty, and a byte that comes later is an edge (`LooksAgain`). An answer is that of
  its byte because that byte, the one on the wire and the answers unread are one in
  all (`OneAnswer`); a frame keeps its chip select because while a byte is in flight
  the select is low by hand (`SelectInv`), and only the end of a function raises it,
  after its wait (`FrameInv`). The program's strings and buffers have two bytes, so
  that `FlattenSeq` is unfolded twice (`FlattenTwo`); for longer ones it would need an
  induction. What comes in is of any length.
- Types (`TypesInv`). A register takes what is written to it, so its type rests on
  every value that a driver writes or merges being one the register may hold (`Fits`
  and `MayHold`, in `Shape` again), and on every function being whole. A deadline is
  two words because the time it counts from is one the clock has shown: the
  invariants of clocks, timers and lines are part of the argument (`DevicesInv`).

Every safety property of every passing run is a theorem. Only model-checked: all
liveness, since fairness and `ENABLED` are out of the prover's reach.

## 5. Not modelled, and why

The cipher and the arithmetic of the cores are functions on wide words: data, for
which the repository has test vectors and ISA tests. Clock gating, reset
synchronisers and the two clock domains of JTAG are asynchronous circuits whose
hazards are not steps. Boot and memories are loading and arrays. The crossbar,
the instruction cache and the debug module are next in the plan or need clocks of
two domains. `pd2/` and `cache_interface/dcache_ascon/` are copies, and so are the
older headers and test programs of `gnu_toolchain/`: they call the same functions.

Within `SysDma`: the beats inside a burst (`dma_axi_master`), the reserved mode, and
`dma_clear_error`, which nothing calls. Within the drivers: functions that only
read a register (identification, cache statistics), serial bits and wake-up of the
UART, the count-up mode and prescaler of the timers, the OTP, the watchdog and the
granular error bits of the ASCON core. Of the ASCON DMA the snoop side
(`SnoopFabric`) and the job as software sees it (`AsconDrv`) are modelled; its bursts
and FIFO counts between the two are not. Within `DCache`: byte
strobes; the second cache (its write misses do not ask the peer,
`dcache_controller.v:617`, so two dirty copies are possible: this needs the
two-cache model below).

## 6. Plan

Most important first; sections 2-4 describe what exists.

| step | module | composes or implements | runs | theorems |
|---|---|---|---|---|
| done | `SnoopFabric`, `SnoopService` | refinement | `fabric` | invariants, refinement |
| done | `Plic` | | `plic`, `plic_disturbed` | `ServedOnce` |
| done | `DCache` | | `dcache` and three | |
| done | `Lsu` | its port is the hart of `DCache` | `lsu` and two | |
| done | `SysDma` | circuit and driver | `sysdma` | all safety properties |
| done | `Hart` and six drivers, `Firmware` | composed | `drivers` | |
| done | proofs about `Plic`, `DCache`, `Lsu` and `SysDma` | | | all their safety properties |
| done | proofs about the drivers | | | `TimersKept`, `ClintKept`, `IrqKept`, `VerdictIsOurs`, `SerialKept`, `FirmwareTypeOK` |
| next | `AsconDma`: control FSM, FIFOs, engines, AXI bursts, soft reset | implements the job of `AsconDrv` | one | FIFO counts, ordering of done |
| then | `Crossbar`: the five-master multiplexer with locked grants | behind `SysDma` and `DCache` | one | grants are exclusive, answers go to their master |
| then | two caches on one `SnoopFabric` | composed | one | one dirty copy, outside the window of write misses |
