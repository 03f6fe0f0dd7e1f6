------------------------------ MODULE ClintDrv ------------------------------
(***************************************************************************)
(* The 64-bit clocks of the SoC read and set 32 bits at a time: the CLINT, *)
(* clint.v, under gnu_toolchain/include/clint.h, and the performance       *)
(* counters of controller/soc_ctrl_slave.v under soc_ctrl.h.  A word is a  *)
(* digit in base Half, so that a carry from the low word happens.          *)
(***************************************************************************)
EXTENDS Hart

CONSTANTS
  Half,        \* stands for 2^32
  MaxTime,     \* the last time the run looks at
  Delays       \* the delays the program asks for

\* Nobody lives to see the time whose high word is all ones, nor asks for it.
ASSUME ClintConstants ==
  /\ Half \in Nat \ {0, 1} /\ MaxTime \in Nat /\ MaxTime < Half * (Half - 1)
  /\ Delays \subseteq Nat /\ \A us \in Delays : MaxTime + us < Half * Half

Lo(t) == t % Half
Hi(t) == t \div Half
Top   == Half * Half - 1        \* 64 bits of ones
Times == 0 .. Top

VARIABLES
  mtime, mtimecmp, shadow, msip,   \* the registers of the CLINT
  counter, perfEn,                 \* a performance counter, PERF_CTRL
  began,                           \* history: the clocks when the call began
  told,                            \* history: what the last read of a clock returned
  due,                             \* history: the deadline the drivers mean to be in force
  crossed, mixed                   \* history: a handler armed between two words of the thread

clint    == <<mtime, mtimecmp, shadow, msip>>
perf     == <<counter, perfEn>>
clintHistory == <<began, told, due, crossed, mixed>>
clintVars    == <<clint, perf, clintHistory>>

timer_irq == mtime >= mtimecmp
sw_irq    == msip = 1

\* The drivers.  A write of MTIMECMP_HI carries the deadline it puts in force.
clint_mtime == <<R("mtime_hi"), R("mtime_lo"), R("mtime_hi")>>
CompareHi(hi, deadline) == <<"write", "mtimecmp_hi", hi, deadline>>
clint_set_mtimecmp_early(cmp) ==                                    \* a mutant
  <<CompareHi(Half - 1, Top), CompareHi(Hi(cmp), cmp), W("mtimecmp_lo", Lo(cmp))>>
clint_set_mtimecmp(cmp) ==
  <<CompareHi(Half - 1, Top), W("mtimecmp_lo", Lo(cmp)), CompareHi(Hi(cmp), cmp)>>
clint_clear_timer    == clint_set_mtimecmp(Top)
clint_sw_irq_set     == <<W("msip", 1)>>
clint_sw_irq_clear   == <<W("msip", 0)>>
clint_sw_irq_pending == <<R("msip")>>
soc_perf_cycle64     == <<R("cycle_lo"), R("cycle_hi")>>
soc_perf_instr64     == <<R("instr_lo"), R("instr_hi")>>
soc_perf_enable      == <<W("perf_ctrl", TRUE)>>
soc_perf_disable     == <<W("perf_ctrl", FALSE)>>
soc_ctrl_soft_reset  == <<W("sys_ctrl", 1)>>

Untold == <<"none", 0, 0, 0>>

\* What clint_mtime has, and whether its high words agree.
Agree(v)  == v[1] = v[3]
MtimeOf(v) == Half * v[1] + v[2]

ClintRead ==
  CASE Reg = "mtime_lo" -> Lo(mtime)
    [] Reg = "mtime_hi" -> Hi(mtime)
    [] Reg = "msip"     -> msip
    [] Reg \in {"cycle_lo", "instr_lo"} -> Lo(counter)
    [] Reg \in {"cycle_hi", "instr_hi"} -> Hi(counter)
    [] OTHER -> 0

\* The thread has written the low word of a deadline, and not the high one.
Opened == Len(todo) = 1 /\ Head(todo)[2] = "mtimecmp_hi"

\* The writes: the low word waits in the shadow for the high one.
Register(reg, old) == IF Writes(reg) THEN Written ELSE old
ClintWrite ==
  /\ msip' = Register("msip", msip)
  /\ shadow' = Register("mtimecmp_lo", shadow)
  /\ mtimecmp' = IF Writes("mtimecmp_hi") THEN Half * Written + shadow ELSE mtimecmp
  /\ perfEn' = Register("perf_ctrl", perfEn)
  /\ due' = IF Writes("mtimecmp_hi") THEN Head(Current)[4] ELSE due
  /\ mixed' = IF Writes("mtimecmp_hi") THEN Thread /\ crossed ELSE mixed
  /\ crossed' = IF Thread /\ Writes("mtimecmp_hi") THEN FALSE
                ELSE crossed \/ (~Thread /\ Writes("mtimecmp_lo") /\ Opened)
  /\ UNCHANGED <<mtime, counter, began, told>>

ClintAccess ==
  /\ Current # <<>> /\ ~Writes("sys_ctrl")
  /\ Access(ClintRead)
  /\ ClintWrite

(***************************************************************************)
(* The soft reset restarts the SoC, and the program with it.               *)
(***************************************************************************)
ClintStart == irq_enable_software \o irq_enable_timer \o irq_enable_global
SoftReset ==
  /\ Current # <<>> /\ Writes("sys_ctrl")
  /\ call' = "start" /\ todo' = ClintStart /\ seen' = <<>> /\ enabled' = {}
  /\ mtime' = 0 /\ mtimecmp' = Top /\ shadow' = Half - 1 /\ msip' = 0
  /\ counter' = 0 /\ perfEn' = TRUE
  /\ due' = Top /\ crossed' = FALSE /\ mixed' = FALSE /\ told' = Untold
  /\ UNCHANGED <<handler, calls, began>>

ClintTick ==
  /\ mtime < MaxTime
  /\ mtime' = mtime + 1
  /\ UNCHANGED <<hart, mtimecmp, shadow, msip, perf, clintHistory>>
CounterTick ==
  /\ perfEn /\ counter < MaxTime
  /\ counter' = counter + 1
  /\ UNCHANGED <<hart, clint, perfEn, clintHistory>>

(***************************************************************************)
(* The program.                                                            *)
(***************************************************************************)
Called(now) ==
  /\ began' = now /\ told' = Untold
  /\ UNCHANGED <<clint, perf, due, crossed, mixed>>
ClintCall ==
  /\ \/ Begin("mtime", clint_mtime)
     \/ Begin("arm", clint_mtime)
     \/ \E f \in {clint_clear_timer, clint_sw_irq_set, clint_sw_irq_clear, clint_sw_irq_pending,
                  irq_disable_timer \o irq_disable_software \o irq_disable_global} :
          Begin("other", f)
  /\ Called(mtime)
PerfCall ==
  /\ \/ \E f \in {soc_perf_cycle64, soc_perf_instr64} : Begin("count", f)
     \/ \E f \in {soc_perf_enable, soc_perf_disable, soc_ctrl_soft_reset} : Begin("other", f)
  /\ Called(counter)

\* clint_mtime reads again while the high word changes under it.
ReadAgain ==
  /\ \/ (GoesOn("mtime") \/ GoesOn("arm")) /\ Len(seen) = 3 /\ ~Agree(seen) /\ Continue(clint_mtime)
     \/ isrTodo = <<>> /\ Len(isrSeen) = 3 /\ ~Agree(isrSeen) /\ HandlerContinue(clint_mtime)
  /\ UNCHANGED clintVars

\* clint_set_timer_delay_us has the time, and sets the deadline.
Arms ==
  /\ \E us \in Delays :
       \/ /\ GoesOn("arm") /\ Len(seen) = 3 /\ Agree(seen)
          /\ Continue(clint_set_mtimecmp(MtimeOf(seen) + us))
       \/ /\ isrTodo = <<>> /\ Len(isrSeen) = 3 /\ Agree(isrSeen)
          /\ HandlerContinue(clint_set_mtimecmp(MtimeOf(isrSeen) + us))
  /\ UNCHANGED clintVars

ClintReturn ==
  /\ \/ /\ GoesOn("mtime") /\ Agree(seen)
        /\ told' = <<"mtime", MtimeOf(seen), began, mtime>>
     \/ /\ GoesOn("count")
        /\ told' = <<"count", Half * seen[2] + seen[1], began, counter>>
     \/ /\ GoesOn("start") \/ GoesOn("other") \/ (GoesOn("arm") /\ seen = <<>>)
        /\ UNCHANGED told
  /\ Return
  /\ UNCHANGED <<clint, perf, began, due, crossed, mixed>>

\* The handler: it stops the interrupt, and may ask for the next deadline.
ClintInterrupt ==
  /\ \/ timer_irq /\ \E f \in {clint_clear_timer, clint_mtime} : Interrupt("timer", f)
     \/ sw_irq /\ \E f \in {<<>>, clint_mtime} : Interrupt("software", clint_sw_irq_clear \o f)
  /\ UNCHANGED clintVars
ClintMret ==
  /\ HandlerAt("timer") \/ HandlerAt("software")
  /\ isrSeen = <<>>
  /\ Mret
  /\ UNCHANGED clintVars

-----------------------------------------------------------------------------
ClintInit ==
  /\ mtime = 0 /\ mtimecmp = Top /\ shadow = Half - 1 /\ msip = 0
  /\ counter = 0 /\ perfEn = TRUE
  /\ began = 0 /\ told = Untold /\ due = Top /\ crossed = FALSE /\ mixed = FALSE

\* The CLINT and the counters share no register: each has its program.
ClintNext ==
  \/ ClintAccess \/ ClintTick
  \/ ClintCall \/ ReadAgain \/ Arms \/ ClintReturn \/ ClintInterrupt \/ ClintMret
PerfNext == ClintAccess \/ SoftReset \/ CounterTick \/ PerfCall \/ ClintReturn

ClintTypeOK ==
  /\ mtime \in 0 .. MaxTime /\ mtimecmp \in Times /\ shadow \in 0 .. Half - 1 /\ msip \in {0, 1}
  /\ counter \in 0 .. MaxTime /\ perfEn \in BOOLEAN /\ began \in 0 .. MaxTime /\ due \in Times
  /\ crossed \in BOOLEAN /\ mixed \in BOOLEAN

\* clint_mtime returns a time between its call and its return (clint.h:35-43):
\* it reads again when the low word wraps.  soc_perf_cycle64 does not
\* (soc_ctrl.h:116-121), and is right only if the high word stood still.
ClocksReadTrue ==
  LET what == told[1]  value == told[2]  from == told[3]  to == told[4] IN
  value \in from .. to \/ (what = "count" /\ Hi(from) # Hi(to))

\* The interrupt is up exactly from the deadline the driver was last asked
\* for, and at no moment of its three writes (clint.h:46-49); a handler that
\* arms between the words of the thread leaves a deadline nobody asked for.
DeadlineKept == ~mixed => (timer_irq <=> mtime >= due)

\* The clocks of the SoC, read and set a word at a time, are read and set whole
\* (clint.h:29-58, soc_ctrl.h:115-129).
ClintKept == ClocksReadTrue /\ DeadlineKept
=============================================================================
