------------------------------ MODULE TimerDrv ------------------------------
(***************************************************************************)
(* The two timers and the watchdog, peripheral/timer, under                *)
(* gnu_toolchain/include/timer.h.  One step is one cycle of the clock, in  *)
(* which at most one access of the hart lands.  The program uses one unit: *)
(* timer 0, timer 1, which is the same channel again, or the watchdog.     *)
(***************************************************************************)
EXTENDS Hart

CONSTANTS
  Loads,       \* the loads and periods the program asks for
  AllOnes,     \* what the counter of the watchdog, and LOAD, hold after reset
  RstCycles    \* WDT_RST_CYCLES

\* A load fits the register.
ASSUME TimerConstants == AllOnes \in Nat /\ Loads \subseteq 0 .. AllOnes /\ RstCycles \in Nat

Units == {"T0", "T1", "WDT"}
Counts == 0 .. AllOnes
Longest == AllOnes + 2       \* what the history counts to: a flag is up two cycles after its load

VARIABLES
  unit,                            \* the unit the program uses
  ctrl, load,                      \* its CTRL, a set of bits, and LOAD
  enR, count, flag, clr,           \* en_r, the counter, the sticky flag, its W1C pulse
  feed, rstCnt, rstReq,            \* the watchdog: feed pulse, reset request
  pend,                            \* the PLIC has latched the interrupt
  ran, lasts,                      \* history: cycles since the start or the feed, what it was to last
  quiet,                           \* history: cycles since the start or the last interrupt
  stale,                           \* history: the flag was up already when the unit was started
  fed                              \* history: the watchdog was fed since it was enabled

timer    == <<ctrl, load, enR, count, flag, clr, feed, rstCnt, rstReq, pend>>
timerHistory == <<ran, lasts, quiet, stale, fed>>
timerVars    == <<unit, timer, timerHistory>>

\* The drivers.  CTRL is {EN, AUTO_RELOAD, IRQ_EN}.
timer0_oneshot(n) == <<W("T0_CTRL", {}), W("T0_LOAD", n), W("T0_CTRL", {"EN"})>>
timer0_autoreload(n, irq) ==
  <<W("T0_CTRL", {}), W("T0_LOAD", n), W("T0_CTRL", {"EN", "AUTO_RELOAD"} \cup irq)>>
timer0_wait_timeout == <<R("T0_STATUS")>>     \* one turn of the loop
timer0_clear        == <<W("T0_STATUS", 1)>>
timer0_stop         == <<W("T0_CTRL", {})>>
timer1_oneshot(n) == <<W("T1_CTRL", {}), W("T1_LOAD", n), W("T1_CTRL", {"EN"})>>
timer1_autoreload(n, irq) ==
  <<W("T1_CTRL", {}), W("T1_LOAD", n), W("T1_CTRL", {"EN", "AUTO_RELOAD"} \cup irq)>>
timer1_wait_timeout == <<R("T1_STATUS")>>
timer1_clear        == <<W("T1_STATUS", 1)>>
timer1_stop         == <<W("T1_CTRL", {})>>
wdt_enable(period)  == <<W("WDT_CTRL", {}), W("WDT_LOAD", period), W("WDT_CTRL", {"EN"})>>
wdt_feed            == <<W("WDT_FEED", "MAGIC")>>
wdt_disable         == <<W("WDT_CTRL", {})>>
wdt_expired         == <<R("WDT_STATUS")>>
wdt_clear           == <<W("WDT_STATUS", 1)>>

\* The register file, timer_regfile.v: what the access does that lands in this
\* cycle, if one does.
WritesCtrl   == \E r \in {"T0_CTRL", "T1_CTRL", "WDT_CTRL"} : Writes(r)
WritesLoad   == \E r \in {"T0_LOAD", "T1_LOAD", "WDT_LOAD"} : Writes(r)
WritesStatus == \E r \in {"T0_STATUS", "T1_STATUS", "WDT_STATUS"} : Writes(r)
Starts(lands) == lands /\ WritesCtrl /\ "EN" \in Written
RegfileCycle(lands) ==
  /\ ctrl' = IF lands /\ WritesCtrl THEN Written ELSE ctrl
  /\ load' = IF lands /\ WritesLoad THEN Written ELSE load
  /\ clr' = (lands /\ WritesStatus)
  /\ feed' = (lands /\ Writes("WDT_FEED"))
en == "EN" \in ctrl

\* timer_channel.v, counting down.
timeout == en /\ count = 0
irq     == timeout /\ "IRQ_EN" \in ctrl
NoRise  == FALSE                                                     \* a mutant
en_rise == en /\ ~enR
ChannelCycle ==
  /\ enR' = en
  /\ flag' = ((timeout /\ ~en_rise) \/ (flag /\ ~clr))
  /\ count' = CASE en_rise -> load
                [] ~en     -> count
                [] en /\ ~en_rise /\ timeout -> IF "AUTO_RELOAD" \in ctrl THEN load ELSE 0
                [] OTHER -> count - 1
  /\ UNCHANGED <<rstCnt, rstReq>>

\* wdt_core.v: only a feed loads the counter.
expired == en /\ count = 0
WatchdogCycle ==
  /\ enR' = en
  /\ count' = IF feed /\ en THEN load ELSE IF en /\ ~expired THEN count - 1 ELSE count
  /\ flag' = ((expired /\ ~flag) \/ (flag /\ ~clr))
  /\ rstCnt' = IF rstCnt # 0 THEN rstCnt - 1 ELSE IF expired /\ ~flag THEN RstCycles ELSE 0
  /\ rstReq' = (rstCnt # 0)

(***************************************************************************)
(* The cycle.  An interrupt that pulses while the handler runs is lost: it *)
(* comes from a source in service (plic_gateway.v:34-51).                  *)
(***************************************************************************)
Saturated(n) == IF n < Longest THEN n + 1 ELSE n
TimerCycle(lands) ==
  LET begins == Starts(lands) \/ (feed /\ en) IN
  /\ RegfileCycle(lands)
  /\ IF unit = "WDT" THEN WatchdogCycle ELSE ChannelCycle
  /\ pend' = (pend \/ (unit # "WDT" /\ irq /\ Thread))
  /\ ran' = IF begins THEN 0 ELSE Saturated(ran)
  /\ lasts' = IF begins THEN load ELSE lasts
  /\ quiet' = IF Starts(lands) \/ irq THEN 0 ELSE Saturated(quiet)
  /\ stale' = (flag' /\ (Starts(lands) \/ stale))
  /\ fed' = ((fed /\ ~Starts(lands)) \/ (feed /\ en))
  /\ UNCHANGED unit
TimerAccess == Current # <<>> /\ Access(flag) /\ TimerCycle(TRUE)
TimerIdles  == UNCHANGED hart /\ TimerCycle(FALSE)

\* What the board may do when the watchdog requests a reset: the SoC restarts,
\* and the program with it.
TimerStart == irq_enable_external \o irq_enable_global
BoardResets ==
  /\ rstReq
  /\ call' = "start" /\ todo' = TimerStart /\ seen' = <<>> /\ enabled' = {}
  /\ ctrl' = {} /\ load' = AllOnes /\ enR' = FALSE /\ count' = AllOnes
  /\ flag' = FALSE /\ clr' = FALSE /\ feed' = FALSE /\ rstCnt' = 0 /\ rstReq' = FALSE
  /\ pend' = FALSE /\ stale' = FALSE /\ fed' = FALSE
  /\ UNCHANGED <<unit, calls, handler, ran, lasts, quiet>>

(***************************************************************************)
(* The program.                                                            *)
(***************************************************************************)
Of(unit0, unit1) == IF unit = "T0" THEN unit0 ELSE unit1
ChannelCall ==
  /\ unit # "WDT"
  /\ \/ \E n \in Loads : Begin("setup", Of(timer0_oneshot(n), timer1_oneshot(n)))
     \/ \E n \in Loads, i \in {{}, {"IRQ_EN"}} :
          Begin("setup", Of(timer0_autoreload(n, i), timer1_autoreload(n, i)))
     \/ Begin("wait", Of(timer0_wait_timeout, timer1_wait_timeout))
     \/ Begin("other", Of(timer0_clear, timer1_clear))
     \/ Begin("other", Of(timer0_stop, timer1_stop))
  /\ UNCHANGED timerVars
WatchdogCall ==
  /\ unit = "WDT"
  /\ \/ \E n \in Loads : Begin("setup", wdt_enable(n))
     \/ \E f \in {wdt_feed, wdt_disable, wdt_expired, wdt_clear} : Begin("other", f)
  /\ UNCHANGED timerVars

\* timerN_wait_timeout reads again until it has seen the flag or the limit.
WaitsOn ==
  /\ GoesOn("wait") /\ ~seen[1]
  /\ Continue(Of(timer0_wait_timeout, timer1_wait_timeout))
  /\ UNCHANGED timerVars
TimerReturn ==
  /\ \E f \in {"start", "setup", "wait", "other"} : GoesOn(f)
  /\ Return
  /\ UNCHANGED timerVars

\* The handler claims the interrupt and clears the flag (tests/test_timer.c:21-32).
TimerInterrupt ==
  /\ pend /\ Interrupt("external", Of(timer0_clear, timer1_clear))
  /\ pend' = FALSE
  /\ UNCHANGED <<unit, ctrl, load, enR, count, flag, clr, feed, rstCnt, rstReq, timerHistory>>
TimerMret == HandlerAt("external") /\ Mret /\ UNCHANGED timerVars

-----------------------------------------------------------------------------
TimerInit ==
  /\ unit \in Units
  /\ ctrl = {} /\ load = AllOnes /\ enR = FALSE
  /\ count = IF unit = "WDT" THEN AllOnes ELSE 0
  /\ flag = FALSE /\ clr = FALSE /\ feed = FALSE /\ rstCnt = 0 /\ rstReq = FALSE
  /\ pend = FALSE
  /\ ran = 0 /\ lasts = 0 /\ quiet = 0 /\ stale = FALSE /\ fed = FALSE

TimerNext ==
  \/ TimerAccess \/ TimerIdles \/ BoardResets
  \/ ChannelCall \/ WatchdogCall \/ WaitsOn \/ TimerReturn \/ TimerInterrupt \/ TimerMret

TimerTypeOK ==
  /\ unit \in Units
  /\ ctrl \subseteq {"EN", "AUTO_RELOAD", "IRQ_EN"} /\ load \in Counts /\ count \in Counts
  /\ {enR, flag, clr, feed, rstReq, pend, stale, fed} \subseteq BOOLEAN
  /\ rstCnt \in 0 .. RstCycles /\ lasts \in Counts /\ {ran, quiet} \subseteq 0 .. Longest

\* The flag timerN_wait_timeout polls is not up before the load has run down
\* (timer.h:75-82), unless it was left up: a one-shot at 0 sets it again
\* until it is stopped, so timerN_clear before timerN_stop does not clear it.
FlagAfterLoad == flag /\ unit # "WDT" => stale \/ ran >= lasts + 2

\* An interrupt pulses a load after the start or the last one ("pulses 1
\* cycle on timeout", timer_channel.v:11), or in the cycle of the start, when
\* the counter still holds the 0 of reset or of the run before.
IrqAfterLoad == irq /\ unit # "WDT" => en_rise \/ quiet >= lasts

\* A program that feeds the watchdog is reset no sooner than a period later
\* (wdt_core.v:57-70); one that only enables it runs on the count it finds.
ResetAfterPeriod == unit = "WDT" /\ expired /\ ~flag => ~fed \/ ran >= lasts

\* Flag, interrupt and reset come when the drivers of timer.h say, and not before.
TimersKept == FlagAfterLoad /\ IrqAfterLoad /\ ResetAfterPeriod
=============================================================================
